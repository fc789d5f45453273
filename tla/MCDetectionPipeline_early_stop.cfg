\* The detector alone, as the event detector tests register it, fed in
\* batches smaller than one detection chunk.
CONSTANTS
  Registered <- DetectorOnly
  Garbage = Garbage
  NoStep = NoStep
  SizeTModulus = 65536
  PerPeriod = 1
  CompareAfter = 2
  BeforeEvent = 2
  OfEvent = 3
  Threshold = 0
  SampleRate = 3
  QueueCapacity = 2
  StreamLength = 12
  ReadBufferSize = 2

SPECIFICATION Spec
INVARIANT LoopStopsOnlyAtStreamEnd
