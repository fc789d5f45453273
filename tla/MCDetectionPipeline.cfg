\* SmartApp's two workers, input batches of two line periods' worth of
\* samples, bigger than both the detector's and the metric's first offset.
CONSTANTS
  Registered <- SmartAppWorkers
  Garbage = Garbage
  NoStep = NoStep
  SizeTModulus = 65536
  PerPeriod = 1
  CompareAfter = 2
  BeforeEvent = 2
  OfEvent = 3
  Threshold = 0
  SampleRate = 3
  QueueCapacity = 6
  StreamLength = 18
  ReadBufferSize = 6

SPECIFICATION Spec
INVARIANTS
  TypeOK
  ServedExactly
  DetectionSound
  DetectableStepReported
PROPERTIES
  Termination
