\* SmartApp's two workers fed in batches smaller than one second of
\* samples, as the BLUED reader does (buffer_size 1000 < sample_rate).
CONSTANTS
  Registered <- SmartAppWorkers
  Garbage = Garbage
  NoStep = NoStep
  SizeTModulus = 65536
  PerPeriod = 1
  CompareAfter = 2
  BeforeEvent = 2
  OfEvent = 3
  Threshold = 0
  SampleRate = 3
  QueueCapacity = 2
  StreamLength = 12
  ReadBufferSize = 2

SPECIFICATION Spec
INVARIANT NoUndefinedBehaviour
