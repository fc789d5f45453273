\* The server's shutdown: the unlocked write of continue_analyzing races the runner's wait.
CONSTANTS
  NoId = NoId
  NoLabel = NoLabel
  Unknown = Unknown
  Detected <- ServerEvents
  InitialModels <- EmptyModels
  Labels = {1, 2}
  CmdIds = {"i1", "i2", "i3"}
  MaxCommands = 2
  LabelFiles <- NoLabelFiles
SPECIFICATION Spec
\* The server can hang in stopAnalyzingWhenDone (see the when_done run).
CHECK_DEADLOCK FALSE
PROPERTY
  RunnerStopsAfterStop
