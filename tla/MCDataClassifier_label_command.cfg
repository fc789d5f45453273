\* A trained classifier; the operator labels event i3 with a seven-digit device id.
CONSTANTS
  NoId = NoId
  NoLabel = NoLabel
  Unknown = Unknown
  Detected <- ApiEvents
  InitialModels <- TrainedModels
  Labels = {2, 1000001}
  CmdIds = {"i1", "i2", "i3"}
  MaxCommands = 2
  LabelFiles <- NoLabelFiles
SPECIFICATION Spec
\* The server can hang in stopAnalyzingWhenDone (see the when_done run).
CHECK_DEADLOCK FALSE
INVARIANT
  LabelCommandApplied
