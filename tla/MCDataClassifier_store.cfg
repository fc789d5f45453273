\* A first start and a trained classifier: a rejected event is stored twice, a classified one without its label.
CONSTANTS
  NoId = NoId
  NoLabel = NoLabel
  Unknown = Unknown
  Detected <- ApiEvents
  InitialModels <- AllModels
  Labels = {1, 2}
  CmdIds = {"i1", "i2", "i3"}
  MaxCommands = 2
  LabelFiles <- NoLabelFiles
SPECIFICATION Spec
\* The server can hang in stopAnalyzingWhenDone (see the when_done run).
CHECK_DEADLOCK FALSE
INVARIANT
  StoredOnceAsClassified
