\* A trained classifier driven with ids and every small ground-truth file:
\* stored events, index freshness, label correction, the ground-truth
\* lookups and the drain of the stack.
CONSTANTS
  NoId = NoId
  NoLabel = NoLabel
  Unknown = Unknown
  Detected <- ApiEvents
  InitialModels <- TrainedModels
  Labels = {1, 2}
  CmdIds = {"i1", "i2", "i3"}
  MaxCommands = 2
  LabelFiles <- GroundTruthFiles
SPECIFICATION Spec
\* The server can hang in stopAnalyzingWhenDone (see the when_done run).
CHECK_DEADLOCK FALSE
INVARIANTS
  TypeOK
  StoredOnce
  IndexCoversLabeled
  LabelCorrectionVisible
  KeptLabelsApart
  GroundTruthMatched
PROPERTIES
  LabelStoreRefined
  EveryPushedEventProcessed
