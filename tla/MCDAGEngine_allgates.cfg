CONSTANTS
  N = 4
  PolicySeq <- FailFast
  Ragged = FALSE
  Family = "all"
  Node <- MCNode
  Version <- MCVersion
  Def <- MCDef
  MaxAttempts = 2
  MaxResumes = 2
  MaxEdits = 0
  MaxCrashes = 0
  None = None
SPECIFICATION Spec
INVARIANT GateBlocksDescendants
CHECK_DEADLOCK FALSE
