CONSTANTS
  N = 3
  PolicySeq <- FailFast
  Ragged = TRUE
  Family = "lone"
  Node <- MCNode
  Version <- MCVersion
  Def <- MCDef
  MaxAttempts = 2
  MaxResumes = 2
  MaxEdits = 1
  MaxCrashes = 1
  None = None
SPECIFICATION Spec
PROPERTIES ApprovalIsFinal ImplementsReviewedRun
CHECK_DEADLOCK FALSE
