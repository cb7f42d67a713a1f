CONSTANTS
  N = 3
  PolicySeq <- AllPolicies
  Ragged = FALSE
  Family = "single"
  Node <- MCNode
  Version <- MCVersion
  Def <- MCDef
  MaxAttempts = 2
  MaxResumes = 2
  MaxEdits = 0
  MaxCrashes = 0
  None = None
SPECIFICATION FairSpec
INVARIANTS GateBlocksDescendants CompletedMeansSettled DependenciesSettled
PROPERTIES EngineComesToRest
CHECK_DEADLOCK FALSE
