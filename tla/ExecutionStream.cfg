CONSTANTS
  Exec = {e1}
  Watcher = {w1, w2}
  None = None
  MaxSteps = 1
  MaxResumes = 1
SPECIFICATION FairSpec
INVARIANTS YieldsEvents
PROPERTY StreamEnds
CHECK_DEADLOCK FALSE
