CONSTANTS
    Thread = {t1, t2}
    Job = {j1, j2}
    N = 2
    DefaultSize = 1
    Sizes = {1}
    Wanted = {{}, {1, 2}}
    Nested = {2}
    MayFail = TRUE
    MaxCalls = 3
    MaxLimits = 1
    MaxCrashes = 1
    FirstThread = t1
    FirstJob = j1
SPECIFICATION FairSpec
INVARIANTS CheckpointsAreSound NothingLeftOut
PROPERTIES RecordedReachesEvidence RequestsEnd
ACTION_CONSTRAINT FirstRequest
CHECK_DEADLOCK FALSE
