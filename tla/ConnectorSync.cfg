CONSTANTS
    Conn = {c1}
    Item = {1, 2}
    Text = {1, 2}
    Runner = {r1}
    MaxSyncs = 3
    MaxChanges = 2
    MaxFaults = 2
SPECIFICATION Spec
INVARIANTS SyncedIsHeld ArchivedIsDeleted OneSource ChunksAreCurrent
CHECK_DEADLOCK FALSE
