CONSTANTS
    Exec = {e1}
    Review = {r1, r2, r3}
    Thread = {t1}
    None = None
    MaxResumes = 1
SPECIFICATION Spec
CHECK_DEADLOCK FALSE
INVARIANT StatusSaysAction
