CONSTANT None = None
SPECIFICATION Spec
INVARIANT OneToFiveIsMondayToFriday
CHECK_DEADLOCK FALSE
