SPECIFICATION Spec
CONSTANTS
    Threads = {t1, t2}
    Term = {"TERM"}
    Bare = {"TRAP"}
    Other = {"CHLD"}
    Asks <- AllAsks
    MaxVisits = 1

PROPERTIES FinishAlwaysEnds
CHECK_DEADLOCK FALSE
