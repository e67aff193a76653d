SPECIFICATION Spec
CONSTANTS
    Threads = {t1, t2}
    Term = {"TERM"}
    Bare = {"TRAP"}
    Other = {"CHLD"}
    Asks <- AllAsks
    MaxVisits = 1
INVARIANTS TypeOK LogWritten
PROPERTIES Transparent FinishEnds
CHECK_DEADLOCK FALSE
