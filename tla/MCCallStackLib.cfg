SPECIFICATION ProfileSpec
CONSTANTS
    Threads = {t1, t2}
    Sites = {1, 2, 3}
    Functions = {"main", "F", "G", "idle"}
    Bufs = {b1}
    Programs <- MCPrograms
    NoSite = 0
    MaxDepth = 4
    MaxStack = 3
    Caller = t1
INVARIANTS TypesOK StackIsChain ContextsKept SavedAreContexts ValidIffRan
CHECK_DEADLOCK FALSE
