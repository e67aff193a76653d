SPECIFICATION HooksSpec
CONSTANTS
    t1 = t1
    t2 = t2
    Threads = {t1, t2}
    Bufs = {b1}
    Loads = {l1}
    Stores = {4, 5}
    StackBase <- Stacks
    PageSize = 4
    Programs <- MCPrograms
INVARIANTS TypeOK MapInStep LoadsSeeStores AliasesExact TargetsExact
CHECK_DEADLOCK FALSE
