SPECIFICATION ProfileSpec
CONSTANTS
    t1 = t1
    t2 = t2
    Threads = {t1, t2}
    Vals = {v1}
    Bufs = {b1, b2}
    StackBase <- Stacks
    Programs <- MCPrograms
    StackObj = 210
    HeapObj = 220
    Universal = 3
    EmptySetjmp = FALSE
    AgainSetjmp = FALSE
INVARIANTS TypesOK TableIsMemory FramesInStep OwnersAreLogged LogComplete
PROPERTY AliasesFound
CHECK_DEADLOCK FALSE
