SPECIFICATION ContextsSpec
CONSTANTS
    Sites <- MCSites
    Functions <- MCFunctions
    Main = "main"
    Shapes <- MCShapes
    Inputs <- MCInputs
    Bufs = {b1}
    Wide = Wide
    Low = Low
    MaxDepth = 4
INVARIANTS TypesOK CallsLinked ChecksExact SliceExact ContextsFound
CHECK_DEADLOCK FALSE
