SPECIFICATION Spec
CONSTANTS
    Sites <- MCSites
    Functions <- MCFunctions
    Main = "main"
    Shapes <- AcyclicDirect
    Inputs <- MCInputs
    Bufs = {b1}
    Wide = Wide
    Low = Low
    MaxDepth = 3
INVARIANTS MisspeculationStopped
CHECK_DEADLOCK FALSE
