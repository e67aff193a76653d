SPECIFICATION Spec
CONSTANTS
    Id = {0, 1, 2, 3, 4, 5, 6, 7, 8, 9, 10, 11, 12}
    NullValue = 0
    IntValue = 1
    NoId = 99
    Offs = {0, 1}
    GepTab <- MCGepTab
    Call = {"byPtr", "withInt"}
    CallInfo <- MCCallInfo
    Fn = {8, 9, 11}
    Declared = {9}
    Skipped = {11}
    FnInfo <- MCFnInfo
    ExtCons <- MCExtCons
    Programs <- MCPrograms
    LcdSize = 0
    Cycles = FALSE
    MaxCons = 6
    MaxExtras = 7
INVARIANTS TypeOK NothingForgotten SoundAtEnd CallsSoundAtEnd
PROPERTY Refines
CHECK_DEADLOCK FALSE
