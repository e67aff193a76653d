SPECIFICATION Spec
CONSTANTS
    MaxDepth = 2
    Struct <- MCStruct
    Fields <- MCFields
    Id <- MCId
    NullValue <- NullV
    IntValue <- IntV
    NoId <- MCNoId
    Offs <- MCOffs
    GepTab <- MCGepTab
    Call <- MCCall
    CallInfo <- MCCallInfo
    Fn <- MCFn
    Declared <- MCDeclared
    Skipped = {}
    FnInfo <- MCFnInfo
    ExtCons <- MCExtCons
    Body <- MCBody
    Succ <- MCSucc
    BlockFn <- MCBlockFn
    ConstDef <- MCConstDef
    Globals <- MCGlobals
    InitDef <- MCInitDef
    Unnamed <- MCUnnamed
    Externs <- MCExterns
    Programs <- MCPrograms
    Real <- MCReal
INVARIANTS TypeOK CoveredOrRecorded HeapKnown EqualMayAlias
CHECK_DEADLOCK FALSE
