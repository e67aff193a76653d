SPECIFICATION ValuesSpec
CONSTANTS
    Id = {0, 1, 2, 3, 4, 5, 6, 7, 8}
    NullValue = 0
    IntValue = 1
    NoId = 99
    Offs = {0, 1}
    GepTab <- MCGepTab
    Call = {"call"}
    CallInfo <- MCCallInfo
    Fn = {3}
    Declared = {}
    Skipped = {}
    FnInfo <- MCFnInfo
    ExtCons <- MCExtCons
    Programs <- MCPrograms
    Allocs = {2, 3}
    MinRemoved = 0
    RefOf <- MCRefOf
    MaxCons = 5
INVARIANTS TypesOK ComponentsFound SolutionKept MeaningKept FieldsFound MembersFound
CHECK_DEADLOCK FALSE
