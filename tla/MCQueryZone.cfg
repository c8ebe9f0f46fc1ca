\* Two aliases of different types, in one record.
CONSTANTS
    AliasSeq <- TwoAliases
    TypeOf <- OneEach
    MaxRecords = 1
    Window = 1
SPECIFICATION Spec
INVARIANTS AnyZoneReturns
CHECK_DEADLOCK FALSE
