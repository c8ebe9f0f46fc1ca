\* Three aliases of two types, in up to three records.
CONSTANTS
    AliasSeq <- ThreeAliases
    TypeOf <- TwoTypes
    MaxRecords = 3
    Window = 1
SPECIFICATION FairSpec
INVARIANTS MergeIsExact ResponseIsFinal
PROPERTIES ImplementsConsumer CallReturns
CHECK_DEADLOCK FALSE
