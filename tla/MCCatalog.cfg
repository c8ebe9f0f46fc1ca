\* Two clients of one server: two calls of the first, any one call of the second.
CONSTANTS
    Clients = {"a", "b"}
    Names <- MCNames
    Objects <- MCObjects
    Initial <- MCInitial
    Default = "g"
    Properties <- MCProperties
    Kind <- MCKind
    Requests <- MCRequests
    MaxCalls <- MCMaxCalls
SPECIFICATION Spec
INVARIANTS NoSilentFailure SchemaBuiltInOrder
PROPERTIES ImplementsCreateOnce
CHECK_DEADLOCK FALSE
