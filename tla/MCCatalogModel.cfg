\* One client that calls InitModel twice.
CONSTANTS
    Clients = {"a"}
    Names <- MCNames
    Objects <- MCObjects
    Initial <- MCInitial
    Default = "g"
    Properties <- MCProperties
    Kind <- MCKind
    Requests <- ModelRequests
    MaxCalls <- TwoCalls
SPECIFICATION Spec
INVARIANTS InitModelSucceeds
CHECK_DEADLOCK FALSE
