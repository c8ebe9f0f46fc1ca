\* Two goroutines that make their driver of one config.
CONSTANTS
    Drivers <- MCDrivers
    Hosts <- MCHosts
    Graphs = {"g", ""}
    Zones <- MCZones
    Offsets <- MCOffsets
    Given <- MCGiven
    Asked <- MCAsked
    Local = 2
    MaxInt = 31
    MinTimeout = 10
    Timeouts <- MCTimeouts
    MaxTries <- Once
    MaxCloses <- Once
    MaxRequests <- Once
SPECIFICATION Spec
INVARIANTS PasswordIsAlwaysSent
CHECK_DEADLOCK FALSE
