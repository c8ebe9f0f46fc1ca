\* d1 makes two drivers, each closed by up to two calls that may meet; d2, with the
\* same config, makes one and sends two requests.
CONSTANTS
    Drivers <- MCDrivers
    Hosts <- MCHosts
    Graphs = {"g", ""}
    Zones <- MCZones
    Offsets <- MCOffsets
    Given <- MCGiven
    Asked <- MCAsked
    Local = 2
    MaxInt = 31
    MinTimeout = 10
    Timeouts <- MCTimeouts
    MaxTries <- MCTries
    MaxCloses <- MCCloses
    MaxRequests <- MCRequests
SPECIFICATION Spec
INVARIANTS ClientOutwaitsServer HeadersMatchRequest RequestsAreIndependent PasswordIsSent OpenIsHeldOrAbandoned
CHECK_DEADLOCK FALSE
