\* Three hosts, construction only: all interleavings of the appends.
CONSTANTS
    Hosts = {h1, h2, h3}
    Threads = {}
    Boot = boot
    Ops = {}
    Seconds = {6}
    MaxTick = 0
    NoThread = NoThread
    Empty = Empty
    Nil = Nil
    Wild = Wild
    NoErr = NoErr
SPECIFICATION Spec
SYMMETRY HostSymmetry
INVARIANTS ActivesSound LengthBounded ExactWithoutRace
PROPERTIES AllFailedMeansNoneAlive ReadyMeansSomeAlive
CHECK_DEADLOCK FALSE
