\* Two hosts, two application goroutines that make any sequence of calls.
CONSTANTS
    Hosts = {h1, h2}
    Threads = {t1, t2}
    Boot = boot
    Ops = {"RefreshActives", "RefreshClusterInfo", "GetRandomConn", "Close"}
    Seconds = {6}
    MaxTick = 2
    NoThread = NoThread
    Empty = Empty
    Nil = Nil
    Wild = Wild
    NoErr = NoErr
SPECIFICATION Spec
SYMMETRY HostSymmetry
INVARIANTS TypeOK NoProbeOutlivesRefresh ActivesSound ExactWithoutRace
PROPERTIES FastPathMeansAllAlive CloseNilMeansAllClosed AllFailedMeansNoneAlive ReadyMeansSomeAlive
CHECK_DEADLOCK FALSE
