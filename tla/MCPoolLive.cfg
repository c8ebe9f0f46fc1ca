\* A host that may stay silent, two application goroutines that contend for the mutex.
CONSTANTS
    Hosts = {h1}
    Threads = {t1, t2}
    Boot = boot
    Ops = {"RefreshActives", "GetRandomConn", "Close"}
    Seconds <- AnySeconds
    MaxTick = 1
    NoThread = NoThread
    Empty = Empty
    Nil = Nil
    Wild = Wild
    NoErr = NoErr
SPECIFICATION FairSpec
PROPERTIES CallsReturn
CHECK_DEADLOCK FALSE
