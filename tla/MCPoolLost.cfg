\* Two hosts: a host that answered is missing from Actives.
CONSTANTS
    Hosts = {h1, h2}
    Threads = {}
    Boot = boot
    Ops = {}
    Seconds = {6}
    MaxTick = 0
    NoThread = NoThread
    Empty = Empty
    Nil = Nil
    Wild = Wild
    NoErr = NoErr
SPECIFICATION Spec
INVARIANTS ActivesComplete
CHECK_DEADLOCK FALSE
