\* Two hosts: a refresh returns nil although every probe failed.
CONSTANTS
    Hosts = {h1, h2}
    Threads = {}
    Boot = boot
    Ops = {}
    Seconds = {6}
    MaxTick = 0
    NoThread = NoThread
    Empty = Empty
    Nil = Nil
    Wild = Wild
    NoErr = NoErr
SPECIFICATION Spec
PROPERTIES NilMeansSomeAlive
CHECK_DEADLOCK FALSE
