SPECIFICATION FairSpec
CONSTANTS
    h1 = h1
    h2 = h2
    s = s
    Workers = {h1, h2, s}
    Sender = s
    ShardPools <- OneShard
    Secondaries <- OneSecondary
    MaxConns = 1
INVARIANTS
    TypeOK
    ConnectionsAccounted
    NoDeadlock
    StopCutsNoRequest
PROPERTIES
    PanicsNeedARace
    StopsWhenDone
CHECK_DEADLOCK FALSE
