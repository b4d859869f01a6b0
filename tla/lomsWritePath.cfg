SPECIFICATION FairSpec
CONSTANTS
    w1 = w1
    w2 = w2
    Workers = {w1, w2}
    Users <- OneUser
    Hash <- OneHash
    NShards = 1
    Dbs <- OneDb
    Shards <- OneShard
    Products <- MCProducts
    Skus <- MCSkus
    InitStock <- MCStock
    WireCarts <- CrossingCarts
    ClientIds <- FirstIds
    ClientOps = {"create", "pay"}
    MaxOrders = 2
    MaxLost = 1
    Faults = {"stmt", "commit", "crash"}
    Clients = "any"
INVARIANTS
    TypeOK
    EventsMatchOrders
    AckedIsRecorded
    NoDistributedDeadlock
PROPERTIES
    OrdersOnlyMoveForward
    RequestsAreAnswered
