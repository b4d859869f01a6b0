SPECIFICATION Spec
CONSTANTS
    w1 = w1
    w2 = w2
    Workers = {w1, w2}
    Users <- OneUser
    Hash <- OneHash
    NShards = 1
    Dbs <- OneDb
    Shards <- OneShard
    Products <- MCProducts
    Skus <- MCSkus
    InitStock <- MCStock
    WireCarts <- GreedyCarts
    ClientIds = {2000, 3000}
    ClientOps = {"create", "pay", "cancel"}
    MaxOrders = 1
    MaxLost = 0
    Faults = {}
    Clients = "any"
SYMMETRY WorkerSymmetry
PROPERTIES
    FailedOrdersAreStored
