SPECIFICATION Spec
CONSTANTS
    w1 = w1
    w2 = w2
    Workers = {w1, w2}
    Users <- MCUsers
    Hash <- MCHash
    NShards = 3
    Dbs <- TwoDbs
    Shards <- ThreeShards
    Products <- MCProducts
    Skus <- MCSkus
    InitStock <- MCStock
    WireCarts <- HalfCarts
    ClientIds <- MCIds
    ClientOps = {"create", "pay", "cancel"}
    MaxOrders = 2
    MaxLost = 0
    Faults = {"stmt"}
    Clients = "exclusive"
SYMMETRY WorkerSymmetry
INVARIANTS
    OrdersAreRoutable
    StockMatchesOrders
PROPERTIES
    ImplementsOrderBook
