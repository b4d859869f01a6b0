SPECIFICATION Spec
CONSTANTS
    Pools <- OnePool
    OrderIds <- OneOrderOnePool
    FinalStatuses = {"paid"}
    NPartitions = 2
    MaxFaults = 0
    QuietOrders = FALSE
INVARIANTS
    CompletedWasSent
