SPECIFICATION FairSpec
CONSTANTS
    Pools <- TwoPools
    OrderIds <- OneOrder
    FinalStatuses = {"paid"}
    NPartitions = 2
    MaxFaults = 1
    QuietOrders = TRUE
INVARIANTS
    TypeOK
    LoggedOnceWithoutFaults
    CompletedWasSent
    CommittedWasLogged
PROPERTIES
    EventsAreLogged
