SPECIFICATION FairPricesSpec
CONSTANTS
    NTasks = 2
    Lookups <- CartAndAnother
    Products = {1, 2}
    ProductOf <- ProductOfLookup
    MaxVersion = 2
INVARIANTS
    TypeOK
    NoErrorIsDropped
    WaitCoversAllUnlessEarly
    OneLookupPerProduct
    AnswerIsComplete
    ErrorIsTheCause
PROPERTIES
    DescriptionsDoNotGoBack
    RequestIsAnswered
CHECK_DEADLOCK FALSE
