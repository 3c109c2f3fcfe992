CONSTANTS
    LastEvent = 2
    DeliveryIds <- MCDeliveryIds
    Texts <- MCTexts
    NoText = ""
    Contains <- MCContains
    Limit = 1
    FeedLimit = 2
    MaxBatch = 1
    MaxMoves = 4
SPECIFICATION FairSpec
INVARIANTS
    FreshShowsWhatWasTold
PROPERTIES
    TablesSettle
CHECK_DEADLOCK FALSE
