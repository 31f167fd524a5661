CONSTANTS
    BidPrice = {1, 2, 3}
    AskPrice = {3}
    MaxQuantity = 1
    Depth = 2
    MaxInFlight = 2
    MaxDisconnects = 1
    MaxStatus = 2
SPECIFICATION Spec
CHECK_DEADLOCK FALSE
INVARIANTS
    BookFollowsExchange
    RemovesKnownLevels
