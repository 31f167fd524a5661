CONSTANTS
    Own <- OneOrder
    Foreign = {f}
    Quantity = 2
    OrderIdLimit = 4
    MaxDisconnects = 1
    MaxStatus = 2
    MaxDownstream = 5
SPECIFICATION Spec
CHECK_DEADLOCK FALSE
INVARIANTS
    EveryTradeOnce
    ViewFollowsExchange
    RejectsReachTheirRequest
PROPERTIES
    ImplementsTradeLog
