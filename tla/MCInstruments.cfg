CONSTANTS
    Symbol = {s1, s2}
    Discarded = {s2}
    PairsStatus = {"online", "post_only", "delisted"}
    MaxInFlight = 3
    MaxDisconnects = 2
    MaxStatus = 2
SPECIFICATION Spec
CHECK_DEADLOCK FALSE
INVARIANTS
    PairsFollowExchange
    SubscribedUnlessRefused
