SPECIFICATION FairSpec
CONSTANTS
    s1 = s1
    s2 = s2
    s3 = s3
    s4 = s4
    s5 = s5
    Symbol = {s1, s2, s3, s4, s5}
    Discarded = {s5}
    MaxSubscriptions = 2
    MaxDisconnects = 1
    MaxStatus = 2
INVARIANTS
    ReadyStreamsCovered
    OneStreamPerSymbol
    StreamLimit
    AskedOncePerStatus
PROPERTY EventuallySubscribed
