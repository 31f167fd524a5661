SPECIFICATION NonceSpec
CONSTANTS
    Threshold = 2
    MaxRealtime = 6
    MaxStep = 4
    MaxRequests = 4
INVARIANTS
    SteadyClockSafe
PROPERTIES
    NonceNeverReversed
    NoncesInOrder
