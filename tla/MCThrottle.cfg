SPECIFICATION ThrottleSpec
CONSTANTS
    Enabled = TRUE
    DefaultBackoff = 1
    BlockedBackoff = 3
    MaxClock = 5
    MaxAhead = 3
    MaxLimit = 1
INVARIANTS
    ExhaustedSuspends
PROPERTIES
    BanHolds
