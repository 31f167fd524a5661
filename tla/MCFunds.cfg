CONSTANTS
    Amounts = {1, 2}
    MaxEntries = 2
    MaxDisconnects = 2
    None = None
SPECIFICATION Spec
CHECK_DEADLOCK FALSE
INVARIANT
    BalancesReported
