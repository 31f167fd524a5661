CONSTANTS
    Account = {a1, a2}
    MaxSlices = 2
    Stages = 2
    StreamIdLimit = 7
    MaxDisconnects = 1
    MaxTokens = 2
SPECIFICATION FairSpec
CHECK_DEADLOCK FALSE
INVARIANTS
    UniqueStreamIds
    OrderActionsFindStream
    StoppedIsSilent
PROPERTIES
    IdsNeverChange
    StreamsComeUp
