SPECIFICATION FairSpec
CONSTANT MaxSequence = 7
INVARIANTS
    ReadyMeansComplete
    ExactlyOnce
    NeverWaitsForNothing
    DropCopyBeforeStatus
PROPERTIES
    FreshAnswers
    DownloadEnds
    ImplementsDownload
CHECK_DEADLOCK FALSE
