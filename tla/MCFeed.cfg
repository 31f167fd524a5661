SPECIFICATION FeedSpec
CONSTANTS
    Symbol = {s1, s2, s3}
    NoSymbol = none
    MaxTime = 2
    MaxTrades = 4
    MaxBooks = 3
    MaxLevels = 1
INVARIANTS
    TradesComplete
    TimesNeverReversed
    BooksComplete
CHECK_DEADLOCK FALSE
