CONSTANTS
    Quantities = {1, 2}
    Prices = {1}
    TimesInForce = {"UNDEFINED", "IOC", "FOK", "GTC"}
    MaxAmends = 2
    None = None
SPECIFICATION FairSpec
CHECK_DEADLOCK FALSE
INVARIANTS
    PlacedAsAsked
    UpdatesNeverWrong
PROPERTIES
    TradedNeverFalls
    FinalReported
