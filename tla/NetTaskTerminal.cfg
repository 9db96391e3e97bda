SPECIFICATION Spec
CONSTANTS
    Urls = {"http", "https"}
    Https = {"https"}
    Texts = {"", "search"}
    UrlOf <- SearchUrl
    MAX_WINDOWS = 1
    MAX_INPUTS = 4
    MAX_FETCHES = 1
    MAX_YIELDS = 1
INVARIANT YieldReturns
CHECK_DEADLOCK FALSE
