SPECIFICATION Spec
CONSTANTS
    Urls = {"http", "https"}
    Https = {"https"}
    Texts = {"", "search"}
    UrlOf <- SearchUrl
    MAX_WINDOWS = 2
    MAX_INPUTS = 5
    MAX_FETCHES = 2
    MAX_YIELDS = 1
CHECK_DEADLOCK FALSE
INVARIANTS ResultHeld OwnResults PageFromServer LatestShown
PROPERTIES ContextsLive LoadingEnds
