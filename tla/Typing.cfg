CONSTANTS
    Codes <- MCCodes
    Released <- MCReleased
    Files <- MCFiles
    KBUF = 2
    UNDOMAX = 2
    TABW = 2
    PAGE = 1
    MAXACTS = 4
    Flags <- MCFlags
    Data <- MCData
    Screens <- MCScreens
    DEFAULT <- MCDefault
    STILL = 2
SPECIFICATION InputSpec
CHECK_DEADLOCK FALSE
INVARIANTS KeysInOrder CursorInside  RealignsWhenStill ShiftSound
PROPERTIES OneTimeline
