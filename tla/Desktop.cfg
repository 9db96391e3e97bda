CONSTANTS
    Kinds = {"files", "editor", "terminal"}
    COLS = 2
    MAXIDS = 3
    MAXEDITS = 1
    MAXHIST = 3
SPECIFICATION Spec
CHECK_DEADLOCK FALSE
INVARIANTS FocusOnTop PressActsOnce
PROPERTIES FilesHistory
