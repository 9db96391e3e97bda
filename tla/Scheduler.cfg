CONSTANTS
    MAXPID = 4
    Prios = {2, 3}
    SLICE = 2
    MAXTICKS = 5
SPECIFICATION Spec
CHECK_DEADLOCK FALSE
INVARIANTS QueuesExact NoneStranded
PROPERTIES ExitIsFinal
