\* A small physical memory: one low page, one kernel page, one heap page that
\* may grow to three, and every firmware map of its nine pages.  Three threads.
\* Requests around the 28-bit limit.
SPECIFICATION MachineSpec
SYMMETRY ThreadSymmetry
CHECK_DEADLOCK FALSE
CONSTANTS
    MAX_PAGES = 9
    LOW_END = 1
    KERNEL_START = 1
    KERNEL_END = 2
    HEAP_START = 3
    HEAP_SIZE = 1
    MAX_HEAP_SIZE = 3
    MAX_COUNT = 3
    Threads = {t1, t2, t3}
    NOPID = NOPID
    PERMITS = 2
    MAXDEPTH = 2
    MAXWAITERS = 3
    MAXROUNDS = 2
    MAXPOSTS = 1
    LIMIT28 = 2
    MAXLBA = 3
    MAXCOUNT = 2
    MAXREQS = 2
    Layouts <- MCLayouts
INVARIANTS
    FreeCountExact SearchComplete GrantsExclusive
    Exclusion NothingLost BarrierMeets OnceOnly
    OwnSectors OkIsDone
