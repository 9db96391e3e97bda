SPECIFICATION Spec
CONSTANTS
    MAX_INODES = 5
    STORED = 3
    BLOCK_SIZE = 3
    DATA_BLOCKS_START = 6
    DEV_BLOCKS = 16
    SECTORS_PER_BLOCK = 2
    Paths <- FlatPaths
    BootDirs <- DirsAtBoot
    BootFiles <- FilesAtBoot
    Removable <- TopFiles
    Writes <- ShortWrites
    Calls = {"remove", "write", "seek"}
    MAX_CALLS = 3
    MAX_CRASHES = 2
    MAX_FAULTS = 1
INVARIANTS DiskConsistent CountersDrift StaysMountable
PROPERTIES OnlyTargetChanges
