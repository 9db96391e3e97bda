SPECIFICATION Spec
CONSTANTS
    MAX_INODES = 5
    STORED = 3
    BLOCK_SIZE = 3
    DATA_BLOCKS_START = 6
    DEV_BLOCKS = 16
    SECTORS_PER_BLOCK = 2
    Paths <- NestedPaths
    BootDirs <- DirsAtBoot
    BootFiles <- FilesAtBoot
    Removable <- BootDirPaths
    Writes <- ShortWrites
    Calls = {"create", "remove"}
    MAX_CALLS = 3
    MAX_CRASHES = 0
    MAX_FAULTS = 0
INVARIANTS
    NoOrphans
