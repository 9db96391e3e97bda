SPECIFICATION Spec
CONSTANTS
    MAX_INODES = 5
    STORED = 3
    BLOCK_SIZE = 3
    DATA_BLOCKS_START = 3
    DEV_BLOCKS = 16
    SECTORS_PER_BLOCK = 2
    Paths <- FlatPaths
    BootDirs <- DirsAtBoot
    BootFiles <- NoFilesAtBoot
    Removable <- TopFiles
    Writes <- AliasWrites
    Calls = {"write", "write_file"}
    MAX_CALLS = 5
    MAX_CRASHES = 0
    MAX_FAULTS = 0
PROPERTIES
    OnlyTargetChanges
