SPECIFICATION Spec
CONSTANTS
    MAX_INODES = 4
    STORED = 3
    BLOCK_SIZE = 3
    DATA_BLOCKS_START = 6
    DEV_BLOCKS = 16
    SECTORS_PER_BLOCK = 2
    Paths <- FlatPaths
    BootDirs <- DirsAtBoot
    BootFiles <- FilesAtBoot
    Removable <- TopFiles
    Writes <- ShortWrites
    Calls = {"create", "mkdir", "remove", "write", "seek", "write_file", "read", "sync"}
    MAX_CALLS = 4
    MAX_CRASHES = 0
    MAX_FAULTS = 0
INVARIANTS CallsDurable
PROPERTIES ImplementsFileTree
