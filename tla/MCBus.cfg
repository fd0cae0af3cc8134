SPECIFICATION LiveSpec
CONSTANTS
    AddrLimit = 16
    RESET_PC = 0
    CACHE_LINE_BYTES = 8
    CACHE_NUM_LINES = 1
    ByteLimit = 2
    XLEN = 4
    CLINT_BASE = 8
    CLINT_END = 15
    TimeLimit = 2
    MTIME_LO = 0
    MTIME_HI = 4
    MmioAddr <- MCMmioAddr
    JointWrites = TRUE
    FetchLines = {0}
    Ram <- MCRam
    Uops <- MCUops
INVARIANTS DataReachesOwner
PROPERTIES FetchSeesSlave BusCompletes
