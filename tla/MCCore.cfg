SPECIFICATION LiveSpec
CONSTANTS
    AddrLimit = 256
    RESET_PC = 16
    CACHE_LINE_BYTES = 4
    CACHE_NUM_LINES = 1
    ByteLimit = 4
    XLEN = 8
    NumRegs = 4
    MVENDORID = 121
    MARCHID = 77
    CycleLimit = 1
    RamLimit = 80
    Encoding <- MCEncoding
    Images <- MCImages
    MmioAddr <- MCMmioAddr
INVARIANTS CommitMatchesRef PreciseEffects FenceiSerialises
PROPERTIES Terminates
