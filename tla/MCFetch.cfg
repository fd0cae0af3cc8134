SPECIFICATION LiveSpec
CONSTANTS
    AddrLimit = 32
    RESET_PC = 0
    CACHE_LINE_BYTES = 8
    CACHE_NUM_LINES = 2
    Data <- MCData
    Image <- MCImage
    Stores <- MCStores
    Targets <- MCTargets
INVARIANTS TypeOK StreamInOrder InstFresh
PROPERTIES ImplementsInstPort ImplementsFetchMaster FetchProgress
