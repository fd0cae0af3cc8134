SPECIFICATION OperandsSpec
CONSTANTS
    ByteLimit = 4
    XLEN = 8
INVARIANTS DatapathAgrees
