SPECIFICATION Spec
CONSTANTS
  Parts = {"mmc", "keyboard", "ps2", "screen", "iomap", "uptime"}
  Words = {0, 1, 2, 3}
  Values = {0, 1}
  Images <- MCImages
  BlkWords = 2
  ExtCsd <- MCExtCsd
  Clients = {c1, c2}
  Requests <- MCRequests
  NONE = NONE
  Keys = {1, 2}
  Unmapped = 3
  KEYDOWN_MASK = 4
  KEY_QUEUE_LEN = 3
  MaxEvents = 4
  ScanCodes = {20, 28}
  ExtCodes = {20}
  MaxKeys = 3
  FifoLen = 4
  W = 2
  H = 2
  Colours = {0, 1}
  SyncValues = {1}
  NotDrawing = NotDrawing
  ADDRS <- MCAddrs
  MBASE = 16
  MSIZE = 8
  PAGE = 4
  IO_SPACE_MAX = 16
  NR_MAP = 2
  PORT_MAX = 20
  Configurations <- MCConfigurations
  Lengths = {1, 4}
  RADIX = 4
  MaxTime = 12
INVARIANTS KeysDelivered KeysDecoded PictureShown 
PROPERTIES IsQuietBlockDevice TimeOfCall RequestsComplete
