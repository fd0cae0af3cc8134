SPECIFICATION Spec
CONSTANTS
  Parts = {"ui", "conf", "save", "fixdep"}
  SymType <- MCSymType
  Orders <- MCOrders
  Menu <- MCMenu
  RootMenu <- MCRootMenu
  Files <- MCFiles
  Modes = {"oldaskconfig", "oldconfig", "syncconfig", "listnewconfig", "olddefconfig", "defconfig", "yes2modconfig",
           "mod2yesconfig", "allnoconfig", "allyesconfig", "allmodconfig", "alldefconfig", "randconfig"}
  Syms = {a, b}
  Vals = {0, 1}
  NoFile = NoFile
  Kills = {"write", "same", "rename_old", "rename_new", "auto", "touch", "write_auto", "rename_header"}
  MaxText = 5
  MaxDeps = 4
  Contents <- MCContents
INVARIANTS  ValuesAllowed FilesComplete ConfRight SaveSound FixdepRight
PROPERTIES ConfEnds
