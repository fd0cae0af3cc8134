SPECIFICATION Spec
CONSTANTS
  Parts = {"save"}
  SymType <- MCSymType
  Orders <- MCOrders
  Menu <- MCMenu
  RootMenu <- MCRootMenu
  Files <- MCFiles
  Modes = {"oldaskconfig", "oldconfig", "syncconfig", "listnewconfig", "olddefconfig", "defconfig", "yes2modconfig",
           "mod2yesconfig", "allnoconfig", "allyesconfig", "allmodconfig", "alldefconfig", "randconfig"}
  Syms = {a, b}
  Vals = {0, 1}
  NoFile = NoFile
  Kills = {"rename_auto"}
  MaxText = 5
  MaxDeps = 4
  Contents <- MCContents
INVARIANT ChangesRebuild
