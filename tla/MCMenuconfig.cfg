SPECIFICATION Spec
CONSTANTS
  Parts = {"menu", "list", "input", "text"}
  Menus <- MCMenus
  Heights = {0, 1, 3}
  Resizes <- Smaller
  Lists <- MCLists
  list_height = 2
  Enough = {TRUE, FALSE}
  Inits <- MCInits
  Chars = {"a", "b"}
  MAX_LEN = 5
  box_width = 3
  Texts <- MCTexts
  BoxHeights = {1, 2, 3}
  Border = 4
  Updates = {TRUE, FALSE}
INVARIANTS WindowsTrue
PROPERTIES KeysActOnShown
