SPECIFICATION Spec
CONSTANTS
  Parts = {"expr", "menu", "deps", "macro"}
  SymType <- MCSymType
  Leaves <- MCLeaves
  Few <- MCFew
  Modules = "n"
  Syms <- MCSyms
  ChoiceOf <- MCChoice
  MaxDeps = 2
  MaxRefs = 4
  MaxExp = 2
  MaxArgs = 3
  MaxAdds = 2
INVARIANTS ExpressionsKept MenuKept 
