\* One lookup, of every kind, with modules loaded and unloaded meanwhile.
CONSTANTS
  Parts <- MCParts
  Functions <- MCFunctions
  Rpls <- MCRpls
  Patches <- MCPatches
  MaxLoaded = 3
  TitleIds <- MCTitleIds
  MaxVersion = 2
SPECIFICATION Spec
INVARIANTS TypeOK BranchFollowed FoundByName FoundByOffset StopsOnlyAfterUnload
PROPERTIES LookupEnds
\* The model is of one lookup: it stops at its end.
CHECK_DEADLOCK FALSE
