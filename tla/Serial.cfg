SPECIFICATION Spec
CONSTANTS
  NULL = NULL
  coreinit = coreinit
  gx2 = gx2
  nsysnet = nsysnet
  low = low
  mid = mid
  high = high
  menu = menu
  app = app
  Modules = {coreinit, gx2}
  Libraries = {coreinit, gx2}
  Addrs = {low, mid, high}
  Titles = {menu, app}
  Objects = {o1, o2, o3}
  Threads = {t1}
  Targets <- SeparateTargets
  Resident <- MCResident
  Cores = 3
  SomeCoreServed = TRUE
  JoinsReturn = TRUE
  TextLingers = FALSE
  LoaderInTurn = FALSE
  RemovalOrder = "lifo"
SYMMETRY ObjectSymmetry
INVARIANTS
  OriginalReachable
  LaterPatchesOnTop
  FlagsTellTruth
  AllApplied
  WordsAreStacks
PROPERTIES
  ImplementsPatchStack
