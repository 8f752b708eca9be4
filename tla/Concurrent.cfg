SPECIFICATION Spec
CONSTANTS
  NULL = NULL
  coreinit = coreinit
  gx2 = gx2
  nsysnet = nsysnet
  low = low
  mid = mid
  high = high
  menu = menu
  app = app
  Modules = {gx2, nsysnet}
  Libraries = {gx2, nsysnet}
  Addrs = {low, high}
  Titles = {app}
  Objects = {o1, o2}
  Threads = {t1, t2}
  Targets <- TwoLibraries
  Resident <- NoResident
  Cores = 1
  SomeCoreServed = FALSE
  JoinsReturn = TRUE
  TextLingers = FALSE
  LoaderInTurn = TRUE
  RemovalOrder = "any"
SYMMETRY FullSymmetry
INVARIANTS
  TypeOK
  NoUseAfterFree
  HandlesFresh
PROPERTIES
  RegistryExact
