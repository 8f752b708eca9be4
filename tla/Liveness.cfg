SPECIFICATION FairSpec
CONSTANTS
  NULL = NULL
  coreinit = coreinit
  gx2 = gx2
  nsysnet = nsysnet
  low = low
  mid = mid
  high = high
  menu = menu
  app = app
  Modules = {gx2}
  Libraries = {gx2}
  Addrs = {high}
  Titles = {app}
  Objects = {o1, o2}
  Threads = {t1, t2}
  Targets <- Gx2Only
  Resident <- NoResident
  Cores = 2
  SomeCoreServed = FALSE
  JoinsReturn = FALSE
  TextLingers = TRUE
  LoaderInTurn = FALSE
  RemovalOrder = "any"
PROPERTIES
  EveryCallReturns
\* A thread that joins one that was never created may keep the mutex for ever.
CHECK_DEADLOCK FALSE
