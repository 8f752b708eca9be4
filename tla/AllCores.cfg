SPECIFICATION Spec
CONSTANTS
  NULL = NULL
  o1 = o1
  o2 = o2
  t1 = t1
  t2 = t2
  Objects = {o1, o2}
  Near = {o2}
  Blocks = {b1, b2, b3}
  Threads = {t1, t2}
  LastCore = 1
  Home <- MCHome
SYMMETRY BlockSymmetry
CHECK_DEADLOCK FALSE
INVARIANTS
  TypeOK
  PatchedOnEveryCore
  ServedCoresRunRight
  ThreadMemoryGivenBack
  JumpHeapExact
