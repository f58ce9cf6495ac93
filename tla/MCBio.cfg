CONSTANTS
  n1 = n1
  n2 = n2
  n3 = n3
  NULL = NULL
  Procs = {p1, p2}
  Blocks = {n1, n2, n3}
  Values = {0, 1, 2, 3}
  Data <- Contents1
  NBUF = 2
  HELD = 2
  Before <- Order
  LOGSIZE = 1
SPECIFICATION FairSpec
INVARIANT BioInv
PROPERTIES Coherent PanicOnlyWhenFull BreadReturns
CHECK_DEADLOCK FALSE
