CONSTANTS
  p1 = p1
  p2 = p2
  p3 = p3
  NULL = NULL
  None = None
  Procs <- P3
  Blocks = {1}
  Values = {0, 1}
  NUM = 8
  UINT16 = 16
SPECIFICATION Spec
SYMMETRY Same
INVARIANTS DiskInv NoLostCompletion
PROPERTY Linearizable
