\* Two processes, three inodes, eight blocks; three files, two descriptors each, one
\* page for a pipe.
CONSTANTS
  p1 = p1
  p2 = p2
  Procs = {p1, p2}
  NULL = NULL
  NINODES = 3
  NBLOCKS = 8
  BSIZE = 2
  NDIRECT = 2
  BPB = 1
  UINT = 16
  NFILE = 3
  NOFILE = 2
  NPAGE = 1
  MAXOPBLOCKS = 10
  Workloads <- MCWorkloads
SPECIFICATION Spec
INVARIANTS FileInv OpFits
PROPERTIES IsFile
CHECK_DEADLOCK FALSE
