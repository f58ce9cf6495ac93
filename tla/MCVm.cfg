CONSTANTS
  Procs = {p1, p2}
  Initproc = p1
  Tabs = {t1, t2, t3, t4}
  KPages = {k1, k2, k3, k4, k5, k6, k7, k8, k9, k10, k11, k12, k13, k14, k15, k16, k17, k18, k19, k20}
  Pages14 = {k1, k2, k3, k4, k5, k6, k7, k8, k9, k10, k11, k12, k13, k14}
  Pages18 = {k1, k2, k3, k4, k5, k6, k7, k8, k9, k10, k11, k12, k13, k14, k15, k16, k17, k18}
  Pages20 = {k1, k2, k3, k4, k5, k6, k7, k8, k9, k10, k11, k12, k13, k14, k15, k16, k17, k18, k19, k20}
  Supers = {s1, s2}
  Supers1 = {s1}
  NULL = NULL
  Trampoline = Trampoline
  SP = 3
  NROOT = 2
  PGSIZE = 2
  USERSTACK = 1
  MaxSize = 15
  Workloads <- All
SPECIFICATION Spec
INVARIANTS VmInv NoLeak PanicOnlyAfterShrink
PROPERTY Isolated
CHECK_DEADLOCK FALSE
