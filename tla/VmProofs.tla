------------------------------ MODULE VmProofs ------------------------------
(***************************************************************************)
(* No frame of memory has two uses and no page table two processes, in     *)
(* every machine and under every workload.                                 *)
(*                                                                         *)
(* The invariant VInv has two halves.  MemOK is about frames: what a PTE   *)
(* may point to, and that the PTEs, the trapframes, the freelist and the   *)
(* superpage pool have no frame in common.  ProcOK is about processes:     *)
(* which table the call that a process is in works on, and how far its     *)
(* loops go.  The halves meet in the root of a table, which says whether   *)
(* the table is in use.                                                    *)
(***************************************************************************)
EXTENDS Vm, TLAPS

\* Time for the provers.
USE SMTT(30), ZenonT(30)

-----------------------------------------------------------------------------
(* The inductive invariant: memory.                                        *)

Contents == {"junk", "zero", "file", "user"}
Entry == [pa : Frames \cup {NULL, Trampoline}, flags : SUBSET Flags]
Pool == super \X (0 .. SP - 1)

MemTypes == /\ free \subseteq Frames /\ super \subseteq Supers
            /\ data \in [Frames -> Contents] /\ pt \in [Tabs -> [Locs -> Entry]]

\* What a PTE points to: a frame, and at level 1 a leaf is a whole superpage.
PTEOK(l, e) ==
  Valid(e) /\ l \notin Shared =>
    e.pa \in Frames /\ (l[1] = 1 /\ PTE_LEAF(e) => e.pa \in Supers \X {0})
Entries == \A t \in Tabs : \A l \in Locs : PTEOK(l, pt[t][l])

\* The frames with their uses: a PTE, a trapframe, the freelist or the pool.
Single == \A t, u \in Tabs : \A l, m \in Locs : \A f \in Frames :
            f \in Owned(t, l) /\ f \in Owned(u, m) => t = u /\ l = m
Trapframes == \A p \in Procs : tf[p] # NULL =>
                /\ \A t \in Tabs : \A l \in Locs : tf[p] \notin Owned(t, l)
                /\ \A q \in Procs : tf[q] = tf[p] => q = p
Loose == \A f \in free \cup Pool :
           /\ \A t \in Tabs : \A l \in Locs : f \notin Owned(t, l)
           /\ \A p \in Procs : tf[p] # f
Apart == free \cap Pool = {}
Exclusively == Single /\ Trapframes /\ Loose /\ Apart

MemOK == MemTypes /\ Entries /\ Exclusively

(* The inductive invariant: processes.                                     *)

Places == {"unused", "embryo", "first", "user", "alloc", "unmap", "copy", "exec"}
Calls == {"", "grow", "shrink", "seg", "stack", "copy", "free", "exec"}
Locals == [t : Tabs \cup {NULL}, a : Nat, lo : Nat, end : Nat, perm : SUBSET Flags, call : Calls,
           child : Procs \cup {NULL}, segs : Seq(Segments), brk : Nat]

ProcTypes == /\ load \in Workloads /\ k \in [Procs -> Locals] /\ pc \in [Procs -> Places]
             /\ cur \in [Procs -> Tabs \cup {NULL}] /\ sz \in [Procs -> Nat]
             /\ tf \in [Procs -> Frames \cup {NULL}]

\* Where the table that a process works on comes from: it is its own, the
\* child's, or one that exec() has to itself.
Resting(p) == pc[p] \in {"unused", "embryo", "user"}
AtHome(p) == \/ pc[p] = "first" \/ (pc[p] = "alloc" /\ k[p].call = "grow")
             \/ (pc[p] = "unmap" /\ k[p].call \in {"grow", "shrink", "free"})
Forking(p) == pc[p] = "copy" \/ (pc[p] = "unmap" /\ k[p].call = "copy")
Execing(p) == \/ pc[p] = "exec" \/ (pc[p] = "unmap" /\ k[p].call = "exec")
              \/ (pc[p] \in {"alloc", "unmap"} /\ k[p].call \in {"seg", "stack"})
Freeing(p) == pc[p] = "unmap" /\ k[p].call = "free"

WorksOn(p) ==
  /\ Resting(p) \/ AtHome(p) \/ Forking(p) \/ Execing(p)
  /\ IF pc[p] = "unused" THEN cur[p] = NULL ELSE cur[p] \in Tabs
  /\ IF pc[p] = "unused" \/ Freeing(p) THEN tf[p] = NULL ELSE tf[p] \in Frames
  /\ Resting(p) => k[p].t = NULL
  /\ AtHome(p) => k[p].t = cur[p]
  /\ Forking(p) => k[p].child \in Procs /\ pc[k[p].child] = "embryo" /\ k[p].t = cur[k[p].child]
  /\ Execing(p) => k[p].t \in Tabs
Works == \A p \in Procs : WorksOn(p)

\* The table that exec() builds or takes down, if p is in exec().
Ex(p) == IF Execing(p) THEN k[p].t ELSE NULL

\* No two processes have a table or a child in common, and the tables in use
\* are those that processes have.
Distinct == \A p, q \in Procs : /\ cur[p] = cur[q] /\ cur[p] # NULL => p = q
                                /\ Ex(p) # NULL => Ex(p) # cur[q]
                                /\ Ex(p) = Ex(q) /\ Ex(p) # NULL => p = q
Match == \A t \in Tabs : ~Unused(t) <=> \E p \in Procs : cur[p] = t \/ Ex(p) = t
Tables == Distinct /\ Match
Parents == \A p, q \in Procs : Forking(p) /\ Forking(q) /\ k[p].child = k[q].child => p = q

\* The loops stay within the bound on sizes.
InRange(p) ==
  /\ sz[p] <= load.max
  /\ \A i \in 1 .. Len(k[p].segs) : Fits(load, k[p].segs[i].vaddr * PGSIZE + k[p].segs[i].memsz)
  /\ pc[p] = "alloc" => k[p].end <= load.max /\ k[p].a <= PGROUNDUP(k[p].end)
  /\ pc[p] = "unmap" => k[p].end <= PGROUNDUP(load.max)
  /\ pc[p] \in {"alloc", "unmap"} /\ k[p].call \in {"seg", "stack", "shrink"} => k[p].brk <= load.max
  /\ pc[p] = "alloc" /\ k[p].call = "seg" => k[p].segs # <<>> /\ Fits(load, k[p].end)
  /\ pc[p] = "alloc" /\ k[p].call = "stack" => k[p].end = (PGROUNDUP(k[p].brk) + USERSTACK + 1) * PGSIZE
  /\ pc[p] = "exec" => Fits(load, k[p].brk)
Ranges == \A p \in Procs : InRange(p)

ProcOK == ProcTypes /\ Works /\ Tables /\ Parents /\ Ranges

VInv == MemOK /\ ProcOK
-----------------------------------------------------------------------------
(* Sizes and pages.                                                        *)

\* Quotient and remainder, as \div and % define them.
LEMMA Division == \A m \in Nat \ {0} : \A x \in Int : x = (x \div m) * m + (x % m)
BY SMTT(30)

\* Multiples of the page size are ordered like their factors.
LEMMA Times ==
  ASSUME NEW m \in Nat \ {0}, NEW a \in Int, NEW b \in Int
  PROVE  /\ a * m \in Int /\ (a + b) * m = a * m + b * m
         /\ a <= b => a * m <= b * m
         /\ a < b => a * m + m <= b * m
<1>1. a * m \in Int /\ (a + b) * m = a * m + b * m /\ (b - a) * m = b * m - a * m
  OBVIOUS
<1>2. a <= b => (b - a) * m >= 0
  OBVIOUS
<1>3. a < b => (b - a - 1) * m >= 0 /\ (b - a - 1) * m = b * m - a * m - m
  OBVIOUS
<1> QED
  BY <1>1, <1>2, <1>3

\* PGROUNDUP() is the least number of pages that hold s bytes.
LEMMA RoundUp ==
  ASSUME NEW s \in Nat
  PROVE  /\ PGROUNDUP(s) \in Nat
         /\ s <= PGROUNDUP(s) * PGSIZE
         /\ \A n \in Nat : s <= n * PGSIZE => PGROUNDUP(s) <= n
<1> DEFINE q == (s + PGSIZE - 1) \div PGSIZE
           r == (s + PGSIZE - 1) % PGSIZE
<1>1. PGSIZE \in Nat \ {0}
  BY VmAssumption, Zenon
<1>2. q \in Nat /\ r \in 0 .. PGSIZE - 1
  BY <1>1
<1>3. s + PGSIZE - 1 = q * PGSIZE + r
  BY <1>1, Division
<1>4. PGROUNDUP(s) = q
  BY Zenon DEF PGROUNDUP
<1> HIDE DEF q, r
<1>5. q * PGSIZE \in Int
  BY <1>1, <1>2
<1>6. s <= q * PGSIZE /\ q * PGSIZE < s + PGSIZE
  BY <1>1, <1>2, <1>3, <1>5
<1>7. ASSUME NEW n \in Nat, s <= n * PGSIZE PROVE q <= n
  <2>1. n < q => n * PGSIZE + PGSIZE <= q * PGSIZE
    BY <1>1, <1>2, Times
  <2>2. n * PGSIZE \in Int
    BY <1>1
  <2> QED
    BY <1>1, <1>2, <1>5, <1>6, <1>7, <2>1, <2>2
<1> QED
  BY <1>2, <1>4, <1>6, <1>7, Zenon

\* More bytes take no fewer pages.
LEMMA RoundUpOrder == ASSUME NEW s \in Nat, NEW u \in Nat, s <= u PROVE PGROUNDUP(s) <= PGROUNDUP(u)
<1>1. PGROUNDUP(u) \in Nat /\ u <= PGROUNDUP(u) * PGSIZE
  BY RoundUp, Zenon
<1>2. PGROUNDUP(u) * PGSIZE \in Int
  BY <1>1, VmAssumption
<1>3. s <= PGROUNDUP(u) * PGSIZE
  BY <1>1, <1>2
<1> QED
  BY <1>1, <1>3, RoundUp, Zenon

\* A loop that stands before the end is at a page of the process.
LEMMA PageBelow ==
  ASSUME NEW s \in Nat, NEW a \in Nat, a * PGSIZE < s PROVE a + 1 <= PGROUNDUP(s)
<1>1. PGROUNDUP(s) \in Nat /\ s <= PGROUNDUP(s) * PGSIZE /\ PGSIZE \in Nat \ {0}
  BY RoundUp, VmAssumption, Zenon
<1>2. PGROUNDUP(s) <= a => PGROUNDUP(s) * PGSIZE <= a * PGSIZE
  BY <1>1, Times
<1>3. PGROUNDUP(s) * PGSIZE \in Int /\ a * PGSIZE \in Int
  BY <1>1
<1> QED
  BY <1>1, <1>2, <1>3

\* The pages that a process can have, below the trapframe and the trampoline.
UserPages == 0 .. PGROUNDUP(MaxSize) - 1

\* A page below the bound is one of them.
LEMMA InUserPages == ASSUME NEW n \in Nat, PGROUNDUP(MaxSize) \in Nat, n < PGROUNDUP(MaxSize) PROVE n \in UserPages
BY DEF UserPages

\* The PTEs that walk() meets have locations.
LEMMA LocIs ==
  ASSUME NEW n \in UserPages \cup {TRAMPOLINE, TRAPFRAME}, NEW i \in 0 .. 2 PROVE <<i, PX(i, n)>> \in Locs
BY DEF Locs, UserPages

\* The PTEs of a user page are none of those that processes share.
LEMMA UserLocs ==
  ASSUME NEW n \in UserPages
  PROVE  /\ n \in Nat /\ <<0, n>> \in Locs \ Shared
         /\ <<1, PX(1, n)>> \in Locs \ Shared /\ <<2, PX(2, n)>> \in Locs \ Shared
<1> DEFINE Q == SP * SP
<1>1. Q \in Nat /\ Q >= 2 /\ NROOT \in Nat /\ NROOT >= 2 /\ NROOT * SP * SP = NROOT * Q
  <2>1. SP \in Nat /\ SP >= 2
    BY VmAssumption
  <2>2. SP * SP >= 2 * SP
    BY <2>1
  <2> QED
    BY <2>1, <2>2, VmAssumption
<1>2. (NROOT - 1) * SP * SP = (NROOT - 1) * Q /\ (NROOT - 1) * Q = NROOT * Q - Q /\ NROOT * Q \in Nat
  BY <1>1, VmAssumption
<1>3. (NROOT - 1) * Q \in Nat /\ MaxSize \in Nat /\ MaxSize <= ((NROOT - 1) * Q) * PGSIZE
  BY <1>1, <1>2, VmAssumption
<1>4. PGROUNDUP(MaxSize) \in Nat /\ PGROUNDUP(MaxSize) <= (NROOT - 1) * Q
  BY <1>3, RoundUp, Zenon
<1>5. TRAMPOLINE = NROOT * Q - 1 /\ TRAPFRAME = NROOT * Q - 2
  BY <1>1, <1>2 DEF TRAMPOLINE, TRAPFRAME
<1> HIDE DEF Q
<1>6. n \in Nat /\ n # TRAMPOLINE /\ n # TRAPFRAME
  BY <1>1, <1>2, <1>4, <1>5 DEF UserPages
<1>7. <<0, n>> \notin Shared
  BY <1>6, Zenon DEF Shared
<1>8. <<1, PX(1, n)>> \notin Shared /\ <<2, PX(2, n)>> \notin Shared
  BY DEF Shared
<1>9. PX(0, n) = n
  BY Zenon DEF PX
<1>10. \A i \in 0 .. 2 : <<i, PX(i, n)>> \in Locs
  BY LocIs, Zenon
<1>11. 0 \in 0 .. 2 /\ 1 \in 0 .. 2 /\ 2 \in 0 .. 2
  OBVIOUS
<1> QED
  BY <1>6, <1>7, <1>8, <1>9, <1>10, <1>11, Zenon
-----------------------------------------------------------------------------
(* The freelist.                                                           *)

\* What kalloc() takes off a list is on it.
LEMMA PickIs == \A S : S # {} => Pick(S) \in S
BY Zenon DEF Pick

\* kalloc() takes one frame at a time.
LEMMA LeftIs ==
  /\ Left(0) = free
  /\ \A n \in 0 .. 3 : /\ Left(n) # {} => Fresh(n + 1) \in Left(n) /\ Left(n + 1) = Left(n) \ {Fresh(n + 1)}
                       /\ Left(n) = {} => Left(n + 1) = {}
<1>1. Left(0) = free
  BY Zenon DEF Left
<1>2. ASSUME NEW n \in 0 .. 3
      PROVE  /\ Left(n) # {} => Fresh(n + 1) \in Left(n) /\ Left(n + 1) = Left(n) \ {Fresh(n + 1)}
             /\ Left(n) = {} => Left(n + 1) = {}
  <2>1. Fresh(n + 1) = Pick(Left(n))
    <3>1. (n + 1) - 1 = n
      OBVIOUS
    <3> QED
      BY <3>1, Zenon DEF Fresh
  <2>2. Left(n + 1) = IF Left(n) = {} THEN {} ELSE Left(n) \ {Pick(Left(n))}
    <3>1. n = 0 \/ n = 1 \/ n = 2 \/ n = 3
      OBVIOUS
    <3>2. 0 + 1 = 1 /\ 1 + 1 = 2 /\ 2 + 1 = 3 /\ 3 + 1 = 4 /\ 1 # 0 /\ 2 # 0 /\ 2 # 1 /\ 3 # 0 /\ 3 # 1 /\ 3 # 2
          /\ 4 # 0 /\ 4 # 1 /\ 4 # 2 /\ 4 # 3
      OBVIOUS
    <3> QED
      BY <3>1, <3>2, Zenon DEF Left
  <2> QED
    BY <2>1, <2>2, PickIs, Zenon
<1> QED
  BY <1>1, <1>2, Zenon

\* The frames that n calls of kalloc() return are different frames of the
\* freelist, and they are not on it afterwards.
LEMMA FreshFrames ==
  ASSUME NEW n \in 1 .. 4, Enough(n)
  PROVE  /\ Left(n) \subseteq free
         /\ \A i \in 1 .. n : Fresh(i) \in free \ Left(n)
         /\ \A i, j \in 1 .. n : Fresh(i) = Fresh(j) => i = j
<1>1. \A i \in 1 .. 4 : /\ Left(i) \subseteq Left(i - 1)
                        /\ Left(i - 1) # {} => Fresh(i) \in Left(i - 1) \ Left(i)
                        /\ Left(i - 1) = {} => Left(i) = {}
  <2> SUFFICES ASSUME NEW i \in 1 .. 4
               PROVE  /\ Left(i) \subseteq Left(i - 1)
                      /\ Left(i - 1) # {} => Fresh(i) \in Left(i - 1) \ Left(i)
                      /\ Left(i - 1) = {} => Left(i) = {}
    BY Zenon
  <2>1. i - 1 \in 0 .. 3 /\ (i - 1) + 1 = i
    OBVIOUS
  <2>2. /\ Left(i - 1) # {} => Fresh(i) \in Left(i - 1) /\ Left(i) = Left(i - 1) \ {Fresh(i)}
        /\ Left(i - 1) = {} => Left(i) = {}
    BY <2>1, LeftIs, Zenon
  <2> QED
    BY <2>2, Zenon
<1>2. Left(0) = free
  BY LeftIs, Zenon
<1>3. /\ Left(1) \subseteq Left(0) /\ Left(2) \subseteq Left(1) /\ Left(3) \subseteq Left(2) /\ Left(4) \subseteq Left(3)
      /\ Left(0) # {} => Fresh(1) \in Left(0) \ Left(1)
      /\ Left(1) # {} => Fresh(2) \in Left(1) \ Left(2)
      /\ Left(2) # {} => Fresh(3) \in Left(2) \ Left(3)
      /\ Left(3) # {} => Fresh(4) \in Left(3) \ Left(4)
  <2>1. 1 - 1 = 0 /\ 2 - 1 = 1 /\ 3 - 1 = 2 /\ 4 - 1 = 3
    OBVIOUS
  <2>2. 1 \in 1 .. 4 /\ 2 \in 1 .. 4 /\ 3 \in 1 .. 4 /\ 4 \in 1 .. 4
    OBVIOUS
  <2> QED
    BY <1>1, <2>1, <2>2, Zenon
<1>4. Left(n - 1) # {}
  BY DEF Enough
<1>5. \A i \in 1 .. n : i = 1 \/ i = 2 \/ i = 3 \/ i = 4
  OBVIOUS
<1>6. CASE n = 1
  BY <1>2, <1>3, <1>4, <1>6
<1>7. CASE n = 2
  BY <1>2, <1>3, <1>4, <1>7
<1>8. CASE n = 3
  BY <1>2, <1>3, <1>4, <1>8
<1>9. CASE n = 4
  BY <1>2, <1>3, <1>4, <1>9
<1> QED
  BY <1>5, <1>6, <1>7, <1>8, <1>9
-----------------------------------------------------------------------------
(* Frames change hands.                                                    *)

\* A step takes the frames G from the freelist or the pool and gives each of
\* them one use.
Taken(G) ==
  /\ G \subseteq free \cup Pool
  /\ \A t \in Tabs : \A l \in Locs : Owned(t, l)' \subseteq Owned(t, l) \cup G
  /\ \A t, u \in Tabs : \A l, m \in Locs : \A f \in G :
       f \in Owned(t, l)' /\ f \in Owned(u, m)' => t = u /\ l = m
  /\ \A p \in Procs : \/ tf'[p] = tf[p]
                      \/ /\ tf'[p] \in G /\ \A t \in Tabs : \A l \in Locs : tf'[p] \notin Owned(t, l)'
                         /\ \A q \in Procs : q # p => tf'[q] = tf[q]
  /\ free' \cup Pool' \subseteq (free \cup Pool) \ G /\ free' \subseteq free /\ Pool' \subseteq Pool

\* Then frames still have one use each.
LEMMA Takes == ASSUME Exclusively, NEW G, Taken(G) PROVE Exclusively'
<1> USE DEF Taken
<1>1. Single'
  <2> SUFFICES ASSUME NEW t \in Tabs, NEW u \in Tabs, NEW l \in Locs, NEW m \in Locs, NEW f \in Frames,
                      f \in Owned(t, l)', f \in Owned(u, m)'
               PROVE  t = u /\ l = m
    BY DEF Single
  <2>1. CASE f \in G
    BY <2>1, Zenon
  <2>2. CASE f \notin G
    <3>1. f \in Owned(t, l) /\ f \in Owned(u, m)
      BY <2>2, Zenon
    <3> QED
      BY <3>1, Zenon DEF Exclusively, Single
  <2> QED
    BY <2>1, <2>2, Zenon
<1>2. Trapframes'
  <2> SUFFICES ASSUME NEW p \in Procs, tf'[p] # NULL
               PROVE  /\ \A t \in Tabs : \A l \in Locs : tf'[p] \notin Owned(t, l)'
                      /\ \A q \in Procs : tf'[q] = tf'[p] => q = p
    BY Zenon DEF Trapframes
  <2>1. \A q \in Procs : tf[q] \notin G
    BY Zenon DEF Exclusively, Loose
  <2>2. CASE tf'[p] = tf[p]
    <3>1. \A t \in Tabs : \A l \in Locs : tf'[p] \notin Owned(t, l)'
      BY <2>1, <2>2 DEF Exclusively, Trapframes
    <3>2. \A q \in Procs : tf'[q] = tf'[p] => q = p
      BY <2>1, <2>2, Zenon DEF Exclusively, Trapframes
    <3> QED
      BY <3>1, <3>2, Zenon
  <2>3. CASE /\ tf'[p] \in G /\ \A t \in Tabs : \A l \in Locs : tf'[p] \notin Owned(t, l)'
             /\ \A q \in Procs : q # p => tf'[q] = tf[q]
    BY <2>1, <2>3, Zenon
  <2> QED
    BY <2>2, <2>3, Zenon
<1>3. Loose'
  <2> SUFFICES ASSUME NEW f \in free' \cup Pool'
               PROVE  /\ \A t \in Tabs : \A l \in Locs : f \notin Owned(t, l)'
                      /\ \A p \in Procs : tf'[p] # f
    BY Zenon DEF Loose
  <2>1. f \in free \cup Pool /\ f \notin G
    BY Zenon
  <2> QED
    BY <2>1 DEF Exclusively, Loose
<1>4. Apart'
  BY Zenon DEF Exclusively, Apart
<1> QED
  BY <1>1, <1>2, <1>3, <1>4, Zenon DEF Exclusively

\* A step gives the frames G back.
Given(G) ==
  /\ \A t \in Tabs : \A l \in Locs : Owned(t, l)' \subseteq Owned(t, l) \ G
  /\ \A p \in Procs : tf'[p] = NULL \/ (tf'[p] = tf[p] /\ tf[p] \notin G)
  /\ free' \cup Pool' \subseteq free \cup Pool \cup G /\ NULL \notin free \cup Pool \cup G
  /\ free' \cap Pool' = {}

\* Then frames still have one use each.
LEMMA Gives == ASSUME Exclusively, NEW G, Given(G) PROVE Exclusively'
<1> USE DEF Given
<1>1. Single'
  BY DEF Exclusively, Single
<1>2. Trapframes'
  <2> SUFFICES ASSUME NEW p \in Procs, tf'[p] # NULL
               PROVE  /\ \A t \in Tabs : \A l \in Locs : tf'[p] \notin Owned(t, l)'
                      /\ \A q \in Procs : tf'[q] = tf'[p] => q = p
    BY Zenon DEF Trapframes
  <2>1. tf'[p] = tf[p]
    BY Zenon
  <2> QED
    BY <2>1, Zenon DEF Exclusively, Trapframes
<1>3. Loose'
  <2> SUFFICES ASSUME NEW f \in free' \cup Pool'
               PROVE  /\ \A t \in Tabs : \A l \in Locs : f \notin Owned(t, l)'
                      /\ \A p \in Procs : tf'[p] # f
    BY Zenon DEF Loose
  <2> QED
    BY DEF Exclusively, Loose
<1>4. Apart'
  BY Zenon DEF Apart
<1> QED
  BY <1>1, <1>2, <1>3, <1>4, Zenon DEF Exclusively
-----------------------------------------------------------------------------
(* Page tables change.                                                     *)

\* The root of a table says whether it is in use.
RootsStay == \A u \in Tabs : Unused(u)' <=> Unused(u)

\* A PTE that stays owns what it did.
LEMMA OwnedStays ==
  ASSUME NEW t \in Tabs, NEW l \in Locs, pt'[t][l] = pt[t][l] PROVE Owned(t, l)' = Owned(t, l)
BY Zenon DEF Owned

\* A PTE for one page or page-table page owns that frame.
LEMMA OwnedPage ==
  ASSUME NEW t \in Tabs, NEW l \in Locs, NEW f, NEW perm, pt'[t][l] = PTE(f, perm),
         l[1] = 1 => perm = {}
  PROVE  Owned(t, l)' \subseteq {f}
<1>1. pt'[t][l].pa = f /\ pt'[t][l].flags = perm \cup {"V"}
  BY DEF PTE
<1>2. l[1] = 1 => ~PTE_LEAF(pt'[t][l])
  BY <1>1, Zenon DEF PTE_LEAF
<1> QED
  BY <1>1, <1>2, Zenon DEF Owned

\* A PTE for one page or page-table page is in order.
LEMMA PageOK ==
  ASSUME NEW f \in Frames, NEW perm \in SUBSET Flags, NEW l, l[1] = 1 => perm = {}
  PROVE  PTE(f, perm) \in Entry /\ PTEOK(l, PTE(f, perm))
<1>1. PTE(f, perm).pa = f /\ PTE(f, perm).flags = perm \cup {"V"}
  BY Zenon DEF PTE
<1>2. PTE(f, perm) \in Entry
  BY Zenon DEF PTE, Entry, Flags
<1>3. l[1] = 1 => ~PTE_LEAF(PTE(f, perm))
  BY <1>1, Zenon DEF PTE_LEAF
<1> QED
  BY <1>1, <1>2, <1>3, Zenon DEF PTEOK

\* What a step writes to one table.
LEMMA OneTable ==
  ASSUME pt \in [Tabs -> [Locs -> Entry]], NEW t \in Tabs, NEW E, pt' = [pt EXCEPT ![t] = E]
  PROVE  pt'[t] = E /\ \A u \in Tabs : u # t => pt'[u] = pt[u]
BY Zenon

\* A step writes E to table t: the frames Fresh(i) with i in I, each at its
\* location at[i], and otherwise what was there.
Installed(t, E, I, at) ==
  /\ pt' = [pt EXCEPT ![t] = E] /\ E = [l \in Locs |-> E[l]]
  /\ \A i \in I : Fresh(i) \in free /\ Fresh(i) \notin free' /\ at[i] # <<3, 0>>
  /\ \A i, j \in I : Fresh(i) = Fresh(j) => i = j
  /\ \A l \in Locs : \/ E[l] = pt[t][l]
                     \/ \E i \in I : \E perm \in SUBSET Flags :
                          l = at[i] /\ E[l] = PTE(Fresh(i), perm) /\ (l[1] = 1 => perm = {})
  /\ free' \subseteq free /\ super' = super /\ tf' = tf /\ data' \in [Frames -> Contents]

\* walk() and mappages() put frames of the freelist, each once, into a table.
LEMMA Installs ==
  ASSUME MemOK, NEW t \in Tabs, NEW E, NEW I, NEW at, Installed(t, E, I, at)
  PROVE  MemOK' /\ RootsStay
<1> USE DEF Installed
<1> DEFINE G == {Fresh(i) : i \in I}
<1>1. pt'[t] = E /\ \A u \in Tabs : u # t => pt'[u] = pt[u]
  BY OneTable, Zenon DEF MemOK, MemTypes
<1>2. \A l \in Locs : \/ Owned(t, l)' = Owned(t, l)
                      \/ \E i \in I : l = at[i] /\ Owned(t, l)' \subseteq {Fresh(i)}
  <2> SUFFICES ASSUME NEW l \in Locs
               PROVE  \/ Owned(t, l)' = Owned(t, l)
                      \/ \E i \in I : l = at[i] /\ Owned(t, l)' \subseteq {Fresh(i)}
    BY Zenon
  <2>1. CASE E[l] = pt[t][l]
    BY <1>1, <2>1, OwnedStays
  <2>2. ASSUME NEW i \in I, NEW perm \in SUBSET Flags,
               l = at[i], E[l] = PTE(Fresh(i), perm), l[1] = 1 => perm = {}
        PROVE  Owned(t, l)' \subseteq {Fresh(i)}
    BY <1>1, <2>2, OwnedPage
  <2> QED
    BY <2>1, <2>2, Zenon
<1>3. \A u \in Tabs : \A l \in Locs : u # t => Owned(u, l)' = Owned(u, l)
  BY <1>1, OwnedStays, Zenon
<1>4. \A u \in Tabs : \A l \in Locs : Owned(u, l)' \subseteq Owned(u, l) \cup G
  BY <1>2, <1>3
<1>5. G \subseteq free /\ G \cap free' = {} /\ G \cap Pool = {}
  BY DEF MemOK, Exclusively, Apart
<1>6. \A u \in Tabs : \A l \in Locs : \A f \in G :
        f \in Owned(u, l)' => u = t /\ \E i \in I : l = at[i] /\ f = Fresh(i)
  <2>1. \A u \in Tabs : \A l \in Locs : \A f \in G : f \notin Owned(u, l)
    BY <1>5, Zenon DEF MemOK, Exclusively, Loose
  <2> QED
    BY <1>2, <1>3, <2>1
<1>7. Pool' = Pool
  BY Zenon DEF Pool
<1>8. Exclusively'
  <2> HIDE DEF G
  <2>1. \A u, v \in Tabs : \A l, m \in Locs : \A f \in G :
          f \in Owned(u, l)' /\ f \in Owned(v, m)' => u = v /\ l = m
    BY <1>6
  <2>2. free' \cup Pool' \subseteq (free \cup Pool) \ G
    BY <1>5, <1>7, Zenon
  <2>3. Taken(G)
    BY <1>4, <1>5, <1>7, <2>1, <2>2, Zenon DEF Taken
  <2> QED
    BY <2>3, Takes, Zenon DEF MemOK
<1>9. \A l \in Locs : E[l] \in Entry /\ PTEOK(l, E[l])
  <2> SUFFICES ASSUME NEW l \in Locs PROVE E[l] \in Entry /\ PTEOK(l, E[l])
    BY Zenon
  <2>1. CASE E[l] = pt[t][l]
    <3>1. pt[t][l] \in Entry /\ PTEOK(l, pt[t][l])
      BY DEF MemOK, MemTypes, Entries
    <3> QED
      BY <2>1, <3>1, Zenon
  <2>2. ASSUME NEW i \in I, NEW perm \in SUBSET Flags, E[l] = PTE(Fresh(i), perm), l[1] = 1 => perm = {}
        PROVE  E[l] \in Entry /\ PTEOK(l, E[l])
    <3>1. Fresh(i) \in Frames
      BY Zenon DEF MemOK, MemTypes
    <3> QED
      BY <2>2, <3>1, PageOK
  <2> QED
    BY <2>1, <2>2, Zenon
<1>10. MemTypes'
  <2>1. E \in [Locs -> Entry]
    BY <1>9, Zenon
  <2>2. pt' \in [Tabs -> [Locs -> Entry]]
    BY <2>1, Zenon DEF MemOK, MemTypes
  <2> QED
    BY <2>2, Zenon DEF MemOK, MemTypes
<1>11. Entries'
  BY <1>1, <1>9, Zenon DEF MemOK, Entries
<1>12. RootsStay
  <2>1. <<3, 0>> \in Locs
    BY DEF Locs
  <2>2. E[<<3, 0>>] = pt[t][<<3, 0>>]
    BY <2>1, Zenon
  <2> QED
    BY <1>1, <2>2, Zenon DEF RootsStay, Unused
<1> QED
  BY <1>8, <1>10, <1>11, <1>12, Zenon DEF MemOK
-----------------------------------------------------------------------------
(* The primitives of vm.c keep memory in order.                            *)

\* walk(..., 1) puts the frames it gets where page-table pages are missing.
LEMMA TablesMade ==
  ASSUME NEW t \in Tabs, NEW miss, NEW m, NEW skip
  PROVE  /\ WithTables(t, miss, m, skip) = [l \in Locs |-> WithTables(t, miss, m, skip)[l]]
         /\ \A l \in Locs : \/ WithTables(t, miss, m, skip)[l] = pt[t][l]
                            \/ \E i \in 1 .. m : /\ miss[i] = l
                                                 /\ WithTables(t, miss, m, skip)[l] = PTE(Fresh(skip + i), {})
<1>1. \A l \in Locs : WithTables(t, miss, m, skip)[l] =
                        IF \E i \in 1 .. m : miss[i] = l
                          THEN PTE(Fresh(skip + CHOOSE i \in 1 .. m : miss[i] = l), {})
                          ELSE pt[t][l]
  BY Zenon DEF WithTables
<1>2. WithTables(t, miss, m, skip) = [l \in Locs |-> WithTables(t, miss, m, skip)[l]]
  BY Zenon DEF WithTables
<1> QED
  BY <1>1, <1>2, Zenon

\* walk() may need a page at level 1 and one at level 0.
LEMMA MissingIs ==
  ASSUME NEW t \in Tabs, NEW n
  PROVE  /\ Len(Missing(t, n)) \in 0 .. 2
         /\ \A i \in 1 .. Len(Missing(t, n)) : Missing(t, n)[i] \in {<<1, PX(1, n)>>, <<2, PX(2, n)>>}
<1>1. Missing(t, n) \in {<<>>, << <<1, PX(1, n)>> >>, << <<2, PX(2, n)>>, <<1, PX(1, n)>> >>}
  BY Zenon DEF Missing
<1> QED
  BY <1>1

\* kalloc() and mappages(): a page and the page-table pages for it.
LEMMA MapStep ==
  ASSUME MemOK, NEW t \in Tabs, NEW n \in UserPages, NEW perm \in SUBSET Flags, NEW d \in Contents,
         mappages(t, n, perm, d), tf' = tf
  PROVE  MemOK' /\ RootsStay
<1> DEFINE miss == Missing(t, n)
           W == WithTables(t, miss, Len(miss), 1)
           E == [W EXCEPT ![<<0, n>>] = PTE(Fresh(1), perm)]
           I == 1 .. 1 + Len(miss)
           at == [i \in I |-> IF i = 1 THEN <<0, n>> ELSE miss[i - 1]]
<1>1. /\ kalloc(1 + Len(miss)) /\ pt' = [pt EXCEPT ![t] = E] /\ super' = super
      /\ data' = [data EXCEPT ![Fresh(1)] = d]
  BY Zenon DEF mappages
<1>2. /\ Len(miss) \in 0 .. 2
      /\ \A i \in 1 .. Len(miss) : miss[i] \in {<<1, PX(1, n)>>, <<2, PX(2, n)>>}
  BY MissingIs, Zenon
<1>3. <<0, n>> \in Locs
  BY UserLocs, Zenon
<1>4. /\ W = [l \in Locs |-> W[l]]
      /\ \A l \in Locs : W[l] = pt[t][l] \/ \E i \in 1 .. Len(miss) : miss[i] = l /\ W[l] = PTE(Fresh(1 + i), {})
  BY TablesMade
<1>5. 1 + Len(miss) \in 1 .. 4 /\ 1 \in I
  <2>1. \A m \in 0 .. 2 : 1 + m \in 1 .. 4 /\ 1 \in 1 .. 1 + m
    OBVIOUS
  <2> QED
    BY <1>2, <2>1, Zenon
<1>6. /\ free' = Left(1 + Len(miss)) /\ free' \subseteq free
      /\ \A i \in I : Fresh(i) \in free /\ Fresh(i) \notin free'
      /\ \A i, j \in I : Fresh(i) = Fresh(j) => i = j
  BY <1>1, <1>5, FreshFrames, Zenon DEF kalloc
<1> HIDE DEF W, miss
<1>7. E = [l \in Locs |-> E[l]] /\ E[<<0, n>>] = PTE(Fresh(1), perm) /\ \A l \in Locs : l # <<0, n>> => E[l] = W[l]
  BY <1>3, <1>4, Zenon
<1>8. \A i \in I : at[i] # <<3, 0>>
  BY <1>2
<1> HIDE DEF E
<1>9. ASSUME NEW l \in Locs
      PROVE  \/ E[l] = pt[t][l]
             \/ \E i \in I : \E w \in SUBSET Flags : l = at[i] /\ E[l] = PTE(Fresh(i), w) /\ (l[1] = 1 => w = {})
  <2>1. CASE l = <<0, n>>
    <3>1. at[1] = l /\ l[1] # 1
      BY <1>5, <2>1
    <3> HIDE DEF at, I
    <3> QED
      BY <1>5, <1>7, <2>1, <3>1, Zenon
  <2>2. ASSUME l # <<0, n>>, NEW i \in 1 .. Len(miss), miss[i] = l, W[l] = PTE(Fresh(1 + i), {})
        PROVE  \E j \in I : \E w \in SUBSET Flags : l = at[j] /\ E[l] = PTE(Fresh(j), w) /\ (l[1] = 1 => w = {})
    <3>1. 1 + i \in I /\ at[1 + i] = l
      BY <1>2, <2>2
    <3> HIDE DEF at, I
    <3>2. E[l] = PTE(Fresh(1 + i), {}) /\ {} \in SUBSET Flags
      BY <1>7, <2>2, Zenon
    <3> QED
      BY <3>1, <3>2, Zenon
  <2> QED
    BY <1>4, <1>7, <2>1, <2>2, Zenon
<1>10. data' \in [Frames -> Contents]
  BY <1>1, Zenon DEF MemOK, MemTypes
<1> HIDE DEF at, I
<1>11. Installed(t, E, I, at)
  BY <1>1, <1>6, <1>7, <1>8, <1>9, <1>10, Zenon DEF Installed
<1> QED
  BY <1>11, Installs, Zenon

\* The same when memory runs out: at most one page-table page stays.
LEMMA NoMapStep ==
  ASSUME MemOK, NEW t \in Tabs, NEW n \in UserPages, nomappages(t, n), tf' = tf
  PROVE  MemOK' /\ RootsStay
<1> DEFINE miss == Missing(t, n)
           got == IF Enough(2) THEN 1 ELSE 0
           W == WithTables(t, miss, got, 1)
           I == IF Enough(2) THEN {2} ELSE {}
           at == [i \in {2} |-> miss[1]]
<1>1. /\ ~Enough(1 + Len(miss)) /\ pt' = [pt EXCEPT ![t] = W] /\ super' = super /\ data' = data
      /\ free' = free \ {Fresh(1 + i) : i \in 1 .. got}
  BY Zenon DEF nomappages
<1>2. /\ Len(miss) \in 0 .. 2
      /\ \A i \in 1 .. Len(miss) : miss[i] \in {<<1, PX(1, n)>>, <<2, PX(2, n)>>}
  BY MissingIs, Zenon
<1>3. /\ W = [l \in Locs |-> W[l]]
      /\ \A l \in Locs : W[l] = pt[t][l] \/ \E i \in 1 .. got : miss[i] = l /\ W[l] = PTE(Fresh(1 + i), {})
  BY TablesMade
<1> HIDE DEF miss, W
<1>4. CASE Enough(2)
  <2>1. Fresh(2) \in free
    BY <1>4, FreshFrames
  <2>2. Enough(1)
    <3>1. Left(1) # {}
      BY <1>4 DEF Enough
    <3>2. Left(0) # {}
      BY <3>1, LeftIs
    <3> QED
      BY <3>2 DEF Enough
  <2>3. Len(miss) # 0
    BY <1>1, <1>2, <2>2
  <2>4. miss[1] \in {<<1, PX(1, n)>>, <<2, PX(2, n)>>}
    BY <1>2, <2>3
  <2>5. at[2] = miss[1] /\ at[2] # <<3, 0>> /\ 1 .. got = {1} /\ 1 + 1 = 2
    BY <1>4, <2>4
  <2>6. \A l \in Locs : W[l] = pt[t][l] \/ (l = at[2] /\ W[l] = PTE(Fresh(2), {}))
    BY <1>3, <2>5
  <2>7. free' = free \ {Fresh(2)}
    BY <1>1, <2>5, Zenon
  <2>8. I = {2}
    BY <1>4, Zenon
  <2>9. {} \in SUBSET Flags
    BY Zenon
  <2> HIDE DEF at, I, got
  <2>10. \A l \in Locs : \/ W[l] = pt[t][l]
                         \/ \E i \in I : \E w \in SUBSET Flags :
                              l = at[i] /\ W[l] = PTE(Fresh(i), w) /\ (l[1] = 1 => w = {})
    BY <2>6, <2>8, <2>9, Zenon
  <2>11. /\ \A i \in I : Fresh(i) \in free /\ Fresh(i) \notin free' /\ at[i] # <<3, 0>>
         /\ \A i, j \in I : Fresh(i) = Fresh(j) => i = j
    BY <2>1, <2>5, <2>7, <2>8, Zenon
  <2>12. free' \subseteq free /\ data' \in [Frames -> Contents]
    BY <1>1, <2>7, Zenon DEF MemOK, MemTypes
  <2>13. Installed(t, W, I, at)
    BY <1>1, <1>3, <2>10, <2>11, <2>12, Zenon DEF Installed
  <2> QED
    BY <2>13, Installs, Zenon
<1>5. CASE ~Enough(2)
  <2>1. 1 .. got = {} /\ I = {}
    BY <1>5
  <2>2. free' = free /\ \A l \in Locs : W[l] = pt[t][l]
    BY <1>1, <1>3, <2>1, Zenon
  <2> HIDE DEF at, I, got
  <2>3. free' \subseteq free /\ data' \in [Frames -> Contents]
    BY <1>1, <2>2, Zenon DEF MemOK, MemTypes
  <2>4. Installed(t, W, I, at)
    BY <1>1, <1>3, <2>1, <2>2, <2>3, Zenon DEF Installed
  <2> QED
    BY <2>4, Installs, Zenon
<1> QED
  BY <1>4, <1>5, Zenon
\* The frames of a superpage in the pool.
LEMMA TopIs ==
  ASSUME MemOK, super # {}
  PROVE  /\ Top \in super /\ Top \in Supers /\ <<Top, 0>> \in Supers \X {0} /\ <<Top, 0>> \in Frames
         /\ {Top} \X (0 .. SP - 1) \subseteq Pool
<1>1. Top \in super
  BY Zenon DEF Top
<1>2. 0 \in 0 .. SP - 1
  BY VmAssumption
<1> QED
  BY <1>1, <1>2, Zenon DEF MemOK, MemTypes, Pool, Frames

\* superalloc() and supermappages(): a superpage and the page-table page for it.
LEMMA SuperMapStep ==
  ASSUME MemOK, NEW t \in Tabs, NEW n \in UserPages, NEW perm \in SUBSET Flags,
         NEW d \in [0 .. SP - 1 -> Contents], supermappages(t, n, perm, d), tf' = tf
  PROVE  MemOK' /\ RootsStay
<1> DEFINE miss == SuperMissing(t, n)
           l1 == <<1, PX(1, n)>>
           l2 == <<2, PX(2, n)>>
           W == WithTables(t, miss, Len(miss), 0)
           E == [W EXCEPT ![l1] = PTE(<<Top, 0>>, perm)]
           S == {Top} \X (0 .. SP - 1)
           N == {Fresh(i) : i \in 1 .. Len(miss)}
<1>1. /\ super # {} /\ kalloc(Len(miss)) /\ pt' = [pt EXCEPT ![t] = E] /\ super' = super \ {Top}
      /\ data' = [f \in Frames |-> IF f \in S THEN d[f[2]] ELSE data[f]]
  BY Zenon DEF supermappages, Popped
<1>2. l1 \in Locs \ Shared /\ l2 \in Locs \ Shared /\ l1 # l2 /\ l1 # <<3, 0>> /\ l2 # <<3, 0>>
  <2>1. l1 # l2 /\ l1 # <<3, 0>> /\ l2 # <<3, 0>>
    OBVIOUS
  <2> QED
    BY <2>1, UserLocs, Zenon
<1>3. Top \in super /\ <<Top, 0>> \in Supers \X {0} /\ <<Top, 0>> \in Frames /\ S \subseteq Pool
  BY <1>1, TopIs, Zenon
<1>4. \/ miss = <<>> /\ Len(miss) = 0 /\ 1 .. Len(miss) = {}
      \/ miss = <<l2>> /\ Len(miss) = 1 /\ 1 .. Len(miss) = {1} /\ miss[1] = l2
  BY DEF SuperMissing
<1>5. /\ W = [l \in Locs |-> W[l]]
      /\ \A l \in Locs : W[l] = pt[t][l] \/ \E i \in 1 .. Len(miss) : miss[i] = l /\ W[l] = PTE(Fresh(0 + i), {})
  BY TablesMade
<1> HIDE DEF W, miss
<1>6. E = [l \in Locs |-> E[l]] /\ E[l1] = PTE(<<Top, 0>>, perm) /\ \A l \in Locs : l # l1 => E[l] = W[l]
  BY <1>2, <1>5, Zenon
<1> HIDE DEF E, l1, l2
<1>7. \A l \in Locs : l # l1 => E[l] = pt[t][l] \/ (l = l2 /\ N = {Fresh(1)} /\ E[l] = PTE(Fresh(1), {}))
  <2>1. 0 + 1 = 1
    OBVIOUS
  <2> QED
    BY <1>4, <1>5, <1>6, <2>1
<1>8. N \subseteq free /\ free' \subseteq free /\ N \cap free' = {}
  <2>1. CASE Len(miss) = 0
    BY <1>1, <1>4, <2>1, LeftIs DEF kalloc
  <2>2. CASE Len(miss) = 1
    <3>1. 1 \in 1 .. 4
      OBVIOUS
    <3>2. Fresh(1) \in free \ Left(1) /\ Left(1) \subseteq free
      <4>1. Enough(1) /\ 1 \in 1 .. 1
        BY <1>1, <2>2 DEF kalloc
      <4> QED
        BY <3>1, <4>1, FreshFrames, Zenon
    <3>3. free' = Left(1) /\ N = {Fresh(1)}
      BY <1>1, <1>4, <2>2 DEF kalloc
    <3> QED
      BY <3>2, <3>3, Zenon
  <2> QED
    BY <1>4, <2>1, <2>2, Zenon
<1> HIDE DEF N
<1>9. pt'[t] = E /\ \A u \in Tabs : u # t => pt'[u] = pt[u]
  BY <1>1, OneTable, Zenon DEF MemOK, MemTypes
<1>10. Owned(t, l1)' \subseteq S
  <2>1. pt'[t][l1].pa = <<Top, 0>>
    BY <1>6, <1>9 DEF PTE
  <2>2. pt'[t][l1].pa[1] = Top /\ 0 \in 0 .. SP - 1
    BY <2>1, VmAssumption
  <2> QED
    BY <2>1, <2>2 DEF Owned
<1>11. \A l \in Locs : l # l1 => \/ Owned(t, l)' = Owned(t, l)
                                 \/ l = l2 /\ Owned(t, l)' \subseteq N
  <2> SUFFICES ASSUME NEW l \in Locs, l # l1
               PROVE  Owned(t, l)' = Owned(t, l) \/ (l = l2 /\ Owned(t, l)' \subseteq N)
    BY Zenon
  <2>1. CASE E[l] = pt[t][l]
    BY <1>9, <2>1, OwnedStays, Zenon
  <2>2. CASE l = l2 /\ N = {Fresh(1)} /\ E[l] = PTE(Fresh(1), {})
    BY <1>9, <2>2, OwnedPage, Zenon
  <2> QED
    BY <1>7, <2>1, <2>2, Zenon
<1>12. \A u \in Tabs : \A l \in Locs : u # t => Owned(u, l)' = Owned(u, l)
  BY <1>9, OwnedStays, Zenon
<1> DEFINE G == S \cup N
<1>13. \A u \in Tabs : \A l \in Locs : Owned(u, l)' \subseteq Owned(u, l) \cup G
  BY <1>10, <1>11, <1>12, Zenon
<1>14. G \subseteq free \cup Pool /\ S \cap N = {}
  BY <1>3, <1>8, Zenon DEF MemOK, Exclusively, Apart
<1>15. \A u \in Tabs : \A l \in Locs : \A f \in G :
         f \in Owned(u, l)' => u = t /\ ((l = l1 /\ f \in S) \/ (l = l2 /\ f \in N))
  <2>1. \A u \in Tabs : \A l \in Locs : \A f \in G : f \notin Owned(u, l)
    BY <1>14, Zenon DEF MemOK, Exclusively, Loose
  <2> QED
    BY <1>10, <1>11, <1>12, <2>1
<1>16. Pool' \subseteq Pool /\ Pool' \cap S = {}
  BY <1>1, Zenon DEF Pool
<1>17. Exclusively'
  <2>1. \A u, v \in Tabs : \A l, m \in Locs : \A f \in G :
          f \in Owned(u, l)' /\ f \in Owned(v, m)' => u = v /\ l = m
    BY <1>14, <1>15
  <2>2. free' \cup Pool' \subseteq (free \cup Pool) \ G
    <3>1. free' \cap Pool = {} /\ N \cap Pool = {}
      BY <1>8, Zenon DEF MemOK, Exclusively, Apart
    <3> QED
      BY <1>3, <1>8, <1>16, <3>1, Zenon
  <2> HIDE DEF G
  <2>3. Taken(G)
    BY <1>8, <1>13, <1>14, <1>16, <2>1, <2>2, Zenon DEF Taken
  <2> QED
    BY <2>3, Takes, Zenon DEF MemOK
<1>18. \A l \in Locs : E[l] \in Entry /\ PTEOK(l, E[l])
  <2> SUFFICES ASSUME NEW l \in Locs PROVE E[l] \in Entry /\ PTEOK(l, E[l])
    BY Zenon
  <2>1. CASE l = l1
    <3>1. PTE(<<Top, 0>>, perm) \in Entry
      BY <1>3, Zenon DEF PTE, Entry, Flags
    <3>2. PTE(<<Top, 0>>, perm).pa = <<Top, 0>>
      BY Zenon DEF PTE
    <3> QED
      BY <1>3, <1>6, <2>1, <3>1, <3>2, Zenon DEF PTEOK
  <2>2. CASE E[l] = pt[t][l]
    <3>1. pt[t][l] \in Entry /\ PTEOK(l, pt[t][l])
      BY Zenon DEF MemOK, MemTypes, Entries
    <3> QED
      BY <2>2, <3>1, Zenon
  <2>3. CASE N = {Fresh(1)} /\ E[l] = PTE(Fresh(1), {})
    <3>1. Fresh(1) \in Frames /\ {} \in SUBSET Flags
      BY <1>8, <2>3, Zenon DEF MemOK, MemTypes
    <3> QED
      BY <2>3, <3>1, PageOK, Zenon
  <2> QED
    BY <1>7, <2>1, <2>2, <2>3, Zenon
<1>19. MemTypes'
  <2>1. E \in [Locs -> Entry]
    BY <1>6, <1>18, Zenon
  <2>2. pt' \in [Tabs -> [Locs -> Entry]]
    BY <1>1, <2>1, Zenon DEF MemOK, MemTypes
  <2>3. data' \in [Frames -> Contents]
    <3>1. ASSUME NEW f \in Frames PROVE (IF f \in S THEN d[f[2]] ELSE data[f]) \in Contents
      BY Zenon DEF MemOK, MemTypes
    <3> QED
      BY <1>1, <3>1, Zenon
  <2> QED
    BY <1>1, <1>8, <2>2, <2>3, Zenon DEF MemOK, MemTypes
<1>20. Entries'
  BY <1>9, <1>18, Zenon DEF MemOK, Entries
<1>21. RootsStay
  <2>1. <<3, 0>> \in Locs
    BY DEF Locs
  <2>2. E[<<3, 0>>] = pt[t][<<3, 0>>]
    BY <1>2, <1>7, <2>1, Zenon
  <2> QED
    BY <1>9, <2>2, Zenon DEF RootsStay, Unused
<1> QED
  BY <1>17, <1>19, <1>20, <1>21, Zenon DEF MemOK
\* The PTEs that proc_pagetable() fills in.
LEMMA SharedLocs ==
  /\ <<0, TRAMPOLINE>> # <<0, TRAPFRAME>> /\ <<3, 0>> \in Locs \ Shared
  /\ <<2, PX(2, TRAMPOLINE)>> \in Locs \ Shared /\ <<1, PX(1, TRAMPOLINE)>> \in Locs \ Shared
<1>1. TRAMPOLINE \in Int /\ TRAMPOLINE # TRAPFRAME
  <2>1. NROOT * SP * SP \in Int
    BY VmAssumption
  <2> QED
    BY <2>1 DEF TRAMPOLINE, TRAPFRAME
<1>2. <<3, 0>> \notin Shared /\ <<2, PX(2, TRAMPOLINE)>> \notin Shared /\ <<1, PX(1, TRAMPOLINE)>> \notin Shared
  BY DEF Shared
<1>3. 1 \in 0 .. 2 /\ 2 \in 0 .. 2
  OBVIOUS
<1>4. <<3, 0>> \in Locs /\ \A i \in 0 .. 2 : <<i, PX(i, TRAMPOLINE)>> \in Locs
  <2>2. \A i \in 0 .. 2 : <<i, PX(i, TRAMPOLINE)>> \in Locs
    BY LocIs, Zenon
  <2>3. <<3, 0>> \in Locs
    BY DEF Locs
  <2> QED
    BY <2>2, <2>3, Zenon
<1>5. <<0, TRAMPOLINE>> # <<0, TRAPFRAME>>
  BY <1>1, Zenon
<1> QED
  BY <1>2, <1>3, <1>4, <1>5, Zenon

\* What proc_pagetable() makes of a location.
LEMMA NewEntries ==
  ASSUME NEW skip, NEW frame, NEW l \in Locs
  PROVE  LET e == proc_pagetable(skip, frame)[l]
         IN  \/ l = <<3, 0>> /\ e = PTE(Fresh(skip + 1), {})
             \/ l = <<2, PX(2, TRAMPOLINE)>> /\ e = PTE(Fresh(skip + 2), {})
             \/ l = <<1, PX(1, TRAMPOLINE)>> /\ e = PTE(Fresh(skip + 3), {})
             \/ l \in Shared /\ e \in {PTE(Trampoline, {"R", "X"}), PTE(frame, {"R", "W"})}
             \/ l # <<3, 0>> /\ e = Zero
<1> DEFINE e == proc_pagetable(skip, frame)[l]
<1>1. e = CASE l = <<3, 0>> -> PTE(Fresh(skip + 1), {})
            [] l = <<2, PX(2, TRAMPOLINE)>> -> PTE(Fresh(skip + 2), {})
            [] l = <<1, PX(1, TRAMPOLINE)>> -> PTE(Fresh(skip + 3), {})
            [] l = <<0, TRAMPOLINE>> -> PTE(Trampoline, {"R", "X"})
            [] l = <<0, TRAPFRAME>>  -> PTE(frame, {"R", "W"})
            [] OTHER -> Zero
  BY Zenon DEF proc_pagetable
<1> HIDE DEF e
<1>2. \/ l = <<3, 0>> /\ e = PTE(Fresh(skip + 1), {})
      \/ l = <<2, PX(2, TRAMPOLINE)>> /\ e = PTE(Fresh(skip + 2), {})
      \/ l = <<1, PX(1, TRAMPOLINE)>> /\ e = PTE(Fresh(skip + 3), {})
      \/ l = <<0, TRAMPOLINE>> /\ e = PTE(Trampoline, {"R", "X"})
      \/ l = <<0, TRAPFRAME>> /\ e = PTE(frame, {"R", "W"})
      \/ l # <<3, 0>> /\ e = Zero
  BY <1>1
<1> QED
  BY <1>2, Zenon DEF Shared, e

\* A page that belongs to no process, or no page.
LEMMA OwnsNothing ==
  ASSUME NEW t \in Tabs, NEW l \in Locs, l \in Shared \/ pt'[t][l] = Zero PROVE Owned(t, l)' = {}
<1>1. ~Valid(Zero)
  BY Zenon DEF Valid, Zero
<1> QED
  BY <1>1, Zenon DEF Owned

\* proc_pagetable() makes a table of frames of the freelist; the trapframe may
\* be another one of them.
LEMMA Creates ==
  ASSUME MemOK, NEW t \in Tabs, NEW skip \in {0, 1}, NEW frame \in Frames,
         pt' = [pt EXCEPT ![t] = proc_pagetable(skip, frame)],
         kalloc(3 + skip), super' = super, data' = data,
         \/ tf' = tf
         \/ skip = 1 /\ tf \in [Procs -> Frames \cup {NULL}] /\ \E c \in Procs : tf' = [tf EXCEPT ![c] = Fresh(1)]
  PROVE  MemOK' /\ ~Unused(t)' /\ \A u \in Tabs : u # t => (Unused(u)' <=> Unused(u))
<1> DEFINE E == proc_pagetable(skip, frame)
           G == {Fresh(i) : i \in 1 .. 3 + skip}
           L1 == <<1, PX(1, TRAMPOLINE)>>
           L2 == <<2, PX(2, TRAMPOLINE)>>
<1>1. 3 + skip \in 1 .. 4 /\ skip + 1 \in 1 .. 3 + skip /\ skip + 2 \in 1 .. 3 + skip /\ skip + 3 \in 1 .. 3 + skip
  OBVIOUS
<1>2. /\ free' \subseteq free /\ \A i \in 1 .. 3 + skip : Fresh(i) \in free /\ Fresh(i) \notin free'
      /\ \A i, j \in 1 .. 3 + skip : Fresh(i) = Fresh(j) => i = j
  BY <1>1, FreshFrames, Zenon DEF kalloc
<1>3. /\ Fresh(skip + 1) # Fresh(skip + 2) /\ Fresh(skip + 1) # Fresh(skip + 3) /\ Fresh(skip + 2) # Fresh(skip + 3)
      /\ {Fresh(skip + 1), Fresh(skip + 2), Fresh(skip + 3)} \subseteq G
      /\ skip = 1 => Fresh(1) \in G /\ Fresh(1) \notin {Fresh(skip + 1), Fresh(skip + 2), Fresh(skip + 3)}
  <2>1. skip + 1 # skip + 2 /\ skip + 1 # skip + 3 /\ skip + 2 # skip + 3
    OBVIOUS
  <2>2. skip = 1 => 1 \in 1 .. 3 + skip /\ 1 # skip + 1 /\ 1 # skip + 2 /\ 1 # skip + 3
    OBVIOUS
  <2>3. {Fresh(skip + 1), Fresh(skip + 2), Fresh(skip + 3)} \subseteq G
    BY <1>1, Zenon
  <2>4. skip = 1 => Fresh(1) \in G
    BY <2>2, Zenon
  <2> QED
    BY <1>1, <1>2, <2>1, <2>2, <2>3, <2>4, Zenon
<1>4. pt'[t] = E /\ \A u \in Tabs : u # t => pt'[u] = pt[u]
  BY OneTable, Zenon DEF MemOK, MemTypes
<1>5. \A l \in Locs : \/ l = <<3, 0>> /\ E[l] = PTE(Fresh(skip + 1), {})
                      \/ l = L2 /\ E[l] = PTE(Fresh(skip + 2), {})
                      \/ l = L1 /\ E[l] = PTE(Fresh(skip + 3), {})
                      \/ l \in Shared /\ E[l] \in {PTE(Trampoline, {"R", "X"}), PTE(frame, {"R", "W"})}
                      \/ l # <<3, 0>> /\ E[l] = Zero
  BY NewEntries, Zenon
<1>6. E = [l \in Locs |-> E[l]]
  BY DEF proc_pagetable
<1>7. <<3, 0>> \in Locs \ Shared
  BY SharedLocs, Zenon
<1> HIDE DEF E, L1, L2
<1>8. \A l \in Locs : \/ Owned(t, l)' = {}
                      \/ l = <<3, 0>> /\ Owned(t, l)' \subseteq {Fresh(skip + 1)}
                      \/ l = L2 /\ Owned(t, l)' \subseteq {Fresh(skip + 2)}
                      \/ l = L1 /\ Owned(t, l)' \subseteq {Fresh(skip + 3)}
  <2> SUFFICES ASSUME NEW l \in Locs
               PROVE  \/ Owned(t, l)' = {}
                      \/ l = <<3, 0>> /\ Owned(t, l)' \subseteq {Fresh(skip + 1)}
                      \/ l = L2 /\ Owned(t, l)' \subseteq {Fresh(skip + 2)}
                      \/ l = L1 /\ Owned(t, l)' \subseteq {Fresh(skip + 3)}
    BY Zenon
  <2>1. \A f : E[l] = PTE(f, {}) => Owned(t, l)' \subseteq {f}
    BY <1>4, OwnedPage, Zenon
  <2>2. l \in Shared \/ E[l] = Zero => Owned(t, l)' = {}
    BY <1>4, OwnsNothing, Zenon
  <2> QED
    BY <1>5, <2>1, <2>2, Zenon
<1>9. \A u \in Tabs : \A l \in Locs : u # t => Owned(u, l)' = Owned(u, l)
  BY <1>4, OwnedStays, Zenon
<1>10. G \subseteq free /\ G \cap free' = {} /\ G \cap Pool = {}
  BY <1>2 DEF MemOK, Exclusively, Apart
<1> HIDE DEF G
<1>11. \A u \in Tabs : \A l \in Locs : Owned(u, l)' \subseteq Owned(u, l) \cup G
  BY <1>3, <1>8, <1>9
<1>12. \A u \in Tabs : \A l \in Locs : \A f \in G :
         f \in Owned(u, l)' => u = t /\ \/ l = <<3, 0>> /\ f = Fresh(skip + 1)
                                        \/ l = L2 /\ f = Fresh(skip + 2)
                                        \/ l = L1 /\ f = Fresh(skip + 3)
  <2>1. \A u \in Tabs : \A l \in Locs : \A f \in G : f \notin Owned(u, l)
    BY <1>10, Zenon DEF MemOK, Exclusively, Loose
  <2> QED
    BY <1>8, <1>9, <2>1
<1>13. Pool' = Pool
  BY Zenon DEF Pool
<1>14. Exclusively'
  <2>1. \A u, v \in Tabs : \A l, m \in Locs : \A f \in G :
          f \in Owned(u, l)' /\ f \in Owned(v, m)' => u = v /\ l = m
    BY <1>3, <1>12
  <2>2. free' \cup Pool' \subseteq (free \cup Pool) \ G
    BY <1>2, <1>10, <1>13, Zenon
  <2>3. \A p \in Procs : \/ tf'[p] = tf[p]
                         \/ /\ tf'[p] \in G /\ \A u \in Tabs : \A l \in Locs : tf'[p] \notin Owned(u, l)'
                            /\ \A q \in Procs : q # p => tf'[q] = tf[q]
    <3>1. ASSUME skip = 1, tf \in [Procs -> Frames \cup {NULL}], NEW c \in Procs, tf' = [tf EXCEPT ![c] = Fresh(1)]
          PROVE  tf'[c] = Fresh(1) /\ \A q \in Procs : q # c => tf'[q] = tf[q]
      BY <3>1, Zenon
    <3>2. skip = 1 => \A u \in Tabs : \A l \in Locs : Fresh(1) \notin Owned(u, l)'
      BY <1>3, <1>12, Zenon
    <3> QED
      BY <1>3, <3>1, <3>2
  <2>4. Taken(G)
    BY <1>2, <1>10, <1>11, <1>13, <2>1, <2>2, <2>3, Zenon DEF Taken
  <2> QED
    BY <2>4, Takes, Zenon DEF MemOK
<1>15. \A l \in Locs : E[l] \in Entry /\ PTEOK(l, E[l])
  <2> SUFFICES ASSUME NEW l \in Locs PROVE E[l] \in Entry /\ PTEOK(l, E[l])
    BY Zenon
  <2>1. \A f \in Frames : PTE(f, {}) \in Entry /\ PTEOK(l, PTE(f, {}))
    BY PageOK, Zenon
  <2>2. {Fresh(skip + 1), Fresh(skip + 2), Fresh(skip + 3)} \subseteq Frames
    BY <1>3, <1>10, Zenon DEF MemOK, MemTypes
  <2>3. PTE(Trampoline, {"R", "X"}) \in Entry /\ PTE(frame, {"R", "W"}) \in Entry /\ Zero \in Entry
    BY Zenon DEF PTE, Zero, Entry, Flags
  <2>4. PTEOK(l, Zero)
    BY Zenon DEF PTEOK, Valid, Zero
  <2>5. l \in Shared => PTEOK(l, E[l])
    BY Zenon DEF PTEOK
  <2> QED
    BY <1>5, <2>1, <2>2, <2>3, <2>4, <2>5
<1>16. MemTypes'
  <2>1. E \in [Locs -> Entry]
    BY <1>6, <1>15, Zenon
  <2>2. pt' \in [Tabs -> [Locs -> Entry]]
    BY <2>1, Zenon DEF MemOK, MemTypes, E
  <2> QED
    BY <1>2, <2>2, Zenon DEF MemOK, MemTypes
<1>17. Entries'
  BY <1>4, <1>15, Zenon DEF MemOK, Entries
<1>18. ~Unused(t)'
  <2>1. E[<<3, 0>>] = PTE(Fresh(skip + 1), {})
    <3>1. <<3, 0>> # L2 /\ <<3, 0>> # L1
      BY DEF L1, L2
    <3> QED
      BY <1>5, <1>7, <3>1, Zenon
  <2>2. Valid(PTE(Fresh(skip + 1), {}))
    BY Zenon DEF Valid, PTE
  <2> QED
    BY <1>4, <2>1, <2>2, Zenon DEF Unused
<1>19. \A u \in Tabs : u # t => (Unused(u)' <=> Unused(u))
  BY <1>4, Zenon DEF Unused
<1> QED
  BY <1>14, <1>16, <1>17, <1>18, <1>19, Zenon DEF MemOK
\* What a PTE owns are frames.
LEMMA OwnedFrames == ASSUME MemOK, NEW t \in Tabs, NEW l \in Locs PROVE Owned(t, l) \subseteq Frames
<1>1. PTEOK(l, pt[t][l])
  BY Zenon DEF MemOK, Entries
<1>2. pt[t][l].pa \in Supers \X {0} => {pt[t][l].pa[1]} \X (0 .. SP - 1) \subseteq Frames
  BY Zenon DEF Frames
<1> QED
  BY <1>1, <1>2, Zenon DEF Owned, PTEOK

\* NULL is no frame.
LEMMA NullNoFrame == NULL \notin Frames
BY VmAssumption DEF Frames

\* uvmunmap() clears a PTE and gives back what it owns.
LEMMA ClearStep ==
  ASSUME MemOK, NEW t \in Tabs, NEW l \in Locs, l # <<3, 0>>, pt' = Cleared(t, l),
         free' \subseteq Frames, super' \subseteq Supers, data' \in [Frames -> Contents], tf' = tf,
         free' \cup Pool' \subseteq free \cup Pool \cup Owned(t, l), free' \cap Pool' = {}
  PROVE  MemOK' /\ RootsStay
<1>1. /\ pt'[t][l] = Zero /\ \A m \in Locs : m # l => pt'[t][m] = pt[t][m]
      /\ \A u \in Tabs : u # t => pt'[u] = pt[u]
  BY Zenon DEF Cleared, MemOK, MemTypes
<1>2. pt' \in [Tabs -> [Locs -> Entry]]
  <2>1. Zero \in Entry
    BY Zenon DEF Zero, Entry
  <2> QED
    BY <2>1, Zenon DEF Cleared, MemOK, MemTypes
<1>3. Owned(t, l)' = {}
  BY <1>1, OwnsNothing, Zenon
<1>4. \A u \in Tabs : \A m \in Locs : u # t \/ m # l => Owned(u, m)' = Owned(u, m)
  BY <1>1, OwnedStays, Zenon
<1>5. Exclusively'
  <2> DEFINE G == Owned(t, l)
  <2>1. G \subseteq Frames
    BY OwnedFrames, Zenon
  <2>2. \A u \in Tabs : \A m \in Locs : Owned(u, m)' \subseteq Owned(u, m) \ G
    <3>1. \A u \in Tabs : \A m \in Locs : u # t \/ m # l => Owned(u, m) \cap G = {}
      BY <2>1, Zenon DEF MemOK, Exclusively, Single
    <3> QED
      BY <1>3, <1>4, <3>1
  <2>3. \A p \in Procs : tf'[p] = NULL \/ (tf'[p] = tf[p] /\ tf[p] \notin G)
    BY Zenon DEF MemOK, Exclusively, Trapframes
  <2>4. NULL \notin free \cup Pool \cup G
    <3>1. Pool \subseteq Frames
      BY Zenon DEF Pool, Frames, MemOK, MemTypes
    <3> QED
      BY <2>1, <3>1, NullNoFrame, Zenon DEF MemOK, MemTypes
  <2> HIDE DEF G
  <2>5. free' \cup Pool' \subseteq free \cup Pool \cup G
    BY Zenon DEF G
  <2>6. Given(G)
    BY <2>2, <2>3, <2>4, <2>5, Zenon DEF Given
  <2> QED
    BY <2>6, Gives, Zenon DEF MemOK
<1>6. Entries'
  <2>1. PTEOK(l, Zero)
    BY Zenon DEF PTEOK, Valid, Zero
  <2> QED
    BY <1>1, <2>1, Zenon DEF MemOK, Entries
<1>7. RootsStay
  <2>1. <<3, 0>> \in Locs
    BY DEF Locs
  <2> QED
    BY <1>1, <2>1, Zenon DEF RootsStay, Unused
<1> QED
  BY <1>2, <1>5, <1>6, <1>7, Zenon DEF MemOK, MemTypes

\* freewalk() gives back the pages of a table without leaves, and the caller
\* of proc_freepagetable() perhaps a trapframe.
LEMMA FreeTable ==
  ASSUME MemOK, NEW t \in Tabs, NEW F, freewalk(t, F), super' = super,
         \/ F = {} /\ tf' = tf
         \/ /\ tf \in [Procs -> Frames \cup {NULL}]
            /\ \E c \in Procs : F = {tf[c]} /\ tf[c] # NULL /\ tf' = [tf EXCEPT ![c] = NULL]
  PROVE  MemOK' /\ Unused(t)' /\ \A u \in Tabs : u # t => (Unused(u)' <=> Unused(u))
<1> DEFINE P == {pt[t][l].pa : l \in {m \in Locs \ Shared : Valid(pt[t][m])}}
           G == F \cup P
<1>1. /\ ~LeafLeft(t) /\ free' = free \cup G
      /\ data' = [f \in Frames |-> IF f \in G THEN "junk" ELSE data[f]]
      /\ pt' = [pt EXCEPT ![t] = [l \in Locs |-> Zero]]
  BY Zenon DEF freewalk, kfree
<1>2. \A f \in P : \E l \in Locs : f \in Owned(t, l)
  BY <1>1, Zenon DEF LeafLeft, Owned
<1>3. P \subseteq Frames
  BY DEF MemOK, Entries, PTEOK
<1> HIDE DEF P
<1>4. G \subseteq Frames /\ \A p \in Procs : tf'[p] = NULL \/ (tf'[p] = tf[p] /\ tf[p] \notin G)
  <2>1. \A p \in Procs : tf[p] = NULL \/ tf[p] \notin P
    BY <1>2, Zenon DEF MemOK, Exclusively, Trapframes
  <2>2. CASE F = {} /\ tf' = tf
    BY <1>3, <2>1, <2>2, Zenon
  <2>3. ASSUME tf \in [Procs -> Frames \cup {NULL}], NEW c \in Procs,
               F = {tf[c]}, tf[c] # NULL, tf' = [tf EXCEPT ![c] = NULL]
        PROVE  G \subseteq Frames /\ \A p \in Procs : tf'[p] = NULL \/ (tf'[p] = tf[p] /\ tf[p] \notin G)
    <3>1. tf'[c] = NULL /\ \A p \in Procs : p # c => tf'[p] = tf[p]
      BY <2>3, Zenon
    <3>2. tf[c] \in Frames
      BY <2>3, Zenon
    <3>3. \A p \in Procs : tf[p] = tf[c] => p = c
      BY <2>3, Zenon DEF MemOK, Exclusively, Trapframes
    <3> QED
      BY <1>3, <2>1, <2>3, <3>1, <3>2, <3>3, Zenon
  <2> QED
    BY <2>2, <2>3, Zenon
<1>5. (\A l \in Locs : pt'[t][l] = Zero) /\ \A u \in Tabs : u # t => pt'[u] = pt[u]
  <2>1. pt'[t] = [l \in Locs |-> Zero] /\ \A u \in Tabs : u # t => pt'[u] = pt[u]
    BY <1>1, OneTable, Zenon DEF MemOK, MemTypes
  <2> QED
    BY <2>1, Zenon
<1>6. \A l \in Locs : Owned(t, l)' = {}
  BY <1>5, OwnsNothing, Zenon
<1>7. \A u \in Tabs : \A l \in Locs : u # t => Owned(u, l)' = Owned(u, l)
  BY <1>5, OwnedStays, Zenon
<1>8. \A u \in Tabs : \A l \in Locs : u # t => Owned(u, l) \cap G = {}
  <2>1. \A u \in Tabs : \A l \in Locs : u # t => Owned(u, l) \cap P = {}
    BY <1>2, <1>3 DEF MemOK, Exclusively, Single
  <2>2. \A u \in Tabs : \A l \in Locs : Owned(u, l) \cap F = {}
    BY DEF MemOK, Exclusively, Trapframes
  <2> QED
    BY <2>1, <2>2, Zenon
<1>9. Pool \subseteq Frames /\ Pool' = Pool
  BY Zenon DEF Pool, Frames, MemOK, MemTypes
<1>10. G \cap Pool = {}
  <2>1. P \cap Pool = {}
    BY <1>2, Zenon DEF MemOK, Exclusively, Loose
  <2>2. F \cap Pool = {}
    BY Zenon DEF MemOK, Exclusively, Loose
  <2> QED
    BY <2>1, <2>2, Zenon
<1> HIDE DEF G
<1>11. Exclusively'
  <2>1. \A u \in Tabs : \A l \in Locs : Owned(u, l)' \subseteq Owned(u, l) \ G
    BY <1>6, <1>7, <1>8
  <2>2. NULL \notin free \cup Pool \cup G
    BY <1>4, <1>9, NullNoFrame, Zenon DEF MemOK, MemTypes
  <2>3. free' \cup Pool' \subseteq free \cup Pool \cup G /\ free' \cap Pool' = {}
    BY <1>1, <1>9, <1>10, Zenon DEF MemOK, Exclusively, Apart
  <2>4. Given(G)
    BY <1>4, <2>1, <2>2, <2>3, Zenon DEF Given
  <2> QED
    BY <2>4, Gives, Zenon DEF MemOK
<1>12. MemTypes'
  <2>1. Zero \in Entry /\ "junk" \in Contents
    BY Zenon DEF Zero, Entry, Contents
  <2>2. pt' \in [Tabs -> [Locs -> Entry]]
    BY <1>1, <2>1, Zenon DEF MemOK, MemTypes
  <2>3. data' \in [Frames -> Contents]
    BY <1>1, <2>1, Zenon DEF MemOK, MemTypes
  <2> QED
    BY <1>1, <1>4, <2>2, <2>3, Zenon DEF MemOK, MemTypes
<1>13. Entries'
  <2>1. \A l \in Locs : PTEOK(l, Zero)
    BY Zenon DEF PTEOK, Valid, Zero
  <2> QED
    BY <1>5, <2>1, Zenon DEF MemOK, Entries
<1>14. Unused(t)'
  <2>1. <<3, 0>> \in Locs /\ ~Valid(Zero)
    <3>1. ~Valid(Zero)
      BY Zenon DEF Valid, Zero
    <3> QED
      BY <3>1 DEF Locs
  <2> QED
    BY <1>5, <2>1, Zenon DEF Unused
<1>15. \A u \in Tabs : u # t => (Unused(u)' <=> Unused(u))
  BY <1>5, Zenon DEF Unused
<1> QED
  BY <1>11, <1>12, <1>13, <1>14, <1>15, Zenon DEF MemOK
\* A step that leaves tables, pools and trapframes alone.
LEMMA QuietStep ==
  ASSUME MemOK, UNCHANGED <<free, super, pt, tf>>, data' \in [Frames -> Contents] PROVE MemOK' /\ RootsStay
<1>1. \A t \in Tabs : \A l \in Locs : Owned(t, l)' = Owned(t, l)
  BY OwnedStays, Zenon
<1>2. Exclusively'
  BY <1>1 DEF MemOK, Exclusively, Single, Trapframes, Loose, Apart, Pool
<1>3. MemTypes' /\ Entries' /\ RootsStay
  BY Zenon DEF MemOK, MemTypes, Entries, RootsStay, Unused
<1> QED
  BY <1>2, <1>3, Zenon DEF MemOK

\* freeproc() gives a trapframe back.
LEMMA FreeFrame ==
  ASSUME MemOK, tf \in [Procs -> Frames \cup {NULL}], NEW p \in Procs, tf[p] # NULL,
         kfree({tf[p]}), tf' = [tf EXCEPT ![p] = NULL], UNCHANGED <<super, pt>>
  PROVE  MemOK' /\ RootsStay
<1> DEFINE G == {tf[p]}
<1>1. tf'[p] = NULL /\ \A q \in Procs : q # p => tf'[q] = tf[q]
  BY Zenon
<1>2. G \subseteq Frames /\ free' = free \cup G /\ data' = [f \in Frames |-> IF f \in G THEN "junk" ELSE data[f]]
  BY Zenon DEF kfree
<1>3. \A t \in Tabs : \A l \in Locs : Owned(t, l)' = Owned(t, l)
  BY OwnedStays, Zenon
<1>4. Pool' = Pool /\ Pool \subseteq Frames
  BY Zenon DEF Pool, Frames, MemOK, MemTypes
<1>5. Given(G)
  <2>1. \A t \in Tabs : \A l \in Locs : Owned(t, l)' \subseteq Owned(t, l) \ G
    BY <1>3 DEF MemOK, Exclusively, Trapframes
  <2>2. \A q \in Procs : tf'[q] = NULL \/ (tf'[q] = tf[q] /\ tf[q] \notin G)
    BY <1>1, Zenon DEF MemOK, Exclusively, Trapframes
  <2>3. NULL \notin free \cup Pool \cup G
    BY <1>2, <1>4, NullNoFrame, Zenon DEF MemOK, MemTypes
  <2>4. G \cap Pool = {}
    BY Zenon DEF MemOK, Exclusively, Loose
  <2>5. free' \cap Pool' = {} /\ free' \cup Pool' \subseteq free \cup Pool \cup G
    BY <1>2, <1>4, <2>4, Zenon DEF MemOK, Exclusively, Apart
  <2> HIDE DEF G
  <2> QED
    BY <2>1, <2>2, <2>3, <2>5, Zenon DEF Given
<1>6. Exclusively'
  BY <1>5, Gives, Zenon DEF MemOK
<1>7. MemTypes' /\ Entries' /\ RootsStay
  <2>1. data' \in [Frames -> Contents]
    BY <1>2, Zenon DEF MemOK, MemTypes, Contents
  <2> QED
    BY <1>2, <2>1, Zenon DEF MemOK, MemTypes, Entries, RootsStay, Unused
<1> QED
  BY <1>6, <1>7, Zenon DEF MemOK

\* uvmclear() takes a page from the user, and from nobody else.
LEMMA GuardStep ==
  ASSUME MemOK, NEW t \in Tabs, NEW l \in Locs, pt' = [pt EXCEPT ![t][l].flags = @ \ {"U"}],
         UNCHANGED <<free, super, tf>>, data' \in [Frames -> Contents]
  PROVE  MemOK' /\ RootsStay
<1>1. pt[t][l] \in Entry
  BY Zenon DEF MemOK, MemTypes
<1>2. /\ pt'[t][l].pa = pt[t][l].pa /\ pt'[t][l].flags = pt[t][l].flags \ {"U"} /\ pt'[t][l] \in Entry
      /\ \A m \in Locs : m # l => pt'[t][m] = pt[t][m]
      /\ \A u \in Tabs : u # t => pt'[u] = pt[u]
  BY <1>1, Zenon DEF MemOK, MemTypes, Entry
<1>3. pt' \in [Tabs -> [Locs -> Entry]]
  <2>1. [pt[t][l] EXCEPT !.flags = pt[t][l].flags \ {"U"}] \in Entry
    BY <1>1, Zenon DEF Entry
  <2> QED
    BY <2>1, Zenon DEF MemOK, MemTypes
<1>4. (Valid(pt'[t][l]) <=> Valid(pt[t][l])) /\ (PTE_LEAF(pt'[t][l]) <=> PTE_LEAF(pt[t][l]))
  BY <1>2, Zenon DEF Valid, PTE_LEAF
<1>5. \A u \in Tabs : \A m \in Locs : Owned(u, m)' = Owned(u, m)
  <2>1. Owned(t, l)' = Owned(t, l)
    BY <1>2, <1>4, Zenon DEF Owned
  <2> QED
    BY <1>2, <2>1, OwnedStays, Zenon
<1>6. Exclusively'
  BY <1>5 DEF MemOK, Exclusively, Single, Trapframes, Loose, Apart, Pool
<1>7. Entries'
  <2>1. PTEOK(l, pt'[t][l])
    BY <1>2, <1>4, Zenon DEF MemOK, Entries, PTEOK
  <2> QED
    BY <1>2, <2>1, Zenon DEF MemOK, Entries
<1>8. RootsStay
  <2>1. <<3, 0>> \in Locs
    BY DEF Locs
  <2> QED
    BY <1>2, <1>4, <2>1, Zenon DEF RootsStay, Unused
<1> QED
  BY <1>3, <1>6, <1>7, <1>8, Zenon DEF MemOK, MemTypes
-----------------------------------------------------------------------------
(* Processes.                                                              *)

\* A step of the processes in S leaves what the others have alone.
Only(S) == /\ load' = load
           /\ \A q \in Procs \ S : /\ pc'[q] = pc[q] /\ k'[q] = k[q] /\ cur'[q] = cur[q]
                                   /\ sz'[q] = sz[q] /\ tf'[q] = tf[q]

\* What it means for the other processes.
Bystanders(S) ==
  \A q \in Procs \ S : /\ WorksOn(q)' /\ InRange(q)' /\ (Forking(q)' <=> Forking(q))
                       /\ k'[q] = k[q] /\ cur'[q] = cur[q] /\ Ex(q)' = Ex(q)

\* A step that touches no child that a process outside S is filling.
LEMMA Others ==
  ASSUME ProcOK, NEW S, Only(S), \A q \in Procs \ S : Forking(q) => k[q].child \notin S
  PROVE  Bystanders(S)
<1> SUFFICES ASSUME NEW q \in Procs \ S
             PROVE  /\ WorksOn(q)' /\ InRange(q)' /\ (Forking(q)' <=> Forking(q))
                    /\ k'[q] = k[q] /\ cur'[q] = cur[q] /\ Ex(q)' = Ex(q)
  BY Zenon DEF Bystanders
<1>1. pc'[q] = pc[q] /\ k'[q] = k[q] /\ cur'[q] = cur[q] /\ sz'[q] = sz[q] /\ tf'[q] = tf[q] /\ load' = load
  BY Zenon DEF Only
<1>2. /\ (Resting(q)' <=> Resting(q)) /\ (AtHome(q)' <=> AtHome(q)) /\ (Forking(q)' <=> Forking(q))
      /\ (Execing(q)' <=> Execing(q)) /\ (Freeing(q)' <=> Freeing(q))
  BY <1>1, Zenon DEF Resting, AtHome, Forking, Execing, Freeing
<1>3. WorksOn(q) /\ InRange(q)
  BY Zenon DEF ProcOK, Works, Ranges
<1>4. Forking(q) => k[q].child \in Procs \ S
  BY <1>3, Zenon DEF WorksOn
<1>5. Forking(q) => pc'[k[q].child] = pc[k[q].child] /\ cur'[k[q].child] = cur[k[q].child]
  BY <1>4, Zenon DEF Only
<1>6. WorksOn(q)'
  BY <1>1, <1>2, <1>3, <1>5, Zenon DEF WorksOn
<1>7. InRange(q)'
  BY <1>1, <1>3, Zenon DEF InRange, Fits
<1>8. Ex(q)' = Ex(q)
  BY <1>1, <1>2, Zenon DEF Ex
<1> QED
  BY <1>1, <1>2, <1>6, <1>7, <1>8, Zenon

\* A step of one process.
LEMMA OneProc ==
  ASSUME ProcOK, NEW p \in Procs, pc[p] # "embryo", Only({p}) PROVE Bystanders({p})
<1>1. \A q \in Procs \ {p} : Forking(q) => k[q].child # p
  BY DEF ProcOK, Works, WorksOn
<1> QED
  BY <1>1, Others, Zenon

\* What is left to show of such a step.
LEMMA OneProcOK ==
  ASSUME ProcOK, NEW p \in Procs, Bystanders({p}), ProcTypes', WorksOn(p)', InRange(p)', Tables',
         Forking(p)' => Forking(p) /\ k'[p].child = k[p].child
  PROVE  ProcOK'
<1>1. Works' /\ Ranges'
  BY Zenon DEF Works, Ranges, Bystanders
<1>2. \A q \in Procs : Forking(q)' => Forking(q) /\ k'[q].child = k[q].child
  BY Zenon DEF Bystanders
<1>3. Parents'
  BY <1>2, Zenon DEF ProcOK, Parents
<1> QED
  BY <1>1, <1>3, Zenon DEF ProcOK

\* Tables when nothing changes hands.
LEMMA TablesStay ==
  ASSUME Tables, RootsStay, \A q \in Procs : cur'[q] = cur[q] /\ Ex(q)' = Ex(q) PROVE Tables'
<1>1. Distinct'
  BY DEF Tables, Distinct
<1>2. Match'
  BY Zenon DEF Tables, Match, RootsStay
<1> QED
  BY <1>1, <1>2, Zenon DEF Tables

\* A process without a table, or without one for its exec(), gets a new one.
LEMMA TablesGrow ==
  ASSUME Tables, NEW t \in Tabs, NEW c \in Procs, Unused(t), ~Unused(t)', t # NULL,
         \A u \in Tabs : u # t => (Unused(u)' <=> Unused(u)),
         \A q \in Procs : q # c => cur'[q] = cur[q] /\ Ex(q)' = Ex(q),
         \/ cur[c] = NULL /\ cur'[c] = t /\ Ex(c)' = Ex(c)
         \/ Ex(c) = NULL /\ Ex(c)' = t /\ cur'[c] = cur[c]
  PROVE  Tables'
<1>1. \A q \in Procs : cur[q] # t /\ Ex(q) # t
  BY Zenon DEF Tables, Match
<1>2. Distinct'
  BY <1>1 DEF Tables, Distinct
<1>3. Match'
  <2> SUFFICES ASSUME NEW u \in Tabs PROVE (~Unused(u) <=> \E p \in Procs : cur[p] = u \/ Ex(p) = u)'
    BY Zenon DEF Match
  <2>1. CASE u = t
    BY <2>1, Zenon
  <2>2. CASE u # t
    <3>1. u # NULL
      BY VmAssumption, Zenon
    <3>2. \A q \in Procs : (cur'[q] = u \/ Ex(q)' = u) <=> (cur[q] = u \/ Ex(q) = u)
      BY <2>2, <3>1, Zenon
    <3> QED
      BY <2>2, <3>2, Zenon DEF Tables, Match
  <2> QED
    BY <2>1, <2>2, Zenon
<1> QED
  BY <1>2, <1>3, Zenon DEF Tables

\* A process gives up a table, of its own or of its exec().
LEMMA TablesShrink ==
  ASSUME Tables, NEW t \in Tabs, NEW c \in Procs, Unused(t)', t # NULL,
         \A u \in Tabs : u # t => (Unused(u)' <=> Unused(u)),
         \A q \in Procs : q # c => cur'[q] = cur[q] /\ Ex(q)' = Ex(q),
         \/ cur[c] = t /\ cur'[c] = NULL /\ Ex(c)' = Ex(c)
         \/ Ex(c) = t /\ Ex(c)' = NULL /\ cur'[c] = cur[c]
  PROVE  Tables'
<1>1. \A p, q \in Procs : /\ cur[p] = cur[q] /\ cur[p] # NULL => p = q
                          /\ Ex(p) # NULL => Ex(p) # cur[q]
                          /\ Ex(p) = Ex(q) /\ Ex(p) # NULL => p = q
  BY Zenon DEF Tables, Distinct
<1>2. \A q \in Procs : cur'[q] \in {cur[q], NULL} /\ Ex(q)' \in {Ex(q), NULL}
  BY Zenon
<1>3. Distinct'
  BY <1>1, <1>2 DEF Distinct
<1>4. \A q \in Procs : cur'[q] # t /\ Ex(q)' # t
  <2>1. CASE cur[c] = t /\ cur'[c] = NULL /\ Ex(c)' = Ex(c)
    <3> SUFFICES ASSUME NEW q \in Procs PROVE cur'[q] # t /\ Ex(q)' # t
      BY Zenon
    <3>1. CASE q = c
      BY <1>1, <2>1, <3>1, Zenon
    <3>2. CASE q # c
      BY <1>1, <2>1, <3>2, Zenon
    <3> QED
      BY <3>1, <3>2, Zenon
  <2>2. CASE Ex(c) = t /\ Ex(c)' = NULL /\ cur'[c] = cur[c]
    <3> SUFFICES ASSUME NEW q \in Procs PROVE cur'[q] # t /\ Ex(q)' # t
      OBVIOUS
    <3>1. CASE q = c
      BY <1>1, <2>2, <3>1, Zenon
    <3>2. CASE q # c
      BY <1>1, <2>2, <3>2, Zenon
    <3> QED
      BY <3>1, <3>2
  <2> QED
    BY <2>1, <2>2, Zenon
<1>5. Match'
  <2> SUFFICES ASSUME NEW u \in Tabs PROVE (~Unused(u) <=> \E p \in Procs : cur[p] = u \/ Ex(p) = u)'
    BY Zenon DEF Match
  <2>1. CASE u = t
    BY <1>4, <2>1, Zenon
  <2>2. CASE u # t
    <3>1. u # NULL
      BY VmAssumption, Zenon
    <3>2. \A q \in Procs : (cur'[q] = u \/ Ex(q)' = u) <=> (cur[q] = u \/ Ex(q) = u)
      BY <2>2, <3>1, Zenon
    <3> QED
      BY <2>2, <3>2, Zenon DEF Tables, Match
  <2> QED
    BY <2>1, <2>2, Zenon
<1> QED
  BY <1>3, <1>5, Zenon DEF Tables

\* exec() commits: the new table becomes the process's, the old one goes.
LEMMA TablesSwap ==
  ASSUME Tables, RootsStay, NEW c \in Procs, cur'[c] = Ex(c), Ex(c)' = cur[c], cur[c] # NULL, Ex(c) # NULL,
         \A q \in Procs : q # c => cur'[q] = cur[q] /\ Ex(q)' = Ex(q)
  PROVE  Tables'
<1>1. Distinct'
  <2>1. \A p, q \in Procs : /\ cur[p] = cur[q] /\ cur[p] # NULL => p = q
                            /\ Ex(p) # NULL => Ex(p) # cur[q]
                            /\ Ex(p) = Ex(q) /\ Ex(p) # NULL => p = q
    BY Zenon DEF Tables, Distinct
  <2> SUFFICES ASSUME NEW p \in Procs, NEW q \in Procs
               PROVE  /\ cur'[p] = cur'[q] /\ cur'[p] # NULL => p = q
                      /\ Ex(p)' # NULL => Ex(p)' # cur'[q]
                      /\ Ex(p)' = Ex(q)' /\ Ex(p)' # NULL => p = q
    BY Zenon DEF Distinct
  <2>2. CASE p = c /\ q = c
    BY <2>1, <2>2, Zenon
  <2>3. CASE p = c /\ q # c
    BY <2>1, <2>3, Zenon
  <2>4. CASE p # c /\ q = c
    BY <2>1, <2>4
  <2>5. CASE p # c /\ q # c
    BY <2>1, <2>5
  <2> QED
    BY <2>2, <2>3, <2>4, <2>5, Zenon
<1>2. \A u : (\E q \in Procs : cur'[q] = u \/ Ex(q)' = u) <=> (\E q \in Procs : cur[q] = u \/ Ex(q) = u)
  BY Zenon
<1>3. Match'
  BY <1>2, Zenon DEF Tables, Match, RootsStay
<1> QED
  BY <1>1, <1>3, Zenon DEF Tables

\* NewTable is in nobody's hands.
LEMMA NewTableIs ==
  ASSUME \E u \in Tabs : Unused(u) PROVE NewTable \in Tabs /\ Unused(NewTable) /\ NewTable # NULL
BY VmAssumption, Zenon DEF NewTable
\* The locals of a process that is in no call.
LEMMA IdleIs ==
  /\ Idle \in Locals /\ Idle.t = NULL /\ Idle.child = NULL /\ Idle.segs = <<>> /\ Idle.brk = 0 /\ Idle.a = 0
  /\ Idle.end = 0 /\ Idle.lo = 0 /\ Idle.perm = {} /\ Idle.call = ""
BY DEF Idle, Locals, Calls, Segments

\* A process goes to a place with new locals.
LEMMA Entered ==
  ASSUME ProcTypes, NEW p \in Procs, NEW place \in Places, NEW r \in Locals, Enter(p, place, r)
  PROVE  /\ pc'[p] = place /\ k'[p] = r /\ pc' \in [Procs -> Places] /\ k' \in [Procs -> Locals] /\ load' = load
         /\ \A q \in Procs \ {p} : pc'[q] = pc[q] /\ k'[q] = k[q]
BY Zenon DEF ProcTypes, Enter

\* A loop goes on.
LEMMA Stepped ==
  ASSUME ProcTypes, NEW p \in Procs, NEW n \in Nat, Step(p, n)
  PROVE  /\ pc' = pc /\ k' \in [Procs -> Locals] /\ load' = load /\ \A q \in Procs \ {p} : k'[q] = k[q]
         /\ k'[p] = [k[p] EXCEPT !.a = k[p].a + n]
<1>1. k[p] \in Locals
  BY Zenon DEF ProcTypes
<1>2. [k[p] EXCEPT !.a = k[p].a + n] \in Locals
  <2>1. k[p].a \in Nat
    BY <1>1, Zenon DEF Locals
  <2>2. k[p].a + n \in Nat
    BY <2>1
  <2> QED
    BY <1>1, <2>2, Zenon DEF Locals
<1>3. k' = [k EXCEPT ![p] = [k[p] EXCEPT !.a = k[p].a + n]]
  BY Zenon DEF Step
<1> QED
  BY <1>2, <1>3, Zenon DEF ProcTypes, Step

\* A step of p alone, with its types.
Moved(p) ==
  /\ load' = load /\ pc' \in [Procs -> Places] /\ k' \in [Procs -> Locals] /\ sz' \in [Procs -> Nat]
  /\ cur' \in [Procs -> Tabs \cup {NULL}] /\ tf' \in [Procs -> Frames \cup {NULL}]
  /\ \A q \in Procs \ {p} : /\ pc'[q] = pc[q] /\ k'[q] = k[q] /\ cur'[q] = cur[q]
                            /\ sz'[q] = sz[q] /\ tf'[q] = tf[q]

\* What a step of p alone leaves to show.
LEMMA MovedOK ==
  ASSUME ProcOK, NEW p \in Procs, pc[p] # "embryo", Moved(p), WorksOn(p)', InRange(p)', Bystanders({p}) => Tables',
         Forking(p)' => Forking(p) /\ k'[p].child = k[p].child
  PROVE  ProcOK'
<1>1. Only({p}) /\ ProcTypes'
  BY Zenon DEF Only, Moved, ProcOK, ProcTypes
<1>2. Bystanders({p})
  BY <1>1, OneProc, Zenon
<1> QED
  BY <1>1, <1>2, OneProcOK, Zenon

\* A step within a call.
Goes(p) ==
  /\ Moved(p) /\ cur' = cur /\ sz' = sz /\ tf' = tf /\ RootsStay
  /\ ~Resting(p) /\ ~Resting(p)' /\ (AtHome(p)' <=> AtHome(p)) /\ (Forking(p)' <=> Forking(p))
  /\ (Execing(p)' <=> Execing(p)) /\ (Freeing(p)' <=> Freeing(p))
  /\ k'[p].t = k[p].t /\ (Forking(p) => k'[p].child = k[p].child)

\* Such a step changes nobody's tables.
LEMMA SameCall == ASSUME ProcOK, NEW p \in Procs, Goes(p), InRange(p)' PROVE ProcOK'
<1> USE DEF Goes
<1>1. WorksOn(p) /\ pc[p] # "embryo" /\ pc[p] # "unused"
  BY Zenon DEF ProcOK, Works, Resting
<1>2. Forking(p) => /\ k[p].child \in Procs \ {p} /\ pc'[k[p].child] = pc[k[p].child]
                    /\ cur'[k[p].child] = cur[k[p].child]
  BY <1>1, Zenon DEF WorksOn, Moved
<1>3. pc'[p] # "unused"
  BY Zenon DEF Resting
<1>4. WorksOn(p)'
  BY <1>1, <1>2, <1>3, Zenon DEF WorksOn
<1>5. Ex(p)' = Ex(p)
  BY Zenon DEF Ex
<1>6. Bystanders({p}) => Tables'
  <2> SUFFICES ASSUME Bystanders({p}) PROVE Tables'
    BY Zenon
  <2>1. \A q \in Procs : cur'[q] = cur[q] /\ Ex(q)' = Ex(q)
    BY <1>5, Zenon DEF Bystanders
  <2> QED
    BY <2>1, TablesStay, Zenon DEF ProcOK
<1> QED
  BY <1>1, <1>4, <1>6, MovedOK, Zenon

\* A step between user code and a call on the process's own table.
AtHomeStep(p) ==
  /\ Moved(p) /\ cur' = cur /\ RootsStay
  /\ pc[p] = "user" \/ AtHome(p)
  /\ \/ pc'[p] = "user" /\ k'[p].t = NULL
     \/ AtHome(p)' /\ k'[p].t = cur[p]
  /\ IF Freeing(p)' THEN tf'[p] = NULL ELSE tf'[p] \in Frames

\* Nor does that one.
LEMMA HomeStep == ASSUME ProcOK, NEW p \in Procs, AtHomeStep(p), InRange(p)' PROVE ProcOK'
<1> USE DEF AtHomeStep
<1>1. WorksOn(p) /\ pc[p] # "embryo" /\ pc[p] # "unused" /\ pc'[p] # "unused"
  BY Zenon DEF ProcOK, Works, AtHome
<1>2. ~Execing(p) /\ ~Execing(p)' /\ ~Forking(p)'
  BY Zenon DEF AtHome, Execing, Forking
<1>3. Resting(p)' => pc'[p] = "user" /\ k'[p].t = NULL
  BY Zenon DEF AtHome, Resting
<1>4. AtHome(p)' => k'[p].t = cur[p]
  BY Zenon DEF AtHome
<1>5. Resting(p)' \/ AtHome(p)'
  BY Zenon DEF Resting
<1>6. WorksOn(p)'
  BY <1>1, <1>2, <1>3, <1>4, <1>5, Zenon DEF WorksOn
<1>7. Ex(p)' = Ex(p)
  BY <1>2, Zenon DEF Ex
<1>8. Bystanders({p}) => Tables'
  <2> SUFFICES ASSUME Bystanders({p}) PROVE Tables'
    BY Zenon
  <2>1. \A q \in Procs : cur'[q] = cur[q] /\ Ex(q)' = Ex(q)
    BY <1>7, Zenon DEF Bystanders
  <2> QED
    BY <2>1, TablesStay, Zenon DEF ProcOK
<1> QED
  BY <1>1, <1>2, <1>6, <1>8, MovedOK, Zenon
-----------------------------------------------------------------------------
(* The bounds of the loops.                                                *)

\* The bound of a workload.
LEMMA MaxIs ==
  ASSUME ProcTypes
  PROVE  /\ load.max \in Nat /\ PGSIZE <= load.max /\ load.max <= MaxSize /\ MaxSize \in Nat
         /\ PGROUNDUP(load.max) \in Nat /\ PGROUNDUP(MaxSize) \in Nat /\ PGROUNDUP(load.max) <= PGROUNDUP(MaxSize)
<1>1. load.max \in Nat /\ PGSIZE <= load.max /\ load.max <= MaxSize /\ MaxSize \in Nat
  <2>1. load.max \in PGSIZE .. MaxSize /\ PGSIZE \in Nat /\ MaxSize \in Nat
    BY WorkloadAssumption, VmAssumption, Zenon DEF ProcTypes
  <2> QED
    BY <2>1
<1> QED
  BY <1>1, RoundUp, RoundUpOrder, Zenon

\* A program without segments.
LEMMA NoSegs == ASSUME NEW s, s = <<>>, NEW P, NEW i \in 1 .. Len(s) PROVE P
OBVIOUS

\* The bounds of a process that is in no loop.
LEMMA RestRange ==
  ASSUME ProcOK, NEW p \in Procs, load' = load, sz'[p] <= load.max,
         pc'[p] \in {"unused", "embryo", "first", "user", "copy"},
         k'[p].segs = <<>> \/ k'[p].segs = k[p].segs
  PROVE  InRange(p)'
<1>1. \A i \in 1 .. Len(k[p].segs) : Fits(load, k[p].segs[i].vaddr * PGSIZE + k[p].segs[i].memsz)
  BY Zenon DEF ProcOK, Ranges, InRange
<1>2. \A i \in 1 .. Len(k'[p].segs) : Fits(load, k'[p].segs[i].vaddr * PGSIZE + k'[p].segs[i].memsz)
  <2>1. CASE k'[p].segs = <<>>
    BY <2>1, NoSegs, Zenon
  <2>2. CASE k'[p].segs = k[p].segs
    BY <1>1, <2>2, Zenon
  <2> QED
    BY <2>1, <2>2, Zenon
<1>3. pc'[p] \notin {"alloc", "unmap", "exec"}
  BY Zenon
<1> QED
  BY <1>2, <1>3, Zenon DEF InRange, Fits

\* The bounds of a process that starts to unmap.
LEMMA UnmapRange ==
  ASSUME NEW p \in Procs, load' = load, sz'[p] <= load.max, pc'[p] = "unmap", k'[p].segs = <<>>,
         k'[p].end <= PGROUNDUP(load.max), k'[p].call \in {"free", "exec"} \/ k'[p].brk <= load.max
  PROVE  InRange(p)'
<1>1. \A i \in 1 .. Len(k'[p].segs) : Fits(load, k'[p].segs[i].vaddr * PGSIZE + k'[p].segs[i].memsz)
  BY NoSegs, Zenon
<1>2. k'[p].call \in {"seg", "stack", "shrink"} => k'[p].brk <= load.max
  BY Zenon
<1> QED
  BY <1>1, <1>2, Zenon DEF InRange, Fits

\* A superpage that fits in s bytes.
LEMMA SuperBelow ==
  ASSUME NEW s \in Nat, NEW a \in Nat, s - a * PGSIZE >= SUPERPGSIZE PROVE a + SP <= PGROUNDUP(s)
<1>1. PGROUNDUP(s) \in Nat /\ s <= PGROUNDUP(s) * PGSIZE /\ PGSIZE \in Nat \ {0} /\ SP \in Nat
  BY RoundUp, VmAssumption, Zenon
<1>2. (a + SP) * PGSIZE = a * PGSIZE + SP * PGSIZE /\ a * PGSIZE \in Int /\ SP * PGSIZE \in Int
  BY <1>1, Times
<1>3. (a + SP) * PGSIZE <= PGROUNDUP(s) * PGSIZE /\ (a + SP) * PGSIZE \in Int /\ PGROUNDUP(s) * PGSIZE \in Int
  BY <1>1, <1>2 DEF SUPERPGSIZE
<1>4. PGROUNDUP(s) < a + SP => PGROUNDUP(s) * PGSIZE + PGSIZE <= (a + SP) * PGSIZE
  BY <1>1, Times
<1> QED
  BY <1>1, <1>3, <1>4

\* A whole number of pages.
LEMMA RoundUpExact == ASSUME NEW m \in Nat PROVE m * PGSIZE \in Nat /\ PGROUNDUP(m * PGSIZE) = m
<1>1. PGSIZE \in Nat \ {0} /\ m * PGSIZE \in Nat
  BY VmAssumption
<1> DEFINE R == PGROUNDUP(m * PGSIZE)
<1>2. R \in Nat /\ m * PGSIZE <= R * PGSIZE /\ R <= m
  BY <1>1, RoundUp
<1> HIDE DEF R
<1>3. R < m => R * PGSIZE + PGSIZE <= m * PGSIZE
  BY <1>1, <1>2, Times
<1>4. R * PGSIZE \in Int
  BY <1>1, <1>2
<1>5. R = m
  BY <1>1, <1>2, <1>3, <1>4
<1> QED
  BY <1>1, <1>5, Zenon DEF R

\* An image that fits, fits.
LEMMA FitsIs ==
  ASSUME ProcTypes, NEW s \in Nat, Fits(load, s)
  PROVE  /\ s <= load.max /\ PGROUNDUP(s) + USERSTACK + 1 \in Nat
         /\ s <= (PGROUNDUP(s) + USERSTACK + 1) * PGSIZE /\ (PGROUNDUP(s) + USERSTACK + 1) * PGSIZE \in Nat
         /\ (PGROUNDUP(s) + USERSTACK + 1) * PGSIZE <= load.max
<1> DEFINE R == PGROUNDUP(s)
           m == R + USERSTACK + 1
<1>1. PGSIZE \in Nat \ {0} /\ USERSTACK \in Nat /\ load.max \in Nat
  BY VmAssumption, MaxIs, Zenon
<1>2. R \in Nat /\ s <= R * PGSIZE
  BY RoundUp, Zenon
<1>3. m * PGSIZE <= load.max
  BY Zenon DEF Fits
<1> HIDE DEF R
<1>4. m \in Nat /\ R <= m
  BY <1>1, <1>2
<1> HIDE DEF m
<1>5. R * PGSIZE <= m * PGSIZE /\ R * PGSIZE \in Int /\ m * PGSIZE \in Nat
  BY <1>1, <1>2, <1>4, Times
<1>6. s <= load.max /\ s <= m * PGSIZE
  BY <1>1, <1>2, <1>3, <1>5
<1> QED
  BY <1>3, <1>4, <1>5, <1>6, Zenon DEF m, R

\* The pages that the loops of a process are at.
LEMMA LoopPages ==
  ASSUME ProcOK, NEW p \in Procs
  PROVE  /\ k[p].a \in Nat /\ k[p].end \in Nat /\ k[p].lo \in Nat /\ k[p].brk \in Nat /\ sz[p] \in Nat
         /\ Growing(p) => k[p].a \in UserPages /\ k[p].a + 1 <= PGROUNDUP(k[p].end)
         /\ Unmapping(p) => k[p].a \in UserPages
         /\ Copying(p) => k[p].a \in UserPages /\ k[p].a <= PGROUNDUP(load.max)
<1>1. ProcTypes /\ InRange(p) /\ k[p] \in Locals /\ sz[p] \in Nat
  BY Zenon DEF ProcOK, Ranges, ProcTypes
<1>2. k[p].a \in Nat /\ k[p].end \in Nat /\ k[p].lo \in Nat /\ k[p].brk \in Nat
  BY <1>1, Zenon DEF Locals
<1>3. /\ load.max \in Nat /\ load.max <= MaxSize
      /\ PGROUNDUP(load.max) \in Nat /\ PGROUNDUP(MaxSize) \in Nat /\ PGROUNDUP(load.max) <= PGROUNDUP(MaxSize)
  BY <1>1, MaxIs, Zenon
<1>4. ASSUME Growing(p) PROVE k[p].a \in UserPages /\ k[p].a + 1 <= PGROUNDUP(k[p].end)
  <2>1. k[p].a * PGSIZE < k[p].end /\ k[p].end <= load.max
    BY <1>1, <1>4, Zenon DEF Growing, InRange
  <2>2. k[p].a + 1 <= PGROUNDUP(k[p].end)
    BY <1>2, <2>1, PageBelow, Zenon
  <2>3. PGROUNDUP(k[p].end) <= PGROUNDUP(load.max) /\ PGROUNDUP(k[p].end) \in Nat
    BY <1>2, <1>3, <2>1, RoundUpOrder, RoundUp, Zenon
  <2> QED
    <3>1. k[p].a < PGROUNDUP(MaxSize)
      BY <1>2, <1>3, <2>2, <2>3
    <3> QED
      BY <1>2, <1>3, <2>2, <3>1, InUserPages, Zenon
<1>5. ASSUME Unmapping(p) PROVE k[p].a \in UserPages
  <2>1. k[p].a < k[p].end /\ k[p].end <= PGROUNDUP(load.max)
    BY <1>1, <1>5, Zenon DEF Unmapping, InRange
  <2> QED
    BY <1>2, <1>3, <2>1 DEF UserPages
<1>6. ASSUME Copying(p) PROVE k[p].a \in UserPages /\ k[p].a <= PGROUNDUP(load.max)
  <2>1. k[p].a * PGSIZE < sz[p] /\ sz[p] <= load.max
    BY <1>1, <1>6, Zenon DEF Copying, InRange
  <2>2. k[p].a + 1 <= PGROUNDUP(sz[p])
    BY <1>1, <1>2, <2>1, PageBelow, Zenon
  <2>3. PGROUNDUP(sz[p]) <= PGROUNDUP(load.max) /\ PGROUNDUP(sz[p]) \in Nat
    BY <1>1, <1>3, <2>1, RoundUpOrder, RoundUp, Zenon
  <2> QED
    <3>1. k[p].a < PGROUNDUP(MaxSize) /\ k[p].a <= PGROUNDUP(load.max)
      BY <1>2, <1>3, <2>2, <2>3
    <3> QED
      BY <1>2, <1>3, <2>2, <3>1, InUserPages, Zenon
<1> QED
  BY <1>1, <1>2, <1>4, <1>5, <1>6, Zenon

\* walk() finds a PTE of the page.
LEMMA WalkIs ==
  ASSUME NEW t, NEW n \in UserPages, walk(t, n) # <<>>
  PROVE  /\ walk(t, n) \in Locs \ Shared /\ walk(t, n) # <<3, 0>>
         /\ walk(t, n) \in {<<1, PX(1, n)>>, <<0, n>>}
<1>1. walk(t, n) \in {<<1, PX(1, n)>>, <<0, n>>}
  BY Zenon DEF walk
<1>2. <<1, PX(1, n)>> # <<3, 0>> /\ <<0, n>> # <<3, 0>>
  OBVIOUS
<1> QED
  BY <1>1, <1>2, UserLocs, Zenon

\* The first page is one.
LEMMA FirstPage == ASSUME ProcTypes PROVE 0 \in UserPages
<1>1. MaxSize \in Nat /\ 0 * PGSIZE < MaxSize /\ PGROUNDUP(MaxSize) \in Nat
  BY MaxIs, VmAssumption
<1>2. 0 + 1 <= PGROUNDUP(MaxSize)
  BY <1>1, PageBelow, Zenon
<1> QED
  BY <1>1, <1>2 DEF UserPages
-----------------------------------------------------------------------------
(* The loops of uvmalloc(), uvmunmap() and uvmcopy().                      *)

\* A process in a call works on a table.
LEMMA WorkTable ==
  ASSUME ProcOK, NEW p \in Procs, pc[p] \notin {"unused", "embryo", "user"} PROVE k[p].t \in Tabs /\ cur[p] \in Tabs
<1>1. WorksOn(p) /\ ~Resting(p)
  BY Zenon DEF ProcOK, Works, Resting
<1>2. AtHome(p) => k[p].t \in Tabs
  BY <1>1, Zenon DEF WorksOn
<1>3. Execing(p) => k[p].t \in Tabs
  BY <1>1, Zenon DEF WorksOn
<1>4. ASSUME Forking(p) PROVE k[p].t \in Tabs
  <2>1. k[p].child \in Procs /\ pc[k[p].child] = "embryo" /\ k[p].t = cur[k[p].child]
    BY <1>1, <1>4, Zenon DEF WorksOn
  <2>2. WorksOn(k[p].child)
    BY <2>1, Zenon DEF ProcOK, Works
  <2> QED
    BY <2>1, <2>2, Zenon DEF WorksOn
<1> QED
  BY <1>1, <1>2, <1>3, <1>4, Zenon DEF WorksOn

\* The process half of a turn of a loop.
LEMMA StepGoes ==
  ASSUME ProcOK, NEW p \in Procs, NEW n \in Nat, Step(p, n), cur' = cur, sz' = sz, tf' = tf, RootsStay,
         pc[p] \in {"alloc", "unmap", "copy"}, pc[p] = "alloc" => k[p].a + n <= PGROUNDUP(k[p].end)
  PROVE  ProcOK'
<1>1. /\ pc' = pc /\ k' \in [Procs -> Locals] /\ load' = load /\ \A q \in Procs \ {p} : k'[q] = k[q]
      /\ k'[p] = [k[p] EXCEPT !.a = k[p].a + n]
  BY Stepped, Zenon DEF ProcOK
<1>2. ProcTypes /\ k[p] \in Locals
  BY Zenon DEF ProcOK, ProcTypes
<1>3. /\ k'[p].t = k[p].t /\ k'[p].child = k[p].child /\ k'[p].call = k[p].call /\ k'[p].end = k[p].end
      /\ k'[p].segs = k[p].segs /\ k'[p].brk = k[p].brk /\ k'[p].a = k[p].a + n
  BY <1>1, <1>2, Zenon DEF Locals
<1>4. Goes(p)
  <2>1. Moved(p)
    BY <1>1, <1>2, Zenon DEF Moved, ProcTypes
  <2>2. ~Resting(p) /\ ~Resting(p)'
    BY <1>1, Zenon DEF Resting
  <2>3. /\ (AtHome(p)' <=> AtHome(p)) /\ (Forking(p)' <=> Forking(p))
        /\ (Execing(p)' <=> Execing(p)) /\ (Freeing(p)' <=> Freeing(p))
    BY <1>1, <1>3, Zenon DEF AtHome, Forking, Execing, Freeing
  <2> QED
    BY <1>3, <2>1, <2>2, <2>3, Zenon DEF Goes
<1>5. InRange(p)
  BY Zenon DEF ProcOK, Ranges
<1>6. InRange(p)'
  BY <1>1, <1>3, <1>5, Zenon DEF InRange, Fits
<1> QED
  BY <1>4, <1>6, SameCall, Zenon

\* The process half of uvmalloc()'s failure.
LEMMA RollbackGoes ==
  ASSUME ProcOK, NEW p \in Procs, Growing(p), Rollback(p), cur' = cur, sz' = sz, tf' = tf, RootsStay PROVE ProcOK'
<1> DEFINE r == [k[p] EXCEPT !.a = k[p].lo, !.end = k[p].a]
<1>1. ProcTypes /\ k[p] \in Locals /\ pc[p] = "alloc" /\ InRange(p)
  BY Zenon DEF ProcOK, ProcTypes, Ranges, Growing
<1>2. /\ r \in Locals /\ r.t = k[p].t /\ r.child = k[p].child /\ r.call = k[p].call /\ r.end = k[p].a
      /\ r.segs = k[p].segs /\ r.brk = k[p].brk
  BY <1>1, Zenon DEF Locals
<1>3. Enter(p, "unmap", r) /\ "unmap" \in Places
  BY Zenon DEF Rollback, Places
<1> HIDE DEF r
<1>4. /\ pc'[p] = "unmap" /\ k'[p] = r /\ pc' \in [Procs -> Places] /\ k' \in [Procs -> Locals] /\ load' = load
      /\ \A q \in Procs \ {p} : pc'[q] = pc[q] /\ k'[q] = k[q]
  BY <1>1, <1>2, <1>3, Entered, Zenon
<1>5. Goes(p)
  <2>1. Moved(p)
    BY <1>1, <1>4, Zenon DEF Moved, ProcTypes
  <2>2. ~Resting(p) /\ ~Resting(p)'
    BY <1>1, <1>4, Zenon DEF Resting
  <2>3. Resting(p) \/ AtHome(p) \/ Forking(p) \/ Execing(p)
    BY Zenon DEF ProcOK, Works, WorksOn
  <2>4. k[p].call \in {"grow", "seg", "stack"}
    BY <1>1, <2>2, <2>3, Zenon DEF AtHome, Forking, Execing
  <2>5. /\ (AtHome(p)' <=> AtHome(p)) /\ (Forking(p)' <=> Forking(p))
        /\ (Execing(p)' <=> Execing(p)) /\ (Freeing(p)' <=> Freeing(p))
    BY <1>1, <1>2, <1>4, <2>4, Zenon DEF AtHome, Forking, Execing, Freeing
  <2> QED
    BY <1>2, <1>4, <2>1, <2>2, <2>5, Zenon DEF Goes
<1>6. k[p].a <= PGROUNDUP(load.max)
  <2>1. k[p].a \in Nat /\ k[p].end \in Nat /\ load.max \in Nat /\ k[p].end <= load.max /\ k[p].a <= PGROUNDUP(k[p].end)
    BY <1>1, MaxIs, Zenon DEF Locals, InRange
  <2>2. PGROUNDUP(k[p].end) <= PGROUNDUP(load.max) /\ PGROUNDUP(k[p].end) \in Nat /\ PGROUNDUP(load.max) \in Nat
    BY <2>1, RoundUp, RoundUpOrder, Zenon
  <2> QED
    BY <2>1, <2>2
<1>7. InRange(p)'
  BY <1>1, <1>2, <1>4, <1>6, Zenon DEF InRange, Fits
<1> QED
  BY <1>5, <1>7, SameCall, Zenon

\* The process half of uvmcopy()'s failure.
LEMMA CopyFailsGoes ==
  ASSUME ProcOK, NEW p \in Procs, Copying(p), CopyFails(p), cur' = cur, sz' = sz, tf' = tf, RootsStay PROVE ProcOK'
<1> DEFINE r == [k[p] EXCEPT !.a = 0, !.end = k[p].a, !.call = "copy"]
<1>1. ProcTypes /\ k[p] \in Locals /\ pc[p] = "copy" /\ InRange(p)
  BY Zenon DEF ProcOK, ProcTypes, Ranges, Copying
<1>2. /\ r \in Locals /\ r.t = k[p].t /\ r.child = k[p].child /\ r.call = "copy" /\ r.end = k[p].a
      /\ r.segs = k[p].segs /\ r.brk = k[p].brk
  BY <1>1, Zenon DEF Locals, Calls
<1>3. Enter(p, "unmap", r) /\ "unmap" \in Places
  BY Zenon DEF CopyFails, uvmunmap, Places
<1> HIDE DEF r
<1>4. /\ pc'[p] = "unmap" /\ k'[p] = r /\ pc' \in [Procs -> Places] /\ k' \in [Procs -> Locals] /\ load' = load
      /\ \A q \in Procs \ {p} : pc'[q] = pc[q] /\ k'[q] = k[q]
  BY <1>1, <1>2, <1>3, Entered, Zenon
<1>5. Goes(p)
  <2>1. Moved(p)
    BY <1>1, <1>4, Zenon DEF Moved, ProcTypes
  <2>2. ~Resting(p) /\ ~Resting(p)'
    BY <1>1, <1>4, Zenon DEF Resting
  <2>3. /\ (AtHome(p)' <=> AtHome(p)) /\ (Forking(p)' <=> Forking(p))
        /\ (Execing(p)' <=> Execing(p)) /\ (Freeing(p)' <=> Freeing(p))
    BY <1>1, <1>2, <1>4, Zenon DEF AtHome, Forking, Execing, Freeing
  <2> QED
    BY <1>2, <1>4, <2>1, <2>2, <2>3, Zenon DEF Goes
<1>6. k[p].a <= PGROUNDUP(load.max)
  BY LoopPages, Zenon
<1>7. InRange(p)'
  BY <1>1, <1>2, <1>4, <1>6, Zenon DEF InRange, Fits
<1> QED
  BY <1>5, <1>7, SameCall
\* A superpage of a table, and what it owns.
LEMMA SuperLeafIs ==
  ASSUME MemOK, NEW t \in Tabs, NEW n \in UserPages, SuperLeaf(t, n)
  PROVE  LET l == <<1, PX(1, n)>>
         IN  /\ l \in Locs \ Shared /\ pt[t][l].pa \in Supers \X {0} /\ pt[t][l].flags \in SUBSET Flags
             /\ Owned(t, l) = {pt[t][l].pa[1]} \X (0 .. SP - 1)
<1> DEFINE l == <<1, PX(1, n)>>
<1>1. l \in Locs \ Shared /\ l[1] = 1
  BY UserLocs, Zenon
<1>2. {"V", "R"} \subseteq pt[t][l].flags
  BY Zenon DEF SuperLeaf
<1> HIDE DEF l
<1>3. Valid(pt[t][l]) /\ PTE_LEAF(pt[t][l])
  BY <1>2, Zenon DEF Valid, PTE_LEAF
<1>4. pt[t][l] \in Entry /\ PTEOK(l, pt[t][l])
  BY <1>1, Zenon DEF MemOK, MemTypes, Entries
<1>5. pt[t][l].pa \in Supers \X {0} /\ pt[t][l].flags \in SUBSET Flags
  BY <1>1, <1>3, <1>4, Zenon DEF PTEOK, Entry
<1>6. Owned(t, l) = {pt[t][l].pa[1]} \X (0 .. SP - 1)
  BY <1>1, <1>3, Zenon DEF Owned
<1> QED
  BY <1>1, <1>5, <1>6, Zenon DEF l

\* uvmalloc() of a superpage.
LEMMA GrowsSuper == ASSUME VInv, NEW p \in Procs, uvmalloc_super(p) PROVE VInv'
<1>1. MemOK /\ ProcOK /\ cur' = cur /\ sz' = sz /\ tf' = tf /\ Growing(p) /\ SuperFits(p)
  BY Zenon DEF VInv, uvmalloc_super
<1>2. pc[p] = "alloc" /\ k[p].t \in Tabs /\ k[p].a \in UserPages /\ k[p].a \in Nat /\ k[p].end \in Nat
  <2>1. pc[p] = "alloc"
    BY <1>1, Zenon DEF Growing
  <2> QED
    BY <1>1, <2>1, WorkTable, LoopPages, Zenon
<1>3. CASE /\ supermappages(k[p].t, k[p].a, {"R", "W", "U"} \cup k[p].perm, [j \in 0 .. SP - 1 |-> "zero"])
           /\ Step(p, SP)
  <2>1. {"R", "W", "U"} \cup k[p].perm \in SUBSET Flags
    <3>1. k[p].perm \in SUBSET Flags
      BY <1>1, Zenon DEF ProcOK, ProcTypes, Locals
    <3> QED
      BY <3>1, Zenon DEF Flags
  <2>2. [j \in 0 .. SP - 1 |-> "zero"] \in [0 .. SP - 1 -> Contents]
    BY Zenon DEF Contents
  <2>3. MemOK' /\ RootsStay
    BY <1>1, <1>2, <1>3, <2>1, <2>2, SuperMapStep, Zenon
  <2>4. SP \in Nat /\ k[p].a + SP <= PGROUNDUP(k[p].end)
    BY <1>1, <1>2, SuperBelow, VmAssumption, Zenon DEF SuperFits
  <2>5. ProcOK'
    BY <1>1, <1>2, <1>3, <2>3, <2>4, StepGoes, Zenon
  <2> QED
    BY <2>3, <2>5, Zenon DEF VInv
<1>4. CASE nosupermappages(k[p].t, k[p].a) /\ Rollback(p)
  <2>1. UNCHANGED <<free, super, pt, tf>> /\ data' = data /\ data \in [Frames -> Contents]
    BY <1>1, <1>4, Zenon DEF nosupermappages, MemOK, MemTypes
  <2>2. MemOK' /\ RootsStay
    BY <1>1, <2>1, QuietStep, Zenon
  <2> QED
    BY <1>1, <1>4, <2>2, RollbackGoes, Zenon DEF VInv
<1> QED
  BY <1>3, <1>4, Zenon DEF uvmalloc_super

\* uvmalloc() of a page.
LEMMA GrowsPage == ASSUME VInv, NEW p \in Procs, uvmalloc_page(p) PROVE VInv'
<1>1. MemOK /\ ProcOK /\ cur' = cur /\ sz' = sz /\ tf' = tf /\ Growing(p)
  BY Zenon DEF VInv, uvmalloc_page
<1>2. /\ pc[p] = "alloc" /\ k[p].t \in Tabs /\ k[p].a \in UserPages
      /\ k[p].a + 1 <= PGROUNDUP(k[p].end)
  <2>1. pc[p] = "alloc"
    BY <1>1, Zenon DEF Growing
  <2> QED
    BY <1>1, <2>1, WorkTable, LoopPages, Zenon
<1>3. CASE mappages(k[p].t, k[p].a, {"R", "U"} \cup k[p].perm, "zero") /\ Step(p, 1)
  <2>1. {"R", "U"} \cup k[p].perm \in SUBSET Flags /\ "zero" \in Contents
    <3>1. k[p].perm \in SUBSET Flags
      BY <1>1, Zenon DEF ProcOK, ProcTypes, Locals
    <3> QED
      BY <3>1, Zenon DEF Flags, Contents
  <2>2. MemOK' /\ RootsStay
    BY <1>1, <1>2, <1>3, <2>1, MapStep, Zenon
  <2>3. ProcOK'
    BY <1>1, <1>2, <1>3, <2>2, StepGoes, Zenon
  <2> QED
    BY <2>2, <2>3 DEF VInv
<1>4. CASE nomappages(k[p].t, k[p].a) /\ Rollback(p)
  <2>1. MemOK' /\ RootsStay
    BY <1>1, <1>2, <1>4, NoMapStep, Zenon
  <2> QED
    BY <1>1, <1>4, <2>1, RollbackGoes, Zenon DEF VInv
<1> QED
  BY <1>3, <1>4, Zenon DEF uvmalloc_page

\* uvmunmap() of a superpage.
LEMMA ShrinksSuper == ASSUME VInv, NEW p \in Procs, uvmunmap_super(p) PROVE VInv'
<1> DEFINE t == k[p].t
           l == <<1, PX(1, k[p].a)>>
           s == pt[t][l].pa[1]
<1>1. MemOK /\ ProcOK /\ cur' = cur /\ sz' = sz /\ tf' = tf /\ free' = free /\ Unmapping(p) /\ SuperLeaf(t, k[p].a)
  BY Zenon DEF VInv, uvmunmap_super
<1>2. pc[p] = "unmap" /\ t \in Tabs /\ k[p].a \in UserPages
  <2>1. pc[p] = "unmap"
    BY <1>1, Zenon DEF Unmapping
  <2> QED
    BY <1>1, <2>1, WorkTable, LoopPages, Zenon
<1>3. l \in Locs \ Shared /\ pt[t][l].pa \in Supers \X {0} /\ Owned(t, l) = {s} \X (0 .. SP - 1) /\ l # <<3, 0>>
  <2>1. l \in Locs \ Shared /\ pt[t][l].pa \in Supers \X {0} /\ Owned(t, l) = {s} \X (0 .. SP - 1)
    BY <1>1, <1>2, SuperLeafIs, Zenon
  <2>2. l # <<3, 0>>
    OBVIOUS
  <2> QED
    BY <2>1, <2>2, Zenon
<1>4. /\ pt' = Cleared(t, l) /\ super' = super \cup {s} /\ Step(p, SP) /\ SP \in Nat
      /\ data' = [f \in Frames |-> IF f \in {s} \X (0 .. SP - 1) THEN "junk" ELSE data[f]]
  BY VmAssumption, Zenon DEF uvmunmap_super
<1>5. s \in Supers
  BY <1>3, Zenon
<1> HIDE DEF l, s, t
<1>6. free' \subseteq Frames /\ super' \subseteq Supers /\ data' \in [Frames -> Contents]
  BY <1>1, <1>4, <1>5, Zenon DEF MemOK, MemTypes, Contents
<1>7. Pool' = Pool \cup Owned(t, l)
  BY <1>3, <1>4, Zenon DEF Pool
<1>8. free' \cup Pool' \subseteq free \cup Pool \cup Owned(t, l) /\ free' \cap Pool' = {}
  BY <1>1, <1>2, <1>3, <1>7, Zenon DEF MemOK, Exclusively, Loose, Apart
<1>9. MemOK' /\ RootsStay
  BY <1>1, <1>2, <1>3, <1>4, <1>6, <1>8, ClearStep, Zenon
<1>10. ProcOK'
  BY <1>1, <1>2, <1>4, <1>9, StepGoes, Zenon
<1> QED
  BY <1>9, <1>10 DEF VInv

\* uvmunmap() of a page.  In the middle of a superpage it frees the first page
\* of it and forgets the rest, so that frames are lost but none is used twice.
LEMMA ShrinksPage == ASSUME VInv, NEW p \in Procs, uvmunmap_page(p) PROVE VInv'
<1> DEFINE t == k[p].t
           l == walk(t, k[p].a)
           f == pt[t][l].pa
<1>1. /\ MemOK /\ ProcOK /\ cur' = cur /\ sz' = sz /\ tf' = tf /\ super' = super
      /\ Unmapping(p) /\ Unmappable(t, k[p].a) /\ kfree({f}) /\ pt' = Cleared(t, l) /\ Step(p, 1)
  BY Zenon DEF VInv, uvmunmap_page
<1>2. pc[p] = "unmap" /\ t \in Tabs /\ k[p].a \in UserPages
  <2>1. pc[p] = "unmap"
    BY <1>1, Zenon DEF Unmapping
  <2> QED
    BY <1>1, <2>1, WorkTable, LoopPages, Zenon
<1>3. l # <<>> /\ Valid(pt[t][l]) /\ PTE_LEAF(pt[t][l])
  BY <1>1, Zenon DEF Unmappable
<1>4. l \in Locs \ Shared /\ l # <<3, 0>>
  BY <1>2, <1>3, WalkIs, Zenon
<1> HIDE DEF l, t
<1>5. PTEOK(l, pt[t][l]) /\ 0 \in 0 .. SP - 1
  BY <1>1, <1>2, <1>4, VmAssumption DEF MemOK, Entries
<1>6. f \in Frames /\ f \in Owned(t, l)
  <2>1. f \in Frames /\ (l[1] = 1 => f \in Supers \X {0})
    BY <1>3, <1>4, <1>5, Zenon DEF PTEOK
  <2>2. l[1] = 1 => f \in {f[1]} \X (0 .. SP - 1)
    BY <1>5, <2>1, Zenon
  <2> QED
    BY <1>3, <1>4, <2>1, <2>2, Zenon DEF Owned
<1> HIDE DEF f
<1>7. free' = free \cup {f} /\ free' \subseteq Frames /\ super' \subseteq Supers /\ data' \in [Frames -> Contents]
  BY <1>1, <1>6, Zenon DEF kfree, MemOK, MemTypes, Contents
<1>8. Pool' = Pool /\ f \notin Pool
  BY <1>1, <1>2, <1>4, <1>6, Zenon DEF Pool, MemOK, Exclusively, Loose
<1>9. free' \cup Pool' \subseteq free \cup Pool \cup Owned(t, l) /\ free' \cap Pool' = {}
  BY <1>1, <1>6, <1>7, <1>8, Zenon DEF MemOK, Exclusively, Apart
<1>10. MemOK' /\ RootsStay
  BY <1>1, <1>2, <1>4, <1>7, <1>9, ClearStep, Zenon
<1>11. ProcOK'
  BY <1>1, <1>2, <1>10, StepGoes, Zenon
<1> QED
  BY <1>10, <1>11 DEF VInv

\* uvmcopy() of a superpage.
LEMMA CopiesSuper == ASSUME VInv, NEW p \in Procs, uvmcopy_super(p) PROVE VInv'
<1> DEFINE e == pt[cur[p]][<<1, PX(1, k[p].a)>>]
           d == [j \in 0 .. SP - 1 |-> Copied(<<e.pa[1], j>>)]
<1>1. /\ MemOK /\ ProcOK /\ cur' = cur /\ sz' = sz /\ tf' = tf /\ Copying(p) /\ SuperLeaf(cur[p], k[p].a)
      /\ \/ supermappages(k[p].t, k[p].a, e.flags, d) /\ Step(p, SP)
         \/ nosupermappages(k[p].t, k[p].a) /\ CopyFails(p)
  BY Zenon DEF VInv, uvmcopy_super
<1>2. pc[p] = "copy" /\ k[p].t \in Tabs /\ cur[p] \in Tabs /\ k[p].a \in UserPages /\ SP \in Nat
  <2>1. pc[p] = "copy"
    BY <1>1, Zenon DEF Copying
  <2> QED
    BY <1>1, <2>1, WorkTable, LoopPages, VmAssumption, Zenon
<1>3. e.pa \in Supers \X {0} /\ e.flags \in SUBSET Flags
  BY <1>1, <1>2, SuperLeafIs, Zenon
<1>4. d \in [0 .. SP - 1 -> Contents]
  <2>1. \A j \in 0 .. SP - 1 : <<e.pa[1], j>> \in Frames
    BY <1>3, Zenon DEF Frames
  <2>2. \A j \in 0 .. SP - 1 : Copied(<<e.pa[1], j>>) \in Contents
    BY <1>1, <2>1, Zenon DEF MemOK, MemTypes, Copied
  <2> QED
    BY <2>2, Zenon
<1> HIDE DEF d, e
<1>5. CASE supermappages(k[p].t, k[p].a, e.flags, d) /\ Step(p, SP)
  <2>1. MemOK' /\ RootsStay
    BY <1>1, <1>2, <1>3, <1>4, <1>5, SuperMapStep, Zenon
  <2>2. ProcOK'
    BY <1>1, <1>2, <1>5, <2>1, StepGoes, Zenon
  <2> QED
    BY <2>1, <2>2 DEF VInv
<1>6. CASE nosupermappages(k[p].t, k[p].a) /\ CopyFails(p)
  <2>1. UNCHANGED <<free, super, pt, tf>> /\ data' = data /\ data \in [Frames -> Contents]
    BY <1>1, <1>6, Zenon DEF nosupermappages, MemOK, MemTypes
  <2>2. MemOK' /\ RootsStay
    BY <1>1, <2>1, QuietStep, Zenon
  <2> QED
    BY <1>1, <1>6, <2>2, CopyFailsGoes, Zenon DEF VInv
<1> QED
  BY <1>1, <1>5, <1>6, Zenon

\* uvmcopy() of a page.
LEMMA CopiesPage == ASSUME VInv, NEW p \in Procs, uvmcopy_page(p) PROVE VInv'
<1> DEFINE l == walk(cur[p], k[p].a)
           e == pt[cur[p]][l]
<1>1. /\ MemOK /\ ProcOK /\ cur' = cur /\ sz' = sz /\ tf' = tf /\ Copying(p) /\ l # <<>> /\ Valid(e)
      /\ \/ mappages(k[p].t, k[p].a, e.flags, Copied(e.pa)) /\ Step(p, 1)
         \/ nomappages(k[p].t, k[p].a) /\ CopyFails(p)
  BY Zenon DEF VInv, uvmcopy_page
<1>2. pc[p] = "copy" /\ k[p].t \in Tabs /\ cur[p] \in Tabs /\ k[p].a \in UserPages
  <2>1. pc[p] = "copy"
    BY <1>1, Zenon DEF Copying
  <2> QED
    BY <1>1, <2>1, WorkTable, LoopPages, Zenon
<1>3. l \in Locs \ Shared
  BY <1>1, <1>2, WalkIs, Zenon
<1> HIDE DEF l
<1>4. e \in Entry /\ PTEOK(l, e)
  BY <1>1, <1>2, <1>3, Zenon DEF MemOK, MemTypes, Entries
<1>5. e.flags \in SUBSET Flags /\ e.pa \in Frames
  BY <1>1, <1>3, <1>4, Zenon DEF Entry, PTEOK
<1> HIDE DEF e
<1>6. Copied(e.pa) \in Contents
  BY <1>1, <1>5, Zenon DEF MemOK, MemTypes, Copied
<1>7. CASE mappages(k[p].t, k[p].a, e.flags, Copied(e.pa)) /\ Step(p, 1)
  <2>1. MemOK' /\ RootsStay
    BY <1>1, <1>2, <1>5, <1>6, <1>7, MapStep, Zenon
  <2>2. ProcOK'
    BY <1>1, <1>2, <1>7, <2>1, StepGoes, Zenon
  <2> QED
    BY <2>1, <2>2 DEF VInv
<1>8. CASE nomappages(k[p].t, k[p].a) /\ CopyFails(p)
  <2>1. MemOK' /\ RootsStay
    BY <1>1, <1>2, <1>8, NoMapStep, Zenon
  <2> QED
    BY <1>1, <1>8, <2>1, CopyFailsGoes, Zenon DEF VInv
<1> QED
  BY <1>1, <1>7, <1>8, Zenon
-----------------------------------------------------------------------------
(* growproc(), userinit() and freeproc().                                  *)

\* A process in user mode has a table and a trapframe, and is in no call.
LEMMA UserIs ==
  ASSUME ProcOK, NEW p \in Procs, pc[p] = "user"
  PROVE  /\ ProcTypes /\ cur[p] \in Tabs /\ tf[p] \in Frames /\ k[p].t = NULL /\ sz[p] \in Nat /\ sz[p] <= load.max
         /\ ~AtHome(p) /\ ~Forking(p) /\ ~Execing(p) /\ ~Freeing(p)
<1>1. WorksOn(p) /\ Resting(p) /\ InRange(p)
  BY Zenon DEF ProcOK, Works, Ranges, Resting
<1>2. ~AtHome(p) /\ ~Forking(p) /\ ~Execing(p) /\ ~Freeing(p)
  BY Zenon DEF AtHome, Forking, Execing, Freeing
<1> QED
  BY <1>1, <1>2, Zenon DEF WorksOn, ProcOK, ProcTypes, InRange

\* The process half of what ends in a process's return to user mode.
LEMMA ReturnHome ==
  ASSUME ProcOK, NEW p \in Procs, AtHome(p), ~Freeing(p), Return(p), cur' = cur, tf' = tf, RootsStay,
         NEW s \in Nat, s <= load.max, sz' = [sz EXCEPT ![p] = s]
  PROVE  ProcOK'
<1>1. ProcTypes /\ WorksOn(p) /\ Idle \in Locals /\ "user" \in Places
  BY IdleIs, Zenon DEF ProcOK, Works, Places
<1>2. /\ pc'[p] = "user" /\ k'[p] = Idle /\ pc' \in [Procs -> Places] /\ k' \in [Procs -> Locals] /\ load' = load
      /\ \A q \in Procs \ {p} : pc'[q] = pc[q] /\ k'[q] = k[q]
  BY <1>1, Entered, Zenon DEF Return
<1>3. sz' \in [Procs -> Nat] /\ sz'[p] = s /\ \A q \in Procs \ {p} : sz'[q] = sz[q]
  BY <1>1, Zenon DEF ProcTypes
<1>4. Moved(p)
  BY <1>1, <1>2, <1>3, Zenon DEF Moved, ProcTypes
<1>5. k'[p].t = NULL /\ k'[p].segs = <<>>
  BY <1>2, IdleIs, Zenon
<1>6. ~Freeing(p)' /\ tf'[p] \in Frames
  <2>1. pc[p] # "unused"
    BY Zenon DEF AtHome
  <2> QED
    BY <1>1, <1>2, <2>1, Zenon DEF Freeing, WorksOn
<1>7. AtHomeStep(p)
  BY <1>2, <1>4, <1>5, <1>6, Zenon DEF AtHomeStep
<1>8. InRange(p)'
  BY <1>1, <1>2, <1>3, <1>5, RestRange, Zenon
<1> QED
  BY <1>7, <1>8, HomeStep, Zenon

\* growproc() up to its loop.
LEMMA GrowStarts == ASSUME VInv, NEW p \in Procs, NEW n \in load.deltas, growproc(p, n) PROVE VInv'
<1>1. /\ MemOK /\ ProcOK /\ pc[p] = "user" /\ free' = free /\ super' = super /\ data' = data /\ pt' = pt
      /\ cur' = cur /\ sz' = sz /\ tf' = tf
  BY Zenon DEF VInv, growproc
<1>2. /\ ProcTypes /\ cur[p] \in Tabs /\ tf[p] \in Frames /\ sz[p] \in Nat /\ sz[p] <= load.max
      /\ load.max \in Nat /\ n \in Int
  BY <1>1, UserIs, MaxIs, WorkloadAssumption, Zenon DEF ProcTypes
<1>3. MemOK' /\ RootsStay
  BY <1>1, QuietStep, Zenon DEF MemOK, MemTypes
<1>4. "alloc" \in Places /\ "unmap" \in Places
  BY Zenon DEF Places
<1>5. CASE n > 0 /\ sz[p] + n <= load.max /\ uvmalloc(p, [Idle EXCEPT !.t = cur[p]], sz[p], sz[p] + n, {"W"}, "grow")
  <2> DEFINE i == [Idle EXCEPT !.t = cur[p]]
             r == [i EXCEPT !.a = PGROUNDUP(sz[p]), !.lo = PGROUNDUP(sz[p]), !.end = sz[p] + n, !.perm = {"W"}, !.call = "grow"]
  <2>1. PGROUNDUP(sz[p]) \in Nat /\ sz[p] + n \in Nat /\ PGROUNDUP(sz[p]) <= PGROUNDUP(sz[p] + n)
    BY <1>2, <1>5, RoundUp, RoundUpOrder
  <2>2. r \in Locals /\ r.t = cur[p] /\ r.a = PGROUNDUP(sz[p]) /\ r.end = sz[p] + n /\ r.call = "grow" /\ r.segs = <<>>
    <3>1. i \in Locals /\ i.t = cur[p] /\ i.segs = <<>>
      BY <1>2, IdleIs, Zenon DEF Locals
    <3>2. {"W"} \in SUBSET Flags /\ "grow" \in Calls
      BY Zenon DEF Flags, Calls
    <3> HIDE DEF i
    <3> QED
      BY <2>1, <3>1, <3>2, Zenon DEF Locals
  <2>3. Enter(p, "alloc", r)
    BY <1>5, Zenon DEF uvmalloc
  <2> HIDE DEF r
  <2>4. /\ pc'[p] = "alloc" /\ k'[p] = r /\ pc' \in [Procs -> Places] /\ k' \in [Procs -> Locals] /\ load' = load
        /\ \A q \in Procs \ {p} : pc'[q] = pc[q] /\ k'[q] = k[q]
    BY <1>2, <1>4, <2>2, <2>3, Entered, Zenon
  <2>5. Moved(p)
    BY <1>1, <1>2, <2>4, Zenon DEF Moved, ProcTypes
  <2>6. AtHome(p)' /\ ~Freeing(p)'
    BY <2>2, <2>4, Zenon DEF AtHome, Freeing
  <2>7. AtHomeStep(p)
    BY <1>1, <1>2, <1>3, <2>2, <2>4, <2>5, <2>6, Zenon DEF AtHomeStep
  <2>8. InRange(p)'
    <3>1. \A x \in 1 .. Len(k'[p].segs) : Fits(load, k'[p].segs[x].vaddr * PGSIZE + k'[p].segs[x].memsz)
      BY <2>2, <2>4, NoSegs, Zenon
    <3> QED
      BY <1>1, <1>2, <1>5, <2>1, <2>2, <2>4, <3>1, Zenon DEF InRange, Fits
  <2> QED
    BY <1>1, <1>3, <2>7, <2>8, HomeStep, Zenon DEF VInv
<1>6. CASE /\ n < 0 /\ NoWrap(p, n)
           /\ uvmunmap(p, [Idle EXCEPT !.t = cur[p], !.brk = sz[p] + n], PGROUNDUP(sz[p] + n), PGROUNDUP(sz[p]), "shrink")
  <2> DEFINE i == [Idle EXCEPT !.t = cur[p], !.brk = sz[p] + n]
             r == [i EXCEPT !.a = PGROUNDUP(sz[p] + n), !.end = PGROUNDUP(sz[p]), !.call = "shrink"]
  <2>1. sz[p] + n \in Nat /\ sz[p] + n <= load.max
    BY <1>2, <1>6 DEF NoWrap
  <2>2. /\ PGROUNDUP(sz[p]) \in Nat /\ PGROUNDUP(sz[p] + n) \in Nat
        /\ PGROUNDUP(sz[p]) <= PGROUNDUP(load.max)
    BY <1>2, <2>1, RoundUp, RoundUpOrder, Zenon
  <2>3. r \in Locals /\ r.t = cur[p] /\ r.end = PGROUNDUP(sz[p]) /\ r.call = "shrink" /\ r.brk = sz[p] + n /\ r.segs = <<>>
    <3>1. i \in Locals /\ i.t = cur[p] /\ i.brk = sz[p] + n /\ i.segs = <<>>
      BY <1>2, <2>1, IdleIs, Zenon DEF Locals
    <3>2. "shrink" \in Calls
      BY Zenon DEF Calls
    <3> HIDE DEF i
    <3> QED
      BY <2>2, <3>1, <3>2, Zenon DEF Locals
  <2>4. Enter(p, "unmap", r)
    BY <1>6, Zenon DEF uvmunmap
  <2> HIDE DEF r
  <2>5. /\ pc'[p] = "unmap" /\ k'[p] = r /\ pc' \in [Procs -> Places] /\ k' \in [Procs -> Locals] /\ load' = load
        /\ \A q \in Procs \ {p} : pc'[q] = pc[q] /\ k'[q] = k[q]
    BY <1>2, <1>4, <2>3, <2>4, Entered, Zenon
  <2>6. Moved(p)
    BY <1>1, <1>2, <2>5, Zenon DEF Moved, ProcTypes
  <2>7. AtHome(p)' /\ ~Freeing(p)'
    BY <2>3, <2>5, Zenon DEF AtHome, Freeing
  <2>8. AtHomeStep(p)
    BY <1>1, <1>2, <1>3, <2>3, <2>5, <2>6, <2>7, Zenon DEF AtHomeStep
  <2>9. InRange(p)'
    BY <1>1, <1>2, <2>1, <2>2, <2>3, <2>5, UnmapRange, Zenon
  <2> QED
    BY <1>1, <1>3, <2>8, <2>9, HomeStep, Zenon DEF VInv
<1> QED
  BY <1>5, <1>6, Zenon DEF growproc

\* growproc() after its loop.
LEMMA GrowEnds == ASSUME VInv, NEW p \in Procs, growproc_done(p) PROVE VInv'
<1>1. /\ MemOK /\ ProcOK /\ free' = free /\ super' = super /\ data' = data /\ pt' = pt
      /\ cur' = cur /\ tf' = tf /\ Return(p)
  BY Zenon DEF VInv, growproc_done
<1>2. MemOK' /\ RootsStay
  BY <1>1, QuietStep, Zenon DEF MemOK, MemTypes
<1>3. InRange(p) /\ k[p].end \in Nat /\ k[p].brk \in Nat /\ sz[p] \in Nat /\ sz \in [Procs -> Nat]
  BY <1>1, LoopPages, Zenon DEF ProcOK, Ranges, ProcTypes
<1>4. AtHome(p) /\ ~Freeing(p)
  BY Zenon DEF growproc_done, Allocated, Unmapped, AtHome, Freeing
<1>5. \E s \in Nat : s <= load.max /\ sz' = [sz EXCEPT ![p] = s]
  <2>1. CASE Allocated(p, "grow") /\ sz' = [sz EXCEPT ![p] = k[p].end]
    BY <1>3, <2>1, Zenon DEF Allocated, InRange
  <2>2. CASE Unmapped(p, {"shrink"}) /\ sz' = [sz EXCEPT ![p] = k[p].brk]
    BY <1>3, <2>2, Zenon DEF Unmapped, InRange
  <2>3. CASE Unmapped(p, {"grow"}) /\ UNCHANGED sz
    <3>1. sz' = [sz EXCEPT ![p] = sz[p]]
      BY <1>3, <2>3, Zenon
    <3> QED
      BY <1>3, <3>1, Zenon DEF InRange
  <2> QED
    BY <2>1, <2>2, <2>3, Zenon DEF growproc_done
<1> QED
  BY <1>1, <1>2, <1>4, <1>5, ReturnHome, Zenon DEF VInv

\* uvmfirst().
LEMMA FirstImage == ASSUME VInv, NEW p \in Procs, uvmfirst(p) PROVE VInv'
<1>1. /\ MemOK /\ ProcOK /\ pc[p] = "first" /\ mappages(k[p].t, 0, {"R", "W", "X", "U"}, "file")
      /\ sz' = [sz EXCEPT ![p] = PGSIZE] /\ cur' = cur /\ tf' = tf /\ Return(p)
  BY Zenon DEF VInv, uvmfirst
<1>2. k[p].t \in Tabs /\ 0 \in UserPages /\ PGSIZE \in Nat /\ PGSIZE <= load.max
  BY <1>1, WorkTable, FirstPage, MaxIs, VmAssumption, Zenon DEF ProcOK
<1>3. {"R", "W", "X", "U"} \in SUBSET Flags /\ "file" \in Contents
  BY Zenon DEF Flags, Contents
<1>4. MemOK' /\ RootsStay
  BY <1>1, <1>2, <1>3, MapStep, Zenon
<1>5. AtHome(p) /\ ~Freeing(p)
  BY <1>1, Zenon DEF AtHome, Freeing
<1> QED
  BY <1>1, <1>2, <1>4, <1>5, ReturnHome, Zenon DEF VInv
\* The memory half of allocproc().
LEMMA Allocproc ==
  ASSUME VInv, NEW c \in Procs, NEW t, t = NewTable, allocproc(c, t), super' = super, data' = data
  PROVE  /\ MemOK' /\ t \in Tabs /\ t # NULL /\ Unused(t) /\ ~Unused(t)'
         /\ \A u \in Tabs : u # t => (Unused(u)' <=> Unused(u))
         /\ pc[c] = "unused" /\ Fresh(1) \in Frames
         /\ tf' = [tf EXCEPT ![c] = Fresh(1)] /\ cur' = [cur EXCEPT ![c] = t]
<1>1. /\ MemOK /\ ProcOK /\ pc[c] = "unused" /\ kalloc(4) /\ tf \in [Procs -> Frames \cup {NULL}]
      /\ tf' = [tf EXCEPT ![c] = Fresh(1)] /\ cur' = [cur EXCEPT ![c] = t]
      /\ pt' = [pt EXCEPT ![t] = proc_pagetable(1, Fresh(1))]
  BY Zenon DEF VInv, ProcOK, ProcTypes, allocproc
<1>2. t \in Tabs /\ Unused(t) /\ t # NULL
  BY NewTableIs, Zenon DEF allocproc
<1>3. Fresh(1) \in Frames
  <2>1. Enough(4) /\ 4 \in 1 .. 4 /\ 1 \in 1 .. 4
    BY <1>1 DEF kalloc
  <2>2. Fresh(1) \in free
    BY <2>1, FreshFrames, Zenon
  <2> QED
    BY <1>1, <2>2, Zenon DEF MemOK, MemTypes
<1>4. 1 \in {0, 1} /\ kalloc(3 + 1)
  <2>1. 3 + 1 = 4
    OBVIOUS
  <2> QED
    BY <1>1, <2>1, Zenon
<1>5. MemOK' /\ ~Unused(t)' /\ \A u \in Tabs : u # t => (Unused(u)' <=> Unused(u))
  <2>1. \/ tf' = tf
        \/ 1 = 1 /\ tf \in [Procs -> Frames \cup {NULL}] /\ \E d \in Procs : tf' = [tf EXCEPT ![d] = Fresh(1)]
    BY <1>1, Zenon
  <2> QED
    BY <1>1, <1>2, <1>3, <1>4, <2>1, Creates, Zenon
<1> QED
  BY <1>1, <1>2, <1>3, <1>5, Zenon

\* userinit() makes the first process.
LEMMA FirstProcess == ASSUME VInv, userinit PROVE VInv'
<1> DEFINE p == Initproc
<1> PICK t : t = NewTable
  BY Zenon
<1> DEFINE r == [Idle EXCEPT !.t = t]
<1>1. /\ ProcOK /\ ProcTypes /\ p \in Procs /\ super' = super /\ data' = data /\ sz' = sz
      /\ allocproc(p, t) /\ Enter(p, "first", r)
  BY VmAssumption, Zenon DEF VInv, ProcOK, userinit
<1>2. /\ MemOK' /\ t \in Tabs /\ t # NULL /\ Unused(t) /\ ~Unused(t)'
      /\ \A u \in Tabs : u # t => (Unused(u)' <=> Unused(u))
      /\ pc[p] = "unused" /\ Fresh(1) \in Frames
      /\ tf' = [tf EXCEPT ![p] = Fresh(1)] /\ cur' = [cur EXCEPT ![p] = t]
  BY <1>1, Allocproc, Zenon
<1>3. r \in Locals /\ r.t = t /\ r.segs = <<>> /\ "first" \in Places
  BY <1>2, IdleIs, Zenon DEF Locals, Places
<1> HIDE DEF p, r
<1>4. /\ pc'[p] = "first" /\ k'[p] = r /\ pc' \in [Procs -> Places] /\ k' \in [Procs -> Locals] /\ load' = load
      /\ \A q \in Procs \ {p} : pc'[q] = pc[q] /\ k'[q] = k[q]
  BY <1>1, <1>3, Entered, Zenon
<1>5. /\ cur' \in [Procs -> Tabs \cup {NULL}] /\ tf' \in [Procs -> Frames \cup {NULL}] /\ cur'[p] = t /\ tf'[p] \in Frames
      /\ \A q \in Procs \ {p} : cur'[q] = cur[q] /\ tf'[q] = tf[q]
  BY <1>1, <1>2, Zenon DEF ProcTypes
<1>6. Moved(p)
  BY <1>1, <1>4, <1>5, Zenon DEF Moved, ProcTypes
<1>7. /\ AtHome(p)' /\ ~Resting(p)' /\ ~Forking(p)' /\ ~Execing(p)' /\ ~Freeing(p)'
      /\ ~Execing(p)
  BY <1>2, <1>4, Zenon DEF AtHome, Resting, Forking, Execing, Freeing
<1>8. WorksOn(p)'
  BY <1>2, <1>3, <1>4, <1>5, <1>7, Zenon DEF WorksOn
<1>9. InRange(p)'
  <2>1. sz'[p] <= load.max
    BY <1>1, Zenon DEF InRange, ProcOK, Ranges
  <2> QED
    BY <1>1, <1>3, <1>4, <2>1, RestRange, Zenon
<1>10. Ex(p) = NULL /\ Ex(p)' = NULL /\ cur[p] = NULL
  BY <1>1, <1>2, <1>7, Zenon DEF Ex, ProcOK, Works, WorksOn
<1>11. Bystanders({p}) => Tables'
  <2> SUFFICES ASSUME Bystanders({p}) PROVE Tables'
    BY Zenon
  <2>1. \A q \in Procs : q # p => cur'[q] = cur[q] /\ Ex(q)' = Ex(q)
    BY Zenon DEF Bystanders
  <2>2. \/ cur[p] = NULL /\ cur'[p] = t /\ Ex(p)' = Ex(p)
        \/ Ex(p) = NULL /\ Ex(p)' = t /\ cur'[p] = cur[p]
    BY <1>5, <1>10, Zenon
  <2>3. Tables
    BY <1>1, Zenon DEF ProcOK
  <2> QED
    BY <1>1, <1>2, <2>1, <2>2, <2>3, TablesGrow, Zenon
<1>12. ProcOK'
  BY <1>1, <1>2, <1>6, <1>7, <1>8, <1>9, <1>11, MovedOK, Zenon
<1> QED
  BY <1>2, <1>12, Zenon DEF VInv

\* freeproc() up to its loop.
LEMMA FreeStarts == ASSUME VInv, NEW p \in Procs, freeproc(p) PROVE VInv'
<1> DEFINE i == [Idle EXCEPT !.t = cur[p]]
           r == [i EXCEPT !.a = 0, !.end = PGROUNDUP(sz[p]), !.call = "free"]
<1>1. /\ MemOK /\ ProcOK /\ pc[p] = "user" /\ super' = super /\ pt' = pt /\ cur' = cur /\ sz' = sz
      /\ kfree({tf[p]}) /\ tf' = [tf EXCEPT ![p] = NULL] /\ Enter(p, "unmap", r)
  BY Zenon DEF VInv, freeproc, uvmunmap, Trapframe
<1>2. /\ ProcTypes /\ cur[p] \in Tabs /\ tf[p] \in Frames /\ sz[p] \in Nat /\ sz[p] <= load.max
      /\ tf[p] # NULL /\ load.max \in Nat
  BY <1>1, UserIs, MaxIs, NullNoFrame, Zenon
<1>3. MemOK' /\ RootsStay
  BY <1>1, <1>2, FreeFrame, Zenon DEF ProcTypes
<1>4. PGROUNDUP(sz[p]) \in Nat /\ PGROUNDUP(sz[p]) <= PGROUNDUP(load.max)
  BY <1>2, RoundUp, RoundUpOrder, Zenon
<1>5. r \in Locals /\ r.t = cur[p] /\ r.end = PGROUNDUP(sz[p]) /\ r.call = "free" /\ r.segs = <<>>
  <2>1. i \in Locals /\ i.t = cur[p] /\ i.segs = <<>>
    BY <1>2, IdleIs, Zenon DEF Locals
  <2>2. "free" \in Calls
    BY Zenon DEF Calls
  <2> HIDE DEF i
  <2> QED
    BY <1>4, <2>1, <2>2, Zenon DEF Locals
<1> HIDE DEF r
<1>6. "unmap" \in Places
  BY Zenon DEF Places
<1>7. /\ pc'[p] = "unmap" /\ k'[p] = r /\ pc' \in [Procs -> Places] /\ k' \in [Procs -> Locals] /\ load' = load
      /\ \A q \in Procs \ {p} : pc'[q] = pc[q] /\ k'[q] = k[q]
  BY <1>1, <1>2, <1>5, <1>6, Entered, Zenon
<1>8. tf' \in [Procs -> Frames \cup {NULL}] /\ tf'[p] = NULL /\ \A q \in Procs \ {p} : tf'[q] = tf[q]
  BY <1>1, <1>2, Zenon DEF ProcTypes
<1>9. Moved(p)
  BY <1>1, <1>2, <1>7, <1>8, Zenon DEF Moved, ProcTypes
<1>10. AtHome(p)' /\ Freeing(p)'
  BY <1>5, <1>7, Zenon DEF AtHome, Freeing
<1>11. AtHomeStep(p)
  BY <1>1, <1>3, <1>5, <1>7, <1>8, <1>9, <1>10, Zenon DEF AtHomeStep
<1>12. InRange(p)'
  BY <1>1, <1>2, <1>4, <1>5, <1>7, UnmapRange, Zenon
<1> QED
  BY <1>1, <1>3, <1>11, <1>12, HomeStep, Zenon DEF VInv

\* freeproc() after its loop.
LEMMA FreeEnds == ASSUME VInv, NEW p \in Procs, freeproc_done(p) PROVE VInv'
<1> PICK t : t = k[p].t
  BY Zenon
<1>1. /\ MemOK /\ ProcOK /\ ProcTypes /\ pc[p] = "unmap" /\ k[p].call = "free" /\ freewalk(t, {}) /\ super' = super /\ tf' = tf
      /\ cur' = [cur EXCEPT ![p] = NULL] /\ sz' = [sz EXCEPT ![p] = 0] /\ Enter(p, "unused", Idle)
  BY Zenon DEF VInv, ProcOK, freeproc_done, Unmapped
<1>2. WorksOn(p) /\ AtHome(p) /\ Freeing(p) /\ ~Execing(p)
  BY <1>1, Zenon DEF ProcOK, Works, AtHome, Freeing, Execing
<1>3. t \in Tabs /\ t = cur[p] /\ tf[p] = NULL /\ t # NULL
  BY <1>1, <1>2, VmAssumption, Zenon DEF WorksOn
<1>4. MemOK' /\ Unused(t)' /\ \A u \in Tabs : u # t => (Unused(u)' <=> Unused(u))
  <2>1. \/ {} = {} /\ tf' = tf
        \/ /\ tf \in [Procs -> Frames \cup {NULL}]
           /\ \E c \in Procs : {} = {tf[c]} /\ tf[c] # NULL /\ tf' = [tf EXCEPT ![c] = NULL]
    BY <1>1, Zenon
  <2> QED
    BY <1>1, <1>3, <2>1, FreeTable, Zenon
<1>5. Idle \in Locals /\ Idle.t = NULL /\ Idle.segs = <<>> /\ "unused" \in Places
  BY IdleIs, Zenon DEF Places
<1>6. /\ pc'[p] = "unused" /\ k'[p] = Idle /\ pc' \in [Procs -> Places] /\ k' \in [Procs -> Locals] /\ load' = load
      /\ \A q \in Procs \ {p} : pc'[q] = pc[q] /\ k'[q] = k[q]
  BY <1>1, <1>5, Entered, Zenon
<1>7. /\ cur' \in [Procs -> Tabs \cup {NULL}] /\ sz' \in [Procs -> Nat] /\ cur'[p] = NULL /\ sz'[p] = 0
      /\ \A q \in Procs \ {p} : cur'[q] = cur[q] /\ sz'[q] = sz[q]
  BY <1>1, Zenon DEF ProcTypes
<1>8. Moved(p)
  BY <1>1, <1>6, <1>7, Zenon DEF Moved, ProcTypes
<1>9. Resting(p)' /\ ~AtHome(p)' /\ ~Forking(p)' /\ ~Execing(p)'
  BY <1>6, Zenon DEF AtHome, Resting, Forking, Execing
<1>10. WorksOn(p)'
  BY <1>1, <1>3, <1>5, <1>6, <1>7, <1>9, Zenon DEF WorksOn
<1>11. InRange(p)'
  <2>1. load.max \in Nat
    BY <1>1, MaxIs, Zenon
  <2>2. sz'[p] <= load.max
    BY <1>7, <2>1
  <2> QED
    BY <1>1, <1>5, <1>6, <2>2, RestRange, Zenon
<1>12. Ex(p) = NULL /\ Ex(p)' = NULL
  BY <1>2, <1>9, Zenon DEF Ex
<1>13. Bystanders({p}) => Tables'
  <2> SUFFICES ASSUME Bystanders({p}) PROVE Tables'
    BY Zenon
  <2>1. \A q \in Procs : q # p => cur'[q] = cur[q] /\ Ex(q)' = Ex(q)
    BY Zenon DEF Bystanders
  <2>2. \/ cur[p] = t /\ cur'[p] = NULL /\ Ex(p)' = Ex(p)
        \/ Ex(p) = t /\ Ex(p)' = NULL /\ cur'[p] = cur[p]
    BY <1>3, <1>7, <1>12, Zenon
  <2>3. Tables
    BY <1>1, Zenon DEF ProcOK
  <2> QED
    BY <1>3, <1>4, <2>1, <2>2, <2>3, TablesShrink, Zenon
<1>14. ProcOK'
  BY <1>1, <1>8, <1>9, <1>10, <1>11, <1>13, MovedOK, Zenon
<1> QED
  BY <1>4, <1>14, Zenon DEF VInv
-----------------------------------------------------------------------------
(* fork().                                                                 *)

\* What a step of a parent and its child leaves to show.
LEMMA TwoProcsOK ==
  ASSUME ProcOK, NEW p \in Procs, NEW c \in Procs, Bystanders({p, c}), ProcTypes', Tables',
         WorksOn(p)', WorksOn(c)', InRange(p)', InRange(c)', Parents'
  PROVE  ProcOK'
<1>1. Works' /\ Ranges'
  BY Zenon DEF Works, Ranges, Bystanders
<1> QED
  BY <1>1, Zenon DEF ProcOK

\* fork() up to the loop of uvmcopy().
LEMMA ForkStarts == ASSUME VInv, NEW p \in Procs, NEW c \in Procs, fork(p, c) PROVE VInv'
<1> PICK t : t = NewTable
  BY Zenon
<1> DEFINE r == [Idle EXCEPT !.t = t, !.child = c]
<1>1. /\ ProcOK /\ ProcTypes /\ super' = super /\ data' = data /\ sz' = sz /\ load' = load /\ pc[p] = "user"
      /\ allocproc(c, t) /\ pc' = [pc EXCEPT ![p] = "copy", ![c] = "embryo"] /\ k' = [k EXCEPT ![p] = r]
  BY Zenon DEF VInv, ProcOK, fork
<1>2. /\ MemOK' /\ t \in Tabs /\ t # NULL /\ Unused(t) /\ ~Unused(t)'
      /\ \A u \in Tabs : u # t => (Unused(u)' <=> Unused(u))
      /\ pc[c] = "unused" /\ Fresh(1) \in Frames
      /\ tf' = [tf EXCEPT ![c] = Fresh(1)] /\ cur' = [cur EXCEPT ![c] = t]
  BY <1>1, Allocproc, Zenon
<1>3. r \in Locals /\ r.t = t /\ r.child = c /\ r.segs = <<>> /\ "copy" \in Places /\ "embryo" \in Places
  BY <1>2, IdleIs, Zenon DEF Locals, Places
<1>4. p # c
  BY <1>1, <1>2, Zenon
<1> HIDE DEF r
<1>5. /\ pc' \in [Procs -> Places] /\ k' \in [Procs -> Locals] /\ pc'[p] = "copy" /\ pc'[c] = "embryo"
      /\ k'[p] = r /\ k'[c] = k[c] /\ \A q \in Procs \ {p, c} : pc'[q] = pc[q] /\ k'[q] = k[q]
  BY <1>1, <1>3, <1>4, Zenon DEF ProcTypes
<1>6. /\ cur' \in [Procs -> Tabs \cup {NULL}] /\ tf' \in [Procs -> Frames \cup {NULL}]
      /\ cur'[c] = t /\ tf'[c] \in Frames /\ \A q \in Procs : q # c => cur'[q] = cur[q] /\ tf'[q] = tf[q]
  BY <1>1, <1>2, Zenon DEF ProcTypes
<1>7. ProcTypes'
  BY <1>1, <1>5, <1>6, Zenon DEF ProcTypes
<1>8. \A q \in Procs : Forking(q) => k[q].child # p /\ k[q].child # c
  BY <1>1, <1>2, Zenon DEF ProcOK, Works, WorksOn
<1>9. Bystanders({p, c})
  <2>1. Only({p, c})
    BY <1>1, <1>5, <1>6, Zenon DEF Only
  <2> QED
    BY <1>1, <1>8, <2>1, Others, Zenon
<1>10. /\ Forking(p)' /\ ~AtHome(p)' /\ ~Resting(p)' /\ ~Execing(p)' /\ ~Freeing(p)' /\ ~Execing(p)
       /\ Resting(c)' /\ ~AtHome(c)' /\ ~Forking(c)' /\ ~Execing(c)' /\ ~Freeing(c)' /\ ~Execing(c)
  BY <1>1, <1>2, <1>5, Zenon DEF AtHome, Resting, Forking, Execing, Freeing
<1>11. WorksOn(p) /\ WorksOn(c) /\ InRange(p) /\ InRange(c) /\ Resting(c)
  BY <1>1, <1>2, Zenon DEF ProcOK, Works, Ranges, Resting
<1>12. WorksOn(c)'
  BY <1>2, <1>5, <1>6, <1>10, <1>11, Zenon DEF WorksOn
<1>13. WorksOn(p)'
  <2>1. cur'[p] \in Tabs /\ tf'[p] \in Frames
    BY <1>1, <1>4, <1>6, UserIs, Zenon
  <2> QED
    BY <1>3, <1>4, <1>5, <1>6, <1>10, <2>1, Zenon DEF WorksOn
<1>14. InRange(p)' /\ InRange(c)'
  <2>1. sz'[p] <= load.max /\ sz'[c] <= load.max
    BY <1>1, <1>11, Zenon DEF InRange
  <2> QED
    BY <1>1, <1>3, <1>5, <2>1, RestRange, Zenon
<1>15. Parents'
  <2>1. \A q \in Procs : q # p => (Forking(q)' => Forking(q) /\ k'[q].child = k[q].child)
    BY <1>9, <1>10, Zenon DEF Bystanders
  <2>2. k'[p].child = c
    BY <1>3, <1>5, Zenon
  <2> QED
    <3> SUFFICES ASSUME NEW a \in Procs, NEW b \in Procs, Forking(a)', Forking(b)', k'[a].child = k'[b].child
                 PROVE  a = b
      BY Zenon DEF Parents
    <3>1. CASE a # p /\ b # p
      BY <1>1, <2>1, <3>1, Zenon DEF ProcOK, Parents
    <3>2. CASE a = p \/ b = p
      BY <1>8, <2>1, <2>2, <3>2, Zenon
    <3> QED
      BY <3>1, <3>2, Zenon
<1>16. Tables'
  <2>1. Ex(p)' = Ex(p) /\ Ex(c)' = Ex(c)
    BY <1>10, Zenon DEF Ex
  <2>2. \A q \in Procs : q # c => cur'[q] = cur[q] /\ Ex(q)' = Ex(q)
    BY <1>6, <1>9, <2>1, Zenon DEF Bystanders
  <2>3. \/ cur[c] = NULL /\ cur'[c] = t /\ Ex(c)' = Ex(c)
        \/ Ex(c) = NULL /\ Ex(c)' = t /\ cur'[c] = cur[c]
    BY <1>2, <1>6, <1>11, <2>1, Zenon DEF WorksOn
  <2>4. Tables
    BY <1>1, Zenon DEF ProcOK
  <2> QED
    BY <1>2, <2>2, <2>3, <2>4, TablesGrow, Zenon
<1>17. ProcOK'
  BY <1>1, <1>7, <1>9, <1>12, <1>13, <1>14, <1>15, <1>16, TwoProcsOK, Zenon
<1> QED
  BY <1>2, <1>17, Zenon DEF VInv

\* What is known in the middle of a fork().
LEMMA ForkingIs ==
  ASSUME ProcOK, NEW p \in Procs, Forking(p)
  PROVE  \E c \in Procs :
           /\ c = k[p].child /\ p # c /\ pc[c] = "embryo" /\ k[p].t = cur[c] /\ cur[c] \in Tabs /\ tf[c] \in Frames
           /\ cur[c] # NULL /\ tf[c] # NULL
           /\ cur[p] \in Tabs /\ tf[p] \in Frames /\ k[c].t = NULL /\ ~Execing(p) /\ ~Execing(c) /\ ~Forking(c)
           /\ \A q \in Procs \ {p, c} : Forking(q) => k[q].child \notin {p, c}
<1>1. WorksOn(p) /\ pc[p] \in {"copy", "unmap"} /\ ~Execing(p) /\ ~Freeing(p)
  BY Zenon DEF ProcOK, Works, Forking, Execing, Freeing
<1>2. PICK c \in Procs : c = k[p].child /\ pc[c] = "embryo" /\ k[p].t = cur[c]
  BY <1>1, Zenon DEF WorksOn
<1>3. WorksOn(c) /\ Resting(c) /\ ~Execing(c) /\ ~Forking(c) /\ ~Freeing(c) /\ p # c
  BY <1>1, <1>2, Zenon DEF ProcOK, Works, Resting, Execing, Forking, Freeing
<1>4. \A q \in Procs \ {p, c} : Forking(q) => k[q].child \notin {p, c}
  BY <1>1, <1>2, Zenon DEF ProcOK, Parents, Works, WorksOn
<1>5. cur[c] \in Tabs /\ tf[c] \in Frames /\ k[c].t = NULL
  BY <1>2, <1>3, Zenon DEF WorksOn
<1>6. cur[p] \in Tabs /\ tf[p] \in Frames
  BY <1>1, Zenon DEF WorksOn
<1>7. NULL \notin Tabs /\ NULL \notin Frames
  BY NullNoFrame, VmAssumption, Zenon
<1> QED
  BY <1>1, <1>2, <1>3, <1>4, <1>5, <1>6, <1>7, Zenon

\* fork() after uvmcopy().
LEMMA ForkEnds == ASSUME VInv, NEW p \in Procs, fork_done(p) PROVE VInv'
<1>1. /\ MemOK /\ ProcOK /\ ProcTypes /\ pc[p] = "copy" /\ k' = [k EXCEPT ![p] = Idle]
      /\ free' = free /\ super' = super /\ data' = data /\ pt' = pt /\ cur' = cur /\ tf' = tf /\ load' = load
      /\ Forking(p)
  BY Zenon DEF VInv, ProcOK, fork_done, Forking
<1>2. PICK c \in Procs :
        /\ c = k[p].child /\ p # c /\ pc[c] = "embryo" /\ k[p].t = cur[c] /\ cur[c] \in Tabs /\ tf[c] \in Frames
        /\ cur[c] # NULL /\ tf[c] # NULL
        /\ cur[p] \in Tabs /\ tf[p] \in Frames /\ k[c].t = NULL /\ ~Execing(p) /\ ~Execing(c) /\ ~Forking(c)
        /\ \A q \in Procs \ {p, c} : Forking(q) => k[q].child \notin {p, c}
  BY <1>1, ForkingIs, Zenon
<1>3. sz' = [sz EXCEPT ![c] = sz[p]] /\ pc' = [pc EXCEPT ![p] = "user", ![c] = "user"]
  BY <1>2, Zenon DEF fork_done
<1>4. MemOK' /\ RootsStay
  BY <1>1, QuietStep, Zenon DEF MemOK, MemTypes
<1>5. Idle \in Locals /\ Idle.t = NULL /\ Idle.segs = <<>> /\ "user" \in Places
  BY IdleIs, Zenon DEF Places
<1>6. /\ pc' \in [Procs -> Places] /\ k' \in [Procs -> Locals] /\ pc'[p] = "user" /\ pc'[c] = "user"
      /\ k'[p] = Idle /\ k'[c] = k[c] /\ \A q \in Procs \ {p, c} : pc'[q] = pc[q] /\ k'[q] = k[q]
  BY <1>1, <1>2, <1>3, <1>5, Zenon DEF ProcTypes
<1>7. sz' \in [Procs -> Nat] /\ sz'[c] = sz[p] /\ \A q \in Procs : q # c => sz'[q] = sz[q]
  BY <1>1, <1>3, Zenon DEF ProcTypes
<1>8. ProcTypes'
  BY <1>1, <1>6, <1>7, Zenon DEF ProcTypes
<1>9. Bystanders({p, c})
  <2>1. Only({p, c})
    BY <1>1, <1>6, <1>7, Zenon DEF Only
  <2> QED
    BY <1>1, <1>2, <2>1, Others, Zenon
<1>10. /\ Resting(p)' /\ ~AtHome(p)' /\ ~Forking(p)' /\ ~Execing(p)' /\ ~Freeing(p)'
       /\ Resting(c)' /\ ~AtHome(c)' /\ ~Forking(c)' /\ ~Execing(c)' /\ ~Freeing(c)'
  BY <1>6, Zenon DEF AtHome, Resting, Forking, Execing, Freeing
<1>11. WorksOn(p)' /\ WorksOn(c)'
  BY <1>1, <1>2, <1>5, <1>6, <1>10, Zenon DEF WorksOn
<1>12. InRange(p)' /\ InRange(c)'
  <2>1. InRange(p)
    BY <1>1, Zenon DEF ProcOK, Ranges
  <2>2. sz'[p] <= load.max /\ sz'[c] <= load.max
    BY <1>2, <1>7, <2>1, Zenon DEF InRange
  <2> QED
    BY <1>1, <1>5, <1>6, <2>2, RestRange, Zenon
<1>13. Parents'
  <2>1. \A q \in Procs : Forking(q)' => Forking(q) /\ k'[q].child = k[q].child
    BY <1>9, <1>10, Zenon DEF Bystanders
  <2> QED
    BY <1>1, <2>1, Zenon DEF ProcOK, Parents
<1>14. Tables'
  <2>1. Ex(p)' = Ex(p) /\ Ex(c)' = Ex(c)
    BY <1>2, <1>10, Zenon DEF Ex
  <2>2. \A q \in Procs : cur'[q] = cur[q] /\ Ex(q)' = Ex(q)
    BY <1>1, <1>9, <2>1, Zenon DEF Bystanders
  <2> QED
    BY <1>1, <1>4, <2>2, TablesStay, Zenon DEF ProcOK
<1>15. ProcOK'
  BY <1>1, <1>8, <1>9, <1>11, <1>12, <1>13, <1>14, TwoProcsOK, Zenon
<1> QED
  BY <1>4, <1>15, Zenon DEF VInv

\* fork() after a failure of uvmcopy().
LEMMA ForkFails == ASSUME VInv, NEW p \in Procs, fork_failed(p) PROVE VInv'
<1>1. /\ MemOK /\ ProcOK /\ ProcTypes /\ pc[p] = "unmap" /\ k' = [k EXCEPT ![p] = Idle]
      /\ super' = super /\ sz' = sz /\ load' = load /\ Forking(p)
  BY Zenon DEF VInv, ProcOK, fork_failed, Forking, Unmapped
<1>2. PICK c \in Procs :
        /\ c = k[p].child /\ p # c /\ pc[c] = "embryo" /\ k[p].t = cur[c] /\ cur[c] \in Tabs /\ tf[c] \in Frames
        /\ cur[c] # NULL /\ tf[c] # NULL
        /\ cur[p] \in Tabs /\ tf[p] \in Frames /\ k[c].t = NULL /\ ~Execing(p) /\ ~Execing(c) /\ ~Forking(c)
        /\ \A q \in Procs \ {p, c} : Forking(q) => k[q].child \notin {p, c}
  BY <1>1, ForkingIs, Zenon
<1> PICK t : t = k[p].t
  BY Zenon
<1>3. /\ freewalk(t, {tf[c]}) /\ tf' = [tf EXCEPT ![c] = NULL] /\ cur' = [cur EXCEPT ![c] = NULL]
      /\ pc' = [pc EXCEPT ![p] = "user", ![c] = "unused"]
  BY <1>2, Zenon DEF fork_failed
<1>4. MemOK' /\ Unused(t)' /\ \A u \in Tabs : u # t => (Unused(u)' <=> Unused(u))
  <2> PICK F : F = {tf[c]}
    BY Zenon
  <2>1. \/ F = {} /\ tf' = tf
        \/ /\ tf \in [Procs -> Frames \cup {NULL}]
           /\ \E d \in Procs : F = {tf[d]} /\ tf[d] # NULL /\ tf' = [tf EXCEPT ![d] = NULL]
    BY <1>1, <1>2, <1>3, Zenon DEF ProcTypes
  <2>2. t \in Tabs /\ freewalk(t, F)
    BY <1>2, <1>3, Zenon
  <2> QED
    BY <1>1, <2>1, <2>2, FreeTable, Zenon
<1>5. Idle \in Locals /\ Idle.t = NULL /\ Idle.segs = <<>> /\ "user" \in Places /\ "unused" \in Places
  BY IdleIs, Zenon DEF Places
<1>6. /\ pc' \in [Procs -> Places] /\ k' \in [Procs -> Locals] /\ pc'[p] = "user" /\ pc'[c] = "unused"
      /\ k'[p] = Idle /\ k'[c] = k[c] /\ \A q \in Procs \ {p, c} : pc'[q] = pc[q] /\ k'[q] = k[q]
  BY <1>1, <1>2, <1>3, <1>5, Zenon DEF ProcTypes
<1>7. /\ cur' \in [Procs -> Tabs \cup {NULL}] /\ tf' \in [Procs -> Frames \cup {NULL}]
      /\ cur'[c] = NULL /\ tf'[c] = NULL /\ \A q \in Procs : q # c => cur'[q] = cur[q] /\ tf'[q] = tf[q]
  BY <1>1, <1>3, Zenon DEF ProcTypes
<1>8. ProcTypes'
  BY <1>1, <1>6, <1>7, Zenon DEF ProcTypes
<1>9. Bystanders({p, c})
  <2>1. Only({p, c})
    BY <1>1, <1>6, <1>7, Zenon DEF Only
  <2> QED
    BY <1>1, <1>2, <2>1, Others, Zenon
<1>10. /\ Resting(p)' /\ ~AtHome(p)' /\ ~Forking(p)' /\ ~Execing(p)' /\ ~Freeing(p)'
       /\ Resting(c)' /\ ~AtHome(c)' /\ ~Forking(c)' /\ ~Execing(c)' /\ ~Freeing(c)'
  BY <1>6, Zenon DEF AtHome, Resting, Forking, Execing, Freeing
<1>11. WorksOn(p)' /\ WorksOn(c)'
  BY <1>2, <1>5, <1>6, <1>7, <1>10, Zenon DEF WorksOn
<1>12. InRange(p)' /\ InRange(c)'
  <2>1. InRange(p) /\ InRange(c)
    BY <1>1, Zenon DEF ProcOK, Ranges
  <2>2. sz'[p] <= load.max /\ sz'[c] <= load.max
    BY <1>1, <2>1, Zenon DEF InRange
  <2> QED
    BY <1>1, <1>5, <1>6, <2>2, RestRange, Zenon
<1>13. Parents'
  <2>1. \A q \in Procs : Forking(q)' => Forking(q) /\ k'[q].child = k[q].child
    BY <1>9, <1>10, Zenon DEF Bystanders
  <2> QED
    BY <1>1, <2>1, Zenon DEF ProcOK, Parents
<1>14. Tables'
  <2>1. Ex(p)' = Ex(p) /\ Ex(c)' = Ex(c)
    BY <1>2, <1>10, Zenon DEF Ex
  <2>2. \A q \in Procs : q # c => cur'[q] = cur[q] /\ Ex(q)' = Ex(q)
    BY <1>7, <1>9, <2>1, Zenon DEF Bystanders
  <2>3. \/ cur[c] = t /\ cur'[c] = NULL /\ Ex(c)' = Ex(c)
        \/ Ex(c) = t /\ Ex(c)' = NULL /\ cur'[c] = cur[c]
    BY <1>2, <1>7, <2>1, Zenon
  <2>4. Tables /\ t \in Tabs /\ t # NULL
    BY <1>1, <1>2, Zenon DEF ProcOK
  <2> QED
    BY <1>4, <2>2, <2>3, <2>4, TablesShrink, Zenon
<1>15. ProcOK'
  BY <1>1, <1>8, <1>9, <1>11, <1>12, <1>13, <1>14, TwoProcsOK, Zenon
<1> QED
  BY <1>4, <1>15, Zenon DEF VInv
-----------------------------------------------------------------------------
(* exec(), and memory that is only written.                                *)

\* A process in exec() has two tables.
LEMMA ExecIs ==
  ASSUME ProcOK, NEW p \in Procs, Execing(p)
  PROVE  /\ ProcTypes /\ InRange(p) /\ k[p] \in Locals /\ k[p].t \in Tabs /\ cur[p] \in Tabs /\ tf[p] \in Frames
         /\ k[p].t # NULL /\ cur[p] # NULL
         /\ Ex(p) = k[p].t /\ sz[p] \in Nat /\ sz[p] <= load.max
         /\ ~AtHome(p) /\ ~Forking(p) /\ ~Resting(p) /\ ~Freeing(p) /\ pc[p] # "embryo"
<1>1. WorksOn(p) /\ ProcTypes /\ InRange(p) /\ k[p] \in Locals /\ sz[p] \in Nat
  BY Zenon DEF ProcOK, Works, Ranges, ProcTypes
<1>2. ~AtHome(p) /\ ~Forking(p) /\ ~Resting(p) /\ ~Freeing(p) /\ pc[p] # "embryo" /\ pc[p] # "unused"
  BY Zenon DEF AtHome, Forking, Resting, Freeing, Execing
<1>3. k[p].t \in Tabs /\ cur[p] \in Tabs /\ tf[p] \in Frames /\ NULL \notin Tabs
  BY <1>1, <1>2, VmAssumption, Zenon DEF WorksOn
<1>4. sz[p] <= load.max /\ Ex(p) = k[p].t
  BY <1>1, Zenon DEF InRange, Ex
<1> QED
  BY <1>1, <1>2, <1>3, <1>4, Zenon

\* exec() up to its loop.
LEMMA ExecStarts == ASSUME VInv, NEW p \in Procs, NEW prog \in load.programs, exec(p, prog) PROVE VInv'
<1> PICK t : t = NewTable
  BY Zenon
<1> DEFINE r == [Idle EXCEPT !.t = t, !.segs = prog]
<1>1. /\ MemOK /\ ProcOK /\ super' = super /\ data' = data /\ cur' = cur /\ sz' = sz /\ tf' = tf /\ pc[p] = "user"
      /\ kalloc(3) /\ pt' = [pt EXCEPT ![t] = proc_pagetable(0, tf[p])] /\ Enter(p, "exec", r)
  BY Zenon DEF VInv, exec
<1>2. t \in Tabs /\ Unused(t) /\ t # NULL
  BY NewTableIs, Zenon DEF exec
<1>3. /\ ProcTypes /\ cur[p] \in Tabs /\ tf[p] \in Frames /\ sz[p] \in Nat /\ sz[p] <= load.max
      /\ ~AtHome(p) /\ ~Forking(p) /\ ~Execing(p) /\ ~Freeing(p)
  BY <1>1, UserIs, Zenon
<1>4. /\ prog \in Seq(Segments) /\ Fits(load, 0)
      /\ \A i \in 1 .. Len(prog) : Fits(load, prog[i].vaddr * PGSIZE + prog[i].memsz)
  BY <1>3, WorkloadAssumption, Zenon DEF ProcTypes
<1>5. MemOK' /\ ~Unused(t)' /\ \A u \in Tabs : u # t => (Unused(u)' <=> Unused(u))
  <2>1. \/ tf' = tf
        \/ 0 = 1 /\ tf \in [Procs -> Frames \cup {NULL}] /\ \E d \in Procs : tf' = [tf EXCEPT ![d] = Fresh(1)]
    BY <1>1, Zenon
  <2>2. 0 \in {0, 1} /\ kalloc(3 + 0)
    <3>1. 3 + 0 = 3
      OBVIOUS
    <3> QED
      BY <1>1, <3>1, Zenon
  <2> PICK frame \in Frames : frame = tf[p]
    BY <1>3, Zenon
  <2>3. pt' = [pt EXCEPT ![t] = proc_pagetable(0, frame)]
    BY <1>1, Zenon
  <2> QED
    BY <1>1, <1>2, <2>1, <2>2, <2>3, Creates, Zenon
<1>6. r \in Locals /\ r.t = t /\ r.segs = prog /\ r.brk = 0 /\ "exec" \in Places
  BY <1>2, <1>4, IdleIs, Zenon DEF Locals, Places
<1> HIDE DEF r
<1>7. /\ pc'[p] = "exec" /\ k'[p] = r /\ pc' \in [Procs -> Places] /\ k' \in [Procs -> Locals] /\ load' = load
      /\ \A q \in Procs \ {p} : pc'[q] = pc[q] /\ k'[q] = k[q]
  BY <1>1, <1>3, <1>6, Entered, Zenon
<1>8. Moved(p)
  BY <1>1, <1>3, <1>7, Zenon DEF Moved, ProcTypes
<1>9. Execing(p)' /\ ~AtHome(p)' /\ ~Resting(p)' /\ ~Forking(p)' /\ ~Freeing(p)'
  BY <1>7, Zenon DEF AtHome, Resting, Forking, Execing, Freeing
<1>10. WorksOn(p)'
  BY <1>1, <1>2, <1>3, <1>6, <1>7, <1>9, Zenon DEF WorksOn
<1>11. InRange(p)'
  BY <1>1, <1>3, <1>4, <1>6, <1>7, Zenon DEF InRange, Fits
<1>12. Bystanders({p}) => Tables'
  <2> SUFFICES ASSUME Bystanders({p}) PROVE Tables'
    BY Zenon
  <2>1. \A q \in Procs : q # p => cur'[q] = cur[q] /\ Ex(q)' = Ex(q)
    BY Zenon DEF Bystanders
  <2>2. \/ cur[p] = NULL /\ cur'[p] = t /\ Ex(p)' = Ex(p)
        \/ Ex(p) = NULL /\ Ex(p)' = t /\ cur'[p] = cur[p]
    BY <1>1, <1>3, <1>6, <1>7, <1>9, Zenon DEF Ex
  <2>3. Tables
    BY <1>1, Zenon DEF ProcOK
  <2> QED
    BY <1>2, <1>5, <2>1, <2>2, <2>3, TablesGrow, Zenon
<1>13. ProcOK'
  BY <1>1, <1>8, <1>9, <1>10, <1>11, <1>12, MovedOK, Zenon
<1> QED
  BY <1>5, <1>13, Zenon DEF VInv

\* A step from one part of exec() to another, on the same table.
LEMMA ExecGoes ==
  ASSUME ProcOK, NEW p \in Procs, Execing(p), Execing(p)', NEW place \in Places, NEW r \in Locals, Enter(p, place, r),
         r.t = k[p].t, cur' = cur, sz' = sz, tf' = tf, RootsStay, InRange(p)'
  PROVE  ProcOK'
<1>1. /\ pc'[p] = place /\ k'[p] = r /\ pc' \in [Procs -> Places] /\ k' \in [Procs -> Locals] /\ load' = load
      /\ \A q \in Procs \ {p} : pc'[q] = pc[q] /\ k'[q] = k[q]
  BY Entered, Zenon DEF ProcOK
<1>2. Moved(p)
  BY <1>1, Zenon DEF Moved, ProcOK, ProcTypes
<1>3. /\ ~AtHome(p) /\ ~Forking(p) /\ ~Resting(p) /\ ~Freeing(p)
      /\ ~AtHome(p)' /\ ~Forking(p)' /\ ~Resting(p)' /\ ~Freeing(p)'
  BY Zenon DEF AtHome, Forking, Resting, Freeing, Execing
<1>4. Goes(p)
  BY <1>1, <1>2, <1>3, Zenon DEF Goes
<1> QED
  BY <1>4, SameCall, Zenon

\* exec()'s uvmalloc() of a segment or of the stack.
LEMMA ExecAllocs == ASSUME VInv, NEW p \in Procs, exec_alloc(p) PROVE VInv'
<1> DEFINE brk == k[p].brk
           seg == Head(k[p].segs)
           top == seg.vaddr * PGSIZE + seg.memsz
           R(end, perm, call) == [k[p] EXCEPT !.a = PGROUNDUP(brk), !.lo = PGROUNDUP(brk), !.end = end,
                                              !.perm = perm, !.call = call]
<1>1. /\ MemOK /\ ProcOK /\ pc[p] = "exec" /\ free' = free /\ super' = super /\ data' = data /\ pt' = pt
      /\ cur' = cur /\ sz' = sz /\ tf' = tf
  BY Zenon DEF VInv, exec_alloc
<1>2. MemOK' /\ RootsStay
  BY <1>1, QuietStep, Zenon DEF MemOK, MemTypes
<1>3. Execing(p)
  BY <1>1, Zenon DEF Execing
<1>4. /\ ProcTypes /\ InRange(p) /\ k[p] \in Locals /\ brk \in Nat /\ k[p].segs \in Seq(Segments) /\ Fits(load, brk)
      /\ load.max \in Nat
  BY <1>1, <1>3, ExecIs, MaxIs, Zenon DEF Locals, InRange
<1>5. /\ brk <= load.max /\ PGROUNDUP(brk) + USERSTACK + 1 \in Nat /\ PGROUNDUP(brk) \in Nat
      /\ brk <= (PGROUNDUP(brk) + USERSTACK + 1) * PGSIZE /\ (PGROUNDUP(brk) + USERSTACK + 1) * PGSIZE \in Nat
      /\ (PGROUNDUP(brk) + USERSTACK + 1) * PGSIZE <= load.max
  BY <1>4, FitsIs, RoundUp, Zenon
<1>6. ASSUME NEW end \in Nat, NEW perm \in SUBSET Flags, NEW call \in {"seg", "stack"}, Enter(p, "alloc", R(end, perm, call)),
             brk <= end, end <= load.max, call = "seg" => k[p].segs # <<>> /\ Fits(load, end),
             call = "stack" => end = (PGROUNDUP(brk) + USERSTACK + 1) * PGSIZE
      PROVE  VInv'
  <2> DEFINE r == R(end, perm, call)
  <2>1. /\ r \in Locals /\ r.t = k[p].t /\ r.segs = k[p].segs /\ r.brk = brk /\ r.call = call /\ r.end = end
        /\ r.a = PGROUNDUP(brk)
    BY <1>4, <1>5, <1>6, Zenon DEF Locals, Calls
  <2>2. "alloc" \in Places /\ Enter(p, "alloc", r)
    BY <1>6, Zenon DEF Places
  <2> HIDE DEF r
  <2>3. pc'[p] = "alloc" /\ k'[p] = r /\ load' = load
    BY <1>4, <2>1, <2>2, Entered, Zenon
  <2>4. Execing(p)'
    BY <2>1, <2>3, Zenon DEF Execing
  <2>5. PGROUNDUP(brk) <= PGROUNDUP(end)
    BY <1>4, <1>6, RoundUpOrder, Zenon
  <2>6. InRange(p)'
    BY <1>1, <1>4, <1>5, <1>6, <2>1, <2>3, <2>5, Zenon DEF InRange, Fits
  <2>7. ProcOK'
    BY <1>1, <1>2, <1>3, <2>1, <2>2, <2>4, <2>6, ExecGoes, Zenon
  <2> QED
    BY <1>2, <2>7, Zenon DEF VInv
<1>7. CASE k[p].segs # <<>>
  <2> DEFINE end == IF top < brk THEN brk ELSE top
  <2>1. seg \in Segments /\ Fits(load, top)
    <3>1. 1 \in 1 .. Len(k[p].segs) /\ seg = k[p].segs[1] /\ k[p].segs[1] \in Segments
      BY <1>4, <1>7
    <3> QED
      BY <1>4, <3>1, Zenon DEF InRange
  <2>2. top \in Nat /\ seg.perm \in SUBSET Flags
    BY <2>1, VmAssumption DEF Segments, Flags
  <2> HIDE DEF top
  <2>3. top <= load.max
    BY <1>4, <2>1, <2>2, FitsIs, Zenon
  <2>4. end \in Nat /\ brk <= end /\ end <= load.max /\ Fits(load, end)
    BY <1>4, <1>5, <2>1, <2>2, <2>3
  <2>5. Enter(p, "alloc", R(end, seg.perm, "seg"))
    BY <1>7, Zenon DEF exec_alloc, uvmalloc, top
  <2>6. "seg" \in {"seg", "stack"} /\ "seg" # "stack"
    BY Zenon
  <2> HIDE DEF end, R, brk, seg
  <2> QED
    BY <1>6, <1>7, <2>2, <2>4, <2>5, <2>6, Zenon
<1>8. CASE k[p].segs = <<>>
  <2> DEFINE end == (PGROUNDUP(brk) + USERSTACK + 1) * PGSIZE
  <2>1. Enter(p, "alloc", R(end, {"W"}, "stack"))
    BY <1>8, Zenon DEF exec_alloc, uvmalloc
  <2>2. {"W"} \in SUBSET Flags /\ "stack" \in {"seg", "stack"} /\ "seg" # "stack"
    BY Zenon DEF Flags
  <2>3. end \in Nat /\ brk <= end /\ end <= load.max
    BY <1>5, Zenon
  <2>4. end = (PGROUNDUP(brk) + USERSTACK + 1) * PGSIZE
    BY Zenon
  <2> HIDE DEF end, R, brk
  <2> QED
    BY <1>6, <2>1, <2>2, <2>3, <2>4, Zenon
<1> QED
  BY <1>7, <1>8, Zenon

\* loadseg().
LEMMA Loads == ASSUME VInv, NEW p \in Procs, loadseg(p) PROVE VInv'
<1> DEFINE r == [k[p] EXCEPT !.brk = k[p].end, !.segs = Tail(k[p].segs)]
<1>1. /\ MemOK /\ ProcOK /\ pc[p] = "alloc" /\ k[p].call = "seg" /\ free' = free /\ super' = super /\ pt' = pt
      /\ cur' = cur /\ sz' = sz /\ tf' = tf /\ Enter(p, "exec", r)
  BY Zenon DEF VInv, loadseg, Allocated
<1>2. data' \in [Frames -> Contents]
  <2>1. PICK into : data' = [f \in Frames |-> IF f \in into THEN "file" ELSE data[f]]
    BY Zenon DEF loadseg
  <2> QED
    BY <1>1, <2>1, Zenon DEF MemOK, MemTypes, Contents
<1>3. MemOK' /\ RootsStay
  BY <1>1, <1>2, QuietStep, Zenon
<1>4. Execing(p)
  BY <1>1, Zenon DEF Execing
<1>5. /\ ProcTypes /\ InRange(p) /\ k[p] \in Locals /\ k[p].segs \in Seq(Segments) /\ k[p].end \in Nat
      /\ k[p].segs # <<>> /\ Fits(load, k[p].end)
  BY <1>1, <1>4, ExecIs, Zenon DEF Locals, InRange
<1>6. /\ Tail(k[p].segs) \in Seq(Segments)
      /\ \A i \in 1 .. Len(Tail(k[p].segs)) : i + 1 \in 1 .. Len(k[p].segs) /\ Tail(k[p].segs)[i] = k[p].segs[i + 1]
  BY <1>5
<1>7. r \in Locals /\ r.t = k[p].t /\ r.segs = Tail(k[p].segs) /\ r.brk = k[p].end /\ "exec" \in Places
  BY <1>5, <1>6, Zenon DEF Locals, Places
<1> HIDE DEF r
<1>8. pc'[p] = "exec" /\ k'[p] = r /\ load' = load
  BY <1>1, <1>5, <1>7, Entered, Zenon
<1>9. Execing(p)'
  BY <1>8, Zenon DEF Execing
<1>10. InRange(p)'
  <2>1. \A i \in 1 .. Len(r.segs) : Fits(load, r.segs[i].vaddr * PGSIZE + r.segs[i].memsz)
    BY <1>5, <1>6, <1>7, Zenon DEF InRange
  <2>2. sz'[p] <= load.max
    BY <1>1, <1>5, Zenon DEF InRange
  <2> QED
    BY <1>5, <1>7, <1>8, <2>1, <2>2, Zenon DEF InRange, Fits
<1>11. ProcOK'
  BY <1>1, <1>3, <1>4, <1>7, <1>9, <1>10, ExecGoes, Zenon
<1> QED
  BY <1>3, <1>11 DEF VInv
\* exec() starts to take a table down.
LEMMA ExecFreeIs ==
  ASSUME ProcTypes, NEW p \in Procs, NEW t \in Tabs, NEW size \in Nat, size <= load.max, exec_free(p, t, size)
  PROVE  \E r \in Locals : /\ Enter(p, "unmap", r) /\ "unmap" \in Places /\ r.t = t /\ r.call = "exec" /\ r.segs = <<>>
                           /\ r.end <= PGROUNDUP(load.max)
<1> DEFINE i == [Idle EXCEPT !.t = t]
           r == [i EXCEPT !.a = 0, !.end = PGROUNDUP(size), !.call = "exec"]
<1>1. PGROUNDUP(size) \in Nat /\ PGROUNDUP(size) <= PGROUNDUP(load.max)
  BY RoundUp, RoundUpOrder, MaxIs, Zenon
<1>2. r \in Locals /\ r.t = t /\ r.call = "exec" /\ r.segs = <<>> /\ r.end = PGROUNDUP(size)
  <2>1. i \in Locals /\ i.t = t /\ i.segs = <<>>
    BY IdleIs, Zenon DEF Locals
  <2>2. "exec" \in Calls
    BY Zenon DEF Calls
  <2> HIDE DEF i
  <2> QED
    BY <1>1, <2>1, <2>2, Zenon DEF Locals
<1>3. Enter(p, "unmap", r) /\ "unmap" \in Places
  BY Zenon DEF exec_free, uvmunmap, Places
<1> HIDE DEF r
<1> QED
  BY <1>1, <1>2, <1>3, Zenon

\* exec()'s failure.
LEMMA ExecFails == ASSUME VInv, NEW p \in Procs, exec_bad(p) PROVE VInv'
<1>1. /\ MemOK /\ ProcOK /\ free' = free /\ super' = super /\ data' = data /\ pt' = pt
      /\ cur' = cur /\ sz' = sz /\ tf' = tf
  BY Zenon DEF VInv, exec_bad
<1>2. MemOK' /\ RootsStay
  BY <1>1, QuietStep, Zenon DEF MemOK, MemTypes
<1>3. Execing(p)
  BY Zenon DEF exec_bad, Unmapped, Allocated, Execing
<1>4. /\ ProcTypes /\ InRange(p) /\ k[p].t \in Tabs /\ k[p].brk \in Nat /\ k[p].end \in Nat
      /\ sz[p] <= load.max
  BY <1>1, <1>3, ExecIs, Zenon DEF Locals
<1>5. PICK size \in Nat : size <= load.max /\ exec_free(p, k[p].t, size)
  <2>1. CASE Unmapped(p, {"seg", "stack"}) /\ exec_free(p, k[p].t, k[p].brk)
    <3>1. k[p].brk <= load.max
      BY <1>4, <2>1, Zenon DEF Unmapped, InRange
    <3> QED
      BY <1>4, <2>1, <3>1, Zenon
  <2>2. CASE (Allocated(p, "seg") \/ Allocated(p, "stack")) /\ exec_free(p, k[p].t, k[p].end)
    <3>1. k[p].end <= load.max
      BY <1>4, <2>2, Zenon DEF Allocated, InRange
    <3> QED
      BY <1>4, <2>2, <3>1, Zenon
  <2>3. CASE pc[p] = "exec" /\ exec_free(p, k[p].t, k[p].brk)
    <3>1. k[p].brk <= load.max
      BY <1>4, <2>3, FitsIs, Zenon DEF InRange
    <3> QED
      BY <1>4, <2>3, <3>1, Zenon
  <2> QED
    BY <2>1, <2>2, <2>3, Zenon DEF exec_bad
<1>6. PICK r \in Locals : /\ Enter(p, "unmap", r) /\ "unmap" \in Places /\ r.t = k[p].t /\ r.call = "exec" /\ r.segs = <<>>
                          /\ r.end <= PGROUNDUP(load.max)
  BY <1>4, <1>5, ExecFreeIs, Zenon
<1>7. pc'[p] = "unmap" /\ k'[p] = r /\ load' = load
  <2>1. ProcTypes /\ Enter(p, "unmap", r) /\ "unmap" \in Places
    BY <1>4, <1>6, Zenon
  <2> QED
    BY <2>1, Entered, Zenon
<1>8. Execing(p)'
  BY <1>6, <1>7, Zenon DEF Execing
<1>9. InRange(p)'
  BY <1>1, <1>4, <1>6, <1>7, UnmapRange, Zenon
<1>10. ProcOK'
  BY <1>1, <1>2, <1>3, <1>6, <1>8, <1>9, ExecGoes, Zenon
<1> QED
  BY <1>2, <1>10, Zenon DEF VInv

\* exec() commits.
LEMMA ExecCommits == ASSUME VInv, NEW p \in Procs, exec_commit(p) PROVE VInv'
<1> PICK t : t = k[p].t
  OBVIOUS
<1> DEFINE n == PGROUNDUP(k[p].end) - (USERSTACK + 1)
           guard == walk(t, n)
<1>1. /\ MemOK /\ ProcOK /\ pc[p] = "alloc" /\ k[p].call = "stack" /\ guard # <<>>
      /\ pt' = [pt EXCEPT ![t][guard].flags = @ \ {"U"}]
      /\ data' = [data EXCEPT ![walkaddr(t, PGROUNDUP(k[p].end) - 1)] = "user"]
      /\ cur' = [cur EXCEPT ![p] = t] /\ sz' = [sz EXCEPT ![p] = k[p].end] /\ exec_free(p, cur[p], sz[p])
      /\ free' = free /\ super' = super /\ tf' = tf
  BY Zenon DEF VInv, exec_commit, Allocated
<1>2. Execing(p)
  BY <1>1, Zenon DEF Execing
<1>3. /\ ProcTypes /\ InRange(p) /\ k[p] \in Locals /\ t \in Tabs /\ cur[p] \in Tabs /\ tf[p] \in Frames /\ t # NULL
      /\ cur[p] # NULL /\ Ex(p) = t /\ sz[p] \in Nat /\ sz[p] <= load.max /\ pc[p] # "embryo"
  BY <1>1, <1>2, ExecIs, Zenon
<1>4. /\ k[p].end \in Nat /\ k[p].brk \in Nat /\ k[p].end <= load.max /\ USERSTACK \in Nat
      /\ k[p].end = (PGROUNDUP(k[p].brk) + USERSTACK + 1) * PGSIZE
  BY <1>1, <1>3, VmAssumption, Zenon DEF Locals, InRange
<1>5. n \in UserPages
  <2> DEFINE R == PGROUNDUP(k[p].brk)
  <2>1. R \in Nat /\ R + USERSTACK + 1 \in Nat
    BY <1>4, RoundUp
  <2>2. PGROUNDUP((R + USERSTACK + 1) * PGSIZE) = R + USERSTACK + 1
    BY <2>1, RoundUpExact, Zenon
  <2>3. PGROUNDUP(k[p].end) = R + USERSTACK + 1
    BY <1>4, <2>2, Zenon
  <2>4. PGROUNDUP(k[p].end) <= PGROUNDUP(MaxSize) /\ PGROUNDUP(MaxSize) \in Nat
    <3>1. load.max \in Nat /\ PGROUNDUP(load.max) <= PGROUNDUP(MaxSize) /\ PGROUNDUP(MaxSize) \in Nat
      BY <1>3, MaxIs, Zenon
    <3>2. PGROUNDUP(k[p].end) <= PGROUNDUP(load.max) /\ PGROUNDUP(k[p].end) \in Nat /\ PGROUNDUP(load.max) \in Nat
      BY <1>4, <3>1, RoundUpOrder, RoundUp, Zenon
    <3> QED
      BY <3>1, <3>2
  <2> HIDE DEF R
  <2>5. n = R
    BY <1>4, <2>1, <2>3
  <2>6. R < PGROUNDUP(MaxSize)
    BY <1>4, <2>1, <2>3, <2>4
  <2> QED
    BY <2>1, <2>4, <2>5, <2>6, InUserPages, Zenon
<1>6. guard \in Locs
  <2> HIDE DEF n
  <2> QED
    BY <1>1, <1>5, WalkIs, Zenon
<1>7. data' \in [Frames -> Contents]
  <2>1. "user" \in Contents /\ data \in [Frames -> Contents]
    BY <1>1, Zenon DEF MemOK, MemTypes, Contents
  <2> QED
    BY <1>1, <2>1, Zenon
<1>8. MemOK' /\ RootsStay
  <2> PICK l : l = guard
    BY Zenon
  <2>1. l \in Locs /\ pt' = [pt EXCEPT ![t][l].flags = @ \ {"U"}]
    BY <1>1, <1>6, Zenon
  <2> QED
    BY <1>1, <1>3, <1>7, <2>1, GuardStep, Zenon
<1>9. PICK r \in Locals : /\ Enter(p, "unmap", r) /\ "unmap" \in Places /\ r.t = cur[p] /\ r.call = "exec" /\ r.segs = <<>>
                          /\ r.end <= PGROUNDUP(load.max)
  BY <1>1, <1>3, ExecFreeIs, Zenon
<1> HIDE DEF guard, n
<1>10. /\ pc'[p] = "unmap" /\ k'[p] = r /\ pc' \in [Procs -> Places] /\ k' \in [Procs -> Locals] /\ load' = load
       /\ \A q \in Procs \ {p} : pc'[q] = pc[q] /\ k'[q] = k[q]
  BY <1>3, <1>9, Entered, Zenon
<1>11. /\ cur' \in [Procs -> Tabs \cup {NULL}] /\ sz' \in [Procs -> Nat] /\ cur'[p] = t /\ sz'[p] = k[p].end
       /\ \A q \in Procs \ {p} : cur'[q] = cur[q] /\ sz'[q] = sz[q]
  BY <1>1, <1>3, <1>4, Zenon DEF ProcTypes
<1>12. Moved(p)
  BY <1>1, <1>3, <1>10, <1>11, Zenon DEF Moved, ProcTypes
<1>13. Execing(p)' /\ ~AtHome(p)' /\ ~Resting(p)' /\ ~Forking(p)' /\ ~Freeing(p)'
  BY <1>9, <1>10, Zenon DEF AtHome, Resting, Forking, Execing, Freeing
<1>14. WorksOn(p)'
  BY <1>1, <1>3, <1>9, <1>10, <1>11, <1>13, Zenon DEF WorksOn
<1>15. InRange(p)'
  BY <1>1, <1>3, <1>4, <1>9, <1>10, <1>11, UnmapRange, Zenon
<1>16. Bystanders({p}) => Tables'
  <2> SUFFICES ASSUME Bystanders({p}) PROVE Tables'
    BY Zenon
  <2>1. \A q \in Procs : q # p => cur'[q] = cur[q] /\ Ex(q)' = Ex(q)
    BY Zenon DEF Bystanders
  <2>2. cur'[p] = Ex(p) /\ Ex(p)' = cur[p] /\ cur[p] # NULL /\ Ex(p) # NULL
    BY <1>3, <1>9, <1>10, <1>11, <1>13, Zenon DEF Ex
  <2>3. Tables
    BY <1>1, Zenon DEF ProcOK
  <2> QED
    BY <1>8, <2>1, <2>2, <2>3, TablesSwap, Zenon
<1>17. ProcOK'
  BY <1>1, <1>3, <1>12, <1>13, <1>14, <1>15, <1>16, MovedOK, Zenon
<1> QED
  BY <1>8, <1>17, Zenon DEF VInv

\* exec() has taken down the table it gives up.
LEMMA ExecEnds == ASSUME VInv, NEW p \in Procs, exec_done(p) PROVE VInv'
<1> PICK t : t = k[p].t
  OBVIOUS
<1>1. /\ MemOK /\ ProcOK /\ pc[p] = "unmap" /\ k[p].call = "exec" /\ freewalk(t, {}) /\ super' = super /\ tf' = tf
      /\ cur' = cur /\ sz' = sz /\ Enter(p, "user", Idle)
  BY Zenon DEF VInv, exec_done, Unmapped, Return
<1>2. Execing(p)
  BY <1>1, Zenon DEF Execing
<1>3. /\ ProcTypes /\ t \in Tabs /\ cur[p] \in Tabs /\ tf[p] \in Frames /\ t # NULL
      /\ Ex(p) = t /\ sz[p] <= load.max /\ pc[p] # "embryo"
  BY <1>1, <1>2, ExecIs, Zenon
<1>4. MemOK' /\ Unused(t)' /\ \A u \in Tabs : u # t => (Unused(u)' <=> Unused(u))
  <2>1. \/ {} = {} /\ tf' = tf
        \/ /\ tf \in [Procs -> Frames \cup {NULL}]
           /\ \E c \in Procs : {} = {tf[c]} /\ tf[c] # NULL /\ tf' = [tf EXCEPT ![c] = NULL]
    BY <1>1, Zenon
  <2> QED
    BY <1>1, <1>3, <2>1, FreeTable, Zenon
<1>5. Idle \in Locals /\ Idle.t = NULL /\ Idle.segs = <<>> /\ "user" \in Places
  BY IdleIs, Zenon DEF Places
<1>6. /\ pc'[p] = "user" /\ k'[p] = Idle /\ pc' \in [Procs -> Places] /\ k' \in [Procs -> Locals] /\ load' = load
      /\ \A q \in Procs \ {p} : pc'[q] = pc[q] /\ k'[q] = k[q]
  BY <1>1, <1>3, <1>5, Entered, Zenon
<1>7. Moved(p)
  BY <1>1, <1>3, <1>6, Zenon DEF Moved, ProcTypes
<1>8. Resting(p)' /\ ~AtHome(p)' /\ ~Forking(p)' /\ ~Execing(p)' /\ ~Freeing(p)'
  BY <1>6, Zenon DEF AtHome, Resting, Forking, Execing, Freeing
<1>9. WorksOn(p)'
  BY <1>1, <1>3, <1>5, <1>6, <1>8, Zenon DEF WorksOn
<1>10. InRange(p)'
  BY <1>1, <1>3, <1>5, <1>6, RestRange, Zenon
<1>11. Bystanders({p}) => Tables'
  <2> SUFFICES ASSUME Bystanders({p}) PROVE Tables'
    OBVIOUS
  <2>1. \A q \in Procs : q # p => cur'[q] = cur[q] /\ Ex(q)' = Ex(q)
    BY DEF Bystanders
  <2>2. \/ cur[p] = t /\ cur'[p] = NULL /\ Ex(p)' = Ex(p)
        \/ Ex(p) = t /\ Ex(p)' = NULL /\ cur'[p] = cur[p]
    BY <1>1, <1>3, <1>8, Zenon DEF Ex
  <2>3. Tables
    BY <1>1, Zenon DEF ProcOK
  <2> QED
    BY <1>3, <1>4, <2>1, <2>2, <2>3, TablesShrink, Zenon
<1>12. ProcOK'
  BY <1>1, <1>3, <1>7, <1>8, <1>9, <1>10, <1>11, MovedOK, Zenon
<1> QED
  BY <1>4, <1>12 DEF VInv

\* A step that at most writes to memory.
LEMMA Writes ==
  ASSUME VInv, UNCHANGED <<free, super, pt, pc, k, cur, sz, tf, load>>, data' \in [Frames -> Contents] PROVE VInv'
<1>1. MemOK' /\ RootsStay /\ ProcOK
  BY QuietStep, Zenon DEF VInv
<1>2. Bystanders({})
  <2>1. Only({})
    BY Zenon DEF Only
  <2> QED
    BY <1>1, <2>1, Others, Zenon
<1>3. ProcTypes'
  BY <1>1, Zenon DEF ProcOK, ProcTypes
<1>4. Works' /\ Ranges' /\ \A q \in Procs : cur'[q] = cur[q] /\ Ex(q)' = Ex(q)
  BY <1>2, Zenon DEF Works, Ranges, Bystanders
<1>5. Parents'
  BY <1>1, <1>2, Zenon DEF ProcOK, Parents, Bystanders
<1>6. Tables'
  BY <1>1, <1>4, TablesStay, Zenon DEF ProcOK
<1> QED
  BY <1>1, <1>3, <1>4, <1>5, <1>6, Zenon DEF VInv, ProcOK
-----------------------------------------------------------------------------
(* The theorems.                                                           *)

\* Memory after kinit() and superinit().
LEMMA InitMemory == ASSUME Init PROVE MemOK
<1>1. load.pages \subseteq KPages /\ load.supers \subseteq Supers /\ free = load.pages /\ super = load.supers
  BY WorkloadAssumption, Zenon DEF Init
<1>2. Zero \in Entry /\ ~Valid(Zero)
  BY Zenon DEF Zero, Entry, Valid
<1>3. \A t \in Tabs : \A l \in Locs : pt[t][l] = Zero
  BY Zenon DEF Init
<1>4. MemTypes
  <2>1. free \subseteq Frames
    BY <1>1, Zenon DEF Frames
  <2>2. data \in [Frames -> Contents]
    BY Zenon DEF Init, Contents
  <2>3. pt \in [Tabs -> [Locs -> Entry]]
    BY <1>2, Zenon DEF Init
  <2> QED
    BY <1>1, <2>1, <2>2, <2>3, Zenon DEF MemTypes
<1>5. Entries
  BY <1>2, <1>3, Zenon DEF Entries, PTEOK
<1>6. \A t \in Tabs : \A l \in Locs : Owned(t, l) = {}
  BY <1>2, <1>3, Zenon DEF Owned
<1>7. \A p \in Procs : tf[p] = NULL
  BY Zenon DEF Init
<1>8. NULL \notin free \cup Pool
  <2>1. Pool \subseteq Frames
    BY <1>1, Zenon DEF Pool, Frames
  <2> QED
    BY <1>4, <2>1, NullNoFrame, Zenon DEF MemTypes
<1>9. Apart
  <2>1. Pool \subseteq Supers \X Int
    BY <1>1 DEF Pool
  <2> QED
    BY <1>1, <2>1, VmAssumption, Zenon DEF Apart
<1>10. Exclusively
  BY <1>6, <1>7, <1>8, <1>9, Zenon DEF Exclusively, Single, Trapframes, Loose
<1> QED
  BY <1>4, <1>5, <1>10, Zenon DEF MemOK

\* No process exists at the start.
LEMMA InitProcs == ASSUME Init PROVE ProcOK
<1>1. ProcTypes
  BY IdleIs, Zenon DEF Init, ProcTypes, Places
<1>2. \A p \in Procs : pc[p] = "unused" /\ k[p] = Idle /\ cur[p] = NULL /\ sz[p] = 0 /\ tf[p] = NULL
  BY Zenon DEF Init
<1>3. \A p \in Procs : Resting(p) /\ ~AtHome(p) /\ ~Forking(p) /\ ~Execing(p) /\ ~Freeing(p)
  BY <1>2, Zenon DEF Resting, AtHome, Forking, Execing, Freeing
<1>4. Works
  BY <1>2, <1>3, IdleIs, Zenon DEF Works, WorksOn
<1>5. \A p \in Procs : Ex(p) = NULL
  BY <1>3, Zenon DEF Ex
<1>6. Distinct
  BY <1>2, <1>5, Zenon DEF Distinct
<1>7. Match
  <2>1. \A t \in Tabs : Unused(t) /\ t # NULL
    <3>1. <<3, 0>> \in Locs /\ NULL \notin Tabs
      BY SharedLocs, VmAssumption, Zenon
    <3> QED
      BY <3>1, Zenon DEF Init, Unused, Valid, Zero
  <2> QED
    BY <1>2, <1>5, <2>1, Zenon DEF Match
<1>8. Parents
  BY <1>3, Zenon DEF Parents
<1>9. Ranges
  <2>1. load.max \in Nat
    BY <1>1, MaxIs, Zenon
  <2>2. \A p \in Procs : k[p].segs = <<>>
    BY <1>2, IdleIs, Zenon
  <2>3. \A p \in Procs : 1 .. Len(k[p].segs) = {} /\ sz[p] <= load.max
    <3>1. Len(<<>>) = 0 /\ 1 .. 0 = {} /\ 0 <= load.max
      BY <2>1
    <3> QED
      BY <1>2, <2>2, <3>1, Zenon
  <2> QED
    BY <1>2, <2>3, Zenon DEF Ranges, InRange
<1> QED
  BY <1>1, <1>4, <1>6, <1>7, <1>8, <1>9, Zenon DEF ProcOK, Tables

\* Every step keeps the invariant.
LEMMA NextVInv == VInv /\ [Next]_vars => VInv'
<1> SUFFICES ASSUME VInv, [Next]_vars PROVE VInv'
  BY Zenon
<1>1. data \in [Frames -> Contents] /\ "user" \in Contents
  BY Zenon DEF VInv, MemOK, MemTypes, Contents
<1>2. CASE userinit
  BY <1>2, FirstProcess, Zenon
<1>3. ASSUME NEW p \in Procs,
             \/ uvmfirst(p)
             \/ \E n \in load.deltas : growproc(p, n)
             \/ growproc_done(p)
             \/ uvmalloc_super(p) \/ uvmalloc_page(p)
             \/ uvmunmap_super(p) \/ uvmunmap_page(p)
             \/ \E c \in Procs : fork(p, c)
             \/ uvmcopy_super(p) \/ uvmcopy_page(p) \/ fork_done(p) \/ fork_failed(p)
             \/ freeproc(p) \/ freeproc_done(p)
             \/ \E prog \in load.programs : exec(p, prog)
             \/ exec_alloc(p) \/ loadseg(p) \/ exec_commit(p) \/ exec_bad(p) \/ exec_done(p)
             \/ \E n \in load.stores : store(p, n)
             \/ \E n \in load.copies : copyout(p, n)
      PROVE  VInv'
  <2>1. CASE uvmfirst(p)
    BY <2>1, FirstImage, Zenon
  <2>2. CASE \E n \in load.deltas : growproc(p, n)
    BY <2>2, GrowStarts
  <2>3. CASE growproc_done(p)
    BY <2>3, GrowEnds
  <2>4. CASE uvmalloc_super(p)
    BY <2>4, GrowsSuper, Zenon
  <2>5. CASE uvmalloc_page(p)
    BY <2>5, GrowsPage
  <2>6. CASE uvmunmap_super(p)
    BY <2>6, ShrinksSuper
  <2>7. CASE uvmunmap_page(p)
    BY <2>7, ShrinksPage
  <2>8. CASE \E c \in Procs : fork(p, c)
    BY <2>8, ForkStarts, Zenon
  <2>9. CASE uvmcopy_super(p)
    BY <2>9, CopiesSuper
  <2>10. CASE uvmcopy_page(p)
    BY <2>10, CopiesPage
  <2>11. CASE fork_done(p)
    BY <2>11, ForkEnds
  <2>12. CASE fork_failed(p)
    BY <2>12, ForkFails
  <2>13. CASE freeproc(p)
    BY <2>13, FreeStarts
  <2>14. CASE freeproc_done(p)
    BY <2>14, FreeEnds
  <2>15. CASE \E prog \in load.programs : exec(p, prog)
    BY <2>15, ExecStarts, Zenon
  <2>16. CASE exec_alloc(p)
    BY <2>16, ExecAllocs
  <2>17. CASE loadseg(p)
    BY <2>17, Loads
  <2>18. CASE exec_commit(p)
    BY <2>18, ExecCommits
  <2>19. CASE exec_bad(p)
    BY <2>19, ExecFails
  <2>20. CASE exec_done(p)
    BY <2>20, ExecEnds
  <2>21. CASE \E n \in load.stores : store(p, n)
    <3>1. PICK f : data' = [data EXCEPT ![f] = "user"] /\ UNCHANGED <<free, super, pt, pc, k, cur, sz, tf, load>>
      BY <2>21, Zenon DEF store
    <3>2. data' \in [Frames -> Contents]
      BY <1>1, <3>1, Zenon
    <3> QED
      BY <3>1, <3>2, Writes, Zenon
  <2>22. CASE \E n \in load.copies : copyout(p, n)
    <3>1. PICK f : data' = [data EXCEPT ![f] = "user"] /\ UNCHANGED <<free, super, pt, pc, k, cur, sz, tf, load>>
      BY <2>22, Zenon DEF copyout
    <3>2. data' \in [Frames -> Contents]
      BY <1>1, <3>1, Zenon
    <3> QED
      BY <3>1, <3>2, Writes, Zenon
  <2> QED
    BY <1>3, <2>1, <2>2, <2>3, <2>4, <2>5, <2>6, <2>7, <2>8, <2>9, <2>10, <2>11, <2>12, <2>13, <2>14, <2>15,
       <2>16, <2>17, <2>18, <2>19, <2>20, <2>21, <2>22, Zenon
<1>4. CASE UNCHANGED vars
  BY <1>1, <1>4, Writes, Zenon DEF vars
<1> QED
  BY <1>2, <1>3, <1>4, Zenon DEF Next

\* The inductive invariant of user memory: in every machine, whatever processes
\* grow, shrink, fork, exec, fail and exit at once.
THEOREM VmInvariant == Spec => []VInv
<1>1. Init => VInv
  BY InitMemory, InitProcs, Zenon DEF VInv
<1> QED
  BY <1>1, NextVInv, PTL DEF Spec

\* The frames have one use each.
LEMMA OneUse == ASSUME VInv PROVE Exclusive
<1> DEFINE Pages == UNION {{x} \X Owned(x[1], x[2]) : x \in Tabs \X Locs}
           Kept == {<<p, tf[p]>> : p \in {q \in Procs : tf[q] # NULL}}
           Uses == Pages \cup Kept
           Pooled == super \X (0 .. SP - 1)
<1>1. MemOK /\ Exclusively
  BY Zenon DEF VInv, MemOK
<1>2. \A u \in Uses : \/ \E t \in Tabs : \E l \in Locs : u = << <<t, l>>, u[2] >> /\ u[2] \in Owned(t, l)
                      \/ \E p \in Procs : u = <<p, tf[p]>> /\ u[2] = tf[p] /\ tf[p] # NULL
  <2> SUFFICES ASSUME NEW u \in Uses
               PROVE  \/ \E t \in Tabs : \E l \in Locs : u = << <<t, l>>, u[2] >> /\ u[2] \in Owned(t, l)
                      \/ \E p \in Procs : u = <<p, tf[p]>> /\ u[2] = tf[p] /\ tf[p] # NULL
    BY Zenon
  <2>1. CASE u \in Pages
    <3>1. PICK x \in Tabs \X Locs : u \in {x} \X Owned(x[1], x[2])
      BY <2>1, Zenon
    <3>2. PICK t \in Tabs, l \in Locs : x = <<t, l>>
      OBVIOUS
    <3>3. x[1] = t /\ x[2] = l
      BY <3>2, Zenon
    <3>4. u \in {x} \X Owned(t, l)
      BY <3>1, <3>3, Zenon
    <3>5. u = <<x, u[2]>> /\ u[2] \in Owned(t, l)
      BY <3>4
    <3> QED
      BY <3>2, <3>5, Zenon
  <2>2. CASE u \in Kept
    BY <2>2
  <2> HIDE DEF Pages, Kept
  <2> QED
    BY <2>1, <2>2, Zenon
<1> HIDE DEF Uses
<1>3. ASSUME NEW u \in Uses, NEW v \in Uses, u[2] = v[2] PROVE u = v
  <2>1. ASSUME NEW t \in Tabs, NEW l \in Locs, u = << <<t, l>>, u[2] >>, u[2] \in Owned(t, l) PROVE u = v
    <3>1. u[2] \in Frames
      BY <1>1, <2>1, OwnedFrames, Zenon
    <3>2. ~\E p \in Procs : v = <<p, tf[p]>> /\ v[2] = tf[p] /\ tf[p] # NULL
      BY <1>1, <1>3, <2>1, Zenon DEF Exclusively, Trapframes
    <3>3. PICK tt \in Tabs, m \in Locs : v = << <<tt, m>>, v[2] >> /\ v[2] \in Owned(tt, m)
      BY <1>2, <3>2, Zenon
    <3>4. tt = t /\ m = l
      BY <1>1, <1>3, <2>1, <3>1, <3>3 DEF Exclusively, Single
    <3> QED
      BY <1>3, <2>1, <3>3, <3>4, Zenon
  <2>2. ASSUME NEW p \in Procs, u = <<p, tf[p]>>, u[2] = tf[p], tf[p] # NULL PROVE u = v
    <3>1. ~\E t \in Tabs : \E l \in Locs : v = << <<t, l>>, v[2] >> /\ v[2] \in Owned(t, l)
      BY <1>1, <1>3, <2>2, Zenon DEF Exclusively, Trapframes
    <3>2. PICK q \in Procs : v = <<q, tf[q]>> /\ v[2] = tf[q] /\ tf[q] # NULL
      BY <1>2, <3>1, Zenon
    <3>3. q = p
      BY <1>1, <1>3, <2>2, <3>2, Zenon DEF Exclusively, Trapframes
    <3> QED
      BY <1>3, <2>2, <3>2, <3>3, Zenon
  <2> QED
    BY <1>2, <2>1, <2>2, Zenon
<1>4. \A u \in Uses : u[2] \notin free \cup Pooled
  BY <1>1, <1>2, Zenon DEF Exclusively, Loose, Pool
<1>5. free \cap Pooled = {}
  BY <1>1, Zenon DEF Exclusively, Apart, Pool
<1>6. \A u, v \in Uses : u[2] = v[2] => u = v
  BY <1>3, Zenon
<1>7. /\ \A u, v \in Uses : u[2] = v[2] => u = v
      /\ \A u \in Uses : u[2] \notin free \cup Pooled
      /\ free \cap Pooled = {}
  BY <1>4, <1>5, <1>6, Zenon
<1> QED
  BY <1>7, Zenon DEF Exclusive, Uses

\* The tables in use are those of processes and of calls.
LEMMA TablesOfProcs == ASSUME VInv PROVE TablesMatchProcs
<1>1. ProcOK /\ NULL \notin Tabs
  BY VmAssumption, Zenon DEF VInv
<1> SUFFICES ASSUME NEW t \in Tabs
             PROVE  (\E p \in Procs : cur[p] = t \/ Ex(p) = t) <=> (\E p \in Procs : cur[p] = t \/ (pc[p] # "user" /\ k[p].t = t))
  BY <1>1, Zenon DEF ProcOK, Tables, Match, TablesMatchProcs
<1>2. ASSUME NEW p \in Procs, Ex(p) = t PROVE pc[p] # "user" /\ k[p].t = t
  BY <1>1, <1>2, Zenon DEF Ex, Execing
<1>3. ASSUME NEW p \in Procs, pc[p] # "user", k[p].t = t PROVE \E q \in Procs : cur[q] = t \/ Ex(q) = t
  <2>1. WorksOn(p)
    BY <1>1, Zenon DEF ProcOK, Works
  <2>2. CASE Resting(p)
    BY <1>1, <1>3, <2>1, <2>2, Zenon DEF WorksOn
  <2>3. CASE AtHome(p)
    BY <1>3, <2>1, <2>3, Zenon DEF WorksOn
  <2>4. CASE Forking(p)
    BY <1>3, <2>1, <2>4, Zenon DEF WorksOn
  <2>5. CASE Execing(p)
    BY <1>3, <2>5, Zenon DEF Ex
  <2> QED
    BY <2>1, <2>2, <2>3, <2>4, <2>5, Zenon DEF WorksOn
<1> QED
  BY <1>2, <1>3, Zenon

\* What the runs check of user memory: types, page tables that belong to
\* processes, and no frame with two uses, for any number of processes, frames
\* and superpages and any sizes of pages and tables.
THEOREM MemoryIsExclusive == Spec => []VmInv
<1>1. VInv => TypeOK
  <2> SUFFICES ASSUME VInv PROVE TypeOK
    BY Zenon
  <2>1. MemTypes /\ ProcTypes /\ Ranges
    BY Zenon DEF VInv, MemOK, ProcOK
  <2>2. sz \in [Procs -> 0 .. load.max]
    <3>1. load.max \in Nat
      BY <2>1, MaxIs, Zenon
    <3>2. \A p \in Procs : sz[p] \in 0 .. load.max
      <4> SUFFICES ASSUME NEW p \in Procs PROVE sz[p] \in 0 .. load.max
        BY Zenon
      <4>1. sz[p] \in Nat
        BY <2>1, Zenon DEF ProcTypes
      <4>2. sz[p] <= load.max
        BY <2>1, Zenon DEF Ranges, InRange
      <4> QED
        BY <3>1, <4>1, <4>2
    <3> QED
      BY <2>1, <3>2, Zenon DEF ProcTypes
  <2> QED
    BY <2>1, <2>2, Zenon DEF TypeOK, MemTypes, ProcTypes, Contents, Entry, Places
<1>2. VInv => VmInv
  BY <1>1, OneUse, TablesOfProcs, Zenon DEF VmInv
<1> QED
  BY <1>2, VmInvariant, PTL
=============================================================================
