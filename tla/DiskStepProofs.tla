--------------------------- MODULE DiskStepProofs ---------------------------
(***************************************************************************)
(* The steps of the driver of module Disk, of its interrupt handler and of *)
(* the device keep the invariant DInv, which says where the chain of every *)
(* process is: not yet offered, in the avail ring, with the device, in the *)
(* used ring, or done with.                                                *)
(*                                                                         *)
(* Most steps do not touch the chains (lemma ChainsStay) or do not touch   *)
(* the rings (lemma RingsStay): what is left to show is where the          *)
(* processes go.  Five steps are on a ring; what they do to the sets of    *)
(* chains, and which descriptors alloc3_desc() finds, are hypotheses here, *)
(* and module DiskProofs shows that they hold.                             *)
(***************************************************************************)
EXTENDS Disk, TLAPS

\* Time for the provers.
USE SMTT(30), ZenonT(30)

(* The windows on the rings.                                              *)

Indices == 0 .. UINT16 - 1

\* How many entries lie between the indices a and b of a ring, and their slots.
Count(a, b) == (b - a) % UINT16
Slot(a, j) == (a + j) % NUM
Slots(a, b) == {Slot(a, j) : j \in 0 .. Count(a, b) - 1}
Entries(ring, a, b) == {ring[s] : s \in Slots(a, b)}

\* avail->idx += 1 and its like.
LEMMA IncIs ==
  ASSUME NEW a \in Indices
  PROVE  Inc(a) \in Indices /\ Inc(a) = IF a = UINT16 - 1 THEN 0 ELSE a + 1
BY DiskAssumption DEF Inc, Indices

\* The slot of a position.
LEMMA SlotOf == ASSUME NEW a \in Indices PROVE a % NUM \in Descs
BY DiskAssumption DEF Indices, Descs

-----------------------------------------------------------------------------
(* The inductive invariant.                                                *)

Reqs == [block : Blocks, write : BOOLEAN, done : BOOLEAN]

\* Places with vdisk_lock held, before a chain is allocated, and after it is offered.
Holding == {"alloc", "ring", "index", "wait"}
Without == {"idle", "acquire", "alloc", "asleep_free"}
Given == {"wait", "asleep", "reacquire"}

\* The chains that the handler has still to find.
InFlight == Offered \cup taken \cup Used

\* What TypeOK leaves out.
Types == /\ idx \in [Procs -> {<<>>} \cup (Descs \X Descs \X Descs)]
         /\ req \in [Procs -> {None} \cup Reqs] /\ ops \in [Descs -> {None} \cup Reqs]

\* vdisk_lock is held where virtio_disk_rw() runs.
LockHeld == \A p \in Procs : lock = p <=> pc[p] \in Holding

\* A process without descriptors has nothing under way ...
Bare(p) == /\ idx[p] = <<>> /\ ~bdisk[p]
           /\ IF pc[p] = "idle" THEN req[p] = None ELSE req[p] # None /\ ~req[p].done

\* ... and one with descriptors has a chain that describes its request.
Formatted(p) ==
  LET a == idx[p][1]
      b == idx[p][2]
      c == idx[p][3]
  IN  /\ idx[p] # <<>> /\ req[p] # None
      /\ a # b /\ a # c /\ b # c /\ {a, b, c} \cap free = {}
      /\ next[a] = b /\ next[b] = c /\ next[c] = -1
      /\ data[b] = p /\ infob[a] = p
      /\ ops[a] # None /\ ops[a].block = req[p].block /\ ops[a].write = req[p].write

Chained == \A p \in Procs : IF pc[p] \in Without THEN Bare(p) ELSE Formatted(p)

\* No descriptor is in two chains or lost.
Disjoint == \A p, q \in Procs : p # q => Mine(p) \cap Mine(q) = {}
Covered == \A d \in Descs \ free : \E p \in Procs : d \in Mine(p)

\* Where a chain is says how far its request has come.
Progress == \A p \in Procs :
  /\ pc[p] \in {"ring", "index"} => bdisk[p] /\ ~req[p].done /\ idx[p][1] \notin InFlight
  /\ pc[p] \in Given => /\ bdisk[p] <=> idx[p][1] \in InFlight
                        /\ req[p].done <=> idx[p][1] \notin Offered \cup taken
  /\ pc[p] = "asleep" => bdisk[p]
  /\ pc[p] = "reacquire" => ~bdisk[p]

\* What the rings and the device hold are heads of chains.
Owned == \A i \in InFlight : \E p \in Procs : pc[p] \in Given /\ idx[p] # <<>> /\ idx[p][1] = i

\* The rings do not overflow and have every chain once.
RingOK(ring, a, b) == Count(a, b) <= NUM /\ \A s, t \in Slots(a, b) : ring[s] = ring[t] => s = t
Rings == /\ RingOK(aring, seen, aidx) /\ RingOK(uring, used_idx, uidx)
         /\ Offered \cap taken = {} /\ Offered \cap Used = {} /\ taken \cap Used = {}
         /\ \A p \in Procs : pc[p] = "index" => aring[aidx % NUM] = idx[p][1]

\* The interrupt for what is in the used ring is to come, or the handler is in its loop.
Interrupted == Used # {} => irq \/ lock = intr

\* virtio_disk_intr() does not panic on a status.
Statuses == \A i \in Used : status[i] = 0

DInv == /\ TypeOK /\ Types /\ LockHeld /\ Chained /\ Disjoint /\ Covered
        /\ Progress /\ Owned /\ Rings /\ Interrupted /\ Statuses
-----------------------------------------------------------------------------
\* The descriptors of a process.
MineIs == \A p \in Procs : Mine(p) = IF idx[p] = <<>> THEN {} ELSE {idx[p][1], idx[p][2], idx[p][3]}

\* idx[p] is empty or has three entries.
LEMMA MineAre == Types => MineIs
<1> SUFFICES ASSUME Types, NEW p \in Procs
             PROVE  Mine(p) = IF idx[p] = <<>> THEN {} ELSE {idx[p][1], idx[p][2], idx[p][3]}
  BY Zenon DEF MineIs
<1>1. CASE idx[p] = <<>>
  BY <1>1 DEF Mine
<1>2. CASE idx[p] # <<>>
  <2>1. PICK a, b, c \in Descs : idx[p] = <<a, b, c>>
    BY <1>2 DEF Types
  <2>2. DOMAIN idx[p] = 1 .. 3
    BY <2>1
  <2>3. 1 .. 3 = {1, 2, 3}
    OBVIOUS
  <2> QED
    BY <1>2, <2>2, <2>3, Zenon DEF Mine
<1> QED
  BY <1>1, <1>2, Zenon

\* A chain in the rings or the device is that of a process, and says so.
LEMMA Owner ==
  ASSUME DInv, NEW i \in InFlight
  PROVE  \E p \in Procs : /\ pc[p] \in Given /\ idx[p] # <<>> /\ idx[p][1] = i /\ i \in Descs
                          /\ infob[i] = p /\ data[next[i]] = p /\ req[p] # None /\ ops[i] # None
                          /\ ops[i].block = req[p].block /\ ops[i].write = req[p].write
                          /\ bdisk[p] /\ (req[p].done <=> i \in Used)
<1>1. PICK p \in Procs : pc[p] \in Given /\ idx[p] # <<>> /\ idx[p][1] = i
  BY Zenon DEF DInv, Owned
<1>2. Formatted(p)
  BY <1>1, Zenon DEF DInv, Chained, Given, Without
<1>3. i \in Descs
  BY <1>1, Zenon DEF DInv, Types
<1>4. bdisk[p] /\ (req[p].done <=> i \notin Offered \cup taken)
  BY <1>1, Zenon DEF DInv, Progress
<1>5. i \notin Offered \cup taken <=> i \in Used
  BY Zenon DEF InFlight, DInv, Rings
<1> QED
  BY <1>1, <1>2, <1>3, <1>4, <1>5, Zenon DEF Formatted

\* Heads of chains tell processes apart.
LEMMA Heads ==
  ASSUME DInv, NEW p \in Procs, NEW q \in Procs, idx[p] # <<>>, idx[q] # <<>>, idx[p][1] = idx[q][1]
  PROVE  p = q
BY MineAre, ZenonT(30) DEF DInv, Disjoint, MineIs

-----------------------------------------------------------------------------
\* A step that leaves the rings alone.
Keeps == Offered' = Offered /\ Used' = Used /\ taken' = taken
\* What is on offer, with the device and used does not change.
LEMMA Untouched == ASSUME UNCHANGED rings PROVE Keeps
BY DEF rings, Keeps, Offered, Used, Window

-----------------------------------------------------------------------------
(* What the steps on a ring do to the sets of chains.                      *)

RingsOK == RingOK(aring, seen, aidx) /\ RingOK(uring, used_idx, uidx)

\* ring_entry: the slot is not in use, so the ring shows what it did.
EntryWritten(p) == Keeps /\ RingsOK' /\ aring'[aidx' % NUM] = idx[p][1]

\* ring_index: one more chain is on offer.
IndexWritten(p) == Offered' = Offered \cup {idx[p][1]} /\ Used' = Used /\ taken' = taken /\ RingsOK'

\* used_entry: one chain less is in the used ring.
EntryRead == /\ uring[used_idx % NUM] \in Used /\ Used' = Used \ {uring[used_idx % NUM]}
             /\ taken' = taken /\ Offered' = Offered /\ RingsOK'

\* device_take: a chain on offer is with the device; the slot being written is another one.
ChainTaken == /\ \E h \in Offered : Offered' = Offered \ {h} /\ taken' = taken \cup {h}
              /\ Used' = Used /\ RingsOK'
              /\ \A p \in Procs : pc[p] = "index" => aring'[aidx % NUM] = aring[aidx % NUM]

\* device_complete: a chain is used.
ChainUsed(i) == Used' = Used \cup {i} /\ taken' = taken \ {i} /\ Offered' = Offered /\ RingsOK'

\* alloc3_desc() finds three free descriptors.
Found == \E a, b, c \in free : Allocated = <<a, b, c>> /\ a # b /\ a # c /\ b # c
-----------------------------------------------------------------------------
(* What a step leaves alone.                                               *)

\* A process keeps its chain, or has none before and after, and what it asked for.
Stays(q) ==
  /\ pc'[q] \in Without <=> pc[q] \in Without
  /\ pc'[q] = "idle" <=> pc[q] = "idle"
  /\ pc[q] \in Without => bdisk'[q] = bdisk[q] /\ req'[q] = req[q]
  /\ pc[q] \notin Without /\ req[q] # None =>
       req'[q] # None /\ req'[q].block = req[q].block /\ req'[q].write = req[q].write

\* A step that changes no descriptor and no idx[] keeps every chain.
LEMMA ChainsStay ==
  ASSUME DInv, UNCHANGED <<free, next, data, infob, ops, idx>>, \A q \in Procs : Stays(q)
  PROVE  Chained' /\ Disjoint' /\ Covered'
<1>1. ASSUME NEW q \in Procs PROVE (IF pc[q] \in Without THEN Bare(q) ELSE Formatted(q))'
  <2>1. Stays(q) /\ (IF pc[q] \in Without THEN Bare(q) ELSE Formatted(q))
    BY Zenon DEF DInv, Chained
  <2>2. CASE pc[q] \in Without
    <3>1. Bare(q)'
      BY <2>1, <2>2, Zenon DEF Stays, Bare
    <3> QED
      BY <2>1, <2>2, <3>1, Zenon DEF Stays
  <2>3. CASE pc[q] \notin Without
    <3>1. Formatted(q)'
      BY <2>1, <2>3, Zenon DEF Stays, Formatted
    <3> QED
      BY <2>1, <2>3, <3>1, Zenon DEF Stays
  <2> QED
    BY <2>2, <2>3, Zenon
<1>2. Chained'
  BY <1>1, Zenon DEF Chained
<1>3. \A q \in Procs : Mine(q)' = Mine(q)
  BY Zenon DEF Mine
<1>4. Disjoint'
  BY <1>3, Zenon DEF DInv, Disjoint
<1>5. Covered'
  BY <1>3, Zenon DEF DInv, Covered
<1> QED
  BY <1>2, <1>4, <1>5, Zenon

\* A process has no chain, or one that it has just made, or stays where its chain is.
Moves(q) ==
  \/ pc'[q] \in Without /\ (pc[q] \in Given => idx[q][1] \notin InFlight)
  \/ pc'[q] = "ring" /\ pc[q] \in Without /\ bdisk'[q] /\ ~req'[q].done /\ idx'[q][1] \notin InFlight
  \/ /\ idx'[q] = idx[q] /\ req'[q] = req[q] /\ bdisk'[q] = bdisk[q]
     /\ \/ pc'[q] = pc[q]
        \/ /\ pc[q] \in Given /\ pc'[q] \in Given
           /\ (pc'[q] = "asleep" => bdisk[q]) /\ (pc'[q] = "reacquire" => ~bdisk[q])

\* A step that leaves the rings alone keeps what is said of the chains in flight.
LEMMA RingsStay ==
  ASSUME DInv, UNCHANGED rings, \A q \in Procs : Moves(q)
  PROVE  Progress' /\ Owned' /\ Rings' /\ Keeps
<1>1. Keeps /\ InFlight' = InFlight
  BY Untouched, Zenon DEF Keeps, InFlight
<1>2. ASSUME NEW q \in Procs
      PROVE  /\ pc'[q] \in {"ring", "index"} => bdisk'[q] /\ ~req'[q].done /\ idx'[q][1] \notin InFlight
             /\ pc'[q] \in Given => /\ bdisk'[q] <=> idx'[q][1] \in InFlight
                                    /\ req'[q].done <=> idx'[q][1] \notin Offered \cup taken
             /\ pc'[q] = "asleep" => bdisk'[q]
             /\ pc'[q] = "reacquire" => ~bdisk'[q]
  BY Zenon DEF Moves, DInv, Progress, Given, Without
<1>3. Progress'
  BY <1>1, <1>2, Zenon DEF Progress, Keeps, Given
<1>4. ASSUME NEW i \in InFlight PROVE \E q \in Procs : pc'[q] \in Given /\ idx'[q] # <<>> /\ idx'[q][1] = i
  <2>1. PICK q \in Procs : pc[q] \in Given /\ idx[q] # <<>> /\ idx[q][1] = i
    BY Zenon DEF DInv, Owned
  <2>2. pc'[q] \in Given /\ idx'[q] = idx[q]
    BY <2>1, Zenon DEF Moves, Given, Without
  <2> QED
    BY <2>1, <2>2, Zenon
<1>5. Owned'
  BY <1>1, <1>4, Zenon DEF Owned, Given
<1>6. ASSUME NEW q \in Procs, pc'[q] = "index" PROVE pc[q] = "index" /\ idx'[q] = idx[q]
  BY <1>6, Zenon DEF Moves, Given, Without
<1>7. UNCHANGED <<aring, aidx, uring, uidx, used_idx, seen, taken>>
  BY Zenon DEF rings
<1>8. RingOK(aring, seen, aidx)' /\ RingOK(uring, used_idx, uidx)'
  BY <1>7, Zenon DEF DInv, Rings, RingOK
<1>9. Rings'
  BY <1>1, <1>6, <1>7, <1>8, Zenon DEF DInv, Rings, Keeps
<1> QED
  BY <1>1, <1>3, <1>5, <1>9, Zenon

\* A step that changes only where processes are, the lock and the interrupt line.
LEMMA PlacesChange ==
  ASSUME DInv, UNCHANGED <<chains, rings, idx, bdisk, disk, buf, req>>, \A q \in Procs : Stays(q) /\ Moves(q),
         pc' \in [Procs -> Places], lock' \in Procs \cup {NULL, intr, leaving}, irq' \in BOOLEAN,
         LockHeld', Used # {} => irq' \/ lock' = intr
  PROVE  DInv'
<1>1. UNCHANGED <<free, next, data, infob, ops, idx, status, aring, aidx, uring, uidx, used_idx, seen, taken>>
  BY Zenon DEF chains, rings
<1>2. TypeOK'
  BY <1>1, Zenon DEF DInv, TypeOK
<1>3. Types'
  BY <1>1, Zenon DEF DInv, Types
<1>4. Chained' /\ Disjoint' /\ Covered'
  BY <1>1, ChainsStay, Zenon
<1>5. Progress' /\ Owned' /\ Rings' /\ Keeps
  BY RingsStay, Zenon
<1>6. Interrupted'
  BY <1>5, Zenon DEF Interrupted, Keeps
<1>7. Statuses'
  BY <1>1, <1>5, Zenon DEF DInv, Statuses, Keeps
<1> QED
  BY <1>2, <1>3, <1>4, <1>5, <1>6, <1>7, Zenon DEF DInv
-----------------------------------------------------------------------------
(* Steps that move processes only.                                         *)

\* acquire(&disk.vdisk_lock), at the start and after a sleep.
LEMMA AcquireStep == ASSUME DInv, NEW p \in Procs, acquire(p) PROVE DInv'
<1>1. /\ pc[p] \in {"acquire", "reacquire"} /\ lock = NULL /\ lock' = p
      /\ pc' = [pc EXCEPT ![p] = IF pc[p] = "acquire" THEN "alloc" ELSE "wait"]
      /\ UNCHANGED <<chains, rings, irq, idx, bdisk, disk, buf, req>>
  BY Zenon DEF acquire, Goto
<1>2. pc \in [Procs -> Places] /\ irq \in BOOLEAN
  BY Zenon DEF DInv, TypeOK
<1>3. /\ pc'[p] = IF pc[p] = "acquire" THEN "alloc" ELSE "wait"
      /\ \A q \in Procs \ {p} : pc'[q] = pc[q] /\ pc[q] \notin Holding
  BY <1>1, <1>2, DiskAssumption, Zenon DEF DInv, LockHeld
<1>4. \A q \in Procs : Stays(q) /\ Moves(q)
  BY <1>1, <1>3 DEF Stays, Moves, Without, Given
<1>5. LockHeld'
  BY <1>1, <1>3, Zenon DEF LockHeld, Holding
<1>6. Used # {} => irq' \/ lock' = intr
  BY <1>1, DiskAssumption, Zenon DEF DInv, Interrupted
<1>7. pc' \in [Procs -> Places]
  BY <1>1, <1>2, Zenon DEF Places
<1> QED
  BY <1>1, <1>2, <1>4, <1>5, <1>6, <1>7, PlacesChange, Zenon

\* Too few descriptors: the process sleeps and others that did wake up.
LEMMA AllocFailsStep == ASSUME DInv, NEW p \in Procs, alloc3_desc_fails(p) PROVE DInv'
<1>1. /\ pc[p] = "alloc" /\ lock = p /\ lock' = NULL
      /\ pc' = [IF free = {} THEN pc ELSE WokenForFree EXCEPT ![p] = "asleep_free"]
      /\ UNCHANGED <<chains, rings, irq, idx, bdisk, disk, buf, req>>
  BY Zenon DEF alloc3_desc_fails
<1>2. pc \in [Procs -> Places] /\ irq \in BOOLEAN
  BY DEF DInv, TypeOK
<1>3. /\ pc'[p] = "asleep_free"
      /\ \A q \in Procs \ {p} : pc'[q] # pc[q] => pc[q] = "asleep_free" /\ pc'[q] = "acquire"
  <2>1. CASE pc' = [pc EXCEPT ![p] = "asleep_free"]
    BY <1>2, <2>1, Zenon
  <2>2. CASE pc' = [WokenForFree EXCEPT ![p] = "asleep_free"]
    <3>1. WokenForFree \in [Procs -> Places]
      BY <1>2, Zenon DEF WokenForFree, Places
    <3>2. pc'[p] = "asleep_free" /\ \A q \in Procs \ {p} : pc'[q] = WokenForFree[q]
      BY <2>2, <3>1, Zenon
    <3>3. \A q \in Procs : WokenForFree[q] = IF pc[q] = "asleep_free" THEN "acquire" ELSE pc[q]
      BY Zenon DEF WokenForFree
    <3> QED
      BY <3>2, <3>3, Zenon
  <2>3. (IF free = {} THEN pc ELSE WokenForFree) \in {pc, WokenForFree}
    BY Zenon
  <2> QED
    BY <1>1, <2>1, <2>2, <2>3, Zenon
<1>8. \A q \in Procs \ {p} : pc[q] \notin Holding
  BY <1>1, Zenon DEF DInv, LockHeld
<1>4. \A q \in Procs : Stays(q) /\ Moves(q)
  BY <1>1, <1>3, Zenon DEF Stays, Moves, Without, Given
<1>5. LockHeld'
  BY <1>1, <1>3, <1>8, DiskAssumption, Zenon DEF LockHeld, Holding
<1>6. Used # {} => irq' \/ lock' = intr
  BY <1>1, DiskAssumption, Zenon DEF DInv, Interrupted
<1>7. pc' \in [Procs -> Places]
  BY <1>1, <1>2, Zenon DEF Places, WokenForFree
<1> QED
  BY <1>1, <1>2, <1>4, <1>5, <1>6, <1>7, PlacesChange, Zenon

\* sleep(b, &disk.vdisk_lock) while b->disk is set.
LEMMA SleepStep == ASSUME DInv, NEW p \in Procs, sleep(p) PROVE DInv'
<1>1. /\ pc[p] = "wait" /\ lock = p /\ lock' = NULL /\ bdisk[p] /\ pc' = [pc EXCEPT ![p] = "asleep"]
      /\ UNCHANGED <<chains, rings, irq, idx, bdisk, disk, buf, req>>
  BY Zenon DEF sleep, Goto, Finished
<1>2. pc \in [Procs -> Places] /\ irq \in BOOLEAN
  BY DEF DInv, TypeOK
<1>3. pc'[p] = "asleep" /\ \A q \in Procs \ {p} : pc'[q] = pc[q] /\ pc[q] \notin Holding
  BY <1>1, <1>2, Zenon DEF DInv, LockHeld
<1>4. \A q \in Procs : Stays(q) /\ Moves(q)
  BY <1>1, <1>3, Zenon DEF Stays, Moves, Without, Given
<1>5. LockHeld'
  BY <1>1, <1>3, DiskAssumption, Zenon DEF LockHeld, Holding
<1>6. Used # {} => irq' \/ lock' = intr
  BY <1>1, DiskAssumption, Zenon DEF DInv, Interrupted
<1>7. pc' \in [Procs -> Places]
  BY <1>1, <1>2, Zenon DEF Places
<1> QED
  BY <1>1, <1>2, <1>4, <1>5, <1>6, <1>7, PlacesChange, Zenon

\* virtio_disk_intr() takes the lock, drains the used ring, and releases it.
LEMMA HandlerStep ==
  ASSUME DInv, UNCHANGED <<chains, rings, pc, idx, bdisk, disk, buf, req>>,
         {lock, lock'} \subseteq {NULL, intr, leaving}, irq' \in BOOLEAN, Used # {} => irq' \/ lock' = intr
  PROVE  DInv'
<1>1. pc \in [Procs -> Places]
  BY Zenon DEF DInv, TypeOK
<1>2. \A q \in Procs : Stays(q) /\ Moves(q)
  BY Zenon DEF Stays, Moves
<1>3. LockHeld'
  BY DiskAssumption, Zenon DEF DInv, LockHeld
<1> QED
  BY <1>1, <1>2, <1>3, PlacesChange, Zenon

\* The interrupt is acknowledged before the used ring is read ...
LEMMA IntrStep == ASSUME DInv, virtio_disk_intr PROVE DInv'
<1>1. lock = NULL /\ lock' = intr /\ irq' = FALSE /\ UNCHANGED <<chains, rings, pc, idx, bdisk, disk, buf, req>>
  BY Zenon DEF virtio_disk_intr
<1>2. {lock, lock'} \subseteq {NULL, intr, leaving}
  BY <1>1, Zenon
<1>3. irq' \in BOOLEAN
  BY <1>1, Zenon
<1> QED
  BY <1>1, <1>2, <1>3, HandlerStep, Zenon

\* ... the loop ends when the used ring is empty ...
LEMMA IntrLeaveStep == ASSUME DInv, intr_leave, Used = {} PROVE DInv'
<1>1. irq \in BOOLEAN
  BY Zenon DEF DInv, TypeOK
<1> QED
  BY <1>1, HandlerStep, Zenon DEF intr_leave

\* ... and what the device completed since has raised the interrupt again.
LEMMA IntrDoneStep == ASSUME DInv, intr_done PROVE DInv'
<1>1. irq \in BOOLEAN
  BY Zenon DEF DInv, TypeOK
<1>2. Used # {} => irq
  <2>1. lock # intr
    BY ZenonT(30) DEF intr_done, intr, leaving
  <2> QED
    BY <2>1, Zenon DEF DInv, Interrupted
<1> QED
  BY <1>1, <1>2, HandlerStep, Zenon DEF intr_done
-----------------------------------------------------------------------------
(* Steps on requests and descriptors.                                      *)

\* A process calls virtio_disk_rw(): its request is noted, nothing is under way yet.
LEMMA CallStep ==
  ASSUME DInv, NEW p \in Procs, NEW blk \in Blocks, NEW w \in BOOLEAN, NEW v \in Values,
         virtio_disk_rw(p, blk, w, v)
  PROVE  DInv'
<1> DEFINE r == [block |-> blk, write |-> w, done |-> FALSE]
<1>1. r \in Reqs /\ ~r.done
  BY Zenon DEF Reqs
<1>2. None \notin Reqs
  BY DiskAssumption, Zenon DEF Reqs
<1>3. /\ pc[p] = "idle" /\ req' = [req EXCEPT ![p] = r] /\ pc' = [pc EXCEPT ![p] = "acquire"]
      /\ buf' = [buf EXCEPT ![p] = v]
      /\ UNCHANGED <<free, next, data, ops, infob, status, rings, irq, lock, idx, bdisk, disk>>
  BY Zenon DEF virtio_disk_rw, Goto, chains
<1> HIDE DEF r
<1>4. UNCHANGED <<aring, aidx, uring, uidx, used_idx, seen, taken>>
  BY <1>3, Zenon DEF rings
<1>typeok. TypeOK'
  BY <1>3, <1>4, Zenon DEF DInv, TypeOK, Places
<1>types. Types'
  BY <1>1, <1>3, Zenon DEF DInv, Types
<1>5. /\ pc'[p] = "acquire" /\ req'[p] = r
      /\ \A q \in Procs \ {p} : pc'[q] = pc[q] /\ req'[q] = req[q]
  BY <1>3 DEF DInv, TypeOK, Types
<1>lockheld. LockHeld'
  BY <1>3, <1>5, Zenon DEF DInv, LockHeld, Holding
<1>chained. Chained'
  <2>1. Bare(p)'
    <3>1. Bare(p)
      BY <1>3, Zenon DEF DInv, Chained, Without
    <3> QED
      BY <1>1, <1>2, <1>3, <1>5, <3>1, Zenon DEF Bare
  <2>2. ASSUME NEW q \in Procs, q # p PROVE (IF pc[q] \in Without THEN Bare(q) ELSE Formatted(q))'
    <3>1. pc'[q] = pc[q] /\ req'[q] = req[q]
      BY <1>5, <2>2, Zenon
    <3>2. (Bare(q)' <=> Bare(q)) /\ (Formatted(q)' <=> Formatted(q))
      BY <1>3, <3>1, Zenon DEF Bare, Formatted
    <3> QED
      BY <3>1, <3>2, Zenon DEF DInv, Chained
  <2> QED
    BY <1>5, <2>1, <2>2, Zenon DEF Chained, Without
<1>disjoint. Disjoint' /\ Covered'
  <2>1. \A q \in Procs : Mine(q)' = Mine(q)
    BY <1>3, Zenon DEF Mine
  <2> QED
    BY <1>3, <2>1 DEF DInv, Disjoint, Covered
<1>rings. Progress' /\ Owned' /\ Rings' /\ Keeps
  <2>1. \A q \in Procs : Moves(q)
    BY <1>3, <1>5, Zenon DEF Moves, Without, Given
  <2> QED
    BY <1>3, <2>1, RingsStay, Zenon
<1>6. Interrupted' /\ Statuses'
  BY <1>3, <1>rings, Zenon DEF DInv, Interrupted, Statuses, Keeps
<1> QED
  BY <1>typeok, <1>types, <1>lockheld, <1>chained, <1>disjoint, <1>rings, <1>6, Zenon DEF DInv

\* What alloc3_desc() and the formatting of the chain do, entry by entry.
AllocDoes(p, a, b, c) ==
  /\ {a, b, c} \subseteq free /\ a # b /\ a # c /\ b # c
  /\ pc[p] = "alloc" /\ lock = p
  /\ pc'[p] = "ring" /\ idx'[p] = <<a, b, c>> /\ bdisk'[p]
  /\ next'[a] = b /\ next'[b] = c /\ next'[c] = -1 /\ data'[b] = p /\ infob'[a] = p /\ ops'[a] = req[p]
  /\ \A q \in Procs \ {p} : pc'[q] = pc[q] /\ idx'[q] = idx[q] /\ bdisk'[q] = bdisk[q]
  /\ \A d \in Descs \ {a, b, c} : /\ next'[d] = next[d] /\ data'[d] = data[d] /\ infob'[d] = infob[d]
                                  /\ ops'[d] = ops[d] /\ status'[d] = status[d]
  /\ free' = free \ {a, b, c} /\ UNCHANGED <<rings, irq, lock, disk, buf, req>>

\* The descriptors are those that alloc3_desc() found.
LEMMA AllocTypes ==
  ASSUME DInv, NEW p \in Procs, alloc3_desc(p), Found
  PROVE  TypeOK' /\ Types' /\ \E a, b, c \in Descs : AllocDoes(p, a, b, c)
<1>1. PICK a, b, c \in free : Allocated = <<a, b, c>> /\ a # b /\ a # c /\ b # c
  BY Zenon DEF Found
<1>2. a \in Descs /\ b \in Descs /\ c \in Descs /\ free \subseteq Descs
  BY <1>1, Zenon DEF DInv, TypeOK
<1>3. <<a, b, c>>[1] = a /\ <<a, b, c>>[2] = b /\ <<a, b, c>>[3] = c
  BY Zenon
<1>4. /\ pc[p] = "alloc" /\ lock = p /\ free' = free \ {a, b, c}
      /\ UNCHANGED <<rings, irq, lock, disk, buf, req>>
  BY <1>1, <1>3, Zenon DEF alloc3_desc
<1>5. pc' = [pc EXCEPT ![p] = "ring"] /\ idx' = [idx EXCEPT ![p] = <<a, b, c>>] /\ bdisk' = [bdisk EXCEPT ![p] = TRUE]
  BY <1>1, Zenon DEF alloc3_desc, Goto
<1>6. next' = [next EXCEPT ![a] = b, ![b] = c, ![c] = -1]
  BY <1>1, <1>3, Zenon DEF alloc3_desc
<1>7. /\ data' = [data EXCEPT ![b] = p] /\ ops' = [ops EXCEPT ![a] = req[p]]
      /\ infob' = [infob EXCEPT ![a] = p] /\ status' = [status EXCEPT ![a] = 255]
  BY <1>1, <1>3, Zenon DEF alloc3_desc, Record
<1>8. /\ pc' \in [Procs -> Places] /\ bdisk' \in [Procs -> BOOLEAN] /\ pc'[p] = "ring" /\ bdisk'[p]
      /\ \A q \in Procs \ {p} : pc'[q] = pc[q] /\ bdisk'[q] = bdisk[q]
  BY <1>5 DEF DInv, TypeOK, Places
<1>9. /\ idx' \in [Procs -> {<<>>} \cup (Descs \X Descs \X Descs)] /\ idx'[p] = <<a, b, c>>
      /\ \A q \in Procs \ {p} : idx'[q] = idx[q]
  BY <1>2, <1>5, Zenon DEF DInv, Types
<1>10. /\ next' \in [Descs -> Descs \cup {-1}] /\ next'[a] = b /\ next'[b] = c /\ next'[c] = -1
       /\ \A d \in Descs \ {a, b, c} : next'[d] = next[d]
  BY <1>1, <1>2, <1>6 DEF DInv, TypeOK
<1>11. /\ data' \in [Descs -> Procs \cup {NULL}] /\ data'[b] = p
       /\ \A d \in Descs \ {a, b, c} : data'[d] = data[d]
  BY <1>2, <1>7 DEF DInv, TypeOK
<1>12. /\ infob' \in [Descs -> Procs \cup {NULL}] /\ infob'[a] = p /\ status' \in [Descs -> {0, 255}]
       /\ \A d \in Descs \ {a, b, c} : infob'[d] = infob[d] /\ status'[d] = status[d]
  BY <1>2, <1>7 DEF DInv, TypeOK
<1>13. /\ ops' \in [Descs -> {None} \cup Reqs] /\ ops'[a] = req[p]
       /\ \A d \in Descs \ {a, b, c} : ops'[d] = ops[d]
  BY <1>2, <1>7, Zenon DEF DInv, Types
<1>14. TypeOK'
  BY <1>4, <1>8, <1>10, <1>11, <1>12, Zenon DEF DInv, TypeOK, rings
<1>15. Types'
  BY <1>4, <1>9, <1>13, Zenon DEF DInv, Types
<1>16. AllocDoes(p, a, b, c)
  BY <1>1, <1>4, <1>8, <1>9, <1>10, <1>11, <1>12, <1>13 DEF AllocDoes
<1> QED
  BY <1>2, <1>14, <1>15, <1>16, Zenon

\* The descriptors were free, so no other chain changes.
LEMMA AllocChained ==
  ASSUME DInv, NEW p \in Procs, NEW a \in Descs, NEW b \in Descs, NEW c \in Descs, AllocDoes(p, a, b, c)
  PROVE  Chained'
<1>1. idx'[p] # <<>> /\ idx'[p][1] = a /\ idx'[p][2] = b /\ idx'[p][3] = c
  BY DEF AllocDoes
<1>2. req[p] # None
  BY Zenon DEF AllocDoes, DInv, Chained, Bare, Without
<1>3. Formatted(p)'
  BY <1>1, <1>2 DEF Formatted, AllocDoes
<1>4. ASSUME NEW q \in Procs, q # p PROVE (IF pc[q] \in Without THEN Bare(q) ELSE Formatted(q))'
  <2>1. pc'[q] = pc[q] /\ idx'[q] = idx[q] /\ bdisk'[q] = bdisk[q] /\ UNCHANGED req
    BY <1>4, Zenon DEF AllocDoes
  <2>2. CASE pc[q] \in Without
    BY <2>1, <2>2, Zenon DEF DInv, Chained, Bare
  <2>3. CASE pc[q] \notin Without
    <3>1. Formatted(q)
      BY <2>3, Zenon DEF DInv, Chained
    <3>2. PICK x, y, z \in Descs : x = idx[q][1] /\ y = idx[q][2] /\ z = idx[q][3]
      BY <3>1, Zenon DEF Formatted, DInv, Types
    <3>3. {x, y, z} \cap {a, b, c} = {} /\ {x, y, z} \cap free' = {}
      BY <3>1, <3>2 DEF Formatted, AllocDoes
    <3>4. /\ next'[x] = next[x] /\ next'[y] = next[y] /\ next'[z] = next[z]
          /\ data'[y] = data[y] /\ infob'[x] = infob[x] /\ ops'[x] = ops[x]
      BY <3>3, ZenonT(30) DEF AllocDoes
    <3>5. Formatted(q)'
      BY <2>1, <3>1, <3>2, <3>3, <3>4 DEF Formatted
    <3> QED
      BY <2>1, <2>3, <3>5, Zenon
  <2> QED
    BY <2>2, <2>3, Zenon
<1>5. pc'[p] \notin Without
  BY Zenon DEF AllocDoes, Without
<1> QED
  BY <1>3, <1>4, <1>5, Zenon DEF Chained

\* They are in the chain of p only.
LEMMA AllocDescs ==
  ASSUME DInv, Types', NEW p \in Procs, NEW a \in Descs, NEW b \in Descs, NEW c \in Descs, AllocDoes(p, a, b, c)
  PROVE  Disjoint' /\ Covered'
<1>1. MineIs /\ MineIs'
  BY MineAre, PTL DEF DInv
<1>2. idx'[p] # <<>> /\ idx'[p][1] = a /\ idx'[p][2] = b /\ idx'[p][3] = c
  BY DEF AllocDoes
<1>3. idx[p] = <<>>
  BY Zenon DEF AllocDoes, DInv, Chained, Bare, Without
<1>4. Mine(p)' = {a, b, c} /\ Mine(p) = {}
  BY <1>1, <1>2, <1>3, Zenon DEF MineIs
<1>5. ASSUME NEW q \in Procs \ {p} PROVE Mine(q)' = Mine(q)
  BY DEF Mine, AllocDoes
<1>6. ASSUME NEW q \in Procs PROVE Mine(q) \cap {a, b, c} = {}
  <2>1. idx[q] # <<>> => Formatted(q)
    BY Zenon DEF DInv, Chained, Bare
  <2>2. Mine(q) \cap free = {}
    BY <1>1, <2>1, Zenon DEF MineIs, Formatted
  <2> QED
    BY <2>2, Zenon DEF AllocDoes
<1>7. Disjoint'
  BY <1>4, <1>5, <1>6 DEF DInv, Disjoint
<1>8. Covered'
  BY <1>4, <1>5 DEF DInv, Covered, AllocDoes
<1> QED
  BY <1>7, <1>8, Zenon

\* None in flight has this head.
LEMMA AllocRings ==
  ASSUME DInv, NEW p \in Procs, NEW a \in Descs, NEW b \in Descs, NEW c \in Descs, AllocDoes(p, a, b, c)
  PROVE  Progress' /\ Owned' /\ Rings' /\ Interrupted' /\ Statuses'
<1>1. ASSUME NEW i \in InFlight PROVE i \in Descs \ {a, b, c}
  <2>1. PICK q \in Procs : pc[q] \in Given /\ idx[q] # <<>> /\ idx[q][1] = i /\ i \in Descs
    BY Owner
  <2>2. Formatted(q)
    BY <2>1, Zenon DEF DInv, Chained, Given, Without
  <2> QED
    BY <2>1, <2>2, Zenon DEF Formatted, AllocDoes
<1>2. \A q \in Procs \ {p} : Moves(q)
  BY Zenon DEF Moves, AllocDoes
<1>3. idx'[p][1] = a /\ a \notin InFlight
  BY <1>1 DEF AllocDoes
<1>4. ~req[p].done
  BY Zenon DEF AllocDoes, DInv, Chained, Bare, Without
<1>5. Moves(p)
  BY <1>3, <1>4, Zenon DEF Moves, Without, AllocDoes
<1>6. Progress' /\ Owned' /\ Rings' /\ Keeps
  BY <1>2, <1>5, RingsStay, Zenon DEF AllocDoes
<1>7. Interrupted'
  BY <1>6, Zenon DEF DInv, Interrupted, Keeps, AllocDoes
<1>8. Statuses'
  BY <1>1, <1>6 DEF DInv, Statuses, Keeps, AllocDoes, InFlight
<1> QED
  BY <1>6, <1>7, <1>8, Zenon

\* alloc3_desc() keeps the invariant.
LEMMA AllocStep == ASSUME DInv, NEW p \in Procs, alloc3_desc(p), Found PROVE DInv'
<1>1. TypeOK' /\ Types'
  BY AllocTypes, Zenon
<1>2. PICK a, b, c \in Descs : AllocDoes(p, a, b, c)
  BY AllocTypes, Zenon
<1>3. Chained' /\ Disjoint' /\ Covered'
  BY <1>1, <1>2, AllocChained, AllocDescs, Zenon
<1>4. Progress' /\ Owned' /\ Rings' /\ Interrupted' /\ Statuses'
  BY <1>2, AllocRings, Zenon
<1>5. LockHeld'
  BY <1>2, Zenon DEF DInv, LockHeld, Holding, AllocDoes
<1> QED
  BY <1>1, <1>3, <1>4, <1>5, Zenon DEF DInv

\* What free_chain(idx[0]) and the end of virtio_disk_rw() do, entry by entry.
FinishDoes(p, x, y, z) ==
  /\ pc[p] = "wait" /\ lock = p /\ ~bdisk[p] /\ idx[p] # <<>>
  /\ x = idx[p][1] /\ y = idx[p][2] /\ z = idx[p][3] /\ x \notin InFlight
  /\ pc'[p] = "idle" /\ idx'[p] = <<>> /\ req'[p] = None
  /\ \A q \in Procs \ {p} : /\ idx'[q] = idx[q] /\ req'[q] = req[q]
                            /\ pc'[q] = IF pc[q] = "asleep_free" THEN "acquire" ELSE pc[q]
  /\ \A d \in Descs \ {x, y, z} : /\ next'[d] = next[d] /\ data'[d] = data[d] /\ infob'[d] = infob[d]
                                  /\ ops'[d] = ops[d]
  /\ free' = free \cup {x, y, z} /\ lock' = NULL /\ UNCHANGED <<status, rings, irq, bdisk, disk, buf>>

\* free_chain() finds the three descriptors of idx[].
LEMMA FinishTypes ==
  ASSUME DInv, NEW p \in Procs, finish(p)
  PROVE  TypeOK' /\ Types' /\ \E x, y, z \in Descs : FinishDoes(p, x, y, z)
<1>1. Formatted(p) /\ pc[p] = "wait" /\ lock = p /\ ~bdisk[p] /\ idx[p][1] \notin InFlight
  BY Zenon DEF finish, Finished, DInv, Chained, Without, Progress, Given
<1>2. PICK x, y, z \in Descs : x = idx[p][1] /\ y = idx[p][2] /\ z = idx[p][3]
  BY <1>1, Zenon DEF Formatted, DInv, Types
<1>3. Chain(idx[p][1]) = {x, y, z}
  <2>1. x # -1 /\ y # -1 /\ z # -1
    BY DiskAssumption DEF Descs
  <2> QED
    BY <1>1, <1>2, <2>1, Zenon DEF Formatted, Chain
<1>4. free' = free \cup {x, y, z} /\ lock' = NULL /\ UNCHANGED <<status, rings, irq, bdisk, disk, buf>>
  BY <1>3, Zenon DEF finish
<1>5. next' \in [Descs -> Descs \cup {-1}] /\ \A d \in Descs \ {x, y, z} : next'[d] = next[d]
  BY <1>3, Zenon DEF finish, DInv, TypeOK
<1>6. data' \in [Descs -> Procs \cup {NULL}] /\ \A d \in Descs \ {x, y, z} : data'[d] = data[d]
  BY <1>3, Zenon DEF finish, DInv, TypeOK
<1>7. infob' \in [Descs -> Procs \cup {NULL}] /\ \A d \in Descs \ {x, y, z} : infob'[d] = infob[d]
  BY <1>2 DEF finish, DInv, TypeOK
<1>8. ops' \in [Descs -> {None} \cup Reqs] /\ \A d \in Descs \ {x, y, z} : ops'[d] = ops[d]
  BY <1>2, Zenon DEF finish, DInv, Types
<1>9. /\ idx' \in [Procs -> {<<>>} \cup (Descs \X Descs \X Descs)] /\ req' \in [Procs -> {None} \cup Reqs]
      /\ idx'[p] = <<>> /\ req'[p] = None /\ \A q \in Procs \ {p} : idx'[q] = idx[q] /\ req'[q] = req[q]
  BY Zenon DEF finish, DInv, Types
<1>10. WokenForFree \in [Procs -> Places]
  BY Zenon DEF WokenForFree, Places, DInv, TypeOK
<1>11. /\ pc' \in [Procs -> Places] /\ pc'[p] = "idle"
       /\ \A q \in Procs \ {p} : pc'[q] = WokenForFree[q]
  BY <1>10, Zenon DEF finish, Places
<1>12. \A q \in Procs \ {p} : pc'[q] = IF pc[q] = "asleep_free" THEN "acquire" ELSE pc[q]
  BY <1>11, Zenon DEF WokenForFree
<1>13. TypeOK'
  BY <1>4, <1>5, <1>6, <1>7, <1>11 DEF DInv, TypeOK, rings
<1>14. Types'
  BY <1>8, <1>9, Zenon DEF Types
<1>15. idx[p] # <<>>
  BY <1>1, Zenon DEF Formatted
<1>16. FinishDoes(p, x, y, z)
  BY <1>1, <1>2, <1>4, <1>5, <1>6, <1>7, <1>8, <1>9, <1>11, <1>12, <1>15 DEF FinishDoes
<1> QED
  BY <1>13, <1>14, <1>16, Zenon

\* The descriptors of p are in no other chain.
LEMMA FinishChained ==
  ASSUME DInv, NEW p \in Procs, NEW x \in Descs, NEW y \in Descs, NEW z \in Descs, FinishDoes(p, x, y, z)
  PROVE  Chained'
<1>1. Bare(p)' /\ pc'[p] \in Without
  BY Zenon DEF Without, Bare, FinishDoes
<1>2. ASSUME NEW q \in Procs, q # p PROVE (IF pc[q] \in Without THEN Bare(q) ELSE Formatted(q))'
  <2>1. (pc'[q] \in Without <=> pc[q] \in Without) /\ (pc'[q] = "idle" <=> pc[q] = "idle")
    BY <1>2, Zenon DEF Without, FinishDoes
  <2>2. idx'[q] = idx[q] /\ req'[q] = req[q] /\ bdisk'[q] = bdisk[q]
    BY <1>2, Zenon DEF FinishDoes
  <2>3. CASE pc[q] \in Without
    <3>1. Bare(q)
      BY <2>3, Zenon DEF DInv, Chained
    <3> QED
      BY <2>1, <2>2, <2>3, <3>1, Zenon DEF Bare
  <2>4. CASE pc[q] \notin Without
    <3>1. Formatted(q)
      BY <2>4 DEF DInv, Chained
    <3>2. PICK a, b, c \in Descs : a = idx[q][1] /\ b = idx[q][2] /\ c = idx[q][3]
      BY <3>1 DEF Formatted, DInv, Types
    <3>3. {a, b, c} \cap {x, y, z} = {}
      <4>1. Mine(q) = {a, b, c}
        BY <3>1, <3>2, MineAre, Zenon DEF DInv, MineIs, Formatted
      <4>2. Mine(p) = {x, y, z}
        BY MineAre, Zenon DEF DInv, MineIs, FinishDoes
      <4> QED
        BY <1>2, <4>1, <4>2, Zenon DEF DInv, Disjoint
    <3>4. /\ next'[a] = next[a] /\ next'[b] = next[b] /\ next'[c] = next[c]
          /\ data'[b] = data[b] /\ infob'[a] = infob[a] /\ ops'[a] = ops[a]
      BY <3>3, ZenonT(30) DEF FinishDoes
    <3>5. {a, b, c} \cap free' = {}
      BY <3>1, <3>2, <3>3, Zenon DEF Formatted, FinishDoes
    <3>6. Formatted(q)'
      BY <2>2, <3>1, <3>2, <3>4, <3>5 DEF Formatted
    <3> QED
      BY <2>1, <2>4, <3>6, Zenon
  <2> QED
    BY <2>3, <2>4
<1> QED
  BY <1>1, <1>2, Zenon DEF Chained

\* They are free.
LEMMA FinishDescs ==
  ASSUME DInv, Types', NEW p \in Procs, NEW x \in Descs, NEW y \in Descs, NEW z \in Descs, FinishDoes(p, x, y, z)
  PROVE  Disjoint' /\ Covered'
<1>1. MineIs /\ MineIs'
  BY MineAre, PTL DEF DInv
<1>2. Mine(p) = {x, y, z} /\ Mine(p)' = {}
  BY <1>1, Zenon DEF MineIs, FinishDoes
<1>3. ASSUME NEW q \in Procs \ {p} PROVE Mine(q)' = Mine(q)
  BY DEF Mine, FinishDoes
<1>4. Disjoint'
  BY <1>2, <1>3, Zenon DEF DInv, Disjoint
<1>5. ASSUME NEW d \in Descs \ free' PROVE \E q \in Procs : d \in Mine(q)'
  <2>1. PICK q \in Procs : d \in Mine(q)
    BY Zenon DEF DInv, Covered, FinishDoes
  <2>2. q # p
    BY <1>2, <2>1, Zenon DEF FinishDoes
  <2> QED
    BY <1>3, <2>1, <2>2, Zenon
<1> QED
  BY <1>4, <1>5, Zenon DEF Covered

\* The chain is in no ring any more.
LEMMA FinishRings ==
  ASSUME DInv, NEW p \in Procs, NEW x \in Descs, NEW y \in Descs, NEW z \in Descs, FinishDoes(p, x, y, z)
  PROVE  Progress' /\ Owned' /\ Rings' /\ Interrupted' /\ Statuses'
<1>1. Moves(p)
  BY Zenon DEF Moves, Without, FinishDoes
<1>2. ASSUME NEW q \in Procs \ {p} PROVE Moves(q)
  <2>1. idx'[q] = idx[q] /\ req'[q] = req[q] /\ bdisk'[q] = bdisk[q]
    BY Zenon DEF FinishDoes
  <2>2. pc'[q] # pc[q] => pc[q] = "asleep_free" /\ pc'[q] = "acquire"
    BY Zenon DEF FinishDoes
  <2> QED
    BY <2>1, <2>2, Zenon DEF Moves, Without, Given
<1>3. Progress' /\ Owned' /\ Rings' /\ Keeps
  BY <1>1, <1>2, RingsStay, Zenon DEF FinishDoes
<1>4. lock # intr
  BY DiskAssumption, Zenon DEF FinishDoes
<1>5. Interrupted' /\ Statuses'
  BY <1>3, <1>4, Zenon DEF DInv, Interrupted, Statuses, Keeps, FinishDoes
<1> QED
  BY <1>3, <1>5, Zenon

\* free_chain() and the return from virtio_disk_rw() keep the invariant.
LEMMA FinishStep == ASSUME DInv, NEW p \in Procs, finish(p) PROVE DInv'
<1>1. TypeOK' /\ Types'
  BY FinishTypes, Zenon
<1>2. PICK x, y, z \in Descs : FinishDoes(p, x, y, z)
  BY FinishTypes, Zenon
<1>3. Chained' /\ Disjoint' /\ Covered'
  BY <1>1, <1>2, FinishChained, FinishDescs, Zenon
<1>4. Progress' /\ Owned' /\ Rings' /\ Interrupted' /\ Statuses'
  BY <1>2, FinishRings, Zenon
<1>5. LockHeld'
  <2>1. \A q \in Procs \ {p} : pc[q] \notin Holding
    BY <1>2, Zenon DEF DInv, LockHeld, FinishDoes
  <2> QED
    BY <1>2, <2>1, DiskAssumption, Zenon DEF LockHeld, Holding, FinishDoes
<1> QED
  BY <1>1, <1>3, <1>4, <1>5, Zenon DEF DInv
-----------------------------------------------------------------------------
(* Steps on the rings.                                                     *)

\* disk.avail->ring[disk.avail->idx % NUM] = idx[0]: no entry on offer is overwritten.
LEMMA RingEntryStep == ASSUME DInv, NEW p \in Procs, ring_entry(p), TypeOK' => EntryWritten(p) PROVE DInv'
<1>1. /\ pc[p] = "ring" /\ lock = p
      /\ aring' = [aring EXCEPT ![aidx % NUM] = idx[p][1]] /\ pc' = [pc EXCEPT ![p] = "index"]
      /\ UNCHANGED <<free, next, data, ops, infob, status, aidx, uring, uidx, used_idx, seen, taken, irq, lock,
                     idx, bdisk, disk, buf, req>>
  BY Zenon DEF ring_entry, Goto, chains
<1>2. idx[p] # <<>>
  BY <1>1, Zenon DEF DInv, Chained, Formatted, Without
<1>typeok. TypeOK'
  <2>1. aidx % NUM \in Descs
    BY SlotOf, Zenon DEF DInv, TypeOK, Indices
  <2>2. idx[p][1] \in Descs
    BY <1>2, Zenon DEF DInv, Types
  <2>3. aring' \in [Descs -> Descs]
    BY <1>1, <2>1, <2>2, Zenon DEF DInv, TypeOK
  <2>4. pc' \in [Procs -> Places]
    BY <1>1, Zenon DEF DInv, TypeOK, Places
  <2> QED
    BY <1>1, <2>3, <2>4, Zenon DEF DInv, TypeOK
<1>types. Types'
  BY <1>1, Zenon DEF DInv, Types
<1>3. pc'[p] = "index" /\ \A q \in Procs \ {p} : pc'[q] = pc[q]
  BY <1>1 DEF DInv, TypeOK
<1>4. Keeps /\ RingOK(aring, seen, aidx)' /\ RingOK(uring, used_idx, uidx)' /\ aring'[aidx' % NUM] = idx[p][1]
  BY <1>typeok, Zenon DEF EntryWritten, RingsOK
<1>5. Offered' = Offered /\ taken' = taken /\ Used' = Used /\ InFlight' = InFlight
  BY <1>4, Zenon DEF Keeps, InFlight
<1>lockheld. LockHeld'
  BY <1>1, <1>3, Zenon DEF DInv, LockHeld, Holding
<1>chained. Chained' /\ Disjoint' /\ Covered'
  <2>1. \A q \in Procs : Stays(q)
    BY <1>1, <1>3, Zenon DEF Stays, Without
  <2> QED
    BY <1>1, <2>1, ChainsStay, Zenon
<1>progress. Progress'
  BY <1>1, <1>3, <1>5, Zenon DEF DInv, Progress, Given
<1>owned. Owned'
  BY <1>1, <1>3, <1>5, Zenon DEF DInv, Owned, Given
<1>rings. Rings'
  <2>1. ASSUME NEW q \in Procs, pc'[q] = "index" PROVE q = p
    BY <1>1, <1>3, <2>1, Zenon DEF DInv, LockHeld, Holding
  <2> QED
    BY <1>1, <1>4, <1>5, <2>1, Zenon DEF DInv, Rings
<1>6. Interrupted' /\ Statuses'
  BY <1>1, <1>5, Zenon DEF DInv, Interrupted, Statuses
<1> QED
  BY <1>typeok, <1>types, <1>lockheld, <1>chained, <1>progress, <1>owned, <1>rings, <1>6, Zenon DEF DInv

\* disk.avail->idx += 1: the chain is on offer, and its owner waits for it.
LEMMA RingIndexStep == ASSUME DInv, NEW p \in Procs, ring_index(p), TypeOK' => IndexWritten(p) PROVE DInv'
<1>1. /\ pc[p] = "index" /\ lock = p /\ aidx' = Inc(aidx) /\ pc' = [pc EXCEPT ![p] = "wait"]
      /\ UNCHANGED <<free, next, data, ops, infob, status, aring, uring, uidx, used_idx, seen, taken, irq, lock,
                     idx, bdisk, disk, buf, req>>
  BY Zenon DEF ring_index, Goto, chains
<1>2. idx[p] # <<>>
  BY <1>1, Zenon DEF DInv, Chained, Formatted, Without
<1>typeok. TypeOK'
  <2>1. aidx' \in 0 .. UINT16 - 1
    BY <1>1, IncIs, Zenon DEF DInv, TypeOK, Indices
  <2>2. pc' \in [Procs -> Places]
    BY <1>1, Zenon DEF DInv, TypeOK, Places
  <2> QED
    BY <1>1, <2>1, <2>2 DEF DInv, TypeOK
<1>types. Types'
  BY <1>1, Zenon DEF DInv, Types
<1>3. pc'[p] = "wait" /\ \A q \in Procs \ {p} : pc'[q] = pc[q]
  BY <1>1 DEF DInv, TypeOK
<1>4. /\ Offered' = Offered \cup {idx[p][1]} /\ Used' = Used /\ taken' = taken
      /\ RingOK(aring, seen, aidx)' /\ RingOK(uring, used_idx, uidx)'
  BY <1>typeok, Zenon DEF IndexWritten, RingsOK
<1>5. bdisk[p] /\ ~req[p].done /\ idx[p][1] \notin InFlight
  BY <1>1, Zenon DEF DInv, Progress
<1>6. InFlight' = InFlight \cup {idx[p][1]}
  BY <1>4, Zenon DEF InFlight
<1>lockheld. LockHeld'
  BY <1>1, <1>3, Zenon DEF DInv, LockHeld, Holding
<1>chained. Chained' /\ Disjoint' /\ Covered'
  <2>1. \A q \in Procs : Stays(q)
    BY <1>1, <1>3, Zenon DEF Stays, Without
  <2> QED
    BY <1>1, <2>1, ChainsStay, Zenon
<1>progress. Progress'
  <2> SUFFICES ASSUME NEW q \in Procs
               PROVE  /\ pc'[q] \in {"ring", "index"} => bdisk[q] /\ ~req[q].done /\ idx[q][1] \notin InFlight'
                      /\ pc'[q] \in Given => /\ bdisk[q] <=> idx[q][1] \in InFlight'
                                             /\ req[q].done <=> idx[q][1] \notin (Offered \cup taken)'
                      /\ pc'[q] = "asleep" => bdisk[q]
                      /\ pc'[q] = "reacquire" => ~bdisk[q]
    BY <1>1, Zenon DEF Progress, Given
  <2>1. CASE q = p
    BY <1>3, <1>4, <1>5, <1>6, <2>1, Zenon
  <2>2. CASE q # p
    <3>1. pc'[q] = pc[q]
      BY <1>3, <2>2, Zenon
    <3>2. pc[q] \notin Without => idx[q][1] # idx[p][1]
      <4>1. pc[q] \notin Without => idx[q] # <<>>
        BY Zenon DEF DInv, Chained, Formatted
      <4> QED
        BY <1>2, <2>2, <4>1, Heads, Zenon
    <3>3. pc[q] \in Given \cup {"ring", "index"} => idx[q][1] # idx[p][1]
      BY <3>2, Zenon DEF Given, Without
    <3> QED
      BY <1>4, <1>6, <3>1, <3>3, Zenon DEF DInv, Progress
  <2> QED
    BY <2>1, <2>2, Zenon
<1>owned. Owned'
  <2>1. \A q \in Procs : pc[q] \in Given => pc'[q] \in Given
    BY <1>1, <1>3, Zenon DEF Given
  <2>2. pc'[p] \in Given
    BY <1>3, Zenon DEF Given
  <2> QED
    BY <1>1, <1>2, <1>6, <2>1, <2>2, Zenon DEF DInv, Owned, Given
<1>rings. Rings'
  <2>1. ASSUME NEW q \in Procs PROVE pc'[q] # "index"
    BY <1>1, <1>3, Zenon DEF DInv, LockHeld, Holding
  <2> QED
    BY <1>4, <1>5, <2>1, Zenon DEF DInv, Rings, InFlight
<1>7. Interrupted' /\ Statuses'
  BY <1>1, <1>4, Zenon DEF DInv, Interrupted, Statuses
<1> QED
  BY <1>typeok, <1>types, <1>lockheld, <1>chained, <1>progress, <1>owned, <1>rings, <1>7 DEF DInv

\* The handler takes an entry off the used ring and wakes the owner of the chain.
LEMMA UsedEntryStep == ASSUME DInv, used_entry, TypeOK' => EntryRead, uring[used_idx % NUM] \in Used PROVE DInv'
<1> DEFINE h == uring[used_idx % NUM]
<1>1. used_idx \in Indices /\ used_idx % NUM \in Descs /\ used_idx # uidx
  BY SlotOf, Zenon DEF DInv, TypeOK, Indices, used_entry
<1>2. h \in Used
  BY Zenon
<1>3. /\ bdisk' = [bdisk EXCEPT ![infob[h]] = FALSE]
      /\ pc' = [pc EXCEPT ![infob[h]] = IF @ = "asleep" THEN "reacquire" ELSE @]
      /\ uring' = [uring EXCEPT ![used_idx % NUM] = 0] /\ used_idx' = Inc(used_idx) /\ lock = intr
      /\ UNCHANGED <<free, next, data, ops, infob, status, aring, aidx, uidx, seen, taken, irq, lock, idx, disk,
                     buf, req>>
  BY Zenon DEF used_entry, Consume, chains
<1> HIDE DEF h
<1>4. PICK p \in Procs : /\ pc[p] \in Given /\ idx[p] # <<>> /\ idx[p][1] = h /\ infob[h] = p
                        /\ bdisk[p] /\ req[p].done
  <2>1. h \in InFlight
    BY <1>2, Zenon DEF InFlight
  <2> QED
    BY <1>2, <2>1, Owner, Zenon
<1>5. /\ ~bdisk'[p] /\ pc'[p] = (IF pc[p] = "asleep" THEN "reacquire" ELSE pc[p])
      /\ \A q \in Procs \ {p} : bdisk'[q] = bdisk[q] /\ pc'[q] = pc[q]
  BY <1>3, <1>4 DEF DInv, TypeOK
<1>6. pc[p] \in {"wait", "asleep"} /\ pc'[p] \in {"wait", "reacquire"} /\ (pc'[p] = "wait" <=> pc[p] = "wait")
  <2>1. pc[p] # "reacquire"
    BY <1>4, Zenon DEF DInv, Progress
  <2> QED
    BY <1>4, <1>5, <2>1, Zenon DEF Given
<1>typeok. TypeOK'
  <2>1. 0 \in Descs
    BY DiskAssumption DEF Descs
  <2>2. used_idx' \in 0 .. UINT16 - 1
    BY <1>1, <1>3, IncIs, Zenon DEF Indices
  <2>3. uring' \in [Descs -> Descs]
    BY <1>1, <1>3, <2>1, Zenon DEF DInv, TypeOK
  <2>4. pc' \in [Procs -> Places]
    BY <1>3, <1>4, Zenon DEF DInv, TypeOK, Places
  <2>5. bdisk' \in [Procs -> BOOLEAN]
    BY <1>3, <1>4, Zenon DEF DInv, TypeOK
  <2> QED
    BY <1>3, <2>2, <2>3, <2>4, <2>5 DEF DInv, TypeOK
<1>types. Types'
  BY <1>3, Zenon DEF DInv, Types
<1>7. /\ Used' = Used \ {h} /\ taken' = taken /\ Offered' = Offered
      /\ RingOK(aring, seen, aidx)' /\ RingOK(uring, used_idx, uidx)'
  BY <1>typeok, Zenon DEF EntryRead, RingsOK, h
<1>8. InFlight' = InFlight \ {h}
  <2>1. h \notin Offered \cup taken
    BY <1>2, Zenon DEF DInv, Rings
  <2> QED
    BY <1>7, <2>1, Zenon DEF InFlight
<1>lockheld. LockHeld'
  BY <1>3, <1>5, <1>6, Zenon DEF DInv, LockHeld, Holding
<1>chained. Chained' /\ Disjoint' /\ Covered'
  <2>1. Stays(p)
    BY <1>3, <1>6, Zenon DEF Stays, Without
  <2>2. \A q \in Procs \ {p} : Stays(q)
    BY <1>3, <1>5, Zenon DEF Stays
  <2> QED
    BY <1>3, <2>1, <2>2, ChainsStay, Zenon
<1>progress. Progress'
  <2> SUFFICES ASSUME NEW q \in Procs
               PROVE  /\ pc'[q] \in {"ring", "index"} => bdisk'[q] /\ ~req[q].done /\ idx[q][1] \notin InFlight'
                      /\ pc'[q] \in Given => /\ bdisk'[q] <=> idx[q][1] \in InFlight'
                                             /\ req[q].done <=> idx[q][1] \notin (Offered \cup taken)'
                      /\ pc'[q] = "asleep" => bdisk'[q]
                      /\ pc'[q] = "reacquire" => ~bdisk'[q]
    BY <1>3, Zenon DEF Progress, Given
  <2>1. CASE q = p
    <3>1. req[p].done <=> idx[p][1] \notin Offered \cup taken
      BY <1>4, Zenon DEF DInv, Progress
    <3> QED
      BY <1>4, <1>5, <1>6, <1>7, <1>8, <2>1, <3>1, Zenon
  <2>2. CASE q # p
    <3>1. pc'[q] = pc[q] /\ bdisk'[q] = bdisk[q]
      BY <1>5, <2>2, Zenon
    <3>2. pc[q] \notin Without => idx[q][1] # h
      <4>1. pc[q] \notin Without => idx[q] # <<>>
        BY Zenon DEF DInv, Chained, Formatted
      <4> QED
        BY <1>4, <2>2, <4>1, Heads, Zenon
    <3>3. pc[q] \in Given \cup {"ring", "index"} => idx[q][1] # h
      BY <3>2, Zenon DEF Given, Without
    <3> QED
      BY <1>7, <1>8, <3>1, <3>3, Zenon DEF DInv, Progress
  <2> QED
    BY <2>1, <2>2, Zenon
<1>owned. Owned'
  <2>1. \A q \in Procs : pc[q] \in Given => pc'[q] \in Given
    BY <1>5, <1>6, Zenon DEF Given
  <2> QED
    BY <1>3, <1>8, <2>1, Zenon DEF DInv, Owned, Given
<1>rings. Rings'
  <2>1. \A q \in Procs : pc'[q] = "index" => pc[q] = "index"
    BY <1>5, <1>6, Zenon
  <2> QED
    BY <1>3, <1>7, <2>1, Zenon DEF DInv, Rings
<1>interrupted. Interrupted'
  BY <1>3, Zenon DEF Interrupted
<1>statuses. Statuses'
  BY <1>3, <1>7, Zenon DEF DInv, Statuses
<1> QED
  BY <1>typeok, <1>types, <1>lockheld, <1>chained, <1>progress, <1>owned, <1>rings, <1>interrupted,
     <1>statuses, Zenon
     DEF DInv
=============================================================================
