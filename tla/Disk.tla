-------------------------------- MODULE Disk --------------------------------
(***************************************************************************)
(* The virtio disk driver (kernel/virtio_disk.c) and its device: the       *)
(* descriptor pool, the avail and used rings, the interrupt and the sleeps *)
(* of virtio_disk_rw().                                                    *)
(*                                                                         *)
(* Each process passes a buffer of its own (the buffer cache locks it).    *)
(* vdisk_lock is explicit; the device, which takes no lock, runs between   *)
(* any two steps, so writing the ring entry and its index are two steps.   *)
(* Buffer p is process p's; sleep() is atomic with the release (module     *)
(* Proc).  Ring entries and request headers that are done with are reset,  *)
(* which merges states that differ in what nobody reads again.             *)
(***************************************************************************)
EXTENDS Integers, FiniteSets

CONSTANTS Procs, NULL, None, Blocks, Values,
          NUM,    \* descriptors, and entries of each ring
          UINT16  \* ring indices are counted modulo UINT16

Descs == 0 .. NUM - 1
\* The interrupt handler, when it holds the lock, in and after its loop.
intr == "virtio_disk_intr"
leaving == "virtio_disk_intr ends"

ASSUME DiskAssumption ==
  /\ NUM \in Nat /\ NUM >= 3 /\ UINT16 \in Nat /\ UINT16 > NUM /\ UINT16 % NUM = 0
  /\ {NULL, intr, leaving} \cap Procs = {} /\ NULL \notin {intr, leaving}
  /\ None \notin [block : Blocks, write : BOOLEAN, done : BOOLEAN] /\ Values # {}

VARIABLES free,              \* disk.free[]: the free descriptors
          next, data,        \* desc[i].next, -1 without VRING_DESC_F_NEXT; desc[i].addr as a buffer
          ops,               \* disk.ops[]: the request header
          infob, status,     \* disk.info[]
          aring, aidx,       \* avail ring
          uring, uidx,       \* used ring
          used_idx,          \* how far the driver has looked in the used ring
          seen, taken,       \* device: position in the avail ring; chains it works on
          irq,               \* interrupt pending
          lock, pc, idx,     \* vdisk_lock; processes; their idx[0 .. 2]
          bdisk,             \* b->disk
          disk, buf, req     \* contents; the requests being made

rings == <<aring, aidx, uring, uidx, used_idx, seen, taken>>
chains == <<free, next, data, ops, infob, status>>
vars == <<free, next, data, ops, infob, status, aring, aidx, uring, uidx, used_idx, seen, taken,
          irq, lock, pc, idx, bdisk, disk, buf, req>>

\* virtio_disk_init()
Init == /\ free = Descs
        /\ next = [d \in Descs |-> -1] /\ data = [d \in Descs |-> NULL]
        /\ ops = [d \in Descs |-> None]
        /\ infob = [d \in Descs |-> NULL] /\ status = [d \in Descs |-> 0]
        /\ aring = [k \in Descs |-> 0] /\ aidx = 0
        /\ uring = [k \in Descs |-> 0] /\ uidx = 0 /\ used_idx = 0
        /\ seen = 0 /\ taken = {}
        /\ irq = FALSE /\ lock = NULL
        /\ pc = [p \in Procs |-> "idle"] /\ idx = [p \in Procs |-> <<>>]
        /\ bdisk = [p \in Procs |-> FALSE]
        /\ disk \in [Blocks -> {CHOOSE v \in Values : TRUE}]
        /\ buf \in [Procs -> {CHOOSE v \in Values : TRUE}]
        /\ req = [p \in Procs |-> None]

Goto(p, l) == pc' = [pc EXCEPT ![p] = l]
Inc(i) == (i + 1) % UINT16
Lowest(S) == CHOOSE d \in S : \A e \in S : d <= e
\* The processes asleep on &disk.free[0] wake up.
WokenForFree == [q \in Procs |-> IF pc[q] = "asleep_free" THEN "acquire" ELSE pc[q]]
-----------------------------------------------------------------------------
\* virtio_disk_rw(b, write) is called.
virtio_disk_rw(p, blk, w, v) ==
  /\ pc[p] = "idle" /\ (w \/ v = buf[p])
  /\ req' = [req EXCEPT ![p] = [block |-> blk, write |-> w, done |-> FALSE]]
  /\ buf' = [buf EXCEPT ![p] = v]
  /\ Goto(p, "acquire")
  /\ UNCHANGED <<chains, rings, irq, lock, idx, bdisk, disk>>

acquire(p) ==
  /\ pc[p] \in {"acquire", "reacquire"} /\ lock = NULL
  /\ lock' = p
  /\ Goto(p, IF pc[p] = "acquire" THEN "alloc" ELSE "wait")
  /\ UNCHANGED <<chains, rings, irq, idx, bdisk, disk, buf, req>>

\* alloc3_desc(): the three lowest free descriptors.
Allocated == LET a == Lowest(free)
                 b == Lowest(free \ {a})
             IN <<a, b, Lowest(free \ {a, b})>>

\* Record struct buf for virtio_disk_intr().
Record(b, i) == infob' = [infob EXCEPT ![i] = b]

\* The chain is formatted and its head put into the avail ring.
alloc3_desc(p) ==
  /\ lock = p /\ pc[p] = "alloc" /\ Cardinality(free) >= 3
  /\ LET c == Allocated IN
       /\ idx' = [idx EXCEPT ![p] = c]
       /\ free' = free \ {c[1], c[2], c[3]}
       /\ next' = [next EXCEPT ![c[1]] = c[2], ![c[2]] = c[3], ![c[3]] = -1]
       /\ data' = [data EXCEPT ![c[2]] = p]
       /\ ops' = [ops EXCEPT ![c[1]] = req[p]]
       /\ Record(p, c[1])
       /\ status' = [status EXCEPT ![c[1]] = 255]
       /\ bdisk' = [bdisk EXCEPT ![p] = TRUE]
  /\ Goto(p, "ring")
  /\ UNCHANGED <<rings, irq, lock, disk, buf, req>>

\* Too few: those it got are freed again, which wakes the other waiters, and
\* it sleeps on &disk.free[0].
alloc3_desc_fails(p) ==
  /\ lock = p /\ pc[p] = "alloc" /\ Cardinality(free) < 3
  /\ pc' = [IF free = {} THEN pc ELSE WokenForFree EXCEPT ![p] = "asleep_free"]
  /\ lock' = NULL
  /\ UNCHANGED <<chains, rings, irq, idx, bdisk, disk, buf, req>>

ring_entry(p) ==
  /\ lock = p /\ pc[p] = "ring"
  /\ aring' = [aring EXCEPT ![aidx % NUM] = idx[p][1]]
  /\ Goto(p, "index")
  /\ UNCHANGED <<chains, aidx, uring, uidx, used_idx, seen, taken, irq, lock, idx, bdisk, disk, buf, req>>

\* After the barrier: avail->idx += 1, QUEUE_NOTIFY.
ring_index(p) ==
  /\ lock = p /\ pc[p] = "index"
  /\ aidx' = Inc(aidx)
  /\ Goto(p, "wait")
  /\ UNCHANGED <<chains, aring, uring, uidx, used_idx, seen, taken, irq, lock, idx, bdisk, disk, buf, req>>

\* while(b->disk == 1)
Finished_bug(p) == TRUE
Finished(p) == ~bdisk[p]

sleep(p) ==
  /\ lock = p /\ pc[p] = "wait" /\ ~Finished(p)
  /\ Goto(p, "asleep") /\ lock' = NULL
  /\ UNCHANGED <<chains, rings, irq, idx, bdisk, disk, buf, req>>

\* The descriptors free_chain(i) frees, following next.
Chain_bug(i) == {i, next[i]} \ {-1}
Chain(i) == LET j == next[i]
                k == IF j = -1 THEN -1 ELSE next[j]
            IN {i, j, k} \ {-1}

\* The request is over: free_chain(idx[0]).
finish(p) ==
  /\ lock = p /\ pc[p] = "wait" /\ Finished(p)
  /\ LET c == Chain(idx[p][1]) IN
       /\ free' = free \cup c
       /\ next' = [d \in Descs |-> IF d \in c THEN -1 ELSE next[d]]
       /\ data' = [d \in Descs |-> IF d \in c THEN NULL ELSE data[d]]
  /\ infob' = [infob EXCEPT ![idx[p][1]] = NULL]
  /\ ops' = [ops EXCEPT ![idx[p][1]] = None]
  /\ idx' = [idx EXCEPT ![p] = <<>>]
  /\ req' = [req EXCEPT ![p] = None]
  /\ pc' = [WokenForFree EXCEPT ![p] = "idle"]
  /\ lock' = NULL
  /\ UNCHANGED <<status, rings, irq, bdisk, disk, buf>>
-----------------------------------------------------------------------------
\* virtio_disk_intr(): the interrupt is acknowledged before the used ring is
\* read.
virtio_disk_intr ==
  /\ irq /\ lock = NULL
  /\ lock' = intr
  /\ irq' = FALSE
  /\ UNCHANGED <<chains, rings, pc, idx, bdisk, disk, buf, req>>

\* disk.used_idx += 1
Consume == used_idx' = Inc(used_idx)

\* One completed request.
used_entry ==
  /\ lock = intr /\ used_idx # uidx
  /\ LET b == infob[uring[used_idx % NUM]] IN
       /\ bdisk' = [bdisk EXCEPT ![b] = FALSE]
       /\ pc' = [pc EXCEPT ![b] = IF @ = "asleep" THEN "reacquire" ELSE @]
  /\ uring' = [uring EXCEPT ![used_idx % NUM] = 0]
  /\ Consume
  /\ UNCHANGED <<chains, aring, aidx, uidx, seen, taken, irq, lock, idx, disk, buf, req>>

\* The loop ends; the device may complete more before the lock is released.
intr_leave ==
  /\ lock = intr /\ used_idx = uidx
  /\ lock' = leaving
  /\ UNCHANGED <<chains, rings, irq, pc, idx, bdisk, disk, buf, req>>

intr_done_bug ==
  /\ lock = leaving
  /\ lock' = NULL /\ irq' = FALSE
  /\ UNCHANGED <<chains, rings, pc, idx, bdisk, disk, buf, req>>
intr_done ==
  /\ lock = leaving
  /\ lock' = NULL
  /\ UNCHANGED <<chains, rings, irq, pc, idx, bdisk, disk, buf, req>>

\* The device takes the next chain of the avail ring ...
device_take ==
  /\ seen # aidx
  /\ taken' = taken \cup {aring[seen % NUM]}
  /\ aring' = [aring EXCEPT ![seen % NUM] = 0]
  /\ seen' = Inc(seen)
  /\ UNCHANGED <<chains, aidx, uring, uidx, used_idx, irq, lock, pc, idx, bdisk, disk, buf, req>>

\* ... and completes the chains it has in any order: the data, the status, the
\* used ring, its index, the interrupt.
device_complete(i) ==
  /\ i \in taken
  /\ LET r == ops[i]
         b == data[next[i]]
     IN /\ IF r.write THEN disk' = [disk EXCEPT ![r.block] = buf[b]] /\ UNCHANGED buf
                      ELSE buf' = [buf EXCEPT ![b] = disk[r.block]] /\ UNCHANGED disk
        /\ req' = [req EXCEPT ![b].done = TRUE]
  /\ status' = [status EXCEPT ![i] = 0]
  /\ uring' = [uring EXCEPT ![uidx % NUM] = i]
  /\ uidx' = Inc(uidx)
  /\ taken' = taken \ {i}
  /\ irq' = TRUE
  /\ UNCHANGED <<free, next, data, ops, infob, aring, aidx, used_idx, seen, lock, pc, idx, bdisk>>

Device == device_take \/ \E i \in Descs : device_complete(i)
Interrupt == virtio_disk_intr \/ used_entry \/ intr_leave \/ intr_done
Driver(p) == \/ acquire(p) \/ alloc3_desc(p) \/ alloc3_desc_fails(p) \/ ring_entry(p) \/ ring_index(p)
             \/ sleep(p) \/ finish(p)

Next == \/ Device \/ Interrupt
        \/ \E p \in Procs : Driver(p) \/
             \E blk \in Blocks, w \in BOOLEAN, v \in Values : virtio_disk_rw(p, blk, w, v)

Spec == Init /\ [][Next]_vars
-----------------------------------------------------------------------------
Places == {"idle", "acquire", "reacquire", "alloc", "ring", "index", "wait", "asleep", "asleep_free"}

TypeOK ==
  /\ free \subseteq Descs
  /\ next \in [Descs -> Descs \cup {-1}] /\ data \in [Descs -> Procs \cup {NULL}]
  /\ infob \in [Descs -> Procs \cup {NULL}] /\ status \in [Descs -> {0, 255}]
  /\ aring \in [Descs -> Descs] /\ uring \in [Descs -> Descs]
  /\ {aidx, uidx, used_idx, seen} \subseteq 0 .. UINT16 - 1 /\ taken \subseteq Descs
  /\ irq \in BOOLEAN /\ lock \in Procs \cup {NULL, intr, leaving}
  /\ pc \in [Procs -> Places] /\ bdisk \in [Procs -> BOOLEAN]
  /\ disk \in [Blocks -> Values] /\ buf \in [Procs -> Values]

Mine(p) == {idx[p][k] : k \in DOMAIN idx[p]}
\* The ring positions from a up to b.
Window(a, b) == {(a + k) % UINT16 : k \in 0 .. ((b - a) % UINT16) - 1}
Offered == {aring[k % NUM] : k \in Window(seen, aidx)}
Used == {uring[k % NUM] : k \in Window(used_idx, uidx)}

\* Every descriptor is free or in exactly one request, so that free_desc()
\* never panics and the device never sees a chain of two requests.
DescriptorsAccounted ==
  /\ free \cup UNION {Mine(p) : p \in Procs} = Descs
  /\ \A p \in Procs : /\ Cardinality(Mine(p)) \in {0, 3} /\ Mine(p) \cap free = {}
                      /\ idx[p] # <<>> => Chain(idx[p][1]) = Mine(p)
                      /\ \A q \in Procs \ {p} : Mine(p) \cap Mine(q) = {}

\* A completion is never lost: a process that sleeps on its buffer has its
\* chain in one place, before, in or behind the device, and while anything is
\* behind it an interrupt is pending or being handled.
NoLostCompletion ==
  /\ \A p \in Procs : pc[p] = "asleep" => bdisk[p] /\ idx[p][1] \in Offered \cup taken \cup Used
  /\ Used # {} => irq \/ lock = intr
  /\ Offered \cap taken = {} /\ Offered \cap Used = {} /\ taken \cap Used = {}

\* The interrupt handler's panic is out of reach and it always finds the
\* buffer of a request in flight.
CompletionsMatch ==
  \A i \in Used : status[i] = 0 /\ infob[i] \in Procs /\ bdisk[infob[i]] /\ idx[infob[i]][1] = i

\* Types, descriptors and the driver's record of what is in flight agree.
DiskInv == TypeOK /\ DescriptorsAccounted /\ CompletionsMatch

Device1 == INSTANCE BlockDevice
\* Every request takes effect once, between its start and its return, on the
\* right block and the right buffer.
Linearizable == Device1!Spec
=============================================================================
