--------------------------------- MODULE Bio --------------------------------
(***************************************************************************)
(* The buffer cache (kernel/bio.c) with its sleep-locks                    *)
(* (kernel/sleeplock.c): bget, bread, bwrite, brelse, bpin and bunpin.     *)
(*                                                                         *)
(* A critical section of bcache.lock or of a sleep-lock's spinlock is one  *)
(* step; brelse() has two of them, and a disk read lies between bget() and *)
(* b->valid = 1.  virtio_disk_rw() takes effect at one instant (module     *)
(* Disk).  The callers keep the cache's rule: a buffer that was changed is *)
(* written or pinned by log_write() before it is released, and unpinned    *)
(* after it has been written (module Log).                                 *)
(*                                                                         *)
(* A process may read a block while it holds the buffer of another: the    *)
(* log's block and the home block, or an indirect block and the bitmap or  *)
(* a data block.  A use <<p, i>> is the i-th buffer that process p has at  *)
(* one time; a process is in a call with one of its uses only.             *)
(***************************************************************************)
EXTENDS Integers, FiniteSets

CONSTANTS Procs, NULL, Blocks, Values,
          Data,    \* bound: the contents that each block is given
          NBUF,
          HELD,    \* buffers that a process has at most at one time
          Before,  \* the pairs <<m, n>>: block n is read while m is held
          LOGSIZE  \* blocks pinned at most at one time

Bufs == 1 .. NBUF
Uses == Procs \X (1 .. HELD)

ASSUME BioAssumption ==
  /\ IsFiniteSet(Procs) /\ NULL \notin Uses \cup Blocks \cup Nat
  /\ Values # {} /\ Data \in [Blocks -> (SUBSET Values) \ {{}}]
  /\ NBUF \in Nat \ {0} /\ HELD \in Nat \ {0} /\ LOGSIZE \in Nat
  /\ Before \subseteq Blocks \X Blocks

VARIABLES blockno, valid, refcnt, data,  \* struct buf
          locked,     \* its sleep-lock: the use that holds it
          list,       \* the buffers from head.next to head.prev
          pinned,     \* buffers pinned by log_write
          disk,
          pc, b       \* uses: where; the buffer

bufs == <<blockno, valid, refcnt, data, list>>
vars == <<blockno, valid, refcnt, data, list, locked, pinned, disk, pc, b>>

\* binit()
Init == /\ blockno = [x \in Bufs |-> NULL]
        /\ valid = [x \in Bufs |-> FALSE]
        /\ refcnt = [x \in Bufs |-> 0]
        /\ data = [x \in Bufs |-> CHOOSE v \in Values : TRUE]
        /\ list = [k \in Bufs |-> NBUF + 1 - k]
        /\ locked = [x \in Bufs |-> NULL]
        /\ pinned = {}
        /\ disk = [n \in Blocks |-> CHOOSE v \in Data[n] : TRUE]
        /\ pc = [u \in Uses |-> "idle"]
        /\ b = [u \in Uses |-> NULL]

Goto(u, l) == pc' = [pc EXCEPT ![u] = l]

\* bread() has returned the buffer, and brelse() has not been called.
Has(u) == pc[u] \in {"have", "changed", "written", "logged"}
Others(u) == {w \in Uses \ {u} : w[1] = u[1]}
\* The process is in no other call.
Turn(u) == \A w \in Others(u) : pc[w] = "idle" \/ Has(w)
\* It reads n with its earlier buffers held, each of a block that comes before n.
Nested(u, n) == \A w \in Others(u) : IF w[2] < u[2] THEN Has(w) /\ <<blockno[b[w]], n>> \in Before
                                                    ELSE pc[w] = "idle"
-----------------------------------------------------------------------------
Cached(n) == {x \in Bufs : blockno[x] = n}
Unused_bug == {k \in Bufs \ {NBUF} : refcnt[list[k]] = 0}
Unused == {k \in Bufs : refcnt[list[k]] = 0}
\* The least recently used unused buffer, if there is one.
Lru == {list[k] : k \in {m \in Unused : \A j \in Unused : j <= m}}

Take(x) == refcnt' = [refcnt EXCEPT ![x] = @ + 1]

\* bget() finds the block cached.
bget(u, n) ==
  /\ pc[u] = "idle" /\ Nested(u, n)
  /\ \E x \in Cached(n) : Take(x) /\ b' = [b EXCEPT ![u] = x]
  /\ Goto(u, "acquiresleep")
  /\ UNCHANGED <<blockno, valid, data, list, locked, pinned, disk>>

\* It is not: recycle a buffer, or panic("bget: no buffers").
NotCached_bug(n) == \A x \in Bufs : ~(blockno[x] = n /\ valid[x])
NotCached(n) == Cached(n) = {}

Invalidate_bug(x) == UNCHANGED valid
Invalidate(x) == valid' = [valid EXCEPT ![x] = FALSE]

bget_recycle(u, n) ==
  /\ pc[u] = "idle" /\ Nested(u, n) /\ NotCached(n)
  /\ \E x \in Lru : /\ b' = [b EXCEPT ![u] = x]
                    /\ blockno' = [blockno EXCEPT ![x] = n]
                    /\ Invalidate(x)
                    /\ refcnt' = [refcnt EXCEPT ![x] = 1]
  /\ Goto(u, "acquiresleep")
  /\ UNCHANGED <<data, list, locked, pinned, disk>>

bget_panic(u, n) ==
  /\ pc[u] = "idle" /\ Nested(u, n) /\ NotCached(n) /\ Unused = {}
  /\ Goto(u, "panic")
  /\ UNCHANGED <<bufs, locked, pinned, disk, b>>

\* acquiresleep(&b->lock): take the lock or sleep until it is released.
acquiresleep(u) ==
  /\ pc[u] = "acquiresleep"
  /\ IF locked[b[u]] = NULL
       THEN locked' = [locked EXCEPT ![b[u]] = u] /\ Goto(u, IF valid[b[u]] THEN "have" ELSE "read")
       ELSE UNCHANGED locked /\ Goto(u, "asleep")
  /\ UNCHANGED <<bufs, pinned, disk, b>>

\* bread() of a block that is not valid: the disk, then b->valid = 1.
bread_disk(u) ==
  /\ pc[u] = "read"
  /\ data' = [data EXCEPT ![b[u]] = disk[blockno[b[u]]]]
  /\ Goto(u, "valid")
  /\ UNCHANGED <<blockno, valid, refcnt, list, locked, pinned, disk, b>>

bread_valid(u) ==
  /\ pc[u] = "valid"
  /\ valid' = [valid EXCEPT ![b[u]] = TRUE]
  /\ Goto(u, "have")
  /\ UNCHANGED <<blockno, refcnt, data, list, locked, pinned, disk, b>>

\* The caller changes the contents of a locked buffer.
modify(u, v) ==
  /\ pc[u] \in {"have", "changed"} /\ Turn(u)
  /\ v \in Data[blockno[b[u]]]
  /\ data' = [data EXCEPT ![b[u]] = v]
  /\ Goto(u, "changed")
  /\ UNCHANGED <<blockno, valid, refcnt, list, locked, pinned, disk, b>>

bwrite(u) ==
  /\ pc[u] \in {"have", "changed"} /\ Turn(u)
  /\ disk' = [disk EXCEPT ![blockno[b[u]]] = data[b[u]]]
  /\ Goto(u, "written")
  /\ UNCHANGED <<bufs, locked, pinned, b>>

\* log_write(): bpin() unless the block is in the log already.
log_write(u) ==
  /\ pc[u] = "changed" /\ Turn(u)
  /\ \/ b[u] \in pinned /\ UNCHANGED <<pinned, refcnt>>
     \/ /\ b[u] \notin pinned /\ Cardinality(pinned) < LOGSIZE
        /\ pinned' = pinned \cup {b[u]} /\ Take(b[u])
  /\ Goto(u, "logged")
  /\ UNCHANGED <<blockno, valid, data, list, locked, disk, b>>

\* install_trans(): bunpin() after bwrite().
bunpin(u) ==
  /\ pc[u] = "written" /\ Turn(u) /\ b[u] \in pinned
  /\ refcnt' = [refcnt EXCEPT ![b[u]] = @ - 1]
  /\ pinned' = pinned \ {b[u]}
  /\ Goto(u, "logged")
  /\ UNCHANGED <<blockno, valid, data, list, locked, disk, b>>

\* wakeup(lk): who sleeps on the lock of x tries again.
Wake_bug(x, u) == [pc EXCEPT ![u] = "refcnt"]
Wake(x, u) == [q \in Uses |-> CASE q = u -> "refcnt"
                                 [] pc[q] = "asleep" /\ b[q] = x -> "acquiresleep"
                                 [] OTHER -> pc[q]]

\* brelse(): releasesleep(), then the reference is dropped and an unused buffer
\* moves to the head of the list.
brelse(u) ==
  /\ pc[u] \in {"have", "written", "logged"} /\ Turn(u)
  /\ locked' = [locked EXCEPT ![b[u]] = NULL]
  /\ pc' = Wake(b[u], u)
  /\ UNCHANGED <<bufs, pinned, disk, b>>

Drop(x) == refcnt[x] - 1

\* x leaves its place in the list for the head.
ToHead(x) == LET at == CHOOSE k \in Bufs : list[k] = x
             IN [k \in Bufs |-> IF k = 1 THEN x ELSE IF k <= at THEN list[k - 1] ELSE list[k]]

brelse_refcnt(u) ==
  /\ pc[u] = "refcnt"
  /\ refcnt' = [refcnt EXCEPT ![b[u]] = Drop(b[u])]
  /\ list' = IF Drop(b[u]) = 0 THEN ToHead(b[u]) ELSE list
  /\ b' = [b EXCEPT ![u] = NULL]
  /\ Goto(u, "idle")
  /\ UNCHANGED <<blockno, valid, data, locked, pinned, disk>>

InCall(u) == \/ acquiresleep(u) \/ bread_disk(u) \/ bread_valid(u) \/ brelse(u) \/ brelse_refcnt(u)

Next == \E u \in Uses :
          \/ InCall(u) \/ bwrite(u) \/ log_write(u) \/ bunpin(u)
          \/ \E v \in Values : modify(u, v)
          \/ \E n \in Blocks : bget(u, n) \/ bget_recycle(u, n) \/ bget_panic(u, n)

Spec == Init /\ [][Next]_vars
-----------------------------------------------------------------------------
Places == {"idle", "acquiresleep", "asleep", "read", "valid", "have", "changed", "written", "logged", "refcnt", "panic"}

TypeOK ==
  /\ blockno \in [Bufs -> Blocks \cup {NULL}] /\ valid \in [Bufs -> BOOLEAN]
  /\ refcnt \in [Bufs -> 0 .. Cardinality(Uses) + 1] /\ data \in [Bufs -> Values]
  /\ locked \in [Bufs -> Uses \cup {NULL}] /\ list \in [Bufs -> Bufs]
  /\ pinned \subseteq Bufs /\ disk \in [Blocks -> Values]
  /\ pc \in [Uses -> Places] /\ b \in [Uses -> Bufs \cup {NULL}]

\* A block has at most one buffer, so that its sleep-lock protects the block.
OneBufferPerBlock == \A n \in Blocks : Cardinality(Cached(n)) <= 1

\* refcnt counts the uses between bget() and the end of brelse(), and the pin of
\* the log: a buffer in use is never recycled, one out of use always
\* can be.  Every buffer stays in the list.
RefcntCounts ==
  /\ \A x \in Bufs : refcnt[x] = Cardinality({u \in Uses : b[u] = x}) + (IF x \in pinned THEN 1 ELSE 0)
  /\ {list[k] : k \in Bufs} = Bufs

\* The cache is in order: types, one buffer for a block, references counted.
BioInv == TypeOK /\ OneBufferPerBlock /\ RefcntCounts

\* "bget: no buffers" is met only when the blocks of the log and the buffers in
\* use, the caller's own among them, fill the cache, all NBUF of it.
PanicOnlyWhenFull ==
  [][\A u \in Uses : pc[u] # "panic" /\ pc'[u] = "panic" =>
       Cardinality(pinned) + Cardinality({q \in Uses \ {u} : b[q] # NULL}) >= NBUF]_vars

Contents(n) == IF \E x \in Cached(n) : valid[x] THEN data[CHOOSE x \in Cached(n) : valid[x]] ELSE disk[n]
Holder(n) == IF \E u \in Uses : Has(u) /\ blockno[b[u]] = n
               THEN CHOOSE u \in Uses : Has(u) /\ blockno[b[u]] = n ELSE NULL

Store == INSTANCE BlockStore WITH Holders <- Uses, store <- [n \in Blocks |-> Contents(n)],
                                  holder <- [n \in Blocks |-> Holder(n)]
\* Through caching, recycling, pinning and writing back, a block has one holder
\* at a time and keeps what the last holder left in it.
Coherent == Store!Spec
-----------------------------------------------------------------------------
\* Fairness: a process in a call goes on, wins a sleep-lock that is released
\* again and again, and releases each buffer it has, also when it reads others
\* in between.
Advances(u) == bwrite(u) \/ (InCall(u) /\ (pc[u] = "acquiresleep" => locked[b[u]] = NULL))
Fairness == \A u \in Uses : SF_vars(Advances(u))
FairSpec == Spec /\ Fairness

InBread(p) == \E u \in Uses : u[1] = p /\ pc[u] \in {"acquiresleep", "asleep", "read", "valid"}
Panicked == \E u \in Uses : pc[u] = "panic"

\* bread() returns: whoever waits for a buffer gets it once the others let go,
\* though they may wait for further buffers themselves; unless one of them has
\* panicked, with the buffers it has.
BreadReturns == \A p \in Procs : InBread(p) ~> ~InBread(p) \/ Panicked
=============================================================================
