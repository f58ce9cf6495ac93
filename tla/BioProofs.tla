----------------------------- MODULE BioProofs -----------------------------
(***************************************************************************)
(* Proofs about module Bio for any number of processes, blocks and         *)
(* buffers.                                                                *)
(*                                                                         *)
(* RInv is inductive.  A use between bget() and the end of brelse() has a  *)
(* buffer that caches a block (Used), it holds the sleep-lock at the       *)
(* places that say so (LocksOK), no two buffers have the same block        *)
(* (Unique), refcnt counts the uses and the pin (Counts), and the list     *)
(* still has every buffer (Listed).  A process may have HELD uses, in      *)
(* whatever order Before lets it read.                                     *)
(*                                                                         *)
(* The buffer cache implements module BlockStore, for any number of        *)
(* processes, blocks and buffers.                                          *)
(*                                                                         *)
(* CInv adds to RInv what the copies of a block say: whoever has a buffer  *)
(* finds it valid, and a valid buffer that differs from the disk is pinned *)
(* or its holder has not passed it to the log yet (Clean).  A buffer that  *)
(* bget() recycles is neither, so that nothing is lost with it.            *)
(***************************************************************************)
EXTENDS Bio, FiniteSetTheorems, TLAPS

\* Time for the provers.
USE SMTT(30), ZenonT(30)

InUse == {"acquiresleep", "asleep", "read", "valid", "have", "changed", "written", "logged", "refcnt"}
Holding == {"read", "valid", "have", "changed", "written", "logged"}

\* TypeOK, without the bound of refcnt.
Types ==
  /\ blockno \in [Bufs -> Blocks \cup {NULL}] /\ valid \in [Bufs -> BOOLEAN]
  /\ refcnt \in [Bufs -> Nat] /\ data \in [Bufs -> Values]
  /\ locked \in [Bufs -> Uses \cup {NULL}] /\ list \in [Bufs -> Bufs]
  /\ pinned \subseteq Bufs /\ disk \in [Blocks -> Values]
  /\ pc \in [Uses -> Places] /\ b \in [Uses -> Bufs \cup {NULL}]

Used == \A u \in Uses : IF pc[u] \in InUse THEN b[u] \in Bufs /\ blockno[b[u]] \in Blocks ELSE b[u] = NULL
LocksOK == \A u \in Uses, x \in Bufs : locked[x] = u <=> pc[u] \in Holding /\ b[u] = x
Unique == \A x, y \in Bufs : blockno[x] = blockno[y] /\ blockno[x] # NULL => x = y
Users(x) == {u \in Uses : b[u] = x}
Pin(x) == IF x \in pinned THEN 1 ELSE 0
Counts == \A x \in Bufs : refcnt[x] = Cardinality(Users(x)) + Pin(x)
Listed == \A x \in Bufs : \E k \in Bufs : list[k] = x

RInv == Types /\ Used /\ LocksOK /\ Unique /\ Counts /\ Listed

\* What is done with use u in a step, so that a case names the action.
Step(u) == \/ InCall(u) \/ bwrite(u) \/ log_write(u) \/ bunpin(u)
           \/ \E v \in Values : modify(u, v)
           \/ \E n \in Blocks : bget(u, n) \/ bget_recycle(u, n) \/ bget_panic(u, n)
-----------------------------------------------------------------------------
\* NULL is no buffer.
LEMMA NullNoBuf == NULL \notin Bufs
BY BioAssumption DEF Bufs

\* The processes are finitely many, each with a few buffers.
LEMMA UsesFinite == IsFiniteSet(Uses)
<1>1. IsFiniteSet(1 .. HELD)
  <2>1. 1 \in Int /\ HELD \in Int
    BY BioAssumption
  <2> QED
    BY <2>1, FS_Interval, Zenon
<1>2. IsFiniteSet(Procs)
  BY BioAssumption, Zenon
<1> QED
  BY <1>1, <1>2, FS_Product, Zenon DEF Uses

\* The users of a buffer can be counted.
LEMMA UsersCount == \A x : IsFiniteSet(Users(x)) /\ Cardinality(Users(x)) \in Nat
<1> SUFFICES ASSUME NEW x PROVE IsFiniteSet(Users(x)) /\ Cardinality(Users(x)) \in Nat
  BY Zenon
<1>1. IsFiniteSet(Uses) /\ Users(x) \in SUBSET Uses
  BY UsesFinite, Zenon DEF Users
<1>2. IsFiniteSet(Users(x))
  BY <1>1, FS_Subset, Zenon
<1> QED
  BY <1>2, FS_CardinalityType, Zenon

\* A buffer whose refcnt is 0 has no user and no pin.
LEMMA Unreferenced ==
  ASSUME Counts, NEW x \in Bufs, refcnt[x] = 0
  PROVE  x \notin pinned /\ \A u \in Uses : b[u] # x
<1>1. Cardinality(Users(x)) = 0 /\ x \notin pinned
  BY UsersCount DEF Counts, Pin
<1>2. Users(x) = {}
  BY <1>1, UsersCount, FS_EmptySet, Zenon
<1> QED
  BY <1>1, <1>2, Zenon DEF Users

\* The buffer that bget() recycles is a buffer, and it is unreferenced.
LEMMA LruIs == ASSUME Types, NEW x \in Lru PROVE x \in Bufs /\ refcnt[x] = 0
BY Zenon DEF Types, Lru, Unused

\* A buffer in use has a positive refcnt, and so has one that is pinned.
LEMMA Referenced ==
  ASSUME Types, Counts, NEW u \in Uses, b[u] \in Bufs
  PROVE  /\ refcnt[b[u]] - 1 \in Nat
         /\ Cardinality(Users(b[u])) - 1 \in Nat
<1>1. u \in Users(b[u])
  BY Zenon DEF Users
<1>2. Cardinality(Users(b[u])) \in Nat /\ Cardinality(Users(b[u])) # 0
  BY <1>1, UsersCount, FS_EmptySet, Zenon
<1>3. Pin(b[u]) \in {0, 1}
  BY Zenon DEF Pin
<1>4. refcnt[b[u]] = Cardinality(Users(b[u])) + Pin(b[u])
  BY Zenon DEF Counts
<1> HIDE DEF Users
<1> QED
  BY <1>2, <1>3, <1>4

\* Moving a buffer to the head loses none.
LEMMA ToHeadIs ==
  ASSUME Types, Listed, NEW x \in Bufs
  PROVE  /\ ToHead(x) \in [Bufs -> Bufs]
         /\ \A y \in Bufs : \E k \in Bufs : ToHead(x)[k] = y
<1> DEFINE at == CHOOSE k \in Bufs : list[k] = x
<1>1. at \in Bufs /\ list[at] = x
  BY Zenon DEF Listed
<1>2. ToHead(x) = [k \in Bufs |-> IF k = 1 THEN x ELSE IF k <= at THEN list[k - 1] ELSE list[k]]
  BY Zenon DEF ToHead
<1> HIDE DEF at
<1>3. 1 \in Bufs /\ \A k \in Bufs : k \in Nat /\ k >= 1 /\ k <= NBUF
  BY BioAssumption DEF Bufs
<1>4. \A k \in Bufs : k # 1 => k - 1 \in Bufs
  BY BioAssumption DEF Bufs
<1>5. ToHead(x) \in [Bufs -> Bufs]
  BY <1>2, <1>3, <1>4 DEF Types
<1>6. ASSUME NEW y \in Bufs PROVE \E k \in Bufs : ToHead(x)[k] = y
  <2>1. CASE y = x
    BY <1>2, <1>3, <2>1, Zenon
  <2>2. CASE y # x
    <3>1. PICK k \in Bufs : list[k] = y
      BY Zenon DEF Listed
    <3>2. k # at
      BY <1>1, <2>2, <3>1, Zenon
    <3>3. CASE k < at
      <4>1. k + 1 \in Bufs
        BY <1>1, <3>3, BioAssumption DEF Bufs
      <4>2. ToHead(x)[k + 1] = list[k]
        BY <1>1, <1>2, <1>3, <3>3, <4>1
      <4> QED
        BY <3>1, <4>1, <4>2, Zenon
    <3>4. CASE k > at
      <4>1. ToHead(x)[k] = list[k]
        BY <1>1, <1>2, <1>3, <3>4
      <4> QED
        BY <3>1, <4>1, Zenon
    <3> QED
      BY <1>1, <1>3, <3>2, <3>3, <3>4
  <2> QED
    BY <2>1, <2>2, Zenon
<1> QED
  BY <1>5, <1>6, Zenon

\* One more user.
LEMMA UserComes ==
  ASSUME Types, NEW u \in Uses, NEW x \in Bufs, b[u] = NULL, b' = [b EXCEPT ![u] = x]
  PROVE  /\ Cardinality(Users(x))' = Cardinality(Users(x)) + 1
         /\ \A y \in Bufs \ {x} : Users(y)' = Users(y)
<1>1. Users(x)' = Users(x) \cup {u} /\ u \notin Users(x)
  BY NullNoBuf DEF Types, Users
<1>2. Cardinality(Users(x) \cup {u}) = Cardinality(Users(x)) + 1
  BY <1>1, UsersCount, FS_AddElement, ZenonT(30)
<1>3. ASSUME NEW y \in Bufs \ {x} PROVE Users(y)' = Users(y)
  BY NullNoBuf, Zenon DEF Types, Users
<1> QED
  BY <1>1, <1>2, <1>3, Zenon

\* One user less.
LEMMA UserGoes ==
  ASSUME Types, NEW u \in Uses, NEW x \in Bufs, b[u] = x, b' = [b EXCEPT ![u] = NULL]
  PROVE  \A y \in Bufs : Cardinality(Users(y))' = IF y = x THEN Cardinality(Users(y)) - 1 ELSE Cardinality(Users(y))
<1>1. ASSUME NEW y \in Bufs, y # x PROVE Users(y)' = Users(y)
  BY <1>1, NullNoBuf, Zenon DEF Types, Users
<1>2. Users(x)' = Users(x) \ {u} /\ u \in Users(x)
  BY NullNoBuf, Zenon DEF Types, Users
<1>3. Cardinality(Users(x) \ {u}) = Cardinality(Users(x)) - 1
  BY <1>2, UsersCount, FS_RemoveElement, ZenonT(30)
<1> QED
  BY <1>1, <1>2, <1>3, Zenon

\* A process in a call keeps a buffer that caches a block: nobody recycles it.
LEMMA UsedStep ==
  ASSUME Types, Used, Counts, NEW u \in Uses, Step(u)
  PROVE  Used'
<1> USE BioAssumption, NullNoBuf
<1>1. CASE acquiresleep(u)
  BY <1>1 DEF acquiresleep, bufs, Goto, Types, Used, InUse
<1>2. CASE bread_disk(u)
  BY <1>2, Zenon DEF bread_disk, Goto, Types, Used, InUse
<1>3. CASE bread_valid(u)
  BY <1>3, Zenon DEF bread_valid, Goto, Types, Used, InUse
<1>4. CASE brelse(u)
  BY <1>4 DEF brelse, Wake, bufs, Goto, Types, Used, InUse
<1>5. CASE brelse_refcnt(u)
  BY <1>5, Zenon DEF brelse_refcnt, Drop, Goto, Types, Used, InUse
<1>6. CASE bwrite(u)
  BY <1>6, Zenon DEF bwrite, bufs, Goto, Types, Used, InUse
<1>7. CASE log_write(u)
  BY <1>7, Zenon DEF log_write, Take, Goto, Types, Used, InUse
<1>8. CASE bunpin(u)
  BY <1>8, Zenon DEF bunpin, Goto, Types, Used, InUse
<1>9. ASSUME NEW v \in Values, modify(u, v) PROVE Used'
  BY <1>9, Zenon DEF modify, Goto, Types, Used, InUse
<1>10. ASSUME NEW n \in Blocks, bget(u, n) PROVE Used'
  BY <1>10 DEF bget, Take, Cached, Goto, Types, Used, InUse
<1>11. ASSUME NEW n \in Blocks, bget_recycle(u, n) PROVE Used'
  BY <1>11, LruIs, Unreferenced DEF bget_recycle, NotCached, Cached, Invalidate, Goto, Types, Used, InUse
<1>12. ASSUME NEW n \in Blocks, bget_panic(u, n) PROVE Used'
  BY <1>12, Zenon DEF bget_panic, bufs, Goto, Types, Used, InUse
<1> QED
  BY <1>1, <1>2, <1>3, <1>4, <1>5, <1>6, <1>7, <1>8, <1>9, <1>10, <1>11, <1>12, Zenon DEF Step, InCall

\* acquiresleep() and brelse() keep the sleep-lock with the process that has the buffer.
LEMMA LocksOKStep ==
  ASSUME Types, Used, LocksOK, Counts, NEW u \in Uses, Step(u)
  PROVE  LocksOK'
<1> USE BioAssumption, NullNoBuf
<1>1. CASE acquiresleep(u)
  BY <1>1 DEF acquiresleep, bufs, Goto, Types, Used, InUse, LocksOK, Holding
<1>2. CASE bread_disk(u)
  BY <1>2 DEF bread_disk, Goto, Types, Used, InUse, LocksOK, Holding
<1>3. CASE bread_valid(u)
  BY <1>3 DEF bread_valid, Goto, Types, Used, InUse, LocksOK, Holding
<1>4. CASE brelse(u)
  BY <1>4 DEF brelse, Wake, bufs, Goto, Types, Used, InUse, LocksOK, Holding
<1>5. CASE brelse_refcnt(u)
  BY <1>5 DEF brelse_refcnt, Drop, Goto, Types, Used, InUse, LocksOK, Holding
<1>6. CASE bwrite(u)
  BY <1>6 DEF bwrite, bufs, Goto, Types, Used, InUse, LocksOK, Holding
<1>7. CASE log_write(u)
  BY <1>7 DEF log_write, Take, Goto, Types, Used, InUse, LocksOK, Holding
<1>8. CASE bunpin(u)
  BY <1>8 DEF bunpin, Goto, Types, Used, InUse, LocksOK, Holding
<1>9. ASSUME NEW v \in Values, modify(u, v) PROVE LocksOK'
  BY <1>9 DEF modify, Goto, Types, Used, InUse, LocksOK, Holding
<1>10. ASSUME NEW n \in Blocks, bget(u, n) PROVE LocksOK'
  BY <1>10 DEF bget, Take, Cached, Goto, Types, Used, InUse, LocksOK, Holding
<1>11. ASSUME NEW n \in Blocks, bget_recycle(u, n) PROVE LocksOK'
  BY <1>11, LruIs, Unreferenced DEF bget_recycle, NotCached, Cached, Invalidate, Goto, Types, Used, InUse,
     LocksOK, Holding
<1>12. ASSUME NEW n \in Blocks, bget_panic(u, n) PROVE LocksOK'
  BY <1>12 DEF bget_panic, bufs, Goto, Types, Used, InUse, LocksOK, Holding
<1> QED
  BY <1>1, <1>2, <1>3, <1>4, <1>5, <1>6, <1>7, <1>8, <1>9, <1>10, <1>11, <1>12, Zenon DEF Step, InCall

\* bget() recycles a buffer only for a block that no other buffer has.
LEMMA UniqueStep ==
  ASSUME Types, Unique, NEW u \in Uses, Step(u)
  PROVE  Unique'
<1> USE BioAssumption, NullNoBuf
<1>1. CASE acquiresleep(u)
  BY <1>1, Zenon DEF acquiresleep, bufs, Goto, Types, Unique
<1>2. CASE bread_disk(u)
  BY <1>2, Zenon DEF bread_disk, Goto, Types, Unique
<1>3. CASE bread_valid(u)
  BY <1>3, Zenon DEF bread_valid, Goto, Types, Unique
<1>4. CASE brelse(u)
  BY <1>4, Zenon DEF brelse, Wake, bufs, Goto, Types, Unique
<1>5. CASE brelse_refcnt(u)
  BY <1>5, Zenon DEF brelse_refcnt, Drop, Goto, Types, Unique
<1>6. CASE bwrite(u)
  BY <1>6, Zenon DEF bwrite, bufs, Goto, Types, Unique
<1>7. CASE log_write(u)
  BY <1>7, Zenon DEF log_write, Take, Goto, Types, Unique
<1>8. CASE bunpin(u)
  BY <1>8, Zenon DEF bunpin, Goto, Types, Unique
<1>9. ASSUME NEW v \in Values, modify(u, v) PROVE Unique'
  BY <1>9, Zenon DEF modify, Goto, Types, Unique
<1>10. ASSUME NEW n \in Blocks, bget(u, n) PROVE Unique'
  BY <1>10, Zenon DEF bget, Take, Cached, Goto, Types, Unique
<1>11. ASSUME NEW n \in Blocks, bget_recycle(u, n) PROVE Unique'
  BY <1>11, LruIs DEF bget_recycle, NotCached, Cached, Invalidate, Goto, Types, Unique
<1>12. ASSUME NEW n \in Blocks, bget_panic(u, n) PROVE Unique'
  BY <1>12, Zenon DEF bget_panic, bufs, Goto, Types, Unique
<1> QED
  BY <1>1, <1>2, <1>3, <1>4, <1>5, <1>6, <1>7, <1>8, <1>9, <1>10, <1>11, <1>12, Zenon DEF Step, InCall

\* The types; refcnt never becomes negative.
LEMMA TypesStep ==
  ASSUME Types, Used, Counts, Listed, NEW u \in Uses, Step(u)
  PROVE  Types'
<1> USE BioAssumption, NullNoBuf
<1>1. CASE acquiresleep(u)
  BY <1>1 DEF acquiresleep, bufs, Goto, Types, Used, InUse, Places
<1>2. CASE bread_disk(u)
  BY <1>2, Zenon DEF bread_disk, Goto, Types, Used, InUse, Places
<1>3. CASE bread_valid(u)
  BY <1>3, Zenon DEF bread_valid, Goto, Types, Used, InUse, Places
<1>4. CASE brelse(u)
  BY <1>4, Zenon DEF brelse, Wake, bufs, Goto, Types, Used, InUse, Places
<1>5. CASE brelse_refcnt(u)
  <2>1. b[u] \in Bufs
    BY <1>5, Zenon DEF brelse_refcnt, Used, InUse
  <2>2. refcnt' \in [Bufs -> Nat]
    BY <1>5, <2>1, Referenced, Zenon DEF brelse_refcnt, Drop, Types
  <2>3. list' \in [Bufs -> Bufs]
    BY <1>5, <2>1, ToHeadIs, ZenonT(30) DEF brelse_refcnt, Types
  <2> QED
    BY <1>5, <2>2, <2>3, Zenon DEF brelse_refcnt, Goto, Types, Places
<1>6. CASE bwrite(u)
  BY <1>6, Zenon DEF bwrite, bufs, Goto, Types, Used, InUse, Places
<1>7. CASE log_write(u)
  BY <1>7 DEF log_write, Take, Goto, Types, Used, InUse, Places
<1>8. CASE bunpin(u)
  <2>1. b[u] \in Bufs
    BY <1>8, Zenon DEF bunpin, Used, InUse
  <2>2. refcnt' \in [Bufs -> Nat]
    BY <1>8, <2>1, Referenced, Zenon DEF bunpin, Types
  <2> QED
    BY <1>8, <2>2, Zenon DEF bunpin, Goto, Types, Places
<1>9. ASSUME NEW v \in Values, modify(u, v) PROVE Types'
  BY <1>9, Zenon DEF modify, Goto, Types, Used, InUse, Places
<1>10. ASSUME NEW n \in Blocks, bget(u, n) PROVE Types'
  BY <1>10 DEF bget, Take, Cached, Goto, Types, Used, InUse, Places
<1>11. ASSUME NEW n \in Blocks, bget_recycle(u, n) PROVE Types'
  BY <1>11, LruIs DEF bget_recycle, NotCached, Cached, Invalidate, Goto, Types, Used, InUse, Places
<1>12. ASSUME NEW n \in Blocks, bget_panic(u, n) PROVE Types'
  BY <1>12, Zenon DEF bget_panic, bufs, Goto, Types, Used, InUse, Places
<1> QED
  BY <1>1, <1>2, <1>3, <1>4, <1>5, <1>6, <1>7, <1>8, <1>9, <1>10, <1>11, <1>12, Zenon DEF Step, InCall

\* Every step counts the users and the pin right.
LEMMA CountsStep ==
  ASSUME Types, Used, Counts, NEW u \in Uses, Step(u)
  PROVE  Counts'
<1> USE BioAssumption, NullNoBuf
<1>1. CASE acquiresleep(u)
  BY <1>1 DEF acquiresleep, bufs, Goto, Types, Counts, Users, Pin
<1>2. CASE bread_disk(u)
  BY <1>2 DEF bread_disk, Goto, Types, Counts, Users, Pin
<1>3. CASE bread_valid(u)
  BY <1>3 DEF bread_valid, Goto, Types, Counts, Users, Pin
<1>4. CASE brelse(u)
  BY <1>4 DEF brelse, Wake, bufs, Goto, Types, Counts, Users, Pin
<1>5. CASE brelse_refcnt(u)
  <2>1. b[u] \in Bufs /\ pinned' = pinned
    BY <1>5, Zenon DEF brelse_refcnt, Used, InUse
  <2>2. \A y \in Bufs : refcnt'[y] = IF y = b[u] THEN refcnt[y] - 1 ELSE refcnt[y]
    BY <1>5, <2>1, Zenon DEF brelse_refcnt, Drop, Types
  <2>3. \A y \in Bufs : Cardinality(Users(y))' = IF y = b[u] THEN Cardinality(Users(y)) - 1 ELSE Cardinality(Users(y))
    BY <1>5, <2>1, UserGoes, ZenonT(30) DEF brelse_refcnt
  <2> QED
    BY <2>1, <2>2, <2>3, UsersCount DEF Counts, Pin
<1>6. CASE bwrite(u)
  BY <1>6 DEF bwrite, bufs, Goto, Types, Counts, Users, Pin
<1>7. CASE log_write(u)
  <2>1. b[u] \in Bufs /\ \A y \in Bufs : Users(y)' = Users(y)
    BY <1>7, Zenon DEF log_write, Users, Used, InUse
  <2>2. CASE b[u] \in pinned
    BY <1>7, <2>1, <2>2, Zenon DEF log_write, Counts, Pin
  <2>3. CASE b[u] \notin pinned
    <3>1. \A y \in Bufs : refcnt'[y] = (IF y = b[u] THEN refcnt[y] + 1 ELSE refcnt[y])
                         /\ (y \in pinned' <=> y \in pinned \/ y = b[u])
      BY <1>7, <2>1, <2>3 DEF log_write, Take, Types
    <3> QED
      BY <2>1, <2>3, <3>1, UsersCount DEF Counts, Pin
  <2> QED
    BY <2>2, <2>3, Zenon
<1>8. CASE bunpin(u)
  <2>1. b[u] \in Bufs /\ \A y \in Bufs : Users(y)' = Users(y)
    BY <1>8, Zenon DEF bunpin, Users, Used, InUse
  <2>2. \A y \in Bufs : refcnt'[y] = (IF y = b[u] THEN refcnt[y] - 1 ELSE refcnt[y])
                       /\ (y \in pinned' <=> y \in pinned /\ y # b[u])
    BY <1>8, <2>1, Zenon DEF bunpin, Types
  <2>3. b[u] \in pinned
    BY <1>8, Zenon DEF bunpin
  <2> QED
    BY <2>1, <2>2, <2>3, UsersCount DEF Counts, Pin
<1>9. ASSUME NEW v \in Values, modify(u, v) PROVE Counts'
  BY <1>9 DEF modify, Goto, Types, Counts, Users, Pin
<1>10. ASSUME NEW n \in Blocks, bget(u, n) PROVE Counts'
  <2>1. PICK x \in Cached(n) : Take(x) /\ b' = [b EXCEPT ![u] = x]
    BY <1>10, ZenonT(30) DEF bget
  <2>2. x \in Bufs /\ b[u] = NULL /\ pinned' = pinned
    BY <1>10, Zenon DEF bget, Cached, Used, InUse
  <2>3. \A y \in Bufs : refcnt'[y] = IF y = x THEN refcnt[y] + 1 ELSE refcnt[y]
    BY <2>1, <2>2, Zenon DEF Take, Types
  <2>4. /\ Cardinality(Users(x))' = Cardinality(Users(x)) + 1
        /\ \A y \in Bufs \ {x} : Users(y)' = Users(y)
    BY <2>1, <2>2, UserComes, ZenonT(30)
  <2> QED
    BY <2>2, <2>3, <2>4, UsersCount DEF Counts, Pin
<1>11. ASSUME NEW n \in Blocks, bget_recycle(u, n) PROVE Counts'
  <2>1. PICK x \in Lru : b' = [b EXCEPT ![u] = x] /\ refcnt' = [refcnt EXCEPT ![x] = 1]
    BY <1>11, ZenonT(30) DEF bget_recycle
  <2>2. b[u] = NULL /\ pinned' = pinned
    BY <1>11, Zenon DEF bget_recycle, Used, InUse
  <2>3. x \in Bufs /\ refcnt[x] = 0 /\ x \notin pinned
    BY LruIs, Unreferenced, Zenon
  <2>4. \A y \in Bufs : refcnt'[y] = IF y = x THEN 1 ELSE refcnt[y]
    BY <2>1, <2>3, Zenon DEF Types
  <2>5. /\ Cardinality(Users(x))' = Cardinality(Users(x)) + 1
        /\ \A y \in Bufs \ {x} : Users(y)' = Users(y)
    BY <2>1, <2>2, <2>3, UserComes, ZenonT(30)
  <2>6. Cardinality(Users(x)) = 0
    BY <2>3, UsersCount DEF Counts, Pin
  <2> QED
    BY <2>2, <2>3, <2>4, <2>5, <2>6 DEF Counts, Pin
<1>12. ASSUME NEW n \in Blocks, bget_panic(u, n) PROVE Counts'
  BY <1>12 DEF bget_panic, bufs, Goto, Types, Counts, Users, Pin
<1> QED
  BY <1>1, <1>2, <1>3, <1>4, <1>5, <1>6, <1>7, <1>8, <1>9, <1>10, <1>11, <1>12, Zenon DEF Step, InCall

\* Every buffer stays in the list.
LEMMA ListedStep ==
  ASSUME Types, Used, Listed, NEW u \in Uses, Step(u)
  PROVE  Listed'
<1> USE BioAssumption, NullNoBuf
<1>1. CASE acquiresleep(u)
  BY <1>1, Zenon DEF acquiresleep, bufs, Goto, Types, Listed
<1>2. CASE bread_disk(u)
  BY <1>2, Zenon DEF bread_disk, Goto, Types, Listed
<1>3. CASE bread_valid(u)
  BY <1>3, Zenon DEF bread_valid, Goto, Types, Listed
<1>4. CASE brelse(u)
  BY <1>4, Zenon DEF brelse, Wake, bufs, Goto, Types, Listed
<1>5. CASE brelse_refcnt(u)
  <2>1. b[u] \in Bufs
    BY <1>5, Zenon DEF brelse_refcnt, Used, InUse
  <2> QED
    BY <1>5, <2>1, ToHeadIs, ZenonT(30) DEF brelse_refcnt, Listed
<1>6. CASE bwrite(u)
  BY <1>6, Zenon DEF bwrite, bufs, Goto, Types, Listed
<1>7. CASE log_write(u)
  BY <1>7, Zenon DEF log_write, Take, Goto, Types, Listed
<1>8. CASE bunpin(u)
  BY <1>8, Zenon DEF bunpin, Goto, Types, Listed
<1>9. ASSUME NEW v \in Values, modify(u, v) PROVE Listed'
  BY <1>9, Zenon DEF modify, Goto, Types, Listed
<1>10. ASSUME NEW n \in Blocks, bget(u, n) PROVE Listed'
  BY <1>10, Zenon DEF bget, Take, Cached, Goto, Types, Listed
<1>11. ASSUME NEW n \in Blocks, bget_recycle(u, n) PROVE Listed'
  BY <1>11, LruIs, Zenon DEF bget_recycle, NotCached, Cached, Invalidate, Goto, Types, Listed
<1>12. ASSUME NEW n \in Blocks, bget_panic(u, n) PROVE Listed'
  BY <1>12, Zenon DEF bget_panic, bufs, Goto, Types, Listed
<1> QED
  BY <1>1, <1>2, <1>3, <1>4, <1>5, <1>6, <1>7, <1>8, <1>9, <1>10, <1>11, <1>12 DEF Step, InCall

-----------------------------------------------------------------------------
\* The cache after binit() satisfies the invariant.
LEMMA InitRInv == Init => RInv
<1> SUFFICES ASSUME Init PROVE RInv
  BY Zenon
<1> USE NullNoBuf
<1>1. Types
  <2>1. \A n \in Blocks : (CHOOSE v \in Data[n] : TRUE) \in Values
    <3> SUFFICES ASSUME NEW n \in Blocks PROVE (CHOOSE v \in Data[n] : TRUE) \in Values
      BY Zenon
    <3>a. Data \in [Blocks -> (SUBSET Values) \ {{}}]
      BY BioAssumption, Zenon
    <3>1. Data[n] \in SUBSET Values /\ Data[n] # {}
      BY <3>a
    <3> QED
      BY <3>1, Zenon
  <2>2. disk \in [Blocks -> Values]
    BY <2>1, Zenon DEF Init
  <2>3. list \in [Bufs -> Bufs]
    <3>1. NBUF \in Nat
      BY BioAssumption, Zenon
    <3>2. \A k \in Bufs : NBUF + 1 - k \in Bufs
      BY <3>1 DEF Bufs
    <3> QED
      BY <3>2, Zenon DEF Init
  <2>4. data \in [Bufs -> Values]
    BY BioAssumption, Zenon DEF Init
  <2>5. refcnt \in [Bufs -> Nat]
    BY DEF Init
  <2> QED
    BY <2>2, <2>3, <2>4, <2>5, Zenon DEF Init, Types, Places
<1>2. Used /\ LocksOK /\ Unique
  <2>1. NULL \notin Uses
    BY BioAssumption, Zenon
  <2> QED
    BY <2>1, Zenon DEF Init, Used, InUse, LocksOK, Holding, Unique
<1>3. Counts
  <2>1. \A x \in Bufs : Users(x) = {}
    BY Zenon DEF Init, Users
  <2>2. \A x \in Bufs : refcnt[x] = 0 /\ Pin(x) = 0
    BY Zenon DEF Init, Pin
  <2>3. Cardinality({}) = 0
    BY FS_EmptySet, Zenon
  <2> QED
    BY <2>1, <2>2, <2>3 DEF Counts
<1>4. ASSUME NEW x \in Bufs PROVE \E k \in Bufs : list[k] = x
  <2>0. NBUF \in Nat
    BY BioAssumption, Zenon
  <2>1. NBUF + 1 - x \in Bufs /\ NBUF + 1 - (NBUF + 1 - x) = x
    BY <2>0 DEF Bufs
  <2>2. list[NBUF + 1 - x] = NBUF + 1 - (NBUF + 1 - x)
    BY <2>1, Zenon DEF Init
  <2> QED
    BY <2>1, <2>2, Zenon
<1> QED
  BY <1>1, <1>2, <1>3, <1>4, Zenon DEF RInv, Listed

\* Every step keeps it.
LEMMA StepRInv == RInv /\ [Next]_vars => RInv'
<1> SUFFICES ASSUME RInv, [Next]_vars PROVE RInv'
  BY Zenon
<1>1. ASSUME NEW u \in Uses, Step(u) PROVE RInv'
  BY <1>1, UsedStep, LocksOKStep, UniqueStep, TypesStep, CountsStep, ListedStep, Zenon DEF RInv
<1>2. CASE UNCHANGED vars
  BY <1>2 DEF vars, RInv, Types, Used, LocksOK, Unique, Counts, Users, Pin, Listed
<1> QED
  BY <1>1, <1>2, Zenon DEF Next, Step

\* The inductive invariant holds in every reachable state.
THEOREM CacheInvariant == Spec => []RInv
<1> QED
  BY InitRInv, StepRInv, PTL DEF Spec

\* What it says in terms of the cache.
LEMMA RInvBioInv == RInv => BioInv
<1> SUFFICES ASSUME RInv PROVE BioInv
  BY Zenon
<1>1. \A x \in Bufs : refcnt[x] \in 0 .. Cardinality(Uses) + 1
  <2> SUFFICES ASSUME NEW x \in Bufs PROVE refcnt[x] \in 0 .. Cardinality(Uses) + 1
    BY Zenon
  <2>1. IsFiniteSet(Uses) /\ Users(x) \in SUBSET Uses
    BY UsesFinite, Zenon DEF Users
  <2>2. Cardinality(Uses) \in Nat /\ Cardinality(Users(x)) <= Cardinality(Uses)
    BY <2>1, FS_Subset, FS_CardinalityType, Zenon
  <2> QED
    BY <2>2, UsersCount DEF RInv, Counts, Pin
<1>2. TypeOK
  BY <1>1, Zenon DEF RInv, Types, TypeOK
<1>3. ASSUME NEW n \in Blocks PROVE Cardinality(Cached(n)) <= 1
  <2>1. CASE Cached(n) = {}
    BY <2>1, FS_EmptySet
  <2>2. CASE Cached(n) # {}
    <3>1. PICK x \in Bufs : blockno[x] = n
      BY <2>2, Zenon DEF Cached
    <3>2. Cached(n) = {x}
      BY <3>1, BioAssumption, Zenon DEF Cached, RInv, Unique
    <3>3. Cardinality(Cached(n)) = 1
      BY <3>2, FS_Singleton, ZenonT(30)
    <3> QED
      BY <3>3
  <2> QED
    BY <2>1, <2>2, Zenon
<1>4. RefcntCounts
  BY DEF RInv, Types, Counts, Users, Pin, Listed, RefcntCounts
<1> QED
  BY <1>2, <1>3, <1>4, Zenon DEF BioInv, OneBufferPerBlock

\* However many processes use the cache, a block never has two buffers, refcnt is the
\* number of users and pins, and no buffer is lost from the list (BioInv).
THEOREM CacheInOrder == Spec => []BioInv
<1> QED
  BY CacheInvariant, RInvBioInv, PTL

\* bget() that finds no unused buffer has met NBUF buffers that are in use, by other
\* processes or by the caller itself, or that the log has pinned.
LEMMA PanicIsFull ==
  ASSUME RInv, NEW u \in Uses, NEW n \in Blocks, bget_panic(u, n)
  PROVE  Cardinality(pinned) + Cardinality({q \in Uses \ {u} : b[q] # NULL}) >= NBUF
<1> DEFINE Q == {q \in Uses \ {u} : b[q] # NULL}
           T == {b[q] : q \in Q}
           f == [q \in Q |-> b[q]]
<1>1. ASSUME NEW x \in Bufs PROVE x \in pinned \cup T
  <2>1. refcnt[x] # 0
    BY Zenon DEF bget_panic, Unused, RInv, Listed
  <2>2. CASE x \in pinned
    BY <2>2, Zenon
  <2>3. CASE x \notin pinned
    <3>1. Cardinality(Users(x)) # 0
      BY <2>1, <2>3 DEF RInv, Counts, Pin
    <3>2. PICK q \in Uses : b[q] = x
      BY <3>1, FS_EmptySet, Zenon DEF Users
    <3>3. q # u /\ b[q] # NULL
      BY <3>2, NullNoBuf, Zenon DEF bget_panic, RInv, Used, InUse
    <3> QED
      BY <3>2, <3>3, Zenon
  <2> QED
    BY <2>2, <2>3, Zenon
<1>2. IsFiniteSet(Q)
  <2>1. IsFiniteSet(Uses) /\ Q \in SUBSET Uses
    BY UsesFinite, Zenon
  <2> QED
    BY <2>1, FS_Subset, Zenon
<1>3. IsFiniteSet(T) /\ Cardinality(T) <= Cardinality(Q)
  <2>1. f \in Surjection(Q, T)
    BY Zenon DEF Surjection
  <2> QED
    BY <1>2, <2>1, FS_Surjection
<1>4. IsFiniteSet(Bufs) /\ Cardinality(Bufs) = NBUF
  <2>1. 1 \in Int /\ NBUF \in Int /\ ~(1 > NBUF) /\ NBUF - 1 + 1 = NBUF
    BY BioAssumption
  <2> QED
    BY <2>1, FS_Interval, Zenon DEF Bufs
<1>5. IsFiniteSet(pinned)
  <2>1. pinned \in SUBSET Bufs
    BY Zenon DEF RInv, Types
  <2> QED
    BY <1>4, <2>1, FS_Subset, Zenon
<1> HIDE DEF T, Q
<1>6. /\ IsFiniteSet(pinned \cup T)
      /\ Cardinality(pinned \cup T) = Cardinality(pinned) + Cardinality(T) - Cardinality(pinned \cap T)
  BY <1>3, <1>5, FS_Union, Zenon
<1>7. Bufs \in SUBSET (pinned \cup T)
  BY <1>1, Zenon
<1>8. Cardinality(Bufs) <= Cardinality(pinned \cup T)
  BY <1>6, <1>7, FS_Subset, Zenon
<1>9. /\ Cardinality(pinned) \in Nat /\ Cardinality(T) \in Nat /\ Cardinality(Q) \in Nat
      /\ Cardinality(pinned \cap T) \in Nat
  <2>1. IsFiniteSet(pinned \cap T)
    BY <1>5, FS_Intersection, Zenon
  <2> QED
    BY <1>2, <1>3, <1>5, <2>1, FS_CardinalityType, Zenon
<1>10. NBUF \in Nat
  BY BioAssumption, Zenon
<1>11. Cardinality(pinned) + Cardinality(Q) >= NBUF
  BY <1>3, <1>4, <1>6, <1>8, <1>9, <1>10
<1> QED
  BY <1>11, Zenon DEF Q

\* "bget: no buffers" is a matter of capacity only (PanicOnlyWhenFull): no sequence of
\* bget(), brelse(), bpin() and bunpin() loses a buffer or a reference.
THEOREM PanicsWhenFull == Spec => PanicOnlyWhenFull
<1>1. ASSUME RInv, [Next]_vars, NEW u \in Uses, pc[u] # "panic", pc'[u] = "panic"
      PROVE  Cardinality(pinned) + Cardinality({q \in Uses \ {u} : b[q] # NULL}) >= NBUF
  <2>1. PICK q \in Uses : Step(q)
    BY <1>1, Zenon DEF Next, Step, vars
  <2>2. \/ \E n \in Blocks : bget_panic(q, n)
        \/ pc'[u] # "panic"
    <3>1. CASE InCall(q) \/ bwrite(q) \/ log_write(q) \/ bunpin(q)
      BY <1>1, <3>1 DEF RInv, Types, InCall, acquiresleep, bread_disk, bread_valid, brelse, Wake, brelse_refcnt,
         bwrite, log_write, bunpin, Goto
    <3>2. ASSUME NEW v \in Values, modify(q, v) PROVE pc'[u] # "panic"
      BY <1>1, <3>2, Zenon DEF RInv, Types, modify, Goto
    <3>3. ASSUME NEW n \in Blocks, bget(q, n) \/ bget_recycle(q, n) PROVE pc'[u] # "panic"
      BY <1>1, <3>3, Zenon DEF RInv, Types, bget, bget_recycle, Goto
    <3> QED
      BY <2>1, <3>1, <3>2, <3>3, Zenon DEF Step
  <2>3. PICK n \in Blocks : bget_panic(q, n)
    BY <1>1, <2>2, Zenon
  <2>4. q = u
    BY <1>1, <2>3, Zenon DEF bget_panic, Goto, RInv, Types
  <2> QED
    BY <1>1, <2>3, <2>4, PanicIsFull, Zenon
<1>2. RInv /\ [Next]_vars =>
        [\A u \in Uses : pc[u] # "panic" /\ pc'[u] = "panic" =>
           Cardinality(pinned) + Cardinality({q \in Uses \ {u} : b[q] # NULL}) >= NBUF]_vars
  BY <1>1, Zenon
<1> QED
  BY <1>2, CacheInvariant, PTL DEF PanicOnlyWhenFull, Spec
-----------------------------------------------------------------------------
OnDisk(x) == data[x] = disk[blockno[x]]
Clean(x) == valid[x] => /\ blockno[x] \in Blocks
                        /\ OnDisk(x) \/ x \in pinned \/ \E u \in Uses : pc[u] = "changed" /\ b[u] = x
Fresh(u) == /\ Has(u) => valid[b[u]]
            /\ pc[u] \in {"read", "valid"} => ~valid[b[u]]
            /\ pc[u] \in {"valid", "written"} => OnDisk(b[u])

CInv == RInv /\ (\A x \in Bufs : Clean(x)) /\ (\A u \in Uses : Fresh(u))

\* Only the holder's buffer is at stake in a step of its holder.
LEMMA Alone ==
  ASSUME RInv, NEW u \in Uses, pc[u] \in Holding
  PROVE  /\ b[u] \in Bufs /\ blockno[b[u]] \in Blocks /\ locked[b[u]] = u
         /\ \A q \in Uses \ {u} : pc[q] \in Holding => b[q] # b[u] /\ blockno[b[q]] # blockno[b[u]]
         /\ \A y \in Bufs \ {b[u]} : blockno[y] # blockno[b[u]]
<1>1. b[u] \in Bufs /\ blockno[b[u]] \in Blocks /\ locked[b[u]] = u
  BY DEF RInv, Used, LocksOK, InUse, Holding
<1>2. \A y \in Bufs \ {b[u]} : blockno[y] # blockno[b[u]]
  BY <1>1, BioAssumption, Zenon DEF RInv, Unique
<1>3. ASSUME NEW q \in Uses \ {u}, pc[q] \in Holding PROVE b[q] # b[u] /\ blockno[b[q]] # blockno[b[u]]
  <2>1. b[q] \in Bufs /\ locked[b[q]] = q
    BY <1>3 DEF RInv, Used, LocksOK, InUse, Holding
  <2> QED
    BY <1>1, <1>2, <1>3, <2>1, Zenon
<1> QED
  BY <1>1, <1>2, <1>3, Zenon
-----------------------------------------------------------------------------
\* A block with a valid buffer has its contents there, another one on the disk.
ContentsOK ==
  \A n \in Blocks : /\ \A x \in Bufs : blockno[x] = n /\ valid[x] => Contents(n) = data[x]
                    /\ (\A x \in Bufs : blockno[x] = n => ~valid[x]) => Contents(n) = disk[n]

\* The cache holds a block at most once, so that Contents is one or the other.
LEMMA ContentsIs == RInv => ContentsOK
<1> SUFFICES ASSUME RInv, NEW n \in Blocks
             PROVE  /\ \A x \in Bufs : blockno[x] = n /\ valid[x] => Contents(n) = data[x]
                    /\ (\A x \in Bufs : blockno[x] = n => ~valid[x]) => Contents(n) = disk[n]
  BY Zenon DEF ContentsOK
<1>1. \A x, y \in Cached(n) : x = y
  BY BioAssumption, Zenon DEF RInv, Unique, Cached
<1>2. ASSUME NEW x \in Bufs, blockno[x] = n, valid[x] PROVE Contents(n) = data[x]
  <2>1. x \in Cached(n)
    BY <1>2, Zenon DEF Cached
  <2>2. (CHOOSE y \in Cached(n) : valid[y]) = x
    BY <1>1, <1>2, <2>1, Zenon
  <2> QED
    BY <1>2, <2>1, <2>2, ZenonT(30) DEF Contents
<1>3. ASSUME \A x \in Bufs : blockno[x] = n => ~valid[x] PROVE Contents(n) = disk[n]
  BY <1>3, Zenon DEF Contents, Cached
<1> QED
  BY <1>2, <1>3, Zenon

\* The holder of a block is the one process that has its buffer.
Holds(u, n) == Has(u) /\ blockno[b[u]] = n
HolderOK ==
  \A n \in Blocks : /\ \A u \in Uses : Holds(u, n) => Holder(n) = u
                    /\ (\A u \in Uses : ~Holds(u, n)) => Holder(n) = NULL

\* At most one process has it, because the buffer's sleep lock has one owner.
LEMMA HolderIs == RInv => HolderOK
<1> SUFFICES ASSUME RInv, NEW n \in Blocks
             PROVE  /\ \A u \in Uses : Holds(u, n) => Holder(n) = u
                    /\ (\A u \in Uses : ~Holds(u, n)) => Holder(n) = NULL
  BY Zenon DEF HolderOK
<1>1. ASSUME NEW u \in Uses, NEW q \in Uses, Holds(u, n), Holds(q, n) PROVE u = q
  <2>1. pc[u] \in Holding /\ pc[q] \in Holding
    BY <1>1, Zenon DEF Holds, Has, Holding
  <2> QED
    BY <1>1, <2>1, Alone, Zenon DEF Holds
<1>2. ASSUME NEW u \in Uses, Holds(u, n) PROVE Holder(n) = u
  <2>1. (CHOOSE q \in Uses : Has(q) /\ blockno[b[q]] = n) = u
    BY <1>1, <1>2, Zenon DEF Holds
  <2> QED
    BY <1>2, <2>1, Zenon DEF Holder, Holds
<1>3. ASSUME \A u \in Uses : ~Holds(u, n) PROVE Holder(n) = NULL
  BY <1>3, Zenon DEF Holder, Holds
<1> QED
  BY <1>2, <1>3, Zenon

\* Both after a step.
LEMMA MappedNext == RInv' => ContentsOK' /\ HolderOK'
BY ContentsIs, HolderIs, PTL

\* A step after which the same processes have the same buffers leaves the holders.
LEMMA HolderSame ==
  ASSUME RInv, RInv', \A q \in Uses, n \in Blocks : Holds(q, n)' <=> Holds(q, n)
  PROVE  \A n \in Blocks : Holder(n)' = Holder(n)
<1> SUFFICES ASSUME NEW n \in Blocks PROVE Holder(n)' = Holder(n)
  BY Zenon
<1>1. CASE \E q \in Uses : Holds(q, n)
  BY <1>1, HolderIs, MappedNext, Zenon DEF HolderOK
<1>2. CASE \A q \in Uses : ~Holds(q, n)
  BY <1>2, HolderIs, MappedNext, Zenon DEF HolderOK
<1> QED
  BY <1>1, <1>2, Zenon

\* A process that gets the buffer of a block nobody has becomes its holder.
LEMMA HolderTakes ==
  ASSUME RInv, RInv', NEW u \in Uses, NEW m \in Blocks, \A q \in Uses : ~Holds(q, m),
         \A q \in Uses, n \in Blocks : Holds(q, n)' <=> Holds(q, n) \/ (q = u /\ n = m)
  PROVE  /\ Holder(m) = NULL
         /\ \A n \in Blocks : Holder(n)' = IF n = m THEN u ELSE Holder(n)
<1>1. Holder(m) = NULL /\ Holder(m)' = u
  BY HolderIs, MappedNext, Zenon DEF HolderOK
<1>2. ASSUME NEW n \in Blocks, n # m PROVE Holder(n)' = Holder(n)
  <2>1. CASE \E q \in Uses : Holds(q, n)
    BY <1>2, <2>1, HolderIs, MappedNext, Zenon DEF HolderOK
  <2>2. CASE \A q \in Uses : ~Holds(q, n)
    BY <1>2, <2>2, HolderIs, MappedNext, Zenon DEF HolderOK
  <2> QED
    BY <2>1, <2>2, Zenon
<1> QED
  BY <1>1, <1>2, Zenon

\* When the process that has it lets go, the block has no holder.
LEMMA HolderLeaves ==
  ASSUME RInv, RInv', NEW u \in Uses, NEW m \in Blocks, Holds(u, m), ~Holds(u, m)',
         \A q \in Uses, n \in Blocks : q # u \/ n # m => (Holds(q, n)' <=> Holds(q, n))
  PROVE  /\ Holder(m) = u
         /\ \A n \in Blocks : Holder(n)' = IF n = m THEN NULL ELSE Holder(n)
<1>1. Holder(m) = u
  BY HolderIs, Zenon DEF HolderOK
<1>2. \A q \in Uses : ~Holds(q, m)'
  <2>1. ASSUME NEW q \in Uses, Holds(q, m), q # u PROVE FALSE
    BY <1>1, <2>1, HolderIs, Zenon DEF HolderOK
  <2> QED
    BY <2>1, Zenon
<1>3. Holder(m)' = NULL
  BY <1>2, MappedNext, Zenon DEF HolderOK
<1>4. ASSUME NEW n \in Blocks, n # m PROVE Holder(n)' = Holder(n)
  <2>1. CASE \E q \in Uses : Holds(q, n)
    BY <1>4, <2>1, HolderIs, MappedNext, Zenon DEF HolderOK
  <2>2. CASE \A q \in Uses : ~Holds(q, n)
    BY <1>4, <2>2, HolderIs, MappedNext, Zenon DEF HolderOK
  <2> QED
    BY <2>1, <2>2, Zenon
<1> QED
  BY <1>1, <1>3, <1>4, Zenon
-----------------------------------------------------------------------------
\* A buffer that differs from the disk stays in the hands of its holder or of the log.
LEMMA CleanStep ==
  ASSUME CInv, NEW u \in Uses, Step(u)
  PROVE  (\A x \in Bufs : Clean(x))'
<1> USE BioAssumption, NullNoBuf
<1>alone. pc[u] \in Holding =>
            /\ b[u] \in Bufs /\ blockno[b[u]] \in Blocks /\ locked[b[u]] = u
            /\ \A q \in Uses \ {u} : pc[q] \in Holding => b[q] # b[u] /\ blockno[b[q]] # blockno[b[u]]
            /\ \A y \in Bufs \ {b[u]} : blockno[y] # blockno[b[u]]
  BY Alone, Zenon DEF CInv
<1>1. CASE acquiresleep(u)
  BY <1>1 DEF acquiresleep, bufs, Goto, CInv, RInv, Types, Used, InUse, Clean, OnDisk, Fresh, Has, LocksOK,
     Holding
<1>2. CASE bread_disk(u)
  BY <1>2, <1>alone, SMTT(20) DEF bread_disk, Goto, CInv, RInv, Types, Used, InUse, Clean, OnDisk, Fresh, Has,
     Holding
<1>3. CASE bread_valid(u)
  BY <1>3, <1>alone, SMTT(20) DEF bread_valid, Goto, CInv, RInv, Types, Used, InUse, Clean, OnDisk, Fresh, Has,
     Holding
<1>4. CASE brelse(u)
  BY <1>4, <1>alone, SMTT(20) DEF brelse, Wake, bufs, Goto, CInv, RInv, Types, Used, InUse, Clean, OnDisk,
     Fresh, Has, Holding
<1>5. CASE brelse_refcnt(u)
  BY <1>5, Zenon DEF brelse_refcnt, Drop, Goto, CInv, RInv, Types, Used, InUse, Clean, OnDisk, Fresh, Has,
     LocksOK,
     Holding
<1>6. CASE bwrite(u)
  BY <1>6, <1>alone, SMTT(20) DEF bwrite, bufs, Goto, CInv, RInv, Types, Used, InUse, Clean, OnDisk, Fresh,
     Has, Holding
<1>7. CASE log_write(u)
  BY <1>7, <1>alone, SMTT(20) DEF log_write, Take, Goto, CInv, RInv, Types, Used, InUse, Clean, OnDisk, Fresh,
     Has, Holding
<1>8. CASE bunpin(u)
  BY <1>8, <1>alone, SMTT(20) DEF bunpin, Goto, CInv, RInv, Types, Used, InUse, Clean, OnDisk, Fresh, Has,
     Holding
<1>9. ASSUME NEW v \in Values, modify(u, v) PROVE (\A x \in Bufs : Clean(x))'
  BY <1>9, <1>alone, SMTT(20) DEF modify, Goto, CInv, RInv, Types, Used, InUse, Clean, OnDisk, Fresh, Has,
     Holding
<1>10. ASSUME NEW n \in Blocks, bget(u, n) PROVE (\A x \in Bufs : Clean(x))'
  BY <1>10, SMTT(20) DEF bget, Take, Cached, Goto, CInv, RInv, Types, Used, InUse, Clean, OnDisk, Fresh, Has
<1>11. ASSUME NEW n \in Blocks, bget_recycle(u, n) PROVE (\A x \in Bufs : Clean(x))'
  BY <1>11, LruIs, Unreferenced, SMTT(20) DEF bget_recycle, NotCached, Cached, Invalidate, Goto, CInv, RInv,
     Types,
     Used, InUse, Clean, OnDisk, Fresh, Has
<1>12. ASSUME NEW n \in Blocks, bget_panic(u, n) PROVE (\A x \in Bufs : Clean(x))'
  BY <1>12 DEF bget_panic, bufs, Goto, CInv, RInv, Types, Used, InUse, Clean, OnDisk, Fresh, Has
<1> QED
  BY <1>1, <1>2, <1>3, <1>4, <1>5, <1>6, <1>7, <1>8, <1>9, <1>10, <1>11, <1>12, Zenon DEF Step, InCall

\* Whoever has a buffer finds it valid, and its contents are those of the block.
LEMMA FreshStep ==
  ASSUME CInv, NEW u \in Uses, Step(u)
  PROVE  (\A q \in Uses : Fresh(q))'
<1> USE BioAssumption, NullNoBuf
<1>alone. pc[u] \in Holding =>
            /\ b[u] \in Bufs /\ blockno[b[u]] \in Blocks /\ locked[b[u]] = u
            /\ \A q \in Uses \ {u} : pc[q] \in Holding => b[q] # b[u] /\ blockno[b[q]] # blockno[b[u]]
            /\ \A y \in Bufs \ {b[u]} : blockno[y] # blockno[b[u]]
  BY Alone DEF CInv
<1>1. CASE acquiresleep(u)
  BY <1>1 DEF acquiresleep, bufs, Goto, CInv, RInv, Types, Used, InUse, Fresh, OnDisk, Has, LocksOK, Holding
<1>2. CASE bread_disk(u)
  BY <1>2, <1>alone, SMTT(20) DEF bread_disk, Goto, CInv, RInv, Types, Used, InUse, Fresh, OnDisk, Has, Holding
<1>3. CASE bread_valid(u)
  BY <1>3, <1>alone, SMTT(20) DEF bread_valid, Goto, CInv, RInv, Types, Used, InUse, Fresh, OnDisk, Has,
     Holding
<1>4. CASE brelse(u)
  BY <1>4, <1>alone, SMTT(20) DEF brelse, Wake, bufs, Goto, CInv, RInv, Types, Used, InUse, Fresh, OnDisk, Has,
     Holding
<1>5. CASE brelse_refcnt(u)
  BY <1>5 DEF brelse_refcnt, Drop, Goto, CInv, RInv, Types, Used, InUse, Fresh, OnDisk, Has, LocksOK, Holding
<1>6. CASE bwrite(u)
  BY <1>6, <1>alone, SMTT(20) DEF bwrite, bufs, Goto, CInv, RInv, Types, Used, InUse, Fresh, OnDisk, Has,
     Holding
<1>7. CASE log_write(u)
  BY <1>7, <1>alone, SMTT(20) DEF log_write, Take, Goto, CInv, RInv, Types, Used, InUse, Fresh, OnDisk, Has,
     Holding
<1>8. CASE bunpin(u)
  BY <1>8, <1>alone, SMTT(20) DEF bunpin, Goto, CInv, RInv, Types, Used, InUse, Fresh, OnDisk, Has, Holding
<1>9. ASSUME NEW v \in Values, modify(u, v) PROVE (\A q \in Uses : Fresh(q))'
  BY <1>9, <1>alone, SMTT(20) DEF modify, Goto, CInv, RInv, Types, Used, InUse, Fresh, OnDisk, Has, Holding
<1>10. ASSUME NEW n \in Blocks, bget(u, n) PROVE (\A q \in Uses : Fresh(q))'
  BY <1>10, SMTT(20) DEF bget, Take, Cached, Goto, CInv, RInv, Types, Used, InUse, Fresh, OnDisk, Has
<1>11. ASSUME NEW n \in Blocks, bget_recycle(u, n) PROVE (\A q \in Uses : Fresh(q))'
  BY <1>11, LruIs, Unreferenced, SMTT(20) DEF bget_recycle, NotCached, Cached, Invalidate, Goto, CInv, RInv,
     Types,
     Used, InUse, Fresh, OnDisk, Has
<1>12. ASSUME NEW n \in Blocks, bget_panic(u, n) PROVE (\A q \in Uses : Fresh(q))'
  BY <1>12 DEF bget_panic, bufs, Goto, CInv, RInv, Types, Used, InUse, Fresh, OnDisk, Has
<1> QED
  BY <1>1, <1>2, <1>3, <1>4, <1>5, <1>6, <1>7, <1>8, <1>9, <1>10, <1>11, <1>12, Zenon DEF Step, InCall

-----------------------------------------------------------------------------
\* A new cache is empty.
LEMMA InitCInv == Init => CInv
<1> SUFFICES ASSUME Init PROVE CInv
  OBVIOUS
<1>1. RInv
  BY InitRInv, Zenon
<1>2. (\A x \in Bufs : Clean(x)) /\ \A u \in Uses : Fresh(u)
  BY Zenon DEF Init, Clean, Fresh, Has
<1> QED
  BY <1>1, <1>2, Zenon DEF CInv

\* CInv is inductive.
LEMMA StepCInv == CInv /\ [Next]_vars => CInv'
<1> SUFFICES ASSUME CInv, [Next]_vars PROVE CInv'
  OBVIOUS
<1>1. RInv'
  BY StepRInv, Zenon DEF CInv
<1>2. ASSUME NEW u \in Uses, Step(u) PROVE CInv'
  BY <1>1, <1>2, CleanStep, FreshStep, Zenon DEF CInv
<1>3. CASE UNCHANGED vars
  BY <1>1, <1>3, Zenon DEF vars, CInv, Clean, Fresh, OnDisk, Has
<1> QED
  BY <1>2, <1>3, Zenon DEF Next, Step
-----------------------------------------------------------------------------
\* The variables of BlockStore, as the cache has them (Coherent's mapping).
store == [n \in Blocks |-> Contents(n)]
holder == [n \in Blocks |-> Holder(n)]

\* A block keeps its contents when a valid buffer of it does, or when it has none before and after.
LEMMA ContentsStay ==
  ASSUME ContentsOK, ContentsOK', NEW n \in Blocks,
         \/ \E x \in Bufs : /\ blockno[x] = n /\ valid[x] /\ data'[x] = data[x]
                            /\ blockno'[x] = n /\ valid'[x]
         \/ /\ \A x \in Bufs : blockno[x] = n => ~valid[x]
            /\ \A x \in Bufs : blockno'[x] = n => ~valid'[x]
            /\ disk'[n] = disk[n]
  PROVE  Contents(n)' = Contents(n)
<1>1. ASSUME NEW x \in Bufs, blockno[x] = n /\ valid[x], data'[x] = data[x], blockno'[x] = n /\ valid'[x]
      PROVE  Contents(n)' = Contents(n)
  <2>1. Contents(n) = data[x]
    BY <1>1, Zenon DEF ContentsOK
  <2>2. Contents(n)' = data'[x]
    BY <1>1, Zenon DEF ContentsOK
  <2> QED
    BY <1>1, <2>1, <2>2, Zenon
<1>2. ASSUME \A x \in Bufs : blockno[x] = n => ~valid[x], \A x \in Bufs : blockno'[x] = n => ~valid'[x],
             disk'[n] = disk[n]
      PROVE  Contents(n)' = Contents(n)
  <2>1. Contents(n) = disk[n]
    BY <1>2, Zenon DEF ContentsOK
  <2>2. Contents(n)' = disk'[n]
    BY <1>2, Zenon DEF ContentsOK
  <2> QED
    BY <1>2, <2>1, <2>2, Zenon
<1> QED
  BY <1>1, <1>2, Zenon

\* Steps that leave what the cache says of the blocks and their holders alone.
LEMMA Stutters ==
  ASSUME CInv, CInv', NEW u \in Uses,
         \/ bread_disk(u) \/ bwrite(u) \/ log_write(u) \/ bunpin(u) \/ brelse_refcnt(u)
         \/ \E n \in Blocks : bget(u, n) \/ bget_panic(u, n)
  PROVE  UNCHANGED <<store, holder>>
<1> USE BioAssumption, NullNoBuf
<1>1. RInv /\ RInv' /\ ContentsOK /\ ContentsOK'
  BY ContentsIs, MappedNext, Zenon DEF CInv
<1>2. ASSUME \A n \in Blocks : Contents(n)' = Contents(n), \A q \in Uses, n \in Blocks : Holds(q, n)' <=> Holds(q, n)
      PROVE  UNCHANGED <<store, holder>>
  BY <1>1, <1>2, HolderSame, Zenon DEF store, holder
<1>3. CASE bread_disk(u)
  <2>1. pc[u] \in Holding /\ ~valid[b[u]] /\ b[u] \in Bufs
    BY <1>1, <1>3, Alone, Zenon DEF bread_disk, Holding, CInv, Fresh
  <2>2. \A n \in Blocks : Contents(n)' = Contents(n)
    <3>1. UNCHANGED <<blockno, valid, disk>> /\ \A x \in Bufs : valid[x] => data'[x] = data[x]
      BY <1>1, <1>3, <2>1, Zenon DEF bread_disk, RInv, Types
    <3>2. blockno' = blockno /\ valid' = valid /\ disk' = disk
      BY <3>1, Zenon
    <3> QED
      BY <1>1, <3>1, <3>2, ContentsStay, Zenon
  <2>3. \A q \in Uses, n \in Blocks : Holds(q, n)' <=> Holds(q, n)
    BY <1>1, <1>3, Zenon DEF bread_disk, Goto, Holds, Has, RInv, Types
  <2> QED
    BY <1>2, <2>2, <2>3, Zenon
<1>4. CASE bwrite(u)
  <2>1. Has(u) /\ pc[u] \in Holding
    BY <1>4, Zenon DEF bwrite, Has, Holding
  <2>2. valid[b[u]] /\ b[u] \in Bufs /\ blockno[b[u]] \in Blocks
    BY <1>1, <2>1, Alone, Zenon DEF CInv, Fresh
  <2>3. \A n \in Blocks : Contents(n)' = Contents(n)
    <3>1. UNCHANGED <<blockno, valid, data>> /\ \A n \in Blocks : n # blockno[b[u]] => disk'[n] = disk[n]
      BY <1>1, <1>4, Zenon DEF bwrite, bufs, RInv, Types
    <3> QED
      BY <1>1, <2>2, <3>1, SMTT(20) DEF ContentsOK
  <2>4. \A q \in Uses, n \in Blocks : Holds(q, n)' <=> Holds(q, n)
    BY <1>1, <1>4, Zenon DEF bwrite, bufs, Goto, Holds, Has, RInv, Types
  <2> QED
    BY <1>2, <2>3, <2>4
<1>5. ASSUME UNCHANGED <<blockno, valid, data, disk>> PROVE \A n \in Blocks : Contents(n)' = Contents(n)
  BY <1>5, Zenon DEF Contents, Cached
<1>6. CASE log_write(u) \/ bunpin(u)
  <2>1. \A q \in Uses, n \in Blocks : Holds(q, n)' <=> Holds(q, n)
    BY <1>1, <1>6 DEF log_write, bunpin, Goto, Holds, Has, RInv, Types
  <2> QED
    BY <1>2, <1>5, <1>6, <2>1, Zenon DEF log_write, bunpin
<1>7. CASE brelse_refcnt(u)
  <2>1. \A q \in Uses, n \in Blocks : Holds(q, n)' <=> Holds(q, n)
    BY <1>1, <1>7, Zenon DEF brelse_refcnt, Goto, Holds, Has, RInv, Types
  <2> QED
    BY <1>2, <1>5, <1>7, <2>1, Zenon DEF brelse_refcnt
<1>8. ASSUME NEW n \in Blocks, bget(u, n) \/ bget_panic(u, n) PROVE UNCHANGED <<store, holder>>
  <2>1. \A q \in Uses, m \in Blocks : Holds(q, m)' <=> Holds(q, m)
    BY <1>1, <1>8 DEF bget, bget_panic, bufs, Goto, Holds, Has, RInv, Types
  <2> QED
    BY <1>2, <1>5, <1>8, <2>1, Zenon DEF bget, bget_panic, bufs
<1> QED
  BY <1>3, <1>4, <1>6, <1>7, <1>8, Zenon

\* A buffer that bget() recycles had nothing that the disk does not have, and nobody has it.
LEMMA RecycleStutters ==
  ASSUME CInv, CInv', NEW u \in Uses, NEW n \in Blocks, bget_recycle(u, n)
  PROVE  UNCHANGED <<store, holder>>
<1> USE BioAssumption, NullNoBuf
<1>a. RInv /\ RInv' /\ ContentsOK /\ ContentsOK'
  BY ContentsIs, MappedNext, Zenon DEF CInv
<1>1. PICK x \in Lru : /\ blockno' = [blockno EXCEPT ![x] = n]
                       /\ valid' = [valid EXCEPT ![x] = FALSE]
                       /\ b' = [b EXCEPT ![u] = x]
  BY ZenonT(30) DEF bget_recycle, Invalidate
<1>2. x \in Bufs /\ x \notin pinned /\ \A q \in Uses : b[q] # x
  BY <1>a, LruIs, Unreferenced, Zenon DEF RInv
<1>3. UNCHANGED <<data, disk>> /\ \A y \in Bufs : blockno[y] # n
  BY Zenon DEF bget_recycle, NotCached, Cached
<1>4. valid[x] => OnDisk(x)
  BY <1>2, Zenon DEF CInv, Clean
<1>5. \A y \in Bufs : IF y = x THEN blockno'[y] = n /\ ~valid'[y]
                                ELSE blockno'[y] = blockno[y] /\ (valid'[y] <=> valid[y])
  BY <1>a, <1>1, <1>2, Zenon DEF RInv, Types
<1>6. ASSUME NEW m \in Blocks PROVE Contents(m)' = Contents(m)
  <2>1. CASE \E y \in Bufs \ {x} : blockno[y] = m /\ valid[y]
    <3>1. PICK y \in Bufs \ {x} : blockno[y] = m /\ valid[y]
      BY <2>1, Zenon
    <3>2. blockno'[y] = m /\ valid'[y]
      BY <1>5, <3>1, Zenon
    <3>3. Contents(m) = data[y]
      BY <1>a, <3>1, Zenon DEF ContentsOK
    <3>4. Contents(m)' = data'[y]
      BY <1>a, <3>1, <3>2, Zenon DEF ContentsOK
    <3> QED
      BY <1>3, <3>3, <3>4, Zenon
  <2>2. CASE \A y \in Bufs \ {x} : blockno[y] = m => ~valid[y]
    <3>1. Contents(m)' = disk[m]
      BY <1>a, <1>3, <1>5, <2>2 DEF ContentsOK
    <3>2. CASE blockno[x] = m /\ valid[x]
      BY <1>a, <1>2, <1>4, <3>1, <3>2, Zenon DEF ContentsOK, OnDisk
    <3>3. CASE ~(blockno[x] = m /\ valid[x])
      BY <1>a, <2>2, <3>1, <3>3 DEF ContentsOK
    <3> QED
      BY <3>2, <3>3, Zenon
  <2> QED
    BY <2>1, <2>2, Zenon
<1>7. \A q \in Uses, m \in Blocks : Holds(q, m)' <=> Holds(q, m)
  <2>1. \A q \in Uses : Has(q)' <=> Has(q)
    BY <1>a, Zenon DEF bget_recycle, Goto, Has, RInv, Types
  <2>2. \A q \in Uses : Has(q) => b'[q] = b[q] /\ b[q] \in Bufs \ {x}
    BY <1>a, <1>1, <1>2 DEF bget_recycle, Has, RInv, Types, Used, InUse
  <2> QED
    BY <1>5, <2>1, <2>2, Zenon DEF Holds
<1> QED
  BY <1>a, <1>6, <1>7, HolderSame, Zenon DEF store, holder

\* bread() that returns, with or without a read of the disk, is Bread of the
\* specification: nobody else has the block, and its contents do not change.
LEMMA Breads ==
  ASSUME CInv, CInv', NEW u \in Uses, acquiresleep(u) \/ bread_valid(u)
  PROVE  (\E n \in Blocks : Store!Bread(u, n)) \/ UNCHANGED <<store, holder>>
<1> USE BioAssumption, NullNoBuf
<1>1. RInv /\ RInv' /\ ContentsOK /\ ContentsOK'
  BY ContentsIs, MappedNext, Zenon DEF CInv
<1> DEFINE m == blockno[b[u]]
<1>2. b[u] \in Bufs /\ m \in Blocks /\ ~Has(u)
  BY <1>1, Zenon DEF acquiresleep, bread_valid, RInv, Used, InUse, Has
<1>3. UNCHANGED <<blockno, b, disk, data>>
  BY Zenon DEF acquiresleep, bread_valid, bufs
<1>4. ASSUME \A n \in Blocks : Contents(n)' = Contents(n), pc' = [pc EXCEPT ![u] = "have"],
             locked[b[u]] \in {NULL, u}
      PROVE  Store!Bread(u, m)
  <2>1. \A q \in Uses : ~Holds(q, m)
    <3> SUFFICES ASSUME NEW q \in Uses, Holds(q, m) PROVE FALSE
      BY Zenon
    <3>1. q # u /\ pc[q] \in Holding
      BY <1>2, Zenon DEF Holds, Has, Holding
    <3>2. b[q] \in Bufs /\ locked[b[q]] = q
      BY <1>1, <3>1, Alone, Zenon
    <3>3. b[q] = b[u]
      BY <1>1, <1>2, <3>2, Zenon DEF Holds, RInv, Unique
    <3> QED
      BY <1>4, <3>1, <3>2, <3>3, Zenon
  <2>2. \A q \in Uses, n \in Blocks : Holds(q, n)' <=> Holds(q, n) \/ (q = u /\ n = m)
    BY <1>1, <1>2, <1>3, <1>4, Zenon DEF Holds, Has, RInv, Types
  <2> HIDE DEF m
  <2>3. Holder(m) = NULL /\ \A n \in Blocks : Holder(n)' = IF n = m THEN u ELSE Holder(n)
    BY <1>1, <1>2, <2>1, <2>2, HolderTakes
  <2> QED
    BY <1>2, <1>4, <2>3, ZenonT(30) DEF Store!Bread
<1>5. CASE bread_valid(u)
  <2>1. pc[u] \in Holding /\ locked[b[u]] = u /\ ~valid[b[u]] /\ OnDisk(b[u])
    BY <1>1, <1>5, Alone, Zenon DEF bread_valid, Holding, CInv, Fresh
  <2>2. \A y \in Bufs : valid'[y] <=> valid[y] \/ y = b[u]
    BY <1>1, <1>2, <1>5 DEF bread_valid, RInv, Types
  <2>3. ASSUME NEW n \in Blocks PROVE Contents(n)' = Contents(n)
    <3>1. CASE n = m
      <4>1. Contents(n)' = data[b[u]]
        BY <1>1, <1>2, <1>3, <2>2, <3>1, Zenon DEF ContentsOK
      <4>2. Contents(n) = disk[n]
        <5>1. \A y \in Bufs : blockno[y] = n => y = b[u]
          BY <1>1, <1>2, <3>1, BioAssumption, Zenon DEF RInv, Unique
        <5>2. \A y \in Bufs : ~(valid[y] /\ blockno[y] = n)
          BY <2>1, <5>1, Zenon
        <5> QED
          BY <1>1, <5>2, Zenon DEF ContentsOK
      <4> QED
        BY <2>1, <3>1, <4>1, <4>2, Zenon DEF OnDisk
    <3>2. CASE n # m
      <4>1. \A y \in Bufs : blockno[y] = n => (valid'[y] <=> valid[y])
        BY <2>2, <3>2, Zenon
      <4>2. blockno' = blockno /\ data' = data /\ disk' = disk
        BY <1>3, Zenon
      <4> QED
        BY <1>1, <4>1, <4>2, ContentsStay, Zenon
    <3> QED
      BY <3>1, <3>2, Zenon
  <2> QED
    BY <1>2, <1>4, <1>5, <2>1, <2>3, Zenon DEF bread_valid, Goto
<1>6. CASE acquiresleep(u)
  <2>1. \A n \in Blocks : Contents(n)' = Contents(n)
    BY <1>6, Zenon DEF acquiresleep, bufs, Contents, Cached
  <2>2. CASE locked[b[u]] = NULL /\ valid[b[u]]
    BY <1>2, <1>4, <1>6, <2>1, <2>2, Zenon DEF acquiresleep, Goto
  <2>3. CASE ~(locked[b[u]] = NULL /\ valid[b[u]])
    <3>1. \A q \in Uses, n \in Blocks : Holds(q, n)' <=> Holds(q, n)
      BY <1>1, <1>3, <1>6, <2>3 DEF acquiresleep, Goto, Holds, Has, RInv, Types
    <3> QED
      BY <1>1, <2>1, <3>1, HolderSame, Zenon DEF store, holder
  <2> QED
    BY <2>2, <2>3, Zenon
<1> QED
  BY <1>5, <1>6, Zenon

\* The holder changes the block, or gives it back.
LEMMA HolderActs ==
  ASSUME CInv, CInv', NEW u \in Uses, brelse(u) \/ \E v \in Values : modify(u, v)
  PROVE  \E n \in Blocks : Store!Modify(u, n) \/ Store!Brelse(u, n)
<1> USE BioAssumption, NullNoBuf
<1>1. RInv /\ RInv' /\ ContentsOK /\ ContentsOK'
  BY ContentsIs, MappedNext, Zenon DEF CInv
<1>2. Has(u) /\ pc[u] \in Holding
  BY Zenon DEF brelse, modify, Has, Holding
<1> PICK m \in Blocks : m = blockno[b[u]]
  BY <1>1, <1>2, Alone, Zenon
<1>3. b[u] \in Bufs /\ valid[b[u]] /\ Holds(u, m)
  BY <1>1, <1>2, Alone, Zenon DEF CInv, Fresh, Holds
<1>4. UNCHANGED <<blockno, b, disk, valid>>
  BY Zenon DEF brelse, modify, bufs
<1>5. CASE brelse(u)
  <2>1. \A n \in Blocks : Contents(n)' = Contents(n)
    BY <1>5, Zenon DEF brelse, bufs, Contents, Cached
  <2>2. \A q \in Uses : Has(q)' <=> Has(q) /\ q # u
    BY <1>1, <1>5, Zenon DEF brelse, Wake, Has, RInv, Types
  <2>3. ~Holds(u, m)' /\ \A q \in Uses, n \in Blocks : q # u \/ n # m => (Holds(q, n)' <=> Holds(q, n))
    BY <1>4, <2>2, Zenon DEF Holds
  <2>4. Holder(m) = u /\ \A n \in Blocks : Holder(n)' = IF n = m THEN NULL ELSE Holder(n)
    BY <1>1, <1>3, <2>3, HolderLeaves
  <2>5. Store!Brelse(u, m)
    BY <1>3, <2>1, <2>4, Zenon DEF Store!Brelse
  <2> QED
    BY <1>3, <2>5, Zenon
<1>6. ASSUME NEW v \in Values, modify(u, v) PROVE Store!Modify(u, m)
  <2>1. \A y \in Bufs : data'[y] = IF y = b[u] THEN v ELSE data[y]
    BY <1>1, <1>6 DEF modify, RInv, Types
  <2>2. ASSUME NEW n \in Blocks PROVE Contents(n)' = IF n = m THEN v ELSE Contents(n)
    <3>1. CASE n = m
      BY <1>1, <1>3, <1>4, <2>1, <3>1, ZenonT(40) DEF ContentsOK
    <3>2. CASE n # m
      <4>1. \A y \in Bufs : blockno[y] = n => data'[y] = data[y]
        BY <2>1, <3>2, Zenon
      <4>2. blockno' = blockno /\ valid' = valid /\ disk' = disk
        BY <1>4, Zenon
      <4>3. Contents(n)' = Contents(n)
        BY <1>1, <4>1, <4>2, ContentsStay, ZenonT(30)
      <4> QED
        BY <3>2, <4>3, Zenon
    <3> QED
      BY <3>1, <3>2, Zenon
  <2>3. \A q \in Uses, n \in Blocks : Holds(q, n)' <=> Holds(q, n)
    BY <1>1, <1>6 DEF modify, Goto, Holds, Has, RInv, Types
  <2>4. \A n \in Blocks : Holder(n)' = Holder(n)
    BY <1>1, <2>3, HolderSame, Zenon
  <2>5. Holder(m) = u
    BY <1>1, <1>3, HolderIs, Zenon DEF HolderOK
  <2> QED
    BY <1>3, <2>2, <2>4, <2>5, ZenonT(30) DEF Store!Modify
<1> QED
  BY <1>3, <1>5, <1>6, Zenon

\* Every step of the cache is a step of the block store or leaves it alone.
LEMMA StoreStep == CInv /\ CInv' /\ [Next]_vars => [Store!Next]_<<store, holder>>
<1> SUFFICES ASSUME CInv, CInv', [Next]_vars PROVE [Store!Next]_<<store, holder>>
  BY Zenon
<1>1. ASSUME NEW u \in Uses, Step(u) PROVE [Store!Next]_<<store, holder>>
  BY <1>1, Stutters, RecycleStutters, Breads, HolderActs, Zenon DEF Step, InCall, Store!Next
<1>2. CASE UNCHANGED vars
  BY <1>2, Zenon DEF vars, store, holder, Contents, Cached, Holder, Has
<1> QED
  BY <1>1, <1>2, Zenon DEF Next, Step

\* binit() leaves a store that nobody holds.
LEMMA StoreInit == Init => Store!Init
<1> SUFFICES ASSUME Init PROVE Store!Init
  OBVIOUS
<1>1. RInv /\ ContentsOK /\ HolderOK
  BY InitRInv, ContentsIs, HolderIs, Zenon
<1>2. \A n \in Blocks : Contents(n) \in Values
  <2>1. disk \in [Blocks -> Values] /\ \A x \in Bufs : ~valid[x]
    BY <1>1, Zenon DEF Init, RInv, Types
  <2> QED
    BY <1>1, <2>1, Zenon DEF ContentsOK
<1>3. \A n \in Blocks : Holder(n) = NULL
  BY <1>1, Zenon DEF Init, HolderOK, Holds, Has
<1> QED
  BY <1>2, <1>3, Zenon DEF Store!Init

\* Through caching, recycling, pinning and writing back a block has one holder at a time
\* and keeps what the last holder left in it (Coherent).
THEOREM CacheIsCoherent == Spec => Coherent
<1>1. CInv /\ CInv' /\ [Next]_vars =>
        [Store!Next]_<<[n \in Blocks |-> Contents(n)], [n \in Blocks |-> Holder(n)]>>
  BY StoreStep, Zenon DEF store, holder
<1> QED
  BY <1>1, InitCInv, StepCInv, StoreInit, PTL DEF Spec, Coherent, Store!Spec
=============================================================================
