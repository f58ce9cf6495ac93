----------------------------- MODULE LogProofs -----------------------------
(***************************************************************************)
(* Proofs about the log, for every number of processes, blocks and values  *)
(* and every size of the log.                                              *)
(***************************************************************************)
EXTENDS Log, FiniteSetTheorems, TLAPS

\* Time for the provers.
USE SMTT(30), ZenonT(30)

\* The set of processes inside an operation is finite, and at most all of them.
LEMMA ActiveFinite ==
  /\ IsFiniteSet(Active) /\ Cardinality(Active) \in Nat
  /\ Cardinality(Active) \in 0 .. Cardinality(Procs)
<1>1. Active \in SUBSET Procs
  BY Zenon DEF Active
<1>2. IsFiniteSet(Active) /\ Cardinality(Active) <= Cardinality(Procs)
  BY <1>1, FS_Subset, LogAssumption, Zenon
<1>3. Cardinality(Active) \in Nat /\ Cardinality(Procs) \in Nat
  BY <1>2, FS_CardinalityType, LogAssumption, Zenon
<1> QED BY <1>2, <1>3

\* The same in the next state.
LEMMA ActiveFiniteNext ==
  /\ IsFiniteSet(Active') /\ Cardinality(Active') \in Nat
  /\ Cardinality(Active') \in 0 .. Cardinality(Procs)
<1>1. Active' \in SUBSET Procs
  BY Zenon DEF Active
<1>2. IsFiniteSet(Active') /\ Cardinality(Active') <= Cardinality(Procs)
  BY <1>1, FS_Subset, LogAssumption, Zenon
<1>3. Cardinality(Active') \in Nat /\ Cardinality(Procs) \in Nat
  BY <1>2, FS_CardinalityType, LogAssumption, Zenon
<1> QED BY <1>2, <1>3

\* The first boot, on the disk that mkfs made, satisfies the invariant.
LEMMA InitInv == Init => LogInv
<1> SUFFICES ASSUME Init PROVE LogInv
  BY Zenon
<1> USE LogAssumption DEF Init
<1>1. Active = {}
  BY Zenon DEF Active, Inside
<1>2. outstanding = Cardinality(Active)
  BY <1>1, FS_EmptySet, Zenon
<1>3. outstanding \in 0 .. Cardinality(Procs)
  BY <1>2, ActiveFinite, Zenon
<1>4. TypeOK
  <2>1. lh \in Seq(Blocks) /\ dhead \in Seq(Blocks)
    OBVIOUS
  <2>2. dlog \in [Slots -> Values]
    BY Zenon
  <2>3. pc \in [Procs -> {"idle", "begin", "sleep"} \cup Inside \cup Committing]
    BY Zenon
  <2> QED BY <1>3, <2>1, <2>2, <2>3, ZenonT(30) DEF TypeOK
<1>5. PlacesInv
  BY <1>2, Zenon DEF PlacesInv, Inside, Committing
<1>6. HeadersInv
  BY DEF HeadersInv, NoDup
<1>7. BuffersInv
  <2>1. HeldInv
    BY Zenon DEF BuffersInv, HeldInv, Pending
  <2>2. PinsMatchLog
    BY Zenon DEF BuffersInv, PinsMatchLog, Pending
  <2>3. CopiesInv
    BY Zenon DEF BuffersInv, CopiesInv, Pending
  <2>4. LoopsInv
    BY Zenon DEF BuffersInv, LoopsInv, Pending
  <2> QED BY <2>1, <2>2, <2>3, <2>4, Zenon DEF BuffersInv
<1> QED BY <1>4, <1>5, <1>6, <1>7, Zenon DEF LogInv
-----------------------------------------------------------------------------
(* One lemma per action: it preserves the inductive invariant.              *)

\* The invariant is preserved by begin_op.
LEMMA BeginInv ==
  ASSUME LogInv, NEW p \in Procs, begin_op(p)
  PROVE  LogInv'
<1> USE LogAssumption DEF LogInv, begin_op, diskvars
<1> DEFINE Places == {"idle", "begin", "sleep"} \cup Inside \cup Committing
<1>1. pc' \in [Procs -> Places] /\ pc \in [Procs -> Places]
  BY ZenonT(30) DEF TypeOK, Inside
<1>2. outstanding' = Cardinality(Active')
  <2>1. CASE MustWait
    <3>1. Active' = Active
      BY <1>1, <2>1, Zenon DEF Active, Inside
    <3> QED BY <2>1, <3>1, Zenon DEF PlacesInv
  <2>2. CASE ~MustWait
    <3>1. Active' = Active \cup {p} /\ p \notin Active
      BY <1>1, <2>2, Zenon DEF Active, Inside
    <3>2. Cardinality(Active \cup {p}) = Cardinality(Active) + 1
      BY <3>1, ActiveFinite, FS_AddElement, ZenonT(30)
    <3> QED BY <2>2, <3>1, <3>2, Zenon DEF PlacesInv
  <2> QED BY <2>1, <2>2, Zenon
<1>3. TypeOK'
  BY <1>1, <1>2, ActiveFiniteNext, Zenon DEF TypeOK
<1>4. PlacesInv'
  BY <1>1, <1>2 DEF PlacesInv, MustWait, Inside, Committing
<1>5. HeadersInv'
  BY <1>1, Zenon DEF HeadersInv, Inside, MustWait
<1>6. BuffersInv'
  <2>1. HeldInv'
    BY <1>1, Zenon DEF BuffersInv, HeldInv, Pending, MustWait, Inside
  <2>2. PinsMatchLog'
    BY <1>1 DEF BuffersInv, PinsMatchLog, Pending, MustWait, Inside
  <2>3. CopiesInv'
    BY <1>1 DEF BuffersInv, CopiesInv, Pending, MustWait, Inside
  <2>4. LoopsInv'
    BY <1>1 DEF BuffersInv, LoopsInv, Pending, MustWait, Inside
  <2> QED BY <2>1, <2>2, <2>3, <2>4, Zenon DEF BuffersInv
<1> QED BY <1>3, <1>4, <1>5, <1>6, Zenon

\* The invariant is preserved by the caller changing a buffer.
LEMMA ModifyInv ==
  ASSUME LogInv, NEW p \in Procs, NEW b \in Blocks, NEW v \in Values, modify(p, b, v)
  PROVE  LogInv'
<1> USE LogAssumption DEF LogInv, modify, diskvars
<1> DEFINE Places == {"idle", "begin", "sleep"} \cup Inside \cup Committing
<1>1. pc' \in [Procs -> Places] /\ pc \in [Procs -> Places]
  BY Zenon DEF TypeOK, Inside
<1>2. Active' = Active
  BY <1>1, Zenon DEF Active, Inside
<1>3. TypeOK'
  BY <1>1, Zenon DEF TypeOK
<1>4. PlacesInv'
  BY <1>1, <1>2, Zenon DEF PlacesInv, Inside, Committing
<1>5. HeadersInv'
  BY <1>1, Zenon DEF HeadersInv, Inside
<1>6. BuffersInv'
  <2>1. \A c \in Blocks : Pending(c)' <=> Pending(c)
    BY <1>1, Zenon DEF Pending
  <2>2. \A q \in Procs : pc[q] \notin Committing
    BY Zenon DEF PlacesInv, Inside, Committing
  <2>3. HeldInv'
    BY <1>1, <2>1, <2>2 DEF BuffersInv, HeldInv, TypeOK, Committing
  <2>4. PinsMatchLog'
    BY <1>1, <2>1, <2>2, Zenon DEF BuffersInv, PinsMatchLog, TypeOK, Committing
  <2>5. CopiesInv'
    BY <1>1, <2>1, ZenonT(30) DEF BuffersInv, HeldInv, CopiesInv, TypeOK
  <2>6. LoopsInv'
    BY <1>1, <2>1, <2>2 DEF BuffersInv, LoopsInv, TypeOK, Committing
  <2> QED BY <2>3, <2>4, <2>5, <2>6, Zenon DEF BuffersInv
<1> QED BY <1>3, <1>4, <1>5, <1>6, Zenon

\* The invariant is preserved by log_write.
LEMMA LogWriteInv ==
  ASSUME LogInv, NEW p \in Procs, log_write(p)
  PROVE  LogInv'
<1> USE LogAssumption DEF LogInv, log_write, diskvars
<1> DEFINE Places == {"idle", "begin", "sleep"} \cup Inside \cup Committing
<1>1. pc' \in [Procs -> Places] /\ pc \in [Procs -> Places]
  BY Zenon DEF TypeOK, Inside
<1>2. Active' = Active
  BY <1>1, Zenon DEF Active, Inside
<1>3. held[p] \in Blocks
  BY Zenon DEF BuffersInv, HeldInv, TypeOK
<1>4. \A q \in Procs : pc[q] \notin Committing
  BY Zenon DEF PlacesInv, Inside, Committing
<1>5. mode = "run"
  BY Zenon DEF PlacesInv
<1>6. TypeOK'
  <2> DEFINE c == held[p]
  <2>1. \/ lh' = lh /\ pin' = pin
        \/ lh' = Append(lh, c) /\ pin' = [pin EXCEPT ![c] = @ + 1]
    BY Zenon DEF Absorbed
  <2>2. lh \in Seq(Blocks) /\ pin \in [Blocks -> Nat]
    BY Zenon DEF TypeOK
  <2> HIDE DEF c
  <2>3. c \in Blocks => Append(lh, c) \in Seq(Blocks) /\ [pin EXCEPT ![c] = @ + 1] \in [Blocks -> Nat]
    BY <2>2
  <2>4. lh' \in Seq(Blocks) /\ pin' \in [Blocks -> Nat]
    BY <1>3, <2>1, <2>2, <2>3, ZenonT(30) DEF c
  <2> QED BY <1>1, <1>3, <2>4, Zenon DEF TypeOK
<1>7. PlacesInv'
  BY <1>1, <1>2, Zenon DEF PlacesInv, Inside, Committing
<1>8. CASE Absorbed(held[p])
  <2>1. HeadersInv'
    BY <1>1, <1>8, Zenon DEF HeadersInv, Inside
  <2>2. \A c \in Blocks : Pending(c)' <=> Pending(c)
    BY <1>1, <1>8, Zenon DEF Pending
  <2>3. Pending(held[p])
    BY <1>4, <1>5, <1>8, Zenon DEF Pending, Absorbed, Logged, Committing
  <2>4. BuffersInv'
    <3>1. HeldInv'
      BY <1>1, <1>3, <1>4, <1>8, <2>2, <2>3 DEF BuffersInv, HeldInv, TypeOK, Committing
    <3>2. PinsMatchLog'
      BY <1>1, <1>3, <1>4, <1>8, <2>2, <2>3, Zenon DEF BuffersInv, PinsMatchLog, TypeOK, Committing
    <3>3. CopiesInv'
      BY <1>1, <1>3, <1>4, <1>8, <2>2, <2>3 DEF BuffersInv, CopiesInv, TypeOK, Committing
    <3>4. LoopsInv'
      BY <1>1, <1>3, <1>4, <1>8, <2>2, <2>3 DEF BuffersInv, LoopsInv, TypeOK, Committing
    <3> QED BY <3>1, <3>2, <3>3, <3>4, Zenon DEF BuffersInv
  <2> QED BY <1>6, <1>7, <2>1, <2>4, Zenon
<1>9. CASE ~Absorbed(held[p])
  <2>a. lh \in Seq(Blocks) /\ lh' = Append(lh, held[p])
    BY <1>9, Zenon DEF TypeOK
  <2>b. \A i \in 1 .. Len(lh) : lh[i] # held[p]
    BY <1>9, Zenon DEF Absorbed, Logged
  <2>1. /\ Len(lh) \in Nat /\ Len(lh') = Len(lh) + 1
        /\ lh'[Len(lh) + 1] = held[p]
        /\ \A i \in 1 .. Len(lh) : lh'[i] = lh[i] /\ lh[i] # held[p]
    BY <1>3, <2>a, <2>b
  <2>2. HeadersInv'
    <3>1. NoDup(lh')
      BY <2>1 DEF HeadersInv, NoDup
    <3> QED BY <1>1, <1>4, <1>5, <2>1, <3>1 DEF HeadersInv, TooBig, Inside, Committing
  <2>3. \A c \in Blocks : Pending(c) <=> \E i \in 1 .. Len(lh) : lh[i] = c
    BY <1>4, <1>5, Zenon DEF Pending, Committing
  <2>4. \A c \in Blocks : Pending(c)' <=> Pending(c) \/ c = held[p]
    <3>1. \A q \in Procs : pc'[q] # "install"
      BY <1>1, <1>4, Zenon DEF Committing
    <3>2. \A c \in Blocks : Pending(c)' <=> \E i \in 1 .. Len(lh') : lh'[i] = c
      BY <1>5, <3>1, Zenon DEF Pending
    <3> QED BY <2>1, <2>3, <3>2
  <2>5. ~Pending(held[p])
    BY <1>3, <2>1, <2>3, Zenon
  <2>6. PinsMatchLog'
    BY <1>3, <1>9, <2>4, <2>5 DEF BuffersInv, PinsMatchLog, TypeOK
  <2>7. \A q \in Procs : pc'[q] \notin Committing
    BY <1>1, <1>4, Zenon DEF Inside, Committing
  <2>8. \A q \in Procs : held'[q] = IF q = p THEN NoBlock ELSE held[q]
    BY Zenon DEF TypeOK
  <2>9. \A q \in Procs : pc'[q] = IF q = p THEN "op" ELSE pc[q]
    BY <1>1, Zenon
  <2>10. BuffersInv'
    <3>1. HeldInv'
      BY <1>3, <1>5, <2>4, <2>6, <2>7, <2>8, <2>9 DEF BuffersInv, HeldInv, Committing
    <3>3. CopiesInv'
      <4>1. /\ cache[held[p]] # NoData /\ CopiesInv
            /\ UNCHANGED <<cache, disk>>
        BY Zenon DEF BuffersInv, HeldInv
      <4> QED BY ONLY <1>3, <2>4, <2>8, <4>1 DEF CopiesInv
    <3>4. LoopsInv'
      BY <1>3, <1>5, <2>4, <2>6, <2>7, <2>8, <2>9, Zenon DEF BuffersInv, LoopsInv, Committing
    <3> QED BY <2>6, <3>1, <3>3, <3>4, Zenon DEF BuffersInv
  <2> QED BY <1>6, <1>7, <2>2, <2>10
<1> QED BY <1>8, <1>9, Zenon

\* What end_op has to keep for the buffers: no copy and no pin changes, the
\* same blocks are pending, and a commit that begins has written nothing yet.
LEMMA BuffersKept ==
  ASSUME BuffersInv, UNCHANGED <<held, cache, pin, disk, mode>>, mode = "run",
         \A q \in Procs : pc'[q] = "modified" <=> pc[q] = "modified",
         \A q \in Procs : pc'[q] # "install",
         \A q \in Procs : pc'[q] = "write_log" => tail' = 0,
         \A c \in Blocks : Pending(c)' <=> Pending(c)
  PROVE  BuffersInv'
<1>1. HeldInv'
  BY Zenon DEF BuffersInv, HeldInv
<1>2. PinsMatchLog'
  BY Zenon DEF BuffersInv, PinsMatchLog
<1>3. CopiesInv'
  BY Zenon DEF BuffersInv, CopiesInv
<1>4. LoopsInv'
  BY DEF LoopsInv
<1> QED BY <1>1, <1>2, <1>3, <1>4, Zenon DEF BuffersInv

\* The invariant is preserved by end_op.
LEMMA EndInv ==
  ASSUME LogInv, NEW p \in Procs, end_op(p)
  PROVE  LogInv'
<1> USE LogAssumption DEF LogInv, end_op, diskvars
<1> DEFINE Places == {"idle", "begin", "sleep"} \cup Inside \cup Committing
<1>1. pc \in [Procs -> Places] /\ pc' \in [Procs -> Places]
  BY ZenonT(30) DEF TypeOK, Woken, Committing
<1>2. Active' = Active \ {p} /\ p \in Active
  BY <1>1, Zenon DEF Active, Inside, Woken
<1>3. Cardinality(Active \ {p}) = Cardinality(Active) - 1
  BY <1>2, ActiveFinite, FS_RemoveElement, ZenonT(30)
<1>4. outstanding' = Cardinality(Active')
  BY <1>2, <1>3, Zenon DEF PlacesInv
<1>5. \A q \in Procs : pc[q] \notin Committing
  BY Zenon DEF PlacesInv, Inside, Committing
<1>6. mode = "run"
  BY Zenon DEF PlacesInv
<1>7. TypeOK'
  <2>0. committing' = TRUE \/ committing' = committing
    BY Zenon DEF LastOut
  <2>1. committing' \in BOOLEAN
    BY <2>0, ZenonT(30) DEF TypeOK
  <2>2. tail' \in Nat
    BY DEF TypeOK, LastOut
  <2> QED BY <1>1, <1>4, <2>1, <2>2, ActiveFiniteNext, ZenonT(30) DEF TypeOK
<1>8. outstanding = 1 => \A q \in Procs \ {p} : pc[q] \notin Inside
  <2>1. outstanding = 1 => Active \ {p} = {}
    <3>1. IsFiniteSet(Active \ {p})
      BY FS_RemoveElement, ActiveFinite, Zenon
    <3>2. outstanding = 1 => Cardinality(Active \ {p}) = 0
      BY <1>3 DEF PlacesInv
    <3> QED BY <3>1, <3>2, FS_EmptySet, Zenon
  <2> QED BY <2>1, Zenon DEF Active
<1>9. CASE LastOut
  <2>1. \A q \in Procs \ {p} : pc'[q] = pc[q]
    BY <1>1, <1>9, Zenon
  <2>2. pc'[p] = (IF lh = <<>> THEN "committed" ELSE "write_log") /\ committing' /\ tail' = 0
    BY <1>1, <1>9, Zenon
  <2>3. PlacesInv'
    BY <1>4, <1>5, <1>6, <1>8, <1>9, <2>1, <2>2, Zenon DEF PlacesInv, LastOut, Inside, Committing
  <2>4. HeadersInv'
    BY <1>5, <1>6, <2>1, <2>2 DEF HeadersInv, Inside, Committing, TypeOK
  <2>5. \A c \in Blocks : Pending(c)' <=> Pending(c)
    BY <1>5, <1>6, <2>1, <2>2, Zenon DEF Pending, Committing
  <2>6. /\ \A q \in Procs : pc'[q] = "modified" <=> pc[q] = "modified"
        /\ \A q \in Procs : pc'[q] # "install"
    BY <1>5, <2>1, <2>2, Zenon DEF Committing
  <2>7. BuffersInv'
    BY <1>6, <2>2, <2>5, <2>6, BuffersKept, Zenon
  <2> QED BY <1>7, <2>3, <2>4, <2>7, Zenon
<1>10. CASE ~LastOut
  <2>1. \A q \in Procs \ {p} : pc'[q] = IF pc[q] = "sleep" THEN "begin" ELSE pc[q]
    BY <1>1, <1>10, Zenon DEF Woken
  <2>2. pc'[p] = "idle" /\ committing' = committing /\ tail' = tail
    BY <1>1, <1>10, Zenon DEF Woken
  <2>3. PlacesInv'
    BY <1>4, <1>5, <1>6, <2>1, <2>2, Zenon DEF PlacesInv, Inside, Committing
  <2>4. outstanding' \in Nat /\ outstanding' # 0
    BY <1>4, <1>10, ActiveFiniteNext DEF LastOut, TypeOK
  <2>5. \E q \in Procs : pc'[q] \in Inside
    BY <1>4, <2>4, FS_EmptySet, ZenonT(30) DEF Active
  <2>6. HeadersInv'
    BY <1>5, <1>6, <2>1, <2>2, <2>5, Zenon DEF HeadersInv, Inside, Committing
  <2>7. \A c \in Blocks : Pending(c)' <=> Pending(c)
    BY <1>5, <1>6, <2>1, <2>2, Zenon DEF Pending, Committing
  <2>8. /\ \A q \in Procs : pc'[q] = "modified" <=> pc[q] = "modified"
        /\ \A q \in Procs : pc'[q] \notin {"install", "write_log"}
    BY <1>5, <2>1, <2>2, Zenon DEF Committing
  <2>9. BuffersInv'
    BY <1>6, <2>7, <2>8, BuffersKept, Zenon
  <2> QED BY <1>7, <2>3, <2>6, <2>9
<1> QED BY <1>9, <1>10, Zenon

\* The invariant is preserved by a turn of write_log.
LEMMA WriteLogInv ==
  ASSUME LogInv, NEW p \in Procs, write_log(p)
  PROVE  LogInv'
<1> USE LogAssumption DEF LogInv, write_log, opvars
<1>1. /\ mode = "run"
      /\ \A q \in Procs : pc[q] \notin Inside \cup {"install", "committed"}
      /\ \A q \in Procs : held[q] = NoBlock
  BY Zenon DEF PlacesInv, BuffersInv, HeldInv, Inside, Committing
<1> DEFINE b == lh[tail + 1]
<1>2. b \in Blocks /\ tail + 1 \in Slots /\ tail + 1 \in 1 .. Len(lh) /\ tail \in Nat
  BY DEF TypeOK, HeadersInv, Slots
<1>3. Pending(b)
  BY <1>1, <1>2, Zenon DEF Pending, Committing
<1>4. Bread(b) = cache[b] /\ cache[b] \in Values
  BY <1>2, <1>3, Zenon DEF Bread, BuffersInv, CopiesInv, TypeOK
<1>5. cache' = cache
  BY <1>2, <1>4, Zenon DEF TypeOK
<1>6. TypeOK'
  BY <1>2, <1>4, <1>5 DEF TypeOK
<1>7. PlacesInv'
  BY Zenon DEF PlacesInv, Active
<1>8. HeadersInv'
  BY <1>1, <1>2 DEF HeadersInv
<1>9. \A c \in Blocks : Pending(c)' <=> Pending(c)
  BY <1>1, Zenon DEF Pending
<1>10. \A i \in 1 .. tail' : dlog'[i] = cache'[lh'[i]]
  BY <1>2, <1>4, <1>5 DEF BuffersInv, LoopsInv, TypeOK, HeadersInv, Slots
<1>11. BuffersInv'
  <2>1. HeldInv'
    BY <1>1, <1>5, <1>9, <1>10, Zenon DEF BuffersInv, HeldInv, PlacesInv
  <2>2. PinsMatchLog'
    BY <1>1, <1>5, <1>9, <1>10, Zenon DEF BuffersInv, PinsMatchLog, PlacesInv
  <2>3. CopiesInv'
    BY <1>1, <1>5, <1>9, <1>10, Zenon DEF BuffersInv, CopiesInv, PlacesInv
  <2>4. LoopsInv'
    BY <1>1, <1>5, <1>9, <1>10, Zenon DEF BuffersInv, LoopsInv, PlacesInv
  <2> QED BY <2>1, <2>2, <2>3, <2>4, Zenon DEF BuffersInv
<1> QED BY <1>6, <1>7, <1>8, <1>11, Zenon

\* The invariant is preserved by the commit point.
LEMMA WriteHeadInv ==
  ASSUME LogInv, NEW p \in Procs, write_head(p)
  PROVE  LogInv'
<1> USE LogAssumption DEF LogInv, write_head
<1>1. /\ mode = "run"
      /\ \A q \in Procs \ {p} : pc[q] \notin Inside \cup Committing
      /\ \A q \in Procs : held[q] = NoBlock
  BY Zenon DEF PlacesInv, BuffersInv, HeldInv, Inside, Committing
<1>2. /\ \A q \in Procs \ {p} : pc'[q] = pc[q]
      /\ pc'[p] = "install" /\ pc' \in [Procs -> {"idle", "begin", "sleep"} \cup Inside \cup Committing]
  BY Zenon DEF TypeOK, Committing
<1>3. Active' = Active
  BY <1>2, Zenon DEF Active, Inside
<1>4. TypeOK'
  BY <1>2, Zenon DEF TypeOK
<1>5. PlacesInv'
  BY <1>1, <1>2, <1>3 DEF PlacesInv, Inside, Committing
<1>6. tail = Len(lh) /\ Len(lh) \in Nat
  BY DEF HeadersInv, LogWritten, TypeOK
<1>7. HeadersInv'
  BY <1>1, <1>2, <1>6 DEF HeadersInv, Inside, Committing
<1>8. \A c \in Blocks : Pending(c)' <=> Pending(c)
  BY <1>1, <1>2, <1>6 DEF Pending, Committing
<1>9. \A i \in 1 .. Len(lh) : cache[lh[i]] = dlog[i]
  BY <1>6, Zenon DEF BuffersInv, LoopsInv
<1>10. BuffersInv'
  <2>1. HeldInv'
    BY <1>1, <1>2, <1>8, <1>9, Zenon DEF BuffersInv, HeldInv, PlacesInv, Committing
  <2>2. PinsMatchLog'
    BY <1>1, <1>2, <1>8, <1>9, Zenon DEF BuffersInv, PinsMatchLog, PlacesInv, Committing
  <2>3. CopiesInv'
    BY <1>1, <1>2, <1>8, <1>9, Zenon DEF BuffersInv, CopiesInv, PlacesInv, Committing
  <2>4. LoopsInv'
    BY <1>1, <1>2, <1>8, <1>9 DEF BuffersInv, LoopsInv, PlacesInv, Committing
  <2> QED BY <2>1, <2>2, <2>3, <2>4, Zenon DEF BuffersInv
<1> QED BY <1>4, <1>5, <1>7, <1>10, Zenon

\* The invariant is preserved by a turn of install_trans.
LEMMA InstallInv ==
  ASSUME LogInv, NEW p \in Procs, install(p)
  PROVE  LogInv'
<1> USE LogAssumption DEF LogInv, install, install_trans, opvars
<1>1. /\ mode = "run"
      /\ \A q \in Procs : pc[q] \notin Inside \cup {"write_log", "committed"}
      /\ \A q \in Procs : held[q] = NoBlock
  BY Zenon DEF PlacesInv, BuffersInv, HeldInv, Inside, Committing
<1>0. PICK b : b = lh[tail + 1]
  BY Zenon
<1>2. b \in Blocks /\ tail + 1 \in Slots /\ tail + 1 \in 1 .. Len(lh) /\ tail \in Nat
  BY <1>0 DEF TypeOK, HeadersInv, Slots
<1>3. Pending(b) /\ pin[b] = 1
  <2>1. Pending(b)
    BY ONLY <1>0, <1>1, <1>2 DEF Pending
  <2>2. PinsMatchLog
    BY Zenon DEF BuffersInv
  <2> QED BY ONLY <1>2, <2>1, <2>2 DEF PinsMatchLog
<1>4. dlog[tail + 1] \in Values /\ cache[b] = dlog[tail + 1]
  BY <1>0, <1>2 DEF TypeOK, BuffersInv, LoopsInv
<1>5. cache' = cache
  BY <1>0, <1>2, <1>4, Zenon DEF TypeOK
<1>6. /\ pin' = [pin EXCEPT ![b] = @ - 1] /\ pin' \in [Blocks -> Nat]
      /\ disk' = [disk EXCEPT ![b] = dlog[tail + 1]]
  BY <1>0, <1>2, <1>3 DEF TypeOK, Unpinned
<1>7. TypeOK'
  <2>0. disk \in [Blocks -> Values]
    BY Zenon DEF TypeOK
  <2>1. disk' \in [Blocks -> Values]
    BY ONLY <1>2, <1>4, <1>6, <2>0
  <2>2. tail' \in Nat
    BY <1>2
  <2> QED BY <1>5, <1>6, <2>1, <2>2, ZenonT(30) DEF TypeOK
<1>8. PlacesInv'
  BY Zenon DEF PlacesInv, Active
<1>9. HeadersInv'
  BY <1>1, <1>2 DEF HeadersInv
<1>10. \A c \in Blocks : Pending(c)' <=> Pending(c) /\ c # b
  BY <1>0, <1>1, <1>2 DEF Pending, HeadersInv, NoDup
<1>11. PinsMatchLog'
  <2>1. \A c \in Blocks : pin'[c] = IF c = b THEN 0 ELSE pin[c]
    <3>1. pin \in [Blocks -> Nat]
      BY Zenon DEF TypeOK
    <3> QED BY ONLY <1>2, <1>3, <1>6, <3>1
  <2> QED BY <1>2, <1>3, <1>10, <2>1, ZenonT(30) DEF BuffersInv, PinsMatchLog
<1>12. \A i \in 1 .. tail' : disk'[lh'[i]] = dlog'[i]
  <2> SUFFICES ASSUME NEW i \in 1 .. tail + 1 PROVE disk'[lh[i]] = dlog[i]
    BY Zenon
  <2>1. lh[i] \in Blocks
    BY <1>2 DEF TypeOK
  <2>2. CASE i = tail + 1
    BY <1>0, <1>2, <1>6, <2>2, ZenonT(30) DEF TypeOK
  <2>3. CASE i # tail + 1
    <3>1. i \in 1 .. tail /\ lh[i] # b
      BY <1>0, <1>2, <2>3 DEF HeadersInv, NoDup
    <3> QED BY <1>2, <1>6, <2>1, <3>1, ZenonT(30) DEF TypeOK, BuffersInv, LoopsInv
  <2> QED BY <2>2, <2>3, Zenon
<1>13. \A c \in Blocks : ~Pending(c)' => cache[c] \in {NoData, disk'[c]}
  <2>1. \A c \in Blocks : disk'[c] = IF c = b THEN cache[b] ELSE disk[c]
    BY <1>2, <1>4, <1>6, ZenonT(30) DEF TypeOK
  <2>2. \A c \in Blocks : ~Pending(c) => cache[c] \in {NoData, disk[c]}
    BY <1>1, LogAssumption, Zenon DEF BuffersInv, CopiesInv
  <2> QED BY <1>10, <2>1, <2>2, Zenon
<1>14. /\ UNCHANGED <<pc, held, lh, dlog, mode>> /\ pc[p] = "install" /\ tail' = tail + 1
       /\ \A q \in Procs : held[q] = NoBlock /\ pc[q] \notin {"modified", "write_log"}
       /\ \A i \in 1 .. Len(lh) : i > tail => cache[lh[i]] = dlog[i]
       /\ \A c \in Blocks : Pending(c) => cache[c] # NoData
  BY <1>1, Zenon DEF BuffersInv, LoopsInv, CopiesInv, Inside
<1>15. \A i \in 1 .. Len(lh') : i > tail' => cache'[lh'[i]] = dlog'[i]
  BY ONLY <1>2, <1>5, <1>14
<1>16. \A c \in Blocks : Pending(c)' => cache'[c] # NoData
  BY ONLY <1>5, <1>10, <1>14
<1>17. BuffersInv'
  BY ONLY <1>5, <1>11, <1>12, <1>13, <1>14, <1>15, <1>16 DEF BuffersInv, HeldInv, CopiesInv, LoopsInv
<1> QED BY <1>7, <1>8, <1>9, <1>17, Zenon

\* The invariant is preserved by the erasure of the header.
LEMMA ClearInv ==
  ASSUME LogInv, NEW p \in Procs, clear_log(p)
  PROVE  LogInv'
<1> USE LogAssumption DEF LogInv, clear_log
<1>1. /\ mode = "run"
      /\ \A q \in Procs \ {p} : pc[q] \notin Inside \cup Committing
      /\ \A q \in Procs : held[q] = NoBlock
  BY Zenon DEF PlacesInv, BuffersInv, HeldInv, Inside, Committing
<1>2. /\ \A q \in Procs \ {p} : pc'[q] = pc[q]
      /\ pc'[p] = "committed" /\ pc' \in [Procs -> {"idle", "begin", "sleep"} \cup Inside \cup Committing]
  BY Zenon DEF TypeOK, Committing
<1>3. Active' = Active
  BY <1>2, Zenon DEF Active, Inside
<1>4. lh' \in Seq(Blocks) /\ dhead' \in Seq(Blocks) /\ Len(lh') = 0 /\ Len(dhead') = 0
  OBVIOUS
<1>5. TypeOK'
  BY <1>2, <1>4, Zenon DEF TypeOK
<1>6. PlacesInv'
  BY <1>1, <1>2, <1>3 DEF PlacesInv, Inside, Committing
<1>7. tail = Len(lh) /\ Len(lh) \in Nat
  BY DEF HeadersInv, Installed, TypeOK
<1>8. HeadersInv'
  BY <1>1, <1>2, <1>4 DEF HeadersInv, NoDup, Inside, Committing
<1>9. \A c \in Blocks : ~Pending(c) /\ ~Pending(c)'
  BY <1>1, <1>2, <1>4, <1>7 DEF Pending, Committing
<1>10. BuffersInv'
  <2>1. HeldInv'
    BY <1>1, <1>2, <1>9, Zenon DEF BuffersInv, HeldInv, PlacesInv, Committing
  <2>2. PinsMatchLog'
    BY <1>1, <1>2, <1>9, Zenon DEF BuffersInv, PinsMatchLog, PlacesInv, Committing
  <2>3. CopiesInv'
    BY <1>1, <1>2, <1>9, Zenon DEF BuffersInv, CopiesInv, PlacesInv, Committing
  <2>4. LoopsInv'
    BY <1>1, <1>2, <1>9 DEF BuffersInv, LoopsInv, PlacesInv, Committing
  <2> QED BY <2>1, <2>2, <2>3, <2>4, Zenon DEF BuffersInv
<1> QED BY <1>5, <1>6, <1>8, <1>10, Zenon

\* The invariant is preserved by the end of end_op.
LEMMA EndCommitInv ==
  ASSUME LogInv, NEW p \in Procs, end_commit(p)
  PROVE  LogInv'
<1> USE LogAssumption DEF LogInv, end_commit, diskvars
<1>1. /\ mode = "run"
      /\ \A q \in Procs \ {p} : pc[q] \notin Inside \cup Committing
      /\ \A q \in Procs : held[q] = NoBlock
  BY Zenon DEF PlacesInv, BuffersInv, HeldInv, Inside, Committing
<1>2. /\ \A q \in Procs \ {p} : pc'[q] = IF pc[q] = "sleep" THEN "begin" ELSE pc[q]
      /\ pc'[p] = "idle" /\ pc' \in [Procs -> {"idle", "begin", "sleep"} \cup Inside \cup Committing]
  BY Zenon DEF TypeOK, Woken, Committing
<1>3. Active' = Active
  BY <1>2, ZenonT(30) DEF Active, Inside
<1>4. TypeOK'
  <2>1. committing' \in BOOLEAN
    BY ZenonT(30)
  <2> QED BY <1>2, <2>1, ZenonT(30) DEF TypeOK
<1>5. PlacesInv'
  BY <1>1, <1>2, <1>3, ZenonT(30) DEF PlacesInv, Inside, Committing
<1>6. lh = <<>>
  BY <1>1, Zenon DEF HeadersInv, Inside, Committing
<1>7. HeadersInv'
  BY <1>1, <1>2, <1>6, ZenonT(30) DEF HeadersInv, Inside, Committing
<1>8. \A c \in Blocks : Pending(c)' <=> Pending(c)
  BY <1>1, <1>2, ZenonT(30) DEF Pending, Committing
<1>9. \A q \in Procs : pc'[q] \notin Committing \cup Inside
  BY <1>1, <1>2, ZenonT(30) DEF Inside, Committing
<1>10. BuffersInv'
  <2>1. HeldInv'
    BY <1>1, <1>8, <1>9, ZenonT(30) DEF BuffersInv, HeldInv, Inside, Committing
  <2>2. PinsMatchLog'
    BY <1>1, <1>8, <1>9, Zenon DEF BuffersInv, PinsMatchLog, Inside, Committing
  <2>3. CopiesInv'
    BY <1>1, <1>8, <1>9, Zenon DEF BuffersInv, CopiesInv, Inside, Committing
  <2>4. LoopsInv'
    BY <1>1, <1>8, <1>9, ZenonT(30) DEF BuffersInv, LoopsInv, Inside, Committing
  <2> QED BY <2>1, <2>2, <2>3, <2>4, Zenon DEF BuffersInv
<1> QED BY <1>4, <1>5, <1>7, <1>10, Zenon

\* The invariant is preserved by bget and bread.
LEMMA RecycleInv ==
  ASSUME LogInv, NEW b \in Blocks, bget_recycle(b) \/ bread_miss(b)
  PROVE  LogInv'
<1> USE LogAssumption DEF LogInv, bget_recycle, bread_miss, opvars, diskvars
<1>1. \A c \in Blocks : cache'[c] = IF c = b THEN cache'[b] ELSE cache[c]
  BY Zenon DEF TypeOK
<1>2. cache' \in [Blocks -> Values \cup {NoData}] /\ cache'[b] \in {NoData, disk[b]}
  BY ZenonT(30) DEF TypeOK
<1>3. TypeOK'
  BY <1>2, Zenon DEF TypeOK
<1>4. PlacesInv' /\ HeadersInv'
  <2>1. PlacesInv'
    BY DEF PlacesInv, Active
  <2>2. HeadersInv'
    BY Zenon DEF HeadersInv
  <2> QED BY <2>1, <2>2, Zenon
<1>5. \A c \in Blocks : Pending(c)' <=> Pending(c)
  BY Zenon DEF Pending
<1>6. ~Pending(b) /\ \A q \in Procs : held[q] # b
  <2>1. CASE bget_recycle(b)
    <3>1. pin[b] = 0 /\ (\A q \in Procs : held[q] # b) /\ PinsMatchLog
      BY <2>1, Zenon DEF BuffersInv
    <3> QED BY ONLY <3>1, b \in Blocks DEF PinsMatchLog
  <2>2. CASE bread_miss(b)
    BY <2>2, Zenon DEF BuffersInv, CopiesInv, HeldInv
  <2> QED BY <2>1, <2>2, Zenon
<1>7. \A i \in 1 .. Len(lh) : ~(\E q \in Procs : pc[q] = "install") => lh[i] # b \/ mode # "run"
  BY <1>6, Zenon DEF Pending
<1>8. \A i \in 1 .. Len(lh) : i > tail => lh[i] # b \/ mode # "run"
  BY <1>6, Zenon DEF Pending
<1>9. \A i \in 1 .. Len(lh) : lh[i] \in Blocks
  BY DEF TypeOK
<1>10. (\E q \in Procs : pc[q] = "write_log") => \A i \in 1 .. tail : dlog[i] = cache'[lh[i]]
  <2> SUFFICES ASSUME NEW q \in Procs, pc[q] = "write_log", NEW i \in 1 .. tail
               PROVE  dlog[i] = cache'[lh[i]]
    BY Zenon
  <2>1. i \in 1 .. Len(lh) /\ mode = "run" /\ ~(\E r \in Procs : pc[r] = "install")
    BY DEF HeadersInv, TypeOK, PlacesInv, Committing
  <2>2. lh[i] # b /\ lh[i] \in Blocks
    BY <1>7, <1>9, <2>1, Zenon
  <2>3. dlog[i] = cache[lh[i]]
    BY Zenon DEF BuffersInv, LoopsInv
  <2> QED BY ONLY <1>1, <2>2, <2>3
<1>11. (\E q \in Procs : pc[q] = "install") =>
         \A i \in 1 .. Len(lh) : i > tail => cache'[lh[i]] = dlog[i]
  <2> SUFFICES ASSUME NEW q \in Procs, pc[q] = "install", NEW i \in 1 .. Len(lh), i > tail
               PROVE  cache'[lh[i]] = dlog[i]
    BY Zenon
  <2>1. lh[i] # b /\ lh[i] \in Blocks
    BY <1>8, <1>9, Zenon DEF PlacesInv
  <2>2. cache[lh[i]] = dlog[i]
    BY Zenon DEF BuffersInv, LoopsInv
  <2> QED BY ONLY <1>1, <2>1, <2>2
<1>12. \A q \in Procs : pc[q] = "modified" => cache'[held[q]] # NoData
  BY <1>1, <1>6 DEF BuffersInv, HeldInv, TypeOK
<1>13. \A c \in Blocks : Pending(c) => cache'[c] # NoData
  BY <1>1, <1>6, Zenon DEF BuffersInv, CopiesInv
<1>14. \A c \in Blocks : ~Pending(c) /\ (\A q \in Procs : held[q] # c) => cache'[c] \in {NoData, disk[c]}
  BY <1>1, <1>2, Zenon DEF BuffersInv, CopiesInv
<1>15. BuffersInv'
  <2>1. HeldInv'
    BY <1>5, <1>10, <1>11, <1>12, <1>13, <1>14 DEF BuffersInv, HeldInv
  <2>2. PinsMatchLog'
    BY <1>5, <1>10, <1>11, <1>12, <1>13, <1>14, Zenon DEF BuffersInv, PinsMatchLog
  <2>3. CopiesInv'
    BY <1>5, <1>10, <1>11, <1>12, <1>13, <1>14 DEF BuffersInv, CopiesInv
  <2>4. LoopsInv'
    BY <1>5, <1>10, <1>11, <1>12, <1>13, <1>14 DEF BuffersInv, LoopsInv
  <2> QED BY <2>1, <2>2, <2>3, <2>4, Zenon DEF BuffersInv
<1> QED BY <1>3, <1>4, <1>15, Zenon

\* The invariant is preserved by a crash.
LEMMA CrashInv ==
  ASSUME LogInv, Crash
  PROVE  LogInv'
<1> USE LogAssumption DEF LogInv, Crash
<1>1. /\ pc' = [q \in Procs |-> "idle"] /\ held' = [q \in Procs |-> NoBlock]
      /\ cache' = [c \in Blocks |-> NoData] /\ pin' = [c \in Blocks |-> 0]
      /\ lh' = <<>> /\ mode' = "boot" /\ tail' = 0
  BY Zenon
<1>2. Active' = {}
  BY <1>1, Zenon DEF Active, Inside
<1>3. outstanding' = Cardinality(Active')
  BY <1>2, FS_EmptySet, Zenon
<1>4. disk' \in [Blocks -> Values] /\ dlog' \in [Slots -> Values]
  <2>1. disk \in [Blocks -> Values] /\ dlog \in [Slots -> Values]
    BY Zenon DEF TypeOK
  <2>2. \/ disk' = disk \/ \E c : \E v \in Values : disk' = [disk EXCEPT ![c] = v]
    BY ZenonT(30) DEF Torn
  <2>3. \/ dlog' = dlog \/ \E i : \E v \in Values : dlog' = [dlog EXCEPT ![i] = v]
    BY ZenonT(30) DEF Torn
  <2> QED BY ONLY <2>1, <2>2, <2>3
<1>5. TypeOK'
  <2>1. committing' \in BOOLEAN
    BY ZenonT(30)
  <2>2. lh' \in Seq(Blocks)
    OBVIOUS
  <2>3. wrote' \in [Procs -> SUBSET Blocks]
    BY Zenon
  <2> QED BY <1>3, <1>4, <2>1, <2>2, <2>3, ActiveFiniteNext DEF TypeOK
<1>6. PlacesInv'
  BY <1>3, Zenon DEF PlacesInv, Committing, Inside
<1>7. HeadersInv'
  BY DEF HeadersInv, NoDup
<1>8. BuffersInv'
  <2>1. HeldInv'
    BY <1>1, Zenon DEF BuffersInv, HeldInv, Pending
  <2>2. PinsMatchLog'
    BY <1>1, Zenon DEF BuffersInv, PinsMatchLog, Pending
  <2>3. CopiesInv'
    BY <1>1, Zenon DEF BuffersInv, CopiesInv, Pending
  <2>4. LoopsInv'
    BY <1>1, Zenon DEF BuffersInv, LoopsInv, Pending
  <2> QED BY <2>1, <2>2, <2>3, <2>4, Zenon DEF BuffersInv
<1> QED BY <1>5, <1>6, <1>7, <1>8, Zenon

\* The invariant is preserved by read_head.
LEMMA ReadHeadInv ==
  ASSUME LogInv, read_head
  PROVE  LogInv'
<1> USE LogAssumption DEF LogInv, read_head, opvars, diskvars
<1>1. TypeOK'
  BY Zenon DEF TypeOK
<1>2. PlacesInv'
  BY Zenon DEF PlacesInv, Active
<1>3. HeadersInv'
  BY DEF HeadersInv, PlacesInv, TypeOK
<1>4. BuffersInv'
  <2>1. HeldInv'
    BY Zenon DEF BuffersInv, HeldInv, Pending, PlacesInv
  <2>2. PinsMatchLog'
    BY Zenon DEF BuffersInv, PinsMatchLog, Pending, PlacesInv
  <2>3. CopiesInv'
    BY Zenon DEF BuffersInv, CopiesInv, Pending, PlacesInv
  <2>4. LoopsInv'
    BY DEF BuffersInv, LoopsInv, Pending, PlacesInv
  <2> QED BY <2>1, <2>2, <2>3, <2>4, Zenon DEF BuffersInv
<1> QED BY <1>1, <1>2, <1>3, <1>4, Zenon

\* The invariant is preserved by a turn of install_trans in recovery.
LEMMA RecoverInstallInv ==
  ASSUME LogInv, recover_install
  PROVE  LogInv'
<1> USE LogAssumption DEF LogInv, recover_install, install_trans, opvars
<1>0. PICK b : b = lh[tail + 1]
  BY Zenon
<1>1. (\A q \in Procs : pc[q] = "idle") /\ mode' = "recover"
  BY Zenon DEF PlacesInv
<1>2. b \in Blocks /\ tail + 1 \in Slots /\ tail + 1 \in 1 .. Len(lh) /\ tail \in Nat
  BY <1>0 DEF TypeOK, HeadersInv, Slots
<1>3. dlog[tail + 1] \in Values
  BY <1>2, Zenon DEF TypeOK
<1>4. /\ cache' = [cache EXCEPT ![b] = dlog[tail + 1]] /\ pin' = pin
      /\ disk' = [disk EXCEPT ![b] = dlog[tail + 1]]
  BY <1>0, Zenon DEF Unpinned
<1>5. cache \in [Blocks -> Values \cup {NoData}] /\ disk \in [Blocks -> Values]
  BY Zenon DEF TypeOK
<1>6. cache' \in [Blocks -> Values \cup {NoData}] /\ disk' \in [Blocks -> Values]
  BY ONLY <1>2, <1>3, <1>4, <1>5
<1>7. TypeOK'
  <2>1. tail' \in Nat
    BY <1>2
  <2>2. TypeOK /\ UNCHANGED <<outstanding, committing, pc, held, wrote, lh, mode, crashes, dlog, dhead>>
    BY Zenon
  <2> QED BY ONLY <1>4, <1>6, <2>1, <2>2 DEF TypeOK
<1>8. PlacesInv'
  BY Zenon DEF PlacesInv, Active
<1>9. HeadersInv'
  BY <1>1, <1>2 DEF HeadersInv
<1>10. \A c \in Blocks : ~Pending(c) /\ ~Pending(c)'
  BY <1>1, Zenon DEF Pending
<1>11. \A c \in Blocks : cache[c] \in {NoData, disk[c]}
  BY <1>1, <1>10, Zenon DEF BuffersInv, CopiesInv, HeldInv
<1>12. \A c \in Blocks : cache'[c] \in {NoData, disk'[c]}
  BY ONLY <1>2, <1>4, <1>5, <1>11
<1>13. \A i \in 1 .. tail + 1 : disk'[lh[i]] = dlog[i]
  <2> SUFFICES ASSUME NEW i \in 1 .. tail + 1 PROVE disk'[lh[i]] = dlog[i]
    BY Zenon
  <2>1. lh[i] \in Blocks
    BY <1>2 DEF TypeOK
  <2>2. i \in 1 .. tail => disk[lh[i]] = dlog[i]
    BY Zenon DEF BuffersInv, LoopsInv
  <2>3. i \in 1 .. tail => lh[i] # b
    BY <1>0, <1>2 DEF HeadersInv, NoDup
  <2> QED BY ONLY <1>0, <1>2, <1>4, <1>5, <2>1, <2>2, <2>3
<1>14. BuffersInv'
  <2>1. HeldInv'
    BY <1>1, <1>4, <1>10, <1>12, <1>13, Zenon DEF BuffersInv, HeldInv
  <2>2. PinsMatchLog'
    BY <1>1, <1>4, <1>10, <1>12, <1>13, ZenonT(30) DEF BuffersInv, PinsMatchLog
  <2>3. CopiesInv'
    BY <1>1, <1>4, <1>10, <1>12, <1>13, Zenon DEF BuffersInv, CopiesInv
  <2>4. LoopsInv'
    BY <1>1, <1>4, <1>10, <1>12, <1>13, Zenon DEF BuffersInv, LoopsInv
  <2> QED BY <2>1, <2>2, <2>3, <2>4, Zenon DEF BuffersInv
<1> QED BY <1>7, <1>8, <1>9, <1>14, Zenon

\* The invariant is preserved by the end of recovery.
LEMMA RecoverClearInv ==
  ASSUME LogInv, recover_clear
  PROVE  LogInv'
<1> USE LogAssumption DEF LogInv, recover_clear, opvars
<1>1. lh' \in Seq(Blocks) /\ dhead' \in Seq(Blocks) /\ Len(lh') = 0 /\ Len(dhead') = 0
  OBVIOUS
<1>2. \A q \in Procs : pc[q] = "idle"
  BY Zenon DEF PlacesInv
<1>3. TypeOK'
  BY <1>1, Zenon DEF TypeOK
<1>4. PlacesInv'
  BY <1>2, Zenon DEF PlacesInv, Active
<1>5. HeadersInv'
  BY <1>1, <1>2 DEF HeadersInv, NoDup
<1>6. \A c \in Blocks : ~Pending(c) /\ ~Pending(c)'
  BY <1>1 DEF Pending
<1>7. BuffersInv'
  <2>1. HeldInv'
    BY <1>2, <1>6, Zenon DEF BuffersInv, HeldInv
  <2>2. PinsMatchLog'
    BY <1>2, <1>6, Zenon DEF BuffersInv, PinsMatchLog
  <2>3. CopiesInv'
    BY <1>2, <1>6, Zenon DEF BuffersInv, CopiesInv
  <2>4. LoopsInv'
    BY <1>2, <1>6, Zenon DEF BuffersInv, LoopsInv
  <2> QED BY <2>1, <2>2, <2>3, <2>4, Zenon DEF BuffersInv
<1> QED BY <1>3, <1>4, <1>5, <1>7, Zenon
-----------------------------------------------------------------------------
\* Every step of the log preserves the invariant.
LEMMA NextInv == LogInv /\ [Next]_vars => LogInv'
<1> SUFFICES ASSUME LogInv, [Next]_vars PROVE LogInv'
  BY Zenon
<1>1. CASE UNCHANGED vars
  <2> USE <1>1 DEF vars, LogInv
  <2>1. TypeOK'
    BY Zenon DEF TypeOK
  <2>2. PlacesInv'
    BY Zenon DEF PlacesInv, Active
  <2>3. HeadersInv'
    BY Zenon DEF HeadersInv
  <2>4. BuffersInv'
    <3>1. \A c \in Blocks : Pending(c)' <=> Pending(c)
      BY Zenon DEF Pending
    <3>2. HeldInv'
      BY Zenon DEF BuffersInv, HeldInv
    <3>3. PinsMatchLog' /\ CopiesInv'
      BY <3>1, Zenon DEF BuffersInv, PinsMatchLog, CopiesInv
    <3>4. LoopsInv'
      BY Zenon DEF BuffersInv, LoopsInv
    <3> QED BY <3>2, <3>3, <3>4, Zenon DEF BuffersInv
  <2> QED BY <2>1, <2>2, <2>3, <2>4, Zenon
<1>2. CASE Next
  BY <1>2, BeginInv, ModifyInv, LogWriteInv, EndInv, WriteLogInv, WriteHeadInv, InstallInv,
     ClearInv, EndCommitInv, RecycleInv, CrashInv, ReadHeadInv, RecoverInstallInv, RecoverClearInv, Zenon
     DEF Next, Commit, recover_from_log
<1> QED BY <1>1, <1>2, Zenon

\* Type correctness and the invariant of the log hold in every reachable state
\* of log.c, whatever the number of processes, blocks and crashes.
THEOREM LogInvariant == Spec => []LogInv
BY InitInv, NextInv, PTL DEF Spec

\* A commit runs alone: while a process is in commit() no operation is under
\* way, no other process commits, and log.committing keeps the others out.
THEOREM CommitRunsAlone == Spec => []CommitAlone
<1>1. LogInv => CommitAlone
  BY Zenon DEF LogInv, PlacesInv, CommitAlone
<1> QED BY <1>1, LogInvariant, PTL

\* When the last end_op() is about to return, the disk holds what memory holds.
THEOREM CommittedDurable == Spec => []CommittedIsDurable
<1>1. LogInv => CommittedIsDurable
  <2> SUFFICES ASSUME LogInv, NEW p \in Procs, pc[p] = "committed"
               PROVE  dhead = <<>> /\ \A b \in Blocks : Bread(b) = disk[b]
    BY Zenon DEF CommittedIsDurable
  <2>1. /\ mode = "run" /\ \A q \in Procs \ {p} : pc[q] \notin Inside \cup Committing
        /\ \A q \in Procs : held[q] = NoBlock
    BY Zenon DEF LogInv, PlacesInv, BuffersInv, HeldInv, Inside, Committing
  <2>2. lh = <<>> /\ dhead = <<>> /\ Len(lh) = 0
    BY <2>1, Zenon DEF LogInv, HeadersInv, Inside, Committing
  <2>3. \A b \in Blocks : ~Pending(b)
    BY <2>2 DEF Pending
  <2>4. \A b \in Blocks : cache[b] \in {NoData, disk[b]}
    BY <2>1, <2>3, LogAssumption DEF LogInv, BuffersInv, HeldInv, PinsMatchLog, CopiesInv, LoopsInv
  <2> QED BY <2>2, <2>4, Zenon DEF Bread
<1> QED BY <1>1, LogInvariant, PTL

\* No process sleeps in begin_op() while nobody is left to wake it.
THEOREM SleepersHaveWakers == Spec => []SleeperHasWaker
<1>1. Init => SleeperHasWaker
  BY Zenon DEF Init, SleeperHasWaker
<1>2. ASSUME LogInv, LogInv', SleeperHasWaker, [Next]_vars
      PROVE  SleeperHasWaker'
  <2>0. pc \in [Procs -> {"idle", "begin", "sleep"} \cup Inside \cup Committing]
    BY <1>2, Zenon DEF LogInv, TypeOK
  <2>1. ASSUME NEW p \in Procs, begin_op(p) PROVE SleeperHasWaker'
    <3>1. \A q \in Procs : pc[q] \in Inside \cup Committing => pc'[q] = pc[q]
      BY <2>0, <2>1, Zenon DEF begin_op, Inside, Committing
    <3>2. CASE ~MustWait
      BY <2>0, <2>1, <3>2, Zenon DEF begin_op, SleeperHasWaker, Inside
    <3>3. CASE committing
      BY <1>2, <3>1, <3>3, Zenon DEF LogInv, PlacesInv, SleeperHasWaker
    <3>4. CASE ~committing /\ Len(lh) + (outstanding + 1) * MAXOPBLOCKS > LOGSIZE
      <4>1. mode = "run"
        BY <2>1, Zenon DEF begin_op
      <4>2. CASE outstanding = 0
        <5>1. Len(lh) # 0
          BY <3>4, <4>2, LogAssumption DEF LogInv, TypeOK
        <5>2. \E q \in Procs : pc[q] \in Inside \cup {"write_log", "install"}
          BY <1>2, <4>1, <5>1 DEF LogInv, HeadersInv
        <5> QED BY <3>1, <5>2, Zenon DEF SleeperHasWaker, Committing
      <4>3. CASE outstanding # 0
        <5>1. Active # {}
          BY <1>2, <4>3, FS_EmptySet, Zenon DEF LogInv, PlacesInv
        <5> QED BY <3>1, <5>1, Zenon DEF Active, SleeperHasWaker
      <4> QED BY <4>2, <4>3, Zenon
    <3> QED BY <3>2, <3>3, <3>4, Zenon DEF MustWait
  <2>2. ASSUME NEW p \in Procs, end_op(p) PROVE SleeperHasWaker'
    <3>1. CASE LastOut
      BY <2>0, <2>2, <3>1, Zenon DEF end_op, SleeperHasWaker, Committing
    <3>2. CASE ~LastOut
      BY <2>0, <2>2, <3>2, Zenon DEF end_op, SleeperHasWaker, Woken
    <3> QED BY <3>1, <3>2, Zenon
  <2>3. ASSUME NEW p \in Procs, end_commit(p) PROVE SleeperHasWaker'
    BY <2>0, <2>3, Zenon DEF end_commit, SleeperHasWaker, Woken
  <2>4. ASSUME NEW p \in Procs, pc[p] \in Inside \cup Committing, NEW l \in Inside \cup Committing,
               pc' = [pc EXCEPT ![p] = l]
        PROVE  SleeperHasWaker'
    BY <2>0, <2>4, Zenon DEF SleeperHasWaker
  <2>5. ASSUME NEW p \in Procs,
               \/ \E b \in Blocks, v \in Values : modify(p, b, v)
               \/ log_write(p)
        PROVE  SleeperHasWaker'
    BY <2>4, <2>5, ZenonT(30) DEF modify, log_write, Inside
  <2>6. ASSUME NEW p \in Procs, write_head(p) \/ clear_log(p) PROVE SleeperHasWaker'
    BY <2>4, <2>6, Zenon DEF write_head, clear_log, Committing
  <2>7. ASSUME pc' = pc PROVE SleeperHasWaker'
    BY <1>2, <2>7, Zenon DEF SleeperHasWaker
  <2>8. CASE \/ \E p \in Procs : write_log(p) \/ install(p)
             \/ \E b \in Blocks : bget_recycle(b) \/ bread_miss(b)
             \/ recover_from_log
             \/ UNCHANGED vars
    BY <2>7, <2>8, ZenonT(30) DEF write_log, install, install_trans, bget_recycle, bread_miss, recover_from_log,
                      read_head, recover_install, recover_clear, vars, opvars
  <2>9. CASE Crash
    BY <2>9, Zenon DEF Crash, SleeperHasWaker
  <2> QED
    BY <1>2, <2>1, <2>2, <2>3, <2>5, <2>6, <2>8, <2>9, Zenon DEF Next, Commit
<1> QED BY <1>1, <1>2, LogInvariant, PTL DEF Spec
=============================================================================
