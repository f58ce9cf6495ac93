---------------------------- MODULE LogTheorems -----------------------------
(***************************************************************************)
(* The log implements AtomicOps: under the mapping of Log every step of    *)
(* log.c is a step of the atomic specification or changes nothing there.   *)
(*                                                                         *)
(* The reservation that begin_op() makes keeps log_write() away from its   *)
(* panic, for every size of the log that satisfies LogFits.                *)
(***************************************************************************)
EXTENDS LogProofs

\* Time for the provers.
USE SMTT(30), ZenonT(30)

\* What recovery would give, block by block: the logged copy of a block that
\* the header on disk names, the home copy of any other.
RecoveredFacts ==
  /\ Recovered \in [Blocks -> Values]
  /\ \A i \in 1 .. Len(dhead) : dhead[i] \in Blocks /\ Recovered[dhead[i]] = dlog[i]
  /\ \A b \in Blocks : (\A i \in 1 .. Len(dhead) : dhead[i] # b) => Recovered[b] = disk[b]

\* They follow from the invariant, because a header names a block only once.
LEMMA RecoveredIs == LogInv => RecoveredFacts
<1> SUFFICES ASSUME LogInv PROVE RecoveredFacts
  BY Zenon
<1> USE LogAssumption DEF LogInv
<1>1. \A i \in 1 .. Len(dhead) : dhead[i] \in Blocks /\ i \in Slots /\ dlog[i] \in Values
  BY DEF TypeOK, HeadersInv, Slots
<1>2. \A i \in 1 .. Len(dhead) : (CHOOSE j \in 1 .. Len(dhead) : dhead[j] = dhead[i]) = i
  BY Zenon DEF HeadersInv, NoDup
<1>3. \A b \in Blocks : b \in Logged(dhead) =>
        \E i \in 1 .. Len(dhead) : dhead[i] = b /\ Recovered[b] = dlog[i]
  <2> SUFFICES ASSUME NEW i \in 1 .. Len(dhead), dhead[i] \in Blocks
               PROVE  Recovered[dhead[i]] = dlog[i]
    BY Zenon DEF Logged
  <2>1. dhead[i] \in Logged(dhead)
    BY Zenon DEF Logged
  <2> QED BY <1>2, <2>1, ZenonT(30) DEF Recovered
<1>4. \A b \in Blocks : b \notin Logged(dhead) => Recovered[b] = disk[b]
  BY Zenon DEF Recovered
<1>5. \A i \in 1 .. Len(dhead) : Recovered[dhead[i]] = dlog[i]
  BY <1>1, <1>2, <1>3 DEF HeadersInv, NoDup, Logged
<1>6. \A b \in Blocks : Recovered[b] \in Values
  BY <1>1, <1>3, <1>4, ZenonT(30) DEF TypeOK
<1>7. Recovered = [b \in Blocks |-> Recovered[b]]
  BY DEF Recovered
<1> QED BY <1>1, <1>4, <1>5, <1>6, <1>7, Zenon DEF Logged, RecoveredFacts

\* The same after a step.
LEMMA RecoveredIsNext == LogInv' => RecoveredFacts'
BY RecoveredIs, PTL

\* Two states with the same header on disk and the same logged and other home
\* blocks are recovered alike.
LEMMA SameRecovered ==
  ASSUME LogInv, LogInv', dhead' = dhead,
         \A i \in 1 .. Len(dhead) : dlog'[i] = dlog[i],
         \A b \in Blocks : (\A i \in 1 .. Len(dhead) : dhead[i] # b) => disk'[b] = disk[b]
  PROVE  Recovered' = Recovered
<1>1. RecoveredFacts /\ RecoveredFacts'
  BY RecoveredIs, RecoveredIsNext, Zenon
<1>2. \A b \in Blocks : Recovered'[b] = Recovered[b]
  <2> TAKE b \in Blocks
  <2>1. CASE \E i \in 1 .. Len(dhead) : dhead[i] = b
    BY <1>1, <2>1 DEF RecoveredFacts
  <2>2. CASE \A i \in 1 .. Len(dhead) : dhead[i] # b
    BY <1>1, <2>2, Zenon DEF RecoveredFacts
  <2> QED BY <2>1, <2>2, Zenon
<1> QED BY <1>1, <1>2 DEF RecoveredFacts

\* While the system runs and no block is being installed, recovery would give
\* the home blocks.
LEMMA RecoveredHome ==
  ASSUME LogInv, mode = "run", \A p \in Procs : pc[p] # "install"
  PROVE  Recovered = disk
<1>1. dhead = <<>> /\ Len(dhead) = 0
  BY Zenon DEF LogInv, HeadersInv
<1>2. RecoveredFacts
  BY RecoveredIs, Zenon
<1> QED BY <1>1, <1>2 DEF RecoveredFacts, LogInv, TypeOK

\* The machine starts in a state of the atomic specification.
LEMMA InitRefines == Init => Abs!Init
<1> SUFFICES ASSUME Init PROVE Abs!Init
  OBVIOUS
<1>1. LogInv
  BY InitInv, Zenon
<1>2. Recovered \in [Blocks -> Values]
  BY <1>1, RecoveredIs, Zenon DEF RecoveredFacts
<1>3. Memory = Recovered
  BY Zenon DEF Memory, Init
<1>4. Active = {}
  BY Zenon DEF Init, Active, Inside
<1> QED BY <1>2, <1>3, <1>4, Zenon DEF Abs!Init
-----------------------------------------------------------------------------
(* Every step of Log is a step of AtomicOps or leaves its variables alone.  *)

\* begin_op: an operation begins, or the process goes to sleep.
LEMMA BeginRefines ==
  ASSUME LogInv, LogInv', NEW p \in Procs, begin_op(p)
  PROVE  Abs!Begin(p) \/ UNCHANGED Abs!vars
<1> USE DEF begin_op, diskvars
<1>1. Recovered' = Recovered /\ Memory' = Memory
  BY DEF Recovered, Memory, Bread, Logged
<1>2. pc \in [Procs -> {"idle", "begin", "sleep"} \cup Inside \cup Committing]
  BY Zenon DEF LogInv, TypeOK
<1>3. CASE MustWait
  <2>1. Active' = Active
    BY <1>2, <1>3, Zenon DEF Active, Inside
  <2> QED BY <1>1, <2>1, Zenon DEF Abs!vars
<1>4. CASE ~MustWait
  <2>1. p \notin Active /\ Active' = Active \cup {p}
    BY <1>2, <1>4, Zenon DEF Active, Inside
  <2> QED BY <1>1, <2>1, Zenon DEF Abs!Begin
<1> QED BY <1>3, <1>4, Zenon

\* A block changed in the cache is a write of the running operation.
LEMMA ModifyRefines ==
  ASSUME LogInv, LogInv', NEW p \in Procs, NEW b \in Blocks, NEW v \in Values, modify(p, b, v)
  PROVE  Abs!Write(p, b, v)
<1> USE LogAssumption DEF modify, diskvars
<1>1. Recovered' = Recovered
  BY DEF Recovered, Logged
<1>2. pc \in [Procs -> {"idle", "begin", "sleep"} \cup Inside \cup Committing]
  BY Zenon DEF LogInv, TypeOK
<1>3. p \in Active /\ Active' = Active
  BY <1>2, Zenon DEF Active, Inside
<1>4. mode = "run" /\ mode' = "run"
  BY Zenon DEF LogInv, PlacesInv
<1>5. \A c \in Blocks : Bread(c)' = IF c = b THEN v ELSE Bread(c)
  BY Zenon DEF Bread, LogInv, TypeOK
<1>6. Memory' = [Memory EXCEPT ![b] = v]
  BY <1>4, <1>5, ZenonT(30) DEF Memory
<1> QED BY <1>1, <1>3, <1>6, Zenon DEF Abs!Write

\* log_write and the end of end_op change nothing that a system call sees.
LEMMA LogWriteRefines ==
  ASSUME LogInv, LogInv', NEW p \in Procs, log_write(p) \/ end_commit(p)
  PROVE  UNCHANGED Abs!vars
<1> USE DEF log_write, end_commit, diskvars
<1>0. UNCHANGED <<cache, disk, dlog, dhead, mode>>
  BY Zenon
<1>1. Recovered' = Recovered /\ Memory' = Memory
  BY ONLY <1>0 DEF Recovered, Memory, Bread, Logged
<1>2. pc \in [Procs -> {"idle", "begin", "sleep"} \cup Inside \cup Committing]
  BY Zenon DEF LogInv, TypeOK
<1>3. Active' = Active
  BY <1>2, Zenon DEF Active, Inside, Woken
<1> QED BY <1>1, <1>3, Zenon DEF Abs!vars

\* end_op ends the operation.
LEMMA EndRefines ==
  ASSUME LogInv, LogInv', NEW p \in Procs, end_op(p)
  PROVE  Abs!End(p)
<1> USE DEF end_op, diskvars
<1>1. Recovered' = Recovered /\ Memory' = Memory
  BY DEF Recovered, Memory, Bread, Logged
<1>2. pc \in [Procs -> {"idle", "begin", "sleep"} \cup Inside \cup Committing]
  BY Zenon DEF LogInv, TypeOK
<1>3. p \in Active /\ Active' = Active \ {p}
  BY <1>2, Zenon DEF Active, Inside, Woken
<1> QED BY <1>1, <1>3, Zenon DEF Abs!End

\* Copying blocks to the log before the commit point changes nothing.
LEMMA WriteLogRefines ==
  ASSUME LogInv, LogInv', NEW p \in Procs, write_log(p)
  PROVE  UNCHANGED Abs!vars
<1> USE LogAssumption DEF write_log, opvars
<1>1. mode = "run" /\ mode' = "run" /\ \A q \in Procs : pc[q] # "install" /\ pc'[q] # "install"
  BY Zenon DEF LogInv, PlacesInv, Inside, Committing
<1>2. Recovered = disk /\ Recovered' = disk'
  <2>1. dhead' = <<>> /\ Len(dhead') = 0
    BY <1>1, Zenon DEF LogInv, HeadersInv
  <2>2. Recovered' = disk'
    BY <2>1, RecoveredIsNext DEF RecoveredFacts, LogInv, TypeOK
  <2> QED BY <1>1, <2>2, RecoveredHome, Zenon
<1>3. \A c \in Blocks : Bread(c)' = Bread(c)
  BY Zenon DEF Bread, LogInv, TypeOK, HeadersInv
<1>4. Memory' = Memory
  BY <1>1, <1>3, Zenon DEF Memory
<1>5. Active' = Active
  BY Zenon DEF Active
<1> QED BY <1>2, <1>4, <1>5, Zenon DEF Abs!vars

\* write_head is the commit: memory becomes durable in one step.
LEMMA WriteHeadRefines ==
  ASSUME LogInv, LogInv', NEW p \in Procs, write_head(p)
  PROVE  Abs!Commit
<1> USE LogAssumption DEF write_head
<1>1. /\ mode = "run" /\ mode' = "run" /\ \A q \in Procs : held[q] = NoBlock
      /\ \A q \in Procs : pc[q] \notin Inside \cup {"install"}
  BY Zenon DEF LogInv, PlacesInv, BuffersInv, HeldInv, Inside, Committing
<1>2. Active = {} /\ Active' = Active
  <2>1. pc \in [Procs -> {"idle", "begin", "sleep"} \cup Inside \cup Committing]
    BY Zenon DEF LogInv, TypeOK
  <2> QED BY <1>1, <2>1, Zenon DEF Active, Inside
<1>3. Memory' = Memory /\ Memory = [b \in Blocks |-> Bread(b)]
  BY <1>1, Zenon DEF Memory, Bread
<1>4. \A b \in Blocks : Recovered'[b] = Bread(b)
  <2> TAKE b \in Blocks
  <2>1. dhead' = lh /\ dlog' = dlog /\ disk' = disk /\ RecoveredFacts'
    BY RecoveredIsNext, Zenon
  <2>2. CASE \E i \in 1 .. Len(lh) : lh[i] = b
    <3>1. PICK i \in 1 .. Len(lh) : lh[i] = b
      BY <2>2, Zenon
    <3>2. Pending(b)
      BY <1>1, <3>1, Zenon DEF Pending
    <3>3. i \in 1 .. tail
      BY <3>1 DEF LogWritten, LogInv, TypeOK
    <3>4. dlog[i] = cache[b] /\ cache[b] # NoData
      BY <3>1, <3>2, <3>3, Zenon DEF LogInv, BuffersInv, HeldInv, PinsMatchLog, CopiesInv, LoopsInv
    <3> QED BY <2>1, <3>1, <3>4, Zenon DEF Bread, RecoveredFacts
  <2>3. CASE \A i \in 1 .. Len(lh) : lh[i] # b
    <3>1. ~Pending(b)
      BY <2>3, Zenon DEF Pending
    <3>2. Bread(b) = disk[b]
      BY <1>1, <3>1 DEF LogInv, BuffersInv, HeldInv, PinsMatchLog, CopiesInv, LoopsInv, Bread
    <3> QED BY <2>1, <2>3, <3>2, Zenon DEF RecoveredFacts
  <2> QED BY <2>2, <2>3, Zenon
<1>5. Recovered' = Memory
  BY <1>3, <1>4, RecoveredIsNext, Zenon DEF RecoveredFacts
<1> QED BY <1>2, <1>3, <1>5, Zenon DEF Abs!Commit

\* Installing a committed block changes neither what calls see nor what a
\* reboot would find.
LEMMA InstallRefines ==
  ASSUME LogInv, LogInv', NEW p \in Procs, install(p)
  PROVE  UNCHANGED Abs!vars
<1> USE LogAssumption DEF install, install_trans, opvars
<1>0. PICK b : b = lh[tail + 1]
  BY Zenon
<1>1. /\ mode = "run" /\ mode' = "run" /\ dhead = lh /\ dhead' = dhead /\ dlog' = dlog
      /\ tail + 1 \in 1 .. Len(lh) /\ b \in Blocks
  BY <1>0 DEF LogInv, PlacesInv, HeadersInv, TypeOK
<1>2. disk' = [disk EXCEPT ![b] = dlog[tail + 1]] /\ cache' = [cache EXCEPT ![b] = dlog[tail + 1]]
  BY <1>0, Zenon
<1>3. cache[b] = dlog[tail + 1] /\ cache[b] # NoData
  <2>1. Pending(b)
    BY <1>0, <1>1 DEF Pending, LogInv, TypeOK
  <2>2. cache[b] # NoData
    BY <1>1, <2>1, Zenon DEF LogInv, BuffersInv, CopiesInv
  <2>3. cache[b] = dlog[tail + 1]
    BY <1>0, <1>1 DEF LogInv, BuffersInv, LoopsInv, TypeOK
  <2> QED BY <2>2, <2>3, Zenon
<1>4. disk \in [Blocks -> Values] /\ cache \in [Blocks -> Values \cup {NoData}]
  BY Zenon DEF LogInv, TypeOK
<1>5. Recovered' = Recovered
  <2>1. \A c \in Blocks : (\A i \in 1 .. Len(dhead) : dhead[i] # c) => disk'[c] = disk[c]
    BY ONLY <1>0, <1>1, <1>2, <1>4
  <2> QED BY <1>1, <2>1, SameRecovered, Zenon
<1>6. \A c \in Blocks : Bread(c)' = Bread(c)
  <2>1. \A c \in Blocks : c # b => cache'[c] = cache[c] /\ disk'[c] = disk[c]
    BY ONLY <1>2, <1>4
  <2>2. cache'[b] = cache[b]
    BY ONLY <1>1, <1>2, <1>3, <1>4
  <2> QED BY ONLY <1>3, <2>1, <2>2 DEF Bread
<1>7. Memory' = Memory
  BY <1>1, <1>6, Zenon DEF Memory
<1>8. Active' = Active
  BY Zenon DEF Active
<1> QED BY <1>5, <1>7, <1>8, Zenon DEF Abs!vars
\* Erasing the header after the last block is home changes nothing.
LEMMA ClearRefines ==
  ASSUME LogInv, LogInv', NEW p \in Procs, clear_log(p)
  PROVE  UNCHANGED Abs!vars
<1> USE LogAssumption DEF clear_log
<1>1. mode = "run" /\ mode' = "run" /\ dhead = lh /\ tail = Len(lh)
  BY DEF LogInv, PlacesInv, HeadersInv, Installed, TypeOK
<1>2. \A i \in 1 .. Len(dhead) : disk[dhead[i]] = dlog[i]
  BY <1>1, Zenon DEF LogInv, BuffersInv, HeldInv, PinsMatchLog, CopiesInv, LoopsInv
<1>3. RecoveredFacts /\ RecoveredFacts'
  BY RecoveredIs, RecoveredIsNext, Zenon
<1>4. \A b \in Blocks : Recovered[b] = disk[b]
  BY <1>2, <1>3 DEF RecoveredFacts
<1>5. \A b \in Blocks : Recovered'[b] = disk[b]
  BY <1>3 DEF RecoveredFacts
<1>6. Recovered' = Recovered
  BY <1>3, <1>4, <1>5 DEF RecoveredFacts
<1>7. Memory' = Memory
  BY <1>1, Zenon DEF Memory, Bread
<1>8. Active' = Active
  <2>1. pc \in [Procs -> {"idle", "begin", "sleep"} \cup Inside \cup Committing]
    BY Zenon DEF LogInv, TypeOK
  <2> QED BY <2>1, Zenon DEF Active, Inside
<1> QED BY <1>6, <1>7, <1>8, Zenon DEF Abs!vars

\* Evicting an unpinned buffer, or reading a block, changes nothing.
LEMMA RecycleRefines ==
  ASSUME LogInv, LogInv', NEW b \in Blocks, bget_recycle(b) \/ bread_miss(b)
  PROVE  UNCHANGED Abs!vars
<1> USE LogAssumption DEF bget_recycle, bread_miss, opvars, diskvars
<1>1. UNCHANGED <<disk, dlog, dhead, mode, pc>>
  BY Zenon
<1>2. Recovered' = Recovered /\ Active' = Active
  BY ONLY <1>1 DEF Recovered, Logged, Active
<1>3. cache[b] \in {NoData, disk[b]} /\ cache'[b] \in {NoData, disk[b]}
  <2>1. ~Pending(b) /\ \A q \in Procs : held[q] # b
    <3>1. CASE bget_recycle(b)
      <4>1. pin[b] = 0 /\ (\A q \in Procs : held[q] # b) /\ PinsMatchLog
        BY <3>1, Zenon DEF LogInv, BuffersInv
      <4> QED BY ONLY <4>1, b \in Blocks DEF PinsMatchLog
    <3>2. CASE bread_miss(b)
      BY <3>2 DEF LogInv, BuffersInv, CopiesInv, HeldInv
    <3> QED BY <3>1, <3>2, Zenon
  <2> QED BY <2>1, Zenon DEF LogInv, BuffersInv, CopiesInv, TypeOK
<1>4. \A c \in Blocks : c # b => cache'[c] = cache[c]
  BY Zenon DEF LogInv, TypeOK
<1>5. \A c \in Blocks : Bread(c)' = Bread(c)
  BY <1>1, <1>3, <1>4, Zenon DEF Bread
<1>6. Memory' = Memory
  BY ONLY <1>1, <1>2, <1>5 DEF Memory
<1> QED BY <1>2, <1>6, Zenon DEF Abs!vars

\* A crash, with or without a torn block, loses memory and nothing durable.
LEMMA CrashRefines ==
  ASSUME LogInv, LogInv', Crash
  PROVE  Abs!Crash
<1> USE LogAssumption DEF Crash
<1>1. Active' = {}
  BY Zenon DEF Active, Inside
<1>2. dhead' = dhead
  BY Zenon
<1>3. \A i \in 1 .. Len(dhead) : dlog'[i] = dlog[i]
  <2>1. CASE dlog' = dlog
    BY <2>1, Zenon
  <2>2. CASE \E p \in Procs : pc[p] = "write_log"
    <3>1. dhead = <<>>
      BY <2>2, Zenon DEF LogInv, PlacesInv, HeadersInv, Inside, Committing
    <3> QED BY <3>1
  <2> QED BY <2>1, <2>2, Zenon DEF Torn
<1>4. \A b \in Blocks : (\A i \in 1 .. Len(dhead) : dhead[i] # b) => disk'[b] = disk[b]
  <2>1. CASE disk' = disk
    BY <2>1, Zenon
  <2>2. CASE /\ mode = "recover" \/ \E p \in Procs : pc[p] = "install"
             /\ tail < Len(lh)
             /\ \E v \in Values : disk' = [disk EXCEPT ![lh[tail + 1]] = v]
    <3>1. dhead = lh /\ tail + 1 \in 1 .. Len(lh)
      BY <2>2 DEF LogInv, HeadersInv, TypeOK
    <3> QED BY <2>2, <3>1, Zenon DEF LogInv, TypeOK
  <2> QED BY <2>1, <2>2, Zenon DEF Torn
<1>5. Recovered' = Recovered
  BY <1>2, <1>3, <1>4, SameRecovered, Zenon
<1>6. Memory' = Recovered
  BY <1>5, Zenon DEF Memory
<1> QED BY <1>1, <1>5, <1>6, Zenon DEF Abs!Crash

\* Recovery itself changes nothing: it can be interrupted and begun again.
LEMMA RecoverRefines ==
  ASSUME LogInv, LogInv', recover_from_log
  PROVE  UNCHANGED Abs!vars
<1> USE LogAssumption
<1>1. CASE read_head
  <2>1. UNCHANGED <<disk, dlog, dhead, pc>> /\ mode # "run" /\ mode' # "run"
    BY <1>1, Zenon DEF read_head, opvars, diskvars
  <2>2. Recovered' = Recovered /\ Memory' = Memory /\ Active' = Active
    BY ONLY <2>1 DEF Recovered, Memory, Logged, Active
  <2> QED BY <2>2, Zenon DEF Abs!vars
<1>2. CASE recover_install
  <2>1. PICK b : b = lh[tail + 1]
    BY Zenon
  <2>2. /\ UNCHANGED <<dlog, dhead, pc>> /\ mode # "run" /\ mode' # "run"
        /\ disk' = [disk EXCEPT ![b] = dlog[tail + 1]] /\ tail < Len(lh)
    BY <1>2, <2>1, Zenon DEF recover_install, install_trans, opvars
  <2>3. dhead = lh /\ tail + 1 \in 1 .. Len(lh) /\ disk \in [Blocks -> Values]
    <3>1. mode = "recover"
      BY <1>2, Zenon DEF recover_install
    <3>2. lh \in Seq(Blocks) /\ tail \in Nat /\ disk \in [Blocks -> Values] /\ dhead = lh
      BY <3>1, Zenon DEF LogInv, HeadersInv, TypeOK
    <3> QED BY ONLY <2>2, <3>2
  <2>4. \A c \in Blocks : (\A i \in 1 .. Len(dhead) : dhead[i] # c) => disk'[c] = disk[c]
    BY ONLY <2>1, <2>2, <2>3
  <2>5. Recovered' = Recovered
    BY <2>2, <2>4, SameRecovered, Zenon
  <2>6. Memory' = Memory /\ Active' = Active
    BY <2>2, <2>5, Zenon DEF Memory, Active
  <2> QED BY <2>5, <2>6, Zenon DEF Abs!vars
<1>3. CASE recover_clear
  <2>1. /\ UNCHANGED <<disk, cache, pc>> /\ mode = "recover" /\ mode' = "run"
        /\ dhead = lh /\ tail = Len(lh) /\ dhead' = <<>>
    BY <1>3 DEF recover_clear, opvars, LogInv, HeadersInv, TypeOK, Installed
  <2>2. \A i \in 1 .. Len(dhead) : disk[dhead[i]] = dlog[i]
    BY <2>1, Zenon DEF LogInv, BuffersInv, LoopsInv
  <2>3. RecoveredFacts /\ RecoveredFacts'
    BY RecoveredIs, RecoveredIsNext, Zenon
  <2>4. \A b \in Blocks : Recovered[b] = disk[b]
    BY <2>2, <2>3 DEF RecoveredFacts
  <2>5. \A b \in Blocks : Recovered'[b] = disk[b]
    BY <2>1, <2>3 DEF RecoveredFacts
  <2>6. Recovered' = Recovered
    BY <2>3, <2>4, <2>5 DEF RecoveredFacts
  <2>7. \A b \in Blocks : cache[b] \in {NoData, disk[b]}
    <3>1. TAKE b \in Blocks
    <3>2. ~Pending(b)
      BY ONLY <2>1 DEF Pending
    <3>3. \A q \in Procs : held[q] = NoBlock
      BY <2>1, Zenon DEF LogInv, BuffersInv, HeldInv, PlacesInv
    <3>4. CopiesInv /\ NoBlock \notin Blocks
      BY LogAssumption, Zenon DEF LogInv, BuffersInv
    <3> QED BY ONLY b \in Blocks, <3>2, <3>3, <3>4 DEF CopiesInv
  <2>8. \A b \in Blocks : Bread(b)' = disk[b]
    BY <2>1, <2>7, Zenon DEF Bread
  <2>9. Memory' = [b \in Blocks |-> disk[b]] /\ Memory = Recovered
    BY <2>1, <2>8, Zenon DEF Memory
  <2>10. Memory' = Memory
    BY <2>3, <2>4, <2>9, Zenon DEF RecoveredFacts
  <2>11. Active' = Active
    BY <2>1, Zenon DEF Active
  <2> QED BY <2>6, <2>10, <2>11, Zenon DEF Abs!vars
<1> QED BY <1>1, <1>2, <1>3, Zenon DEF recover_from_log

\* All the steps together.
LEMMA NextRefines == LogInv /\ LogInv' /\ [Next]_vars => [Abs!Next]_(Abs!vars)
<1> SUFFICES ASSUME LogInv, LogInv', [Next]_vars PROVE [Abs!Next]_(Abs!vars)
  BY Zenon
<1>1. CASE UNCHANGED vars
  BY <1>1 DEF vars, Abs!vars, Memory, Recovered, Active, Bread, Logged
<1>2. ASSUME NEW p \in Procs, begin_op(p) PROVE [Abs!Next]_(Abs!vars)
  BY <1>2, BeginRefines, Zenon DEF Abs!Next
<1>3. ASSUME NEW p \in Procs, NEW b \in Blocks, NEW v \in Values, modify(p, b, v)
      PROVE [Abs!Next]_(Abs!vars)
  BY <1>3, ModifyRefines, Zenon DEF Abs!Next
<1>4. ASSUME NEW p \in Procs, log_write(p) \/ end_commit(p) PROVE [Abs!Next]_(Abs!vars)
  BY <1>4, LogWriteRefines, Zenon
<1>5. ASSUME NEW p \in Procs, end_op(p) PROVE [Abs!Next]_(Abs!vars)
  BY <1>5, EndRefines, Zenon DEF Abs!Next
<1>6. ASSUME NEW p \in Procs, write_log(p) \/ install(p) \/ clear_log(p) PROVE [Abs!Next]_(Abs!vars)
  BY <1>6, WriteLogRefines, InstallRefines, ClearRefines, Zenon
<1>7. ASSUME NEW p \in Procs, write_head(p) PROVE [Abs!Next]_(Abs!vars)
  BY <1>7, WriteHeadRefines, Zenon DEF Abs!Next
<1>8. ASSUME NEW b \in Blocks, bget_recycle(b) \/ bread_miss(b) PROVE [Abs!Next]_(Abs!vars)
  BY <1>8, RecycleRefines
<1>9. CASE Crash
  BY <1>9, CrashRefines, Zenon DEF Abs!Next
<1>10. CASE recover_from_log
  BY <1>10, RecoverRefines, Zenon
<1> QED
  BY <1>1, <1>2, <1>3, <1>4, <1>5, <1>6, <1>7, <1>8, <1>9, <1>10, Zenon DEF Next, Commit

\* Crash atomicity: the log of log.c, with crashes at any point, torn block
\* writes and repeated recovery, implements the atomic specification.
THEOREM LogIsAtomic == Spec => Atomic
<1>1. Spec => []LogInv
  BY LogInvariant, Zenon
<1> QED BY <1>1, InitRefines, NextRefines, PTL DEF Spec, Atomic, Abs!Spec
-----------------------------------------------------------------------------
\* WroteIn for an arbitrary record w of what each process wrote.
Pairs(w, S) == {x \in S \X Blocks : x[2] \in w[x[1]]}

\* The pairs of S are finite, and are those of S \ {p} plus one per block of p.
LEMMA PairsSplit ==
  ASSUME NEW w \in [Procs -> SUBSET Blocks], NEW S \in SUBSET Procs
  PROVE  /\ IsFiniteSet(Pairs(w, S)) /\ Cardinality(Pairs(w, S)) \in Nat
         /\ \A p \in S : /\ Cardinality(w[p]) \in Nat
                         /\ Cardinality(Pairs(w, S)) = Cardinality(Pairs(w, S \ {p})) + Cardinality(w[p])
<1>1. IsFiniteSet(Procs) /\ IsFiniteSet(Blocks)
  BY LogAssumption, Zenon
<1>2. \A T \in SUBSET Procs : IsFiniteSet(Pairs(w, T)) /\ Cardinality(Pairs(w, T)) \in Nat
  <2> TAKE T \in SUBSET Procs
  <2>1. IsFiniteSet(T)
    BY <1>1, FS_Subset, Zenon
  <2>2. IsFiniteSet(T \X Blocks)
    BY <1>1, <2>1, FS_Product, Zenon
  <2>3. Pairs(w, T) \in SUBSET (T \X Blocks)
    BY Zenon DEF Pairs
  <2>4. IsFiniteSet(Pairs(w, T))
    BY <2>2, <2>3, FS_Subset, Zenon
  <2> QED BY <2>4, FS_CardinalityType, Zenon
<1>3. ASSUME NEW p \in S
      PROVE  /\ Cardinality(w[p]) \in Nat
             /\ Cardinality(Pairs(w, S)) = Cardinality(Pairs(w, S \ {p})) + Cardinality(w[p])
  <2> DEFINE A == Pairs(w, S \ {p})
             B == {p} \X w[p]
  <2>1. w[p] \in SUBSET Blocks
    BY Zenon
  <2>2. IsFiniteSet(w[p]) /\ Cardinality(w[p]) \in Nat
    BY <1>1, <2>1, FS_Subset, FS_CardinalityType, Zenon
  <2>3. IsFiniteSet({p}) /\ Cardinality({p}) = 1
    BY FS_Singleton, ZenonT(30)
  <2>4. IsFiniteSet(B) /\ Cardinality(B) = 1 * Cardinality(w[p])
    BY <2>2, <2>3, FS_Product
  <2>5. IsFiniteSet(A) /\ Cardinality(A) \in Nat
    BY <1>2, Zenon
  <2>6. Pairs(w, S) = A \cup B
    BY <2>1, Zenon DEF Pairs
  <2>7. A \cap B = {}
    BY Zenon DEF Pairs
  <2> HIDE DEF A, B
  <2>8. Cardinality(A \cup B) = Cardinality(A) + Cardinality(B) - Cardinality({})
    BY <2>4, <2>5, <2>7, FS_Union
  <2>9. Cardinality({}) = 0
    BY FS_EmptySet, Zenon
  <2> QED BY <2>2, <2>4, <2>5, <2>6, <2>8, <2>9 DEF A
<1> QED BY <1>2, <1>3, Zenon

\* Processes outside S do not matter for the pairs of S.
LEMMA PairsSame ==
  ASSUME NEW w, NEW u, NEW S, \A q \in S : w[q] = u[q]
  PROVE  Pairs(w, S) = Pairs(u, S)
BY Zenon DEF Pairs

\* The sizes of sets of processes.
LEMMA ProcsCard ==
  ASSUME NEW S \in SUBSET Procs
  PROVE  /\ IsFiniteSet(S) /\ Cardinality(S) \in Nat
         /\ \A p \in S : Cardinality(S) = Cardinality(S \ {p}) + 1 /\ Cardinality(S \ {p}) \in Nat
<1>1. \A T \in SUBSET Procs : IsFiniteSet(T) /\ Cardinality(T) \in Nat
  BY LogAssumption, FS_Subset, FS_CardinalityType, Zenon
<1>2. \A p \in S : Cardinality(S \ {p}) = Cardinality(S) - 1
  BY <1>1, FS_RemoveElement, Zenon
<1> QED BY <1>1, <1>2

\* The conjuncts of CapacityInv for given values of the variables.
CapacityOf(P, h, held_, w, A) ==
  /\ \A p \in Procs : P[p] \notin Inside => w[p] = {}
  /\ \A p \in Procs : /\ w[p] \subseteq Logged(h)
                      /\ Cardinality(w[p]) <= OPBLOCKS
                      /\ P[p] = "modified" => Cardinality(w[p] \cup {held_[p]}) <= OPBLOCKS
  /\ \A S \in SUBSET A : Cardinality(Pairs(w, S)) <= Cardinality(S) * OPBLOCKS
  /\ A # {} => Len(h) + Cardinality(A) * MAXOPBLOCKS <= LOGSIZE + Cardinality(Pairs(w, A))

\* CapacityInv says this of the variables, before and after a step.
LEMMA CapacityIs ==
  /\ CapacityInv <=> CapacityOf(pc, lh, held, wrote, Active)
  /\ CapacityInv' <=> CapacityOf(pc', lh', held', wrote', Active')
BY Zenon DEF CapacityInv, CapacityOf, WroteIn, Pairs, Logged

\* It holds while no operation is under way.
LEMMA CapacityIdle ==
  ASSUME NEW P, NEW h, NEW held_, NEW w, \A p \in Procs : P[p] \notin Inside /\ w[p] = {}
  PROVE  CapacityOf(P, h, held_, w, {})
<1>1. Cardinality({}) = 0 /\ Pairs(w, {}) = {}
  BY FS_EmptySet, Zenon DEF Pairs
<1>2. \A S \in SUBSET {} : Cardinality(Pairs(w, S)) <= Cardinality(S) * OPBLOCKS
  <2> SUFFICES ASSUME NEW S, S = {} PROVE Cardinality(Pairs(w, S)) <= Cardinality(S) * OPBLOCKS
    BY Zenon
  <2> QED BY <1>1, LogAssumption
<1>3. \A p \in Procs : /\ w[p] \subseteq Logged(h)
                       /\ Cardinality(w[p]) <= OPBLOCKS
                       /\ P[p] = "modified" => Cardinality(w[p] \cup {held_[p]}) <= OPBLOCKS
  BY <1>1, LogAssumption DEF Inside
<1> QED BY <1>2, <1>3, Zenon DEF CapacityOf
-----------------------------------------------------------------------------
(* One lemma per action that touches an operation.                          *)

\* begin_op admits p only if a whole reservation is left.
LEMMA BeginCapacity ==
  ASSUME LogInv, CapacityInv, NEW p \in Procs, begin_op(p)
  PROVE  CapacityInv'
<1> USE LogAssumption DEF begin_op
<1>1. CapacityOf(pc, lh, held, wrote, Active)
  BY CapacityIs, Zenon
<1>2. pc \in [Procs -> {"idle", "begin", "sleep"} \cup Inside \cup Committing]
  BY Zenon DEF LogInv, TypeOK
<1>3. p \notin Active /\ wrote[p] = {} /\ UNCHANGED <<lh, held, wrote>>
  BY <1>1, Zenon DEF Active, Inside, CapacityOf
<1>4. \A q \in Procs \ {p} : pc'[q] = pc[q]
  BY <1>2, Zenon
<1>5. pc'[p] \in {"sleep", "op"}
  BY <1>2, Zenon
<1>6. CASE MustWait
  <2>1. Active' = Active
    BY <1>2, <1>6, Zenon DEF Active, Inside
  <2>2. CapacityOf(pc', lh', held', wrote', Active')
    BY <1>1, <1>3, <1>4, <1>5, <2>1, Zenon DEF CapacityOf, Inside
  <2> QED BY <2>2, CapacityIs, Zenon
<1>7. CASE ~MustWait
  <2>1. Active' = Active \cup {p}
    BY <1>2, <1>7, Zenon DEF Active, Inside
  <2>2. \A S \in SUBSET Active' : Cardinality(Pairs(wrote, S)) <= Cardinality(S) * OPBLOCKS
    <3> TAKE S \in SUBSET Active'
    <3>1. CASE p \notin S
      BY <1>1, <2>1, <3>1, Zenon DEF CapacityOf
    <3>2. CASE p \in S
      <4>1. S \in SUBSET Procs /\ S \ {p} \in SUBSET Active
        BY <2>1, Zenon DEF Active
      <4>2. Cardinality(S) = Cardinality(S \ {p}) + 1 /\ Cardinality(S \ {p}) \in Nat
        BY <3>2, <4>1, ProcsCard, Zenon
      <4>3. Cardinality(Pairs(wrote, S)) = Cardinality(Pairs(wrote, S \ {p})) + 0
        <5>1. wrote \in [Procs -> SUBSET Blocks]
          BY Zenon DEF LogInv, TypeOK
        <5>2. Cardinality(Pairs(wrote, S)) = Cardinality(Pairs(wrote, S \ {p})) + Cardinality(wrote[p])
          BY <3>2, <4>1, <5>1, PairsSplit, Zenon
        <5> QED BY <1>3, <5>2, FS_EmptySet, Zenon
      <4>4. Cardinality(Pairs(wrote, S \ {p})) <= Cardinality(S \ {p}) * OPBLOCKS
        BY <1>1, <4>1, Zenon DEF CapacityOf
      <4>5. Cardinality(Pairs(wrote, S \ {p})) \in Nat
        BY <4>1, PairsSplit, ZenonT(30) DEF LogInv, TypeOK, Active
      <4> QED BY ONLY <4>2, <4>3, <4>4, <4>5, OPBLOCKS \in Nat
    <3> QED BY <3>1, <3>2, Zenon
  <2>3. Len(lh) + Cardinality(Active') * MAXOPBLOCKS <= LOGSIZE + Cardinality(Pairs(wrote, Active'))
    <3>1. Cardinality(Active') = outstanding + 1
      BY <2>1, <1>3, ActiveFinite, FS_AddElement, ZenonT(30) DEF LogInv, PlacesInv
    <3>2. Len(lh) + (outstanding + 1) * MAXOPBLOCKS <= LOGSIZE
      BY <1>7 DEF MustWait, LogInv, TypeOK
    <3>3. Cardinality(Pairs(wrote, Active')) \in Nat
      BY <2>1, PairsSplit, ZenonT(30) DEF LogInv, TypeOK, Active
    <3>4. Len(lh) \in Nat /\ outstanding \in Nat
      BY DEF LogInv, TypeOK
    <3> QED BY ONLY <3>1, <3>2, <3>3, <3>4, LogAssumption
  <2>4. CapacityOf(pc', lh', held', wrote', Active')
    BY <1>1, <1>3, <1>4, <1>5, <2>2, <2>3, Zenon DEF CapacityOf, Inside
  <2> QED BY <2>4, CapacityIs
<1> QED BY <1>6, <1>7, Zenon

\* modify counts the block against the operation's limit.
LEMMA ModifyCapacity ==
  ASSUME LogInv, CapacityInv, NEW p \in Procs, NEW b \in Blocks, NEW v \in Values, modify(p, b, v)
  PROVE  CapacityInv'
<1> USE DEF modify
<1>1. CapacityOf(pc, lh, held, wrote, Active)
  BY CapacityIs, Zenon
<1>2. \A q \in Procs \ {p} : pc'[q] = pc[q] /\ held'[q] = held[q]
  BY Zenon DEF LogInv, TypeOK
<1>3. pc'[p] = "modified" /\ held'[p] = b /\ pc[p] = "op"
  BY Zenon DEF LogInv, TypeOK
<1>4. Active' = Active /\ lh' = lh /\ wrote' = wrote
  BY <1>2, <1>3, Zenon DEF Active, Inside
<1>5. CapacityOf(pc', lh', held', wrote', Active')
  BY <1>1, <1>2, <1>3, <1>4, ZenonT(30) DEF CapacityOf, Inside
<1> QED BY <1>5, CapacityIs, Zenon
\* log_write charges p with the block before the log grows by it.
LEMMA LogWriteCapacity ==
  ASSUME LogInv, CapacityInv, NEW p \in Procs, log_write(p)
  PROVE  CapacityInv'
<1> USE LogAssumption
<1>1. CapacityOf(pc, lh, held, wrote, Active)
  BY CapacityIs, Zenon
<1>2. PICK c : c = held[p]
  BY Zenon
<1>3. c \in Blocks /\ pc[p] = "modified" /\ p \in Active
  BY <1>2, Zenon DEF log_write, LogInv, TypeOK, BuffersInv, HeldInv, Active, Inside
<1>4. /\ wrote \in [Procs -> SUBSET Blocks] /\ wrote' = [wrote EXCEPT ![p] = @ \cup {c}]
      /\ lh \in Seq(Blocks)
  BY <1>2, Zenon DEF log_write, LogInv, TypeOK
<1>5. wrote' \in [Procs -> SUBSET Blocks]
  BY ONLY <1>3, <1>4
<1>6. \A q \in Procs \ {p} : pc'[q] = pc[q] /\ held'[q] = held[q] /\ wrote'[q] = wrote[q]
  BY Zenon DEF log_write, LogInv, TypeOK
<1>7. pc'[p] = "op" /\ wrote'[p] = wrote[p] \cup {c}
  BY <1>2, Zenon DEF log_write, LogInv, TypeOK
<1>8. Active' = Active
  BY <1>3, <1>6, <1>7, Zenon DEF Active, Inside
<1>9. \/ c \in Logged(lh) /\ lh' = lh
      \/ c \notin Logged(lh) /\ lh' = Append(lh, c)
  BY <1>2, Zenon DEF log_write, Absorbed
<1>10. Logged(lh') = Logged(lh) \cup {c} /\ Len(lh) \in Nat
  <2>1. CASE lh' = lh /\ c \in Logged(lh)
    BY <1>4, <2>1
  <2>2. CASE lh' = Append(lh, c)
    <3>1. Len(lh') = Len(lh) + 1 /\ Len(lh) \in Nat /\ lh'[Len(lh) + 1] = c
      BY <1>3, <1>4, <2>2
    <3>2. \A i \in 1 .. Len(lh) : lh'[i] = lh[i]
      BY <1>3, <1>4, <2>2
    <3> QED BY <3>1, <3>2 DEF Logged
  <2> QED BY <1>9, <2>1, <2>2, Zenon
<1>11. Cardinality(wrote'[p]) <= OPBLOCKS
  BY <1>1, <1>2, <1>3, <1>7, Zenon DEF CapacityOf
<1>12. \A S \in SUBSET Active : Cardinality(Pairs(wrote', S)) <= Cardinality(S) * OPBLOCKS
  <2> TAKE S \in SUBSET Active
  <2>1. S \in SUBSET Procs
    BY Zenon DEF Active
  <2>2. CASE p \notin S
    <3>1. Pairs(wrote', S) = Pairs(wrote, S)
      BY <1>6, <2>1, <2>2, PairsSame
    <3> QED BY <1>1, <3>1, Zenon DEF CapacityOf
  <2>3. CASE p \in S
    <3>1. Pairs(wrote', S \ {p}) = Pairs(wrote, S \ {p})
      BY <1>6, <2>1, PairsSame
    <3>2. /\ Cardinality(Pairs(wrote', S)) = Cardinality(Pairs(wrote', S \ {p})) + Cardinality(wrote'[p])
          /\ Cardinality(wrote'[p]) \in Nat
      BY <1>5, <2>1, <2>3, PairsSplit, ZenonT(30)
    <3>3. Cardinality(Pairs(wrote, S \ {p})) <= Cardinality(S \ {p}) * OPBLOCKS
      BY <1>1, Zenon DEF CapacityOf
    <3>4. Cardinality(S) = Cardinality(S \ {p}) + 1 /\ Cardinality(S \ {p}) \in Nat
      BY <2>1, <2>3, ProcsCard, Zenon
    <3>5. Cardinality(Pairs(wrote, S \ {p})) \in Nat
      BY <1>4, <2>1, PairsSplit, Zenon
    <3> QED BY ONLY <1>11, <3>1, <3>2, <3>3, <3>4, <3>5, OPBLOCKS \in Nat
  <2> QED BY <2>2, <2>3, Zenon
<1>13. Len(lh') + Cardinality(Active) * MAXOPBLOCKS <= LOGSIZE + Cardinality(Pairs(wrote', Active))
  <2>1. Active \in SUBSET Procs
    BY Zenon DEF Active
  <2>2. Pairs(wrote', Active) = Pairs(wrote, Active) \cup {<<p, c>>}
    BY <1>3, <1>6, <1>7, <2>1 DEF Pairs
  <2>3. IsFiniteSet(Pairs(wrote, Active)) /\ Cardinality(Pairs(wrote, Active)) \in Nat
    BY <1>4, <2>1, PairsSplit, Zenon
  <2>4. Cardinality(Pairs(wrote', Active)) =
          IF <<p, c>> \in Pairs(wrote, Active) THEN Cardinality(Pairs(wrote, Active))
                                               ELSE Cardinality(Pairs(wrote, Active)) + 1
    BY <2>2, <2>3, FS_AddElement, ZenonT(30)
  <2>5. c \notin Logged(lh) => <<p, c>> \notin Pairs(wrote, Active)
    BY <1>1, <1>3, ZenonT(30) DEF Pairs, CapacityOf
  <2>6. Len(lh) + Cardinality(Active) * MAXOPBLOCKS <= LOGSIZE + Cardinality(Pairs(wrote, Active))
    BY <1>1, <1>3, Zenon DEF CapacityOf
  <2>7. Len(lh') = Len(lh) \/ (c \notin Logged(lh) /\ Len(lh') = Len(lh) + 1)
    <3>1. Len(Append(lh, c)) = Len(lh) + 1
      BY <1>3, <1>4
    <3> QED BY <1>9, <3>1, Zenon
  <2>8. Cardinality(Active) * MAXOPBLOCKS \in Nat
    BY ActiveFinite
  <2> QED BY ONLY <1>10, <2>3, <2>4, <2>5, <2>6, <2>7, <2>8, LOGSIZE \in Nat
<1>14. CapacityOf(pc', lh', held', wrote', Active')
  <2>1. \A q \in Procs : wrote'[q] \subseteq Logged(lh')
    BY <1>1, <1>6, <1>7, <1>10, ZenonT(30) DEF CapacityOf
  <2>2. \A q \in Procs : pc'[q] \notin Inside => wrote'[q] = {}
    BY <1>1, <1>6, <1>7, Zenon DEF CapacityOf, Inside
  <2>3. \A q \in Procs : pc'[q] = "modified" => Cardinality(wrote'[q] \cup {held'[q]}) <= OPBLOCKS
    BY <1>1, <1>6, <1>7, Zenon DEF CapacityOf
  <2>4. \A q \in Procs : Cardinality(wrote'[q]) <= OPBLOCKS
    BY <1>1, <1>6, <1>11, ZenonT(30) DEF CapacityOf
  <2> QED BY ONLY <1>8, <1>12, <1>13, <2>1, <2>2, <2>3, <2>4 DEF CapacityOf
<1> QED BY <1>14, CapacityIs, Zenon

\* end_op gives the rest of p's reservation back.
LEMMA EndCapacity ==
  ASSUME LogInv, CapacityInv, NEW p \in Procs, end_op(p)
  PROVE  CapacityInv'
<1> USE LogAssumption
<1>1. CapacityOf(pc, lh, held, wrote, Active)
  BY CapacityIs
<1>2. /\ wrote \in [Procs -> SUBSET Blocks] /\ wrote' = [wrote EXCEPT ![p] = {}]
      /\ lh \in Seq(Blocks) /\ lh' = lh /\ held' = held /\ Len(lh) \in Nat
  BY DEF end_op, LogInv, TypeOK
<1>3. /\ pc[p] = "op" /\ pc'[p] \notin Inside
      /\ \A q \in Procs \ {p} : pc'[q] = pc[q] \/ (pc'[q] \notin Inside /\ pc[q] \notin Inside)
  <2>1. pc \in [Procs -> {"idle", "begin", "sleep"} \cup Inside \cup Committing] /\ pc[p] = "op"
    BY Zenon DEF end_op, LogInv, TypeOK
  <2>2. CASE LastOut
    BY <2>1, <2>2, Zenon DEF end_op, Inside
  <2>3. CASE ~LastOut
    BY <2>1, <2>3, Zenon DEF end_op, Inside, Woken
  <2> QED BY <2>2, <2>3, Zenon
<1>4. p \in Active /\ Active' = Active \ {p} /\ Active \in SUBSET Procs
  BY <1>3, Zenon DEF Active, Inside
<1>5. \A q \in Procs \ {p} : wrote'[q] = wrote[q]
  BY <1>2, Zenon
<1>6. \A S \in SUBSET Active' : Pairs(wrote', S) = Pairs(wrote, S)
  BY <1>4, <1>5, PairsSame
<1>7. ASSUME Active' # {}
      PROVE  Len(lh') + Cardinality(Active') * MAXOPBLOCKS <= LOGSIZE + Cardinality(Pairs(wrote', Active'))
  <2>1. Len(lh) + Cardinality(Active) * MAXOPBLOCKS <= LOGSIZE + Cardinality(Pairs(wrote, Active))
    BY <1>1, <1>4, Zenon DEF CapacityOf
  <2>2. Cardinality(Active) = Cardinality(Active') + 1 /\ Cardinality(Active') \in Nat
    BY <1>4, ProcsCard, Zenon
  <2>3. /\ Cardinality(Pairs(wrote, Active)) = Cardinality(Pairs(wrote, Active')) + Cardinality(wrote[p])
        /\ Cardinality(wrote[p]) \in Nat
    BY <1>2, <1>4, PairsSplit, ZenonT(30)
  <2>4. Cardinality(Pairs(wrote, Active')) \in Nat
    BY <1>2, <1>4, PairsSplit, Zenon
  <2>5. Cardinality(wrote[p]) <= MAXOPBLOCKS
    <3>1. Cardinality(wrote[p]) <= OPBLOCKS
      BY <1>1, ZenonT(30) DEF CapacityOf
    <3> QED BY ONLY <2>3, <3>1, LogAssumption
  <2>6. Pairs(wrote', Active') = Pairs(wrote, Active')
    BY <1>6, Zenon
  <2>7. (Cardinality(Active') + 1) * MAXOPBLOCKS = Cardinality(Active') * MAXOPBLOCKS + MAXOPBLOCKS
    BY <2>2
  <2>8. Cardinality(Active') * MAXOPBLOCKS \in Nat /\ MAXOPBLOCKS \in Nat /\ LOGSIZE \in Nat
    BY <2>2
  <2>9. PICK n \in Nat, m \in Nat, w \in Nat, k \in Nat :
             /\ n = Len(lh) /\ m = Cardinality(Active') * MAXOPBLOCKS
             /\ w = Cardinality(wrote[p]) /\ k = Cardinality(Pairs(wrote, Active'))
    BY <1>2, <2>3, <2>4, <2>8, Zenon
  <2>10. n + (m + MAXOPBLOCKS) <= LOGSIZE + (k + w) /\ w <= MAXOPBLOCKS
    BY ONLY <2>1, <2>2, <2>3, <2>5, <2>7, <2>9
  <2>11. n + m <= LOGSIZE + k
    <3>1. MAXOPBLOCKS \in Nat /\ LOGSIZE \in Nat
      BY <2>8, Zenon
    <3> QED BY ONLY <2>10, <3>1
  <2> QED BY ONLY <1>2, <2>6, <2>9, <2>11
<1>8. \A S \in SUBSET Active' : Cardinality(Pairs(wrote', S)) <= Cardinality(S) * OPBLOCKS
  BY <1>1, <1>4, <1>6, Zenon DEF CapacityOf
<1>9. wrote'[p] = {} /\ Cardinality({}) = 0
  BY <1>2, FS_EmptySet, Zenon
<1>10. \A q \in Procs : pc'[q] \notin Inside => wrote'[q] = {}
  BY <1>1, <1>3, <1>5, <1>9, Zenon DEF CapacityOf
<1>11. \A q \in Procs : /\ wrote'[q] \subseteq Logged(lh')
                        /\ Cardinality(wrote'[q]) <= OPBLOCKS
                        /\ pc'[q] = "modified" => Cardinality(wrote'[q] \cup {held'[q]}) <= OPBLOCKS
  <2> TAKE q \in Procs
  <2>1. CASE q = p
    BY <1>3, <1>9, <2>1 DEF Inside
  <2>2. CASE q # p
    BY <1>1, <1>2, <1>3, <1>5, <2>2, Zenon DEF CapacityOf, Inside
  <2> QED BY <2>1, <2>2, Zenon
<1>12. CapacityOf(pc', lh', held', wrote', Active')
  BY <1>7, <1>8, <1>10, <1>11, Zenon DEF CapacityOf
<1> QED BY <1>12, CapacityIs
\* Every other step leaves the operations alone or finds none under way.
LEMMA OtherCapacity ==
  ASSUME LogInv, LogInv', CapacityInv,
         \/ \E p \in Procs : Commit(p)
         \/ \E b \in Blocks : bget_recycle(b) \/ bread_miss(b)
         \/ recover_from_log
         \/ Crash
         \/ UNCHANGED vars
  PROVE  CapacityInv'
<1>1. CapacityOf(pc, lh, held, wrote, Active)
  BY CapacityIs, Zenon
<1>2. CASE \E p \in Procs : Commit(p)
  <2>1. \A q \in Procs : pc[q] \notin Inside
    BY <1>2, ZenonT(30) DEF Commit, write_log, write_head, install, clear_log, end_commit,
                LogInv, PlacesInv, Inside, Committing
  <2>2. \A q \in Procs : pc'[q] \notin Inside
    BY <1>2, <2>1, ZenonT(30) DEF Commit, write_log, write_head, install, install_trans, clear_log, end_commit,
                Woken, opvars, LogInv, TypeOK, Inside
  <2>3. wrote' = wrote
    BY <1>2, ZenonT(30) DEF Commit, write_log, write_head, install, install_trans, clear_log, end_commit, opvars
  <2>4. Active' = {} /\ \A q \in Procs : wrote'[q] = {}
    BY <1>1, <2>1, <2>2, <2>3, Zenon DEF Active, CapacityOf
  <2>5. CapacityOf(pc', lh', held', wrote', {})
    BY <2>2, <2>4, CapacityIdle, Zenon
  <2> QED BY <2>4, <2>5, CapacityIs, Zenon
<1>3. CASE \E b \in Blocks : bget_recycle(b) \/ bread_miss(b)
  <2>1. UNCHANGED <<pc, lh, held, wrote>>
    BY <1>3, Zenon DEF bget_recycle, bread_miss, opvars
  <2>2. Active' = Active
    BY <2>1, Zenon DEF Active
  <2> QED BY <1>1, <2>1, <2>2, CapacityIs, Zenon
<1>4. CASE recover_from_log
  <2>1. \A q \in Procs : pc[q] = "idle"
    BY <1>4, ZenonT(30) DEF recover_from_log, read_head, recover_install, recover_clear, LogInv, PlacesInv
  <2>2. UNCHANGED <<pc, wrote>>
    BY <1>4, ZenonT(30) DEF recover_from_log, read_head, recover_install, recover_clear, install_trans, opvars
  <2>3. Active' = {} /\ \A q \in Procs : wrote'[q] = {} /\ pc'[q] \notin Inside
    BY <1>1, <2>1, <2>2, Zenon DEF Active, CapacityOf, Inside
  <2>4. CapacityOf(pc', lh', held', wrote', {})
    BY <2>3, CapacityIdle, Zenon
  <2> QED BY <2>3, <2>4, CapacityIs, Zenon
<1>5. CASE Crash
  <2>1. Active' = {} /\ \A q \in Procs : wrote'[q] = {} /\ pc'[q] \notin Inside
    BY <1>5, Zenon DEF Crash, Active, Inside
  <2>2. CapacityOf(pc', lh', held', wrote', {})
    BY <2>1, CapacityIdle
  <2> QED BY <2>1, <2>2, CapacityIs
<1>6. CASE UNCHANGED vars
  <2>1. UNCHANGED <<pc, lh, held, wrote>>
    BY <1>6, Zenon DEF vars
  <2>2. Active' = Active
    BY <2>1 DEF Active
  <2> QED BY <1>1, <2>1, <2>2, CapacityIs
<1> QED BY <1>2, <1>3, <1>4, <1>5, <1>6, Zenon
-----------------------------------------------------------------------------
\* The capacity invariant holds before anything has been written.
LEMMA InitCapacity == Init => CapacityInv
<1> SUFFICES ASSUME Init PROVE CapacityInv
  OBVIOUS
<1>1. Active = {} /\ \A p \in Procs : pc[p] \notin Inside /\ wrote[p] = {}
  BY Zenon DEF Init, Active, Inside
<1>2. CapacityOf(pc, lh, held, wrote, {})
  BY <1>1, CapacityIdle, Zenon
<1> QED BY <1>1, <1>2, CapacityIs, Zenon

\* Every step preserves it.
LEMMA NextCapacity == LogInv /\ LogInv' /\ CapacityInv /\ [Next]_vars => CapacityInv'
BY BeginCapacity, ModifyCapacity, LogWriteCapacity, EndCapacity, OtherCapacity, Zenon DEF Next

\* The blocks logged and the blocks still reserved fit into LOGSIZE, always.
THEOREM Capacity == Spec => []CapacityInv
BY InitCapacity, NextCapacity, LogInvariant, PTL DEF Spec

\* With the sizes of LogFits no panic of log.c is ever met.
LEMMA NoPanicFromInv == LogFits /\ LogInv /\ CapacityInv => NoPanic
<1> SUFFICES ASSUME LogFits, LogInv, CapacityInv, NEW p \in Procs
             PROVE  /\ pc[p] = "modified" => ~TooBig /\ outstanding >= 1
                    /\ pc[p] = "op" => ~committing
  BY Zenon DEF NoPanic
<1>1. pc[p] = "op" => ~committing
  BY Zenon DEF LogInv, PlacesInv, Inside, Committing
<1>2. ASSUME pc[p] = "modified" PROVE ~TooBig /\ outstanding >= 1
  <2>1. p \in Active /\ outstanding = Cardinality(Active) /\ Active \in SUBSET Active
    BY <1>2, Zenon DEF Active, Inside, LogInv, PlacesInv
  <2>2. Cardinality(Active) \in Nat /\ Cardinality(Active) # 0
    BY <2>1, ActiveFinite, FS_EmptySet, Zenon
  <2>3. Len(lh) + Cardinality(Active) * MAXOPBLOCKS <= LOGSIZE + Cardinality(WroteIn(Active))
    BY <2>1, Zenon DEF CapacityInv
  <2>4. Cardinality(WroteIn(Active)) <= Cardinality(Active) * OPBLOCKS
    BY <2>1, Zenon DEF CapacityInv
  <2>5. Cardinality(WroteIn(Active)) \in Nat
    <3>1. WroteIn(Active) = Pairs(wrote, Active) /\ Active \in SUBSET Procs
      BY Zenon DEF WroteIn, Pairs, Active
    <3> QED BY <3>1, PairsSplit, Zenon DEF LogInv, TypeOK
  <2>6. Cardinality(Active) * MAXOPBLOCKS >= Cardinality(Active) * OPBLOCKS + (MAXOPBLOCKS - OPBLOCKS)
    <3>1. PICK n \in Nat : Cardinality(Active) = n + 1
      BY <2>2
    <3>2. PICK k \in Nat : MAXOPBLOCKS = OPBLOCKS + k
      BY LogAssumption
    <3>3. (n + 1) * (OPBLOCKS + k) = (n + 1) * OPBLOCKS + (n + 1) * k /\ n * k \in Nat
      BY <3>1, <3>2, LogAssumption
    <3>4. (n + 1) * k = n * k + k
      BY <3>1, <3>2
    <3>5. (n + 1) * OPBLOCKS \in Nat
      BY <3>1, LogAssumption
    <3> QED BY ONLY <3>1, <3>2, <3>3, <3>4, <3>5, LogAssumption
  <2>7. Len(lh) + (MAXOPBLOCKS - OPBLOCKS) <= LOGSIZE
    <3>1. Cardinality(Active) * MAXOPBLOCKS \in Nat /\ Cardinality(Active) * OPBLOCKS \in Nat /\ Len(lh) \in Nat
      BY <2>2, LogAssumption DEF LogInv, TypeOK
    <3> QED BY ONLY <2>3, <2>4, <2>5, <2>6, <3>1, LogAssumption
  <2>8. Len(lh) \in Nat
    BY DEF LogInv, TypeOK
  <2> QED BY <2>1, <2>2, <2>7, <2>8, LogAssumption DEF TooBig, LogFits
<1> QED BY <1>1, <1>2, Zenon

\* log_write() never finds the log full and end_op() never meets a commit, for
\* every log whose sizes satisfy LogFits (the real one does for operations of
\* up to eight blocks).
THEOREM NoPanicTheorem ==
  ASSUME LogFits
  PROVE  Spec => []NoPanic
<1>1. LogInv /\ CapacityInv => NoPanic
  BY NoPanicFromInv, Zenon
<1> QED BY <1>1, Capacity, LogInvariant, PTL
=============================================================================
