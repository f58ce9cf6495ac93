---------------------------- MODULE PipeProofs -----------------------------
(***************************************************************************)
(* Proofs about module Pipe for any number of readers and writers, any     *)
(* size of the ring and any sizes of the calls.                            *)
(*                                                                         *)
(* PInv is inductive.  Holding the lock and being between acquire() and    *)
(* release() agree (Locks); a process in a call has its end open, and      *)
(* readopen and writeopen stay until the last reference is gone and its    *)
(* pipeclose() is done (Ends); a sleeper has reason to sleep, or somebody  *)
(* who holds the lock is about to wake it (Sleepers).                      *)
(*                                                                         *)
(* The ring of a pipe implements the queue of module ByteStream, for every *)
(* PIPESIZE and every width of the counters that PIPESIZE divides.  The    *)
(* argument is arithmetic: the number of bytes that wait is the difference *)
(* of the counters modulo UINT and never exceeds PIPESIZE, the slots of    *)
(* these bytes are all different, and a counter that wraps stays at the    *)
(* same slot because PIPESIZE divides UINT.                                *)
(***************************************************************************)
EXTENDS Pipe, TLAPS

\* Time for the provers.
USE SMTT(30), ZenonT(30)

Writing == {"acquire_nwrite", "write", "sleep_nwrite", "asleep_nwrite"}
Reading == {"acquire_nread", "read", "copy", "copied", "sleep_nread", "asleep_nread"}
Locked == {"write", "read", "copy", "copied", "sleep_nread", "sleep_nwrite"}

Locks == \A p \in Procs : lock = p <=> pc[p] \in Locked

Ends ==
  /\ \A p \in Procs : /\ pc[p] \in Writing => p \in wref
                      /\ pc[p] \in Reading => p \in rref
                      /\ pc[p] = "close_write" => wref = {} /\ writeopen
                      /\ pc[p] = "close_read" => rref = {} /\ readopen
  /\ \A p, q \in Procs : pc[p] = pc[q] /\ pc[p] \in {"close_write", "close_read"} => p = q
  /\ wref # {} => writeopen
  /\ rref # {} => readopen
  /\ writeopen => wref # {} \/ \E p \in Procs : pc[p] = "close_write"
  /\ readopen => rref # {} \/ \E p \in Procs : pc[p] = "close_read"
  /\ allocated <=> readopen \/ writeopen

KilledWriter == \E w \in Writers : killed[w]
\* Between the test and sleep(), the lock is held and the test stays true.
Going(q) == /\ pc[q] = "sleep_nread" => writeopen /\ Empty
            /\ pc[q] = "sleep_nwrite" => readopen /\ Full
AsleepReading(q) ==
  pc[q] = "asleep_nread" => writeopen /\ (Empty \/ KilledWriter \/ \E w \in Procs : pc[w] = "write")
AsleepWriting(q) ==
  pc[q] = "asleep_nwrite" => readopen /\ (Full \/ \E r \in Procs : pc[r] \in {"copy", "copied"})
\* A reader that has copied nothing yet found bytes, or the end.
Copying(q) == pc[q] = "copy" /\ i[q] = 0 => ~Empty \/ ~writeopen

Sleepers == \A q \in Procs : Going(q) /\ AsleepReading(q) /\ AsleepWriting(q) /\ Copying(q)

PInv == TypeOK /\ Locks /\ Ends /\ Sleepers
-----------------------------------------------------------------------------
\* A step of process p, without the choice of p.
Step(p) == InCall(p) \/ kill(p) \/ fileclose(p) \/ \E m \in Counts : call(p, m)

\* The counters and the positions in the ring stay in their ranges.
LEMMA Mod == \A a \in Nat, m \in Nat \ {0} : a % m \in 0 .. m - 1
OBVIOUS

\* The locals of a call: bytes asked and bytes done.
Locals == n \in [Procs -> Counts \cup {0}] /\ i \in [Procs -> Nat] /\ \A q \in Procs : n[q] \in Nat /\ i[q] <= n[q]

\* TypeOK says so, and that the bytes asked are a number.
LEMMA LocalsOK == TypeOK => Locals
<1>1. \A x \in Counts \cup {0} : x \in Nat
  BY PipeAssumption
<1> QED
  BY <1>1, Zenon DEF TypeOK, Locals

\* A return resets them.
LEMMA ReturnOK == ASSUME Locals, NEW p \in Procs, Return(p) PROVE Locals'
BY DEF Return, Locals

\* Every step of pipe.c keeps the types, the counters' ranges and i <= n.
LEMMA TypeStep ==
  ASSUME TypeOK, NEW p \in Procs, Step(p)
  PROVE  TypeOK'
<1> USE PipeAssumption
<1>1. CASE acquire(p)
  BY <1>1, Zenon DEF acquire, TypeOK, Places, pipevars, Goto, At
<1>2. CASE pipewrite_fails(p)
  BY <1>2, LocalsOK, ReturnOK, Zenon DEF pipewrite_fails, Locals, TypeOK, Places, pipevars, Goto, At
<1>3. CASE pipewrite_full(p)
  BY <1>3, Zenon DEF pipewrite_full, WokenFrom, Woken, Asleep, Acquire, TypeOK, Places, pipevars, Goto, At
<1>4. CASE pipewrite_done(p)
  BY <1>4, LocalsOK, ReturnOK, ZenonT(30) DEF pipewrite_done, WokenFrom, Woken, Asleep, Acquire, Locals,
     TypeOK, Places,
     pipevars, Goto, At
<1>5. CASE piperead_wait(p)
  <2>1. CASE killed[p]
    BY <1>5, <2>1, LocalsOK, ReturnOK, ZenonT(30) DEF piperead_wait, Locals, TypeOK, Places, pipevars, Goto, At
  <2>2. CASE ~killed[p]
    BY <1>5, <2>2, ZenonT(30) DEF piperead_wait, TypeOK, Places, pipevars, Goto, At
  <2> QED
    BY <2>1, <2>2, Zenon
<1>6. CASE piperead_start(p)
  BY <1>6, Zenon DEF piperead_start, TypeOK, Places, pipevars, Goto, At
<1>7. CASE piperead_done(p)
  BY <1>7, LocalsOK, ReturnOK, Zenon DEF piperead_done, WokenFrom, Woken, Asleep, Acquire, Locals, TypeOK,
     Places,
     pipevars, Goto, At
<1>8. CASE sleep(p)
  BY <1>8, ZenonT(30) DEF sleep, TypeOK, Places, pipevars, Goto, At
<1>9. CASE pipeclose(p)
  BY <1>9, Zenon DEF pipeclose, WokenFrom, Woken, Asleep, Acquire, BothClosed, TypeOK, Places, pipevars,
     Goto, At
<1>10. ASSUME NEW byte \in Bytes, pipewrite_byte(p, byte) PROVE TypeOK'
  <2>1. nwrite' \in 0 .. UINT - 1
    BY <1>10, Mod DEF pipewrite_byte, TypeOK
  <2>2. i' \in [Procs -> Nat] /\ n' = n /\ \A q \in Procs : i'[q] <= n[q]
    BY <1>10, LocalsOK DEF pipewrite_byte, Locals
  <2>3. data' \in [0 .. PIPESIZE - 1 -> Bytes]
    BY <1>10, Zenon DEF pipewrite_byte, TypeOK
  <2> QED
    BY <1>10, <2>1, <2>2, <2>3, Zenon DEF pipewrite_byte, TypeOK
<1>11. ASSUME NEW copied \in BOOLEAN, piperead_byte(p, copied) PROVE TypeOK'
  <2>1. nread' \in 0 .. UINT - 1 /\ nread % PIPESIZE \in 0 .. PIPESIZE - 1
    BY <1>11, Mod DEF piperead_byte, TypeOK
  <2>2. out' \in Bytes
    BY <1>11, <2>1, Zenon DEF piperead_byte, TypeOK
  <2>3. i' \in [Procs -> Nat] /\ n' = n /\ \A q \in Procs : i'[q] <= n[q]
    BY <1>11, LocalsOK DEF piperead_byte, More, Locals
  <2>4. pc' \in [Procs -> Places]
    BY <1>11, Zenon DEF piperead_byte, TypeOK, Goto, Places
  <2> QED
    BY <1>11, <2>1, <2>2, <2>3, <2>4, Zenon DEF piperead_byte, TypeOK
<1>12. CASE kill(p)
  BY <1>12, Zenon DEF kill, TypeOK, Places, pipevars, Goto, At
<1>13. CASE fileclose(p)
  BY <1>13, Zenon DEF fileclose, TypeOK, Places, pipevars, Goto, At
<1>14. ASSUME NEW m \in Counts, call(p, m) PROVE TypeOK'
  <2>1. Locals'
    <3>1. m \in Nat
      BY <1>14, PipeAssumption, Zenon
    <3> QED
      BY <1>14, <3>1, LocalsOK DEF call, Locals
  <2>2. pc' \in [Procs -> Places]
    BY <1>14 DEF call, TypeOK, Goto, Places
  <2> QED
    BY <1>14, <2>1, <2>2, Zenon DEF call, TypeOK, Locals, pipevars
<1> QED
  BY <1>1, <1>2, <1>3, <1>4, <1>5, <1>6, <1>7, <1>8, <1>9, <1>10, <1>11, <1>12, <1>13, <1>14, Zenon DEF
     Step, InCall

\* pi->lock is held exactly between acquire() and release() or sleep().
LEMMA LocksStep ==
  ASSUME TypeOK, Locks, NEW p \in Procs, Step(p)
  PROVE  Locks'
<1> USE PipeAssumption
<1>1. CASE acquire(p)
  BY <1>1, Zenon DEF acquire, TypeOK, Locks, Locked, Places, pipevars, Goto, At
<1>2. CASE pipewrite_fails(p)
  BY <1>2, Zenon DEF pipewrite_fails, Return, TypeOK, Locks, Locked, Places, pipevars, Goto, At
<1>3. CASE pipewrite_full(p)
  BY <1>3, Zenon DEF pipewrite_full, WokenFrom, Woken, Asleep, Acquire, TypeOK, Locks, Locked, Places, pipevars,
     Goto, At
<1>4. CASE pipewrite_done(p)
  BY <1>4, Zenon DEF pipewrite_done, WokenFrom, Woken, Asleep, Acquire, Return, TypeOK, Locks, Locked, Places,
     pipevars, Goto, At
<1>5. CASE piperead_wait(p)
  <2>1. CASE killed[p]
    BY <1>5, <2>1 DEF piperead_wait, TypeOK, Locks, Locked, Goto, At
  <2>2. CASE ~killed[p]
    BY <1>5, <2>2, Zenon DEF piperead_wait, TypeOK, Locks, Locked, Goto, At
  <2> QED
    BY <2>1, <2>2, Zenon
<1>6. CASE piperead_start(p)
  BY <1>6, Zenon DEF piperead_start, TypeOK, Locks, Locked, Places, pipevars, Goto, At
<1>7. CASE piperead_done(p)
  BY <1>7, Zenon DEF piperead_done, WokenFrom, Woken, Asleep, Acquire, Return, TypeOK, Locks, Locked, Places,
     pipevars, Goto, At
<1>8. CASE sleep(p)
  BY <1>8, ZenonT(30) DEF sleep, TypeOK, Locks, Locked, Places, pipevars, Goto, At
<1>9. CASE pipeclose(p)
  BY <1>9, Zenon DEF pipeclose, WokenFrom, Woken, Asleep, Acquire, BothClosed, TypeOK, Locks, Locked, Places,
     pipevars, Goto, At
<1>10. ASSUME NEW byte \in Bytes, pipewrite_byte(p, byte) PROVE Locks'
  BY <1>10, Zenon DEF pipewrite_byte, TypeOK, Locks, Locked, Places, pipevars, Goto, At
<1>11. ASSUME NEW copied \in BOOLEAN, piperead_byte(p, copied) PROVE Locks'
  BY <1>11, Zenon DEF piperead_byte, More, TypeOK, Locks, Locked, Places, pipevars, Goto, At
<1>12. CASE kill(p)
  BY <1>12, Zenon DEF kill, TypeOK, Locks, Locked, Places, pipevars, Goto, At
<1>13. CASE fileclose(p)
  BY <1>13 DEF fileclose, TypeOK, Locks, Locked, Places, pipevars, Goto, At
<1>14. ASSUME NEW m \in Counts, call(p, m) PROVE Locks'
  BY <1>14 DEF call, TypeOK, Locks, Locked, Places, pipevars, Goto, At
<1> QED
  BY <1>1, <1>2, <1>3, <1>4, <1>5, <1>6, <1>7, <1>8, <1>9, <1>10, <1>11, <1>12, <1>13, <1>14, Zenon DEF
     Step, InCall

\* References, open flags and the life of the page agree.
LEMMA EndsStep ==
  ASSUME TypeOK, Locks, Ends, NEW p \in Procs, Step(p)
  PROVE  Ends'
<1> USE PipeAssumption
<1>1. CASE acquire(p)
  BY <1>1 DEF acquire, TypeOK, Locks, Ends, Locked, Writing, Reading, Places, pipevars, Goto, At
<1>2. CASE pipewrite_fails(p)
  BY <1>2 DEF pipewrite_fails, Return, TypeOK, Locks, Ends, Locked, Writing, Reading, Places, pipevars, Goto, At
<1>3. CASE pipewrite_full(p)
  BY <1>3, ZenonT(30) DEF pipewrite_full, WokenFrom, Woken, Asleep, Acquire, TypeOK, Locks, Ends, Locked,
     Writing,
     Reading, Places, pipevars, Goto, At
<1>4. CASE pipewrite_done(p)
  BY <1>4, ZenonT(30) DEF pipewrite_done, WokenFrom, Woken, Asleep, Acquire, Return, TypeOK, Locks, Ends,
     Locked,
     Writing, Reading, Places, pipevars, Goto, At
<1>5. CASE piperead_wait(p)
  BY <1>5 DEF piperead_wait, Return, TypeOK, Locks, Ends, Locked, Writing, Reading, Places, pipevars, Goto, At
<1>6. CASE piperead_start(p)
  BY <1>6 DEF piperead_start, TypeOK, Locks, Ends, Locked, Writing, Reading, Places, pipevars, Goto, At
<1>7. CASE piperead_done(p)
  BY <1>7, ZenonT(30) DEF piperead_done, WokenFrom, Woken, Asleep, Acquire, Return, TypeOK, Locks, Ends, Locked,
     Writing, Reading, Places, pipevars, Goto, At
<1>8. CASE sleep(p)
  <2>1. UNCHANGED <<readopen, writeopen, allocated, rref, wref>>
    BY <1>8, Zenon DEF sleep, pipevars
  <2>2. \A q \in Procs : q # p => pc'[q] = pc[q]
    BY <1>8, Zenon DEF sleep, Goto, TypeOK
  <2>3. \/ pc[p] = "sleep_nread" /\ pc'[p] = "asleep_nread"
        \/ pc[p] = "sleep_nwrite" /\ pc'[p] = "asleep_nwrite"
    BY <1>8, Zenon DEF sleep, At, Goto, TypeOK
  <2> QED
    BY <2>1, <2>2, <2>3 DEF Ends, Writing, Reading
<1>9. CASE pipeclose(p)
  <2>1. CASE pc[p] = "close_write"
    <3>1. \A q \in Procs : pc'[q] = IF q = p THEN "user" ELSE IF pc[q] = "asleep_nread" THEN "acquire_nread" ELSE pc[q]
      BY <1>9, <2>1, Zenon DEF pipeclose, WokenFrom, Woken, Asleep, Acquire, TypeOK
    <3>2. ~writeopen' /\ readopen' = readopen /\ wref' = {} /\ rref' = rref /\ (allocated' <=> readopen)
      BY <1>9, <2>1, ZenonT(30) DEF pipeclose, BothClosed, TypeOK, Ends
    <3>3. \A q \in Procs : pc[q] \notin Writing /\ (pc[q] = "close_write" => q = p)
      BY <2>1, Zenon DEF Ends
    <3> QED
      BY <2>1, <3>1, <3>2, <3>3 DEF Ends, Writing, Reading
  <2>2. CASE pc[p] = "close_read"
    <3>1. \A q \in Procs : pc'[q] = IF q = p THEN "user" ELSE IF pc[q] = "asleep_nwrite" THEN "acquire_nwrite" ELSE pc[q]
      BY <1>9, <2>2, Zenon DEF pipeclose, WokenFrom, Woken, Asleep, Acquire, TypeOK
    <3>2. writeopen' = writeopen /\ ~readopen' /\ wref' = wref /\ rref' = {} /\ (allocated' <=> writeopen)
      BY <1>9, <2>2, ZenonT(30) DEF pipeclose, BothClosed, TypeOK, Ends
    <3>3. \A q \in Procs : pc[q] \notin Reading /\ (pc[q] = "close_read" => q = p)
      BY <2>2, Zenon DEF Ends
    <3> QED
      BY <2>2, <3>1, <3>2, <3>3 DEF Ends, Writing, Reading
  <2> QED
    BY <1>9, <2>1, <2>2, Zenon DEF pipeclose
<1>10. ASSUME NEW byte \in Bytes, pipewrite_byte(p, byte) PROVE Ends'
  BY <1>10, Zenon DEF pipewrite_byte, TypeOK, Locks, Ends, Locked, Writing, Reading, Places, pipevars, Goto, At
<1>11. ASSUME NEW copied \in BOOLEAN, piperead_byte(p, copied) PROVE Ends'
  BY <1>11 DEF piperead_byte, More, TypeOK, Locks, Ends, Locked, Writing, Reading, Places, pipevars, Goto, At
<1>12. CASE kill(p)
  BY <1>12 DEF kill, TypeOK, Locks, Ends, Locked, Writing, Reading, Places, pipevars, Goto, At
<1>13. CASE fileclose(p)
  BY <1>13 DEF fileclose, TypeOK, Locks, Ends, Locked, Writing, Reading, Places, pipevars, Goto, At
<1>14. ASSUME NEW m \in Counts, call(p, m) PROVE Ends'
  <2>1. UNCHANGED <<readopen, writeopen, allocated, rref, wref>>
    BY <1>14, Zenon DEF call, pipevars
  <2>2. \A q \in Procs : q # p => pc'[q] = pc[q]
    BY <1>14, Zenon DEF call, Goto, TypeOK
  <2>3. \/ pc'[p] = "acquire_nwrite" /\ p \in wref
        \/ pc'[p] = "acquire_nread" /\ p \in rref
    BY <1>14, Zenon DEF call, Goto, TypeOK
  <2>4. pc[p] = "user"
    BY <1>14, Zenon DEF call
  <2> QED
    BY <2>1, <2>2, <2>3, <2>4 DEF Ends, Writing, Reading
<1> QED
  BY <1>1, <1>2, <1>3, <1>4, <1>5, <1>6, <1>7, <1>8, <1>9, <1>10, <1>11, <1>12, <1>13, <1>14, Zenon DEF
     Step, InCall

\* A sleeper has reason to sleep, or the holder of the lock will wake it.
LEMMA SleepersStep ==
  ASSUME TypeOK, Locks, Ends, Sleepers, NEW p \in Procs, Step(p)
  PROVE  Sleepers'
<1> USE PipeAssumption
<1>1. CASE acquire(p)
  <2> SUFFICES ASSUME NEW q \in Procs PROVE (Going(q) /\ AsleepReading(q) /\ AsleepWriting(q) /\ Copying(q))'
    BY Zenon DEF Sleepers
  <2>1. Going(q)'
    BY <1>1, Zenon DEF acquire, TypeOK, pipevars, Goto, At, Sleepers, Going, Locks, Locked, Empty, Full
  <2>2. AsleepReading(q)'
    BY <1>1, Zenon DEF acquire, TypeOK, pipevars, Goto, At, Sleepers, AsleepReading, Locks, Locked, Ends,
       Writing,
       Reading, KilledWriter, Empty
  <2>3. AsleepWriting(q)'
    BY <1>1, Zenon DEF acquire, TypeOK, pipevars, Goto, At, Sleepers, AsleepWriting, Locks, Locked, Full
  <2>4. Copying(q)'
    BY <1>1, Zenon DEF acquire, TypeOK, pipevars, Goto, At, Sleepers, Copying, Locks, Locked, Empty
  <2> QED
    BY <2>1, <2>2, <2>3, <2>4, Zenon
<1>2. CASE pipewrite_fails(p)
  <2> SUFFICES ASSUME NEW q \in Procs PROVE (Going(q) /\ AsleepReading(q) /\ AsleepWriting(q) /\ Copying(q))'
    BY DEF Sleepers
  <2>1. Going(q)'
    BY <1>2, Zenon DEF pipewrite_fails, Return, TypeOK, pipevars, Goto, At, Sleepers, Going, Locks, Locked,
       Empty, Full
  <2>2. AsleepReading(q)'
    BY <1>2, Zenon DEF pipewrite_fails, Return, TypeOK, pipevars, Goto, At, Sleepers, AsleepReading, Locks,
       Locked,
       Ends, Writing, Reading, KilledWriter, Empty
  <2>3. AsleepWriting(q)'
    BY <1>2, ZenonT(30) DEF pipewrite_fails, Return, TypeOK, pipevars, Goto, At, Sleepers, AsleepWriting,
       Locks, Locked,
       Full
  <2>4. Copying(q)'
    BY <1>2, Zenon DEF pipewrite_fails, Return, TypeOK, pipevars, Goto, At, Sleepers, Copying, Locks,
       Locked, Empty
  <2> QED
    BY <2>1, <2>2, <2>3, <2>4
<1>3. CASE pipewrite_full(p)
  <2> SUFFICES ASSUME NEW q \in Procs PROVE (Going(q) /\ AsleepReading(q) /\ AsleepWriting(q) /\ Copying(q))'
    BY DEF Sleepers
  <2>1. Going(q)'
    BY <1>3, Zenon DEF pipewrite_full, WokenFrom, Woken, Asleep, Acquire, TypeOK, pipevars, Goto, At, Sleepers,
       Going, Locks, Locked, Empty, Full
  <2>2. AsleepReading(q)'
    BY <1>3, Zenon DEF pipewrite_full, WokenFrom, Woken, Asleep, Acquire, TypeOK, pipevars, Goto, At, Sleepers,
       AsleepReading, Locks, Locked, Ends, Writing, Reading, KilledWriter, Empty
  <2>3. AsleepWriting(q)'
    BY <1>3, Zenon DEF pipewrite_full, WokenFrom, Woken, Asleep, Acquire, TypeOK, pipevars, Goto, At, Sleepers,
       AsleepWriting, Locks, Locked, Full
  <2>4. Copying(q)'
    BY <1>3, Zenon DEF pipewrite_full, WokenFrom, Woken, Asleep, Acquire, TypeOK, pipevars, Goto, At, Sleepers,
       Copying, Locks, Locked, Empty
  <2> QED
    BY <2>1, <2>2, <2>3, <2>4
<1>4. CASE pipewrite_done(p)
  <2> SUFFICES ASSUME NEW q \in Procs PROVE (Going(q) /\ AsleepReading(q) /\ AsleepWriting(q) /\ Copying(q))'
    BY DEF Sleepers
  <2>1. Going(q)'
    BY <1>4, Zenon DEF pipewrite_done, WokenFrom, Woken, Asleep, Acquire, Return, TypeOK, pipevars, Goto, At,
       Sleepers, Going, Locks, Locked, Empty, Full
  <2>2. AsleepReading(q)'
    BY <1>4, Zenon DEF pipewrite_done, WokenFrom, Woken, Asleep, Acquire, Return, TypeOK, pipevars, Goto, At,
       Sleepers, AsleepReading, Locks, Locked, Ends, Writing, Reading, KilledWriter, Empty
  <2>3. AsleepWriting(q)'
    BY <1>4, ZenonT(30) DEF pipewrite_done, WokenFrom, Woken, Asleep, Acquire, Return, TypeOK, pipevars,
       Goto, At,
       Sleepers, AsleepWriting, Locks, Locked, Full
  <2>4. Copying(q)'
    BY <1>4, Zenon DEF pipewrite_done, WokenFrom, Woken, Asleep, Acquire, Return, TypeOK, pipevars, Goto, At,
       Sleepers, Copying, Locks, Locked, Empty
  <2> QED
    BY <2>1, <2>2, <2>3, <2>4
<1>5. CASE piperead_wait(p)
  <2> SUFFICES ASSUME NEW q \in Procs PROVE (Going(q) /\ AsleepReading(q) /\ AsleepWriting(q) /\ Copying(q))'
    BY DEF Sleepers
  <2>1. Going(q)'
    BY <1>5 DEF piperead_wait, Return, TypeOK, pipevars, Goto, At, Sleepers, Going, Locks, Locked, Empty, Full
  <2>2. AsleepReading(q)'
    BY <1>5, Zenon DEF piperead_wait, Return, TypeOK, pipevars, Goto, At, Sleepers, AsleepReading, Locks,
       Locked,
       Ends, Writing, Reading, KilledWriter, Empty
  <2>3. AsleepWriting(q)'
    BY <1>5 DEF piperead_wait, Return, TypeOK, pipevars, Goto, At, Sleepers, AsleepWriting, Locks, Locked, Full
  <2>4. Copying(q)'
    BY <1>5 DEF piperead_wait, Return, TypeOK, pipevars, Goto, At, Sleepers, Copying, Locks, Locked, Empty
  <2> QED
    BY <2>1, <2>2, <2>3, <2>4
<1>6. CASE piperead_start(p)
  <2> SUFFICES ASSUME NEW q \in Procs PROVE (Going(q) /\ AsleepReading(q) /\ AsleepWriting(q) /\ Copying(q))'
    BY DEF Sleepers
  <2>1. Going(q)'
    BY <1>6, Zenon DEF piperead_start, TypeOK, pipevars, Goto, At, Sleepers, Going, Locks, Locked, Empty, Full
  <2>2. AsleepReading(q)'
    BY <1>6, Zenon DEF piperead_start, TypeOK, pipevars, Goto, At, Sleepers, AsleepReading, Locks, Locked, Ends,
       Writing, Reading, KilledWriter, Empty
  <2>3. AsleepWriting(q)'
    BY <1>6, Zenon DEF piperead_start, TypeOK, pipevars, Goto, At, Sleepers, AsleepWriting, Locks, Locked, Full
  <2>4. Copying(q)'
    BY <1>6, Zenon DEF piperead_start, TypeOK, pipevars, Goto, At, Sleepers, Copying, Locks, Locked, Empty
  <2> QED
    BY <2>1, <2>2, <2>3, <2>4
<1>7. CASE piperead_done(p)
  <2> SUFFICES ASSUME NEW q \in Procs PROVE (Going(q) /\ AsleepReading(q) /\ AsleepWriting(q) /\ Copying(q))'
    BY DEF Sleepers
  <2>1. Going(q)'
    BY <1>7, Zenon DEF piperead_done, WokenFrom, Woken, Asleep, Acquire, Return, TypeOK, pipevars, Goto, At,
       Sleepers, Going, Locks, Locked, Empty, Full
  <2>2. AsleepReading(q)'
    BY <1>7, ZenonT(30) DEF piperead_done, WokenFrom, Woken, Asleep, Acquire, Return, TypeOK, pipevars,
       Goto, At,
       Sleepers, AsleepReading, Locks, Locked, Ends, Writing, Reading, KilledWriter, Empty
  <2>3. AsleepWriting(q)'
    BY <1>7, Zenon DEF piperead_done, WokenFrom, Woken, Asleep, Acquire, Return, TypeOK, pipevars, Goto, At,
       Sleepers, AsleepWriting, Locks, Locked, Full
  <2>4. Copying(q)'
    BY <1>7, Zenon DEF piperead_done, WokenFrom, Woken, Asleep, Acquire, Return, TypeOK, pipevars, Goto, At,
       Sleepers, Copying, Locks, Locked, Empty
  <2> QED
    BY <2>1, <2>2, <2>3, <2>4
<1>8. CASE sleep(p)
  <2> SUFFICES ASSUME NEW q \in Procs PROVE (Going(q) /\ AsleepReading(q) /\ AsleepWriting(q) /\ Copying(q))'
    BY DEF Sleepers
  <2>1. Going(q)' /\ Copying(q)'
    BY <1>8 DEF sleep, TypeOK, pipevars, Goto, At, Sleepers, Going, Copying, Locks, Locked, Empty, Full
  <2>2. CASE q # p
    <3>1. pc'[q] = pc[q] /\ UNCHANGED <<readopen, writeopen, killed, Empty, Full>>
      BY <1>8, <2>2, Zenon DEF sleep, TypeOK, pipevars, Goto, Empty, Full
    <3>2. \A r \in Procs : pc[r] \notin {"write", "copy", "copied"}
      BY <1>8, Zenon DEF sleep, At, TypeOK, Locks, Locked
    <3> QED
      BY <2>1, <3>1, <3>2, Zenon DEF Sleepers, AsleepReading, AsleepWriting, KilledWriter
  <2>3. CASE q = p
    <3>1. UNCHANGED <<readopen, writeopen, killed, Empty, Full>>
      BY <1>8, Zenon DEF sleep, pipevars, Empty, Full
    <3>2. CASE pc[p] = "sleep_nread"
      BY <1>8, <2>1, <2>3, <3>1, <3>2, Zenon DEF sleep, TypeOK, Goto, At, Sleepers, Going, AsleepReading,
         AsleepWriting
    <3>3. CASE pc[p] = "sleep_nwrite"
      BY <1>8, <2>1, <2>3, <3>1, <3>3, Zenon DEF sleep, TypeOK, Goto, At, Sleepers, Going, AsleepReading,
         AsleepWriting
    <3> QED
      BY <1>8, <3>2, <3>3, Zenon DEF sleep, At
  <2> QED
    BY <2>2, <2>3, Zenon
<1>9. CASE pipeclose(p)
  <2> SUFFICES ASSUME NEW q \in Procs PROVE (Going(q) /\ AsleepReading(q) /\ AsleepWriting(q) /\ Copying(q))'
    BY DEF Sleepers
  <2>1. Going(q)'
    BY <1>9, Zenon DEF pipeclose, WokenFrom, Woken, Asleep, Acquire, BothClosed, TypeOK, pipevars, Goto, At,
       Sleepers, Going, Locks, Locked, Empty, Full
  <2>2. AsleepReading(q)'
    BY <1>9, Zenon DEF pipeclose, WokenFrom, Woken, Asleep, Acquire, BothClosed, TypeOK, pipevars, Goto, At,
       Sleepers, AsleepReading, Locks, Locked, Ends, Writing, Reading, KilledWriter, Empty
  <2>3. AsleepWriting(q)'
    BY <1>9, ZenonT(30) DEF pipeclose, WokenFrom, Woken, Asleep, Acquire, BothClosed, TypeOK, pipevars,
       Goto, At,
       Sleepers, AsleepWriting, Locks, Locked, Full
  <2>4. Copying(q)'
    BY <1>9, Zenon DEF pipeclose, WokenFrom, Woken, Asleep, Acquire, BothClosed, TypeOK, pipevars, Goto, At,
       Sleepers, Copying, Locks, Locked, Empty
  <2> QED
    BY <2>1, <2>2, <2>3, <2>4
<1>10. ASSUME NEW byte \in Bytes, pipewrite_byte(p, byte) PROVE Sleepers'
  <2> SUFFICES ASSUME NEW q \in Procs PROVE (Going(q) /\ AsleepReading(q) /\ AsleepWriting(q) /\ Copying(q))'
    BY Zenon DEF Sleepers
  <2>1. Going(q)'
    BY <1>10, Zenon DEF pipewrite_byte, TypeOK, pipevars, Goto, At, Sleepers, Going, Locks, Locked, Empty, Full
  <2>2. AsleepReading(q)'
    BY <1>10, Zenon DEF pipewrite_byte, TypeOK, pipevars, Goto, At, Sleepers, AsleepReading, Locks, Locked,
       Ends,
       Writing, Reading, KilledWriter, Empty
  <2>3. AsleepWriting(q)'
    BY <1>10, Zenon DEF pipewrite_byte, TypeOK, pipevars, Goto, At, Sleepers, AsleepWriting, Locks, Locked, Full
  <2>4. Copying(q)'
    BY <1>10, Zenon DEF pipewrite_byte, TypeOK, pipevars, Goto, At, Sleepers, Copying, Locks, Locked, Empty
  <2> QED
    BY <2>1, <2>2, <2>3, <2>4, Zenon
<1>11. ASSUME NEW copied \in BOOLEAN, piperead_byte(p, copied) PROVE Sleepers'
  <2> SUFFICES ASSUME NEW q \in Procs PROVE (Going(q) /\ AsleepReading(q) /\ AsleepWriting(q) /\ Copying(q))'
    BY Zenon DEF Sleepers
  <2>1. Going(q)'
    BY <1>11, Zenon DEF piperead_byte, More, TypeOK, pipevars, Goto, At, Sleepers, Going, Locks, Locked,
       Empty, Full
  <2>2. AsleepReading(q)'
    BY <1>11 DEF piperead_byte, More, TypeOK, pipevars, Goto, At, Sleepers, AsleepReading, Locks, Locked,
       Ends, Writing, Reading, KilledWriter, Empty
  <2>3. AsleepWriting(q)'
    BY <1>11, Zenon DEF piperead_byte, More, TypeOK, pipevars, Goto, At, Sleepers, AsleepWriting, Locks,
       Locked, Full
  <2>4. Copying(q)'
    BY <1>11 DEF piperead_byte, More, TypeOK, pipevars, Goto, At, Sleepers, Copying, Locks, Locked, Empty
  <2> QED
    BY <2>1, <2>2, <2>3, <2>4, Zenon
<1>12. CASE kill(p)
  <2> SUFFICES ASSUME NEW q \in Procs PROVE (Going(q) /\ AsleepReading(q) /\ AsleepWriting(q) /\ Copying(q))'
    BY DEF Sleepers
  <2>1. Going(q)'
    BY <1>12, Zenon DEF kill, TypeOK, pipevars, Goto, At, Sleepers, Going, Locks, Locked, Empty, Full
  <2>2. AsleepReading(q)'
    BY <1>12 DEF kill, TypeOK, pipevars, Goto, At, Sleepers, AsleepReading, Locks, Locked, Ends, Writing,
       Reading, KilledWriter, Empty
  <2>3. AsleepWriting(q)'
    BY <1>12, Zenon DEF kill, TypeOK, pipevars, Goto, At, Sleepers, AsleepWriting, Locks, Locked, Full
  <2>4. Copying(q)'
    BY <1>12, Zenon DEF kill, TypeOK, pipevars, Goto, At, Sleepers, Copying, Locks, Locked, Empty
  <2> QED
    BY <2>1, <2>2, <2>3, <2>4
<1>13. CASE fileclose(p)
  <2> SUFFICES ASSUME NEW q \in Procs PROVE (Going(q) /\ AsleepReading(q) /\ AsleepWriting(q) /\ Copying(q))'
    BY DEF Sleepers
  <2>1. Going(q)'
    BY <1>13 DEF fileclose, TypeOK, pipevars, Goto, At, Sleepers, Going, Locks, Locked, Empty, Full
  <2>2. AsleepReading(q)'
    BY <1>13, ZenonT(30) DEF fileclose, TypeOK, pipevars, Goto, At, Sleepers, AsleepReading, Locks, Locked,
       Ends,
       Writing, Reading, KilledWriter, Empty
  <2>3. AsleepWriting(q)'
    BY <1>13 DEF fileclose, TypeOK, pipevars, Goto, At, Sleepers, AsleepWriting, Locks, Locked, Full
  <2>4. Copying(q)'
    BY <1>13 DEF fileclose, TypeOK, pipevars, Goto, At, Sleepers, Copying, Locks, Locked, Empty
  <2> QED
    BY <2>1, <2>2, <2>3, <2>4
<1>14. ASSUME NEW m \in Counts, call(p, m) PROVE Sleepers'
  <2> SUFFICES ASSUME NEW q \in Procs PROVE (Going(q) /\ AsleepReading(q) /\ AsleepWriting(q) /\ Copying(q))'
    BY Zenon DEF Sleepers
  <2>1. Going(q)'
    BY <1>14, Zenon DEF call, TypeOK, pipevars, Goto, At, Sleepers, Going, Locks, Locked, Empty, Full
  <2>2. AsleepReading(q)'
    BY <1>14 DEF call, TypeOK, pipevars, Goto, At, Sleepers, AsleepReading, Locks, Locked, Ends, Writing,
       Reading, KilledWriter, Empty
  <2>3. AsleepWriting(q)'
    BY <1>14 DEF call, TypeOK, pipevars, Goto, At, Sleepers, AsleepWriting, Locks, Locked, Full
  <2>4. Copying(q)'
    BY <1>14 DEF call, TypeOK, pipevars, Goto, At, Sleepers, Copying, Locks, Locked, Empty
  <2> QED
    BY <2>1, <2>2, <2>3, <2>4, Zenon
<1> QED
  BY <1>1, <1>2, <1>3, <1>4, <1>5, <1>6, <1>7, <1>8, <1>9, <1>10, <1>11, <1>12, <1>13, <1>14, Zenon DEF
     Step, InCall

-----------------------------------------------------------------------------
\* The pipe as pipealloc() leaves it satisfies the invariant.
LEMMA InitPInv == Init => PInv
BY PipeAssumption DEF Init, PInv, TypeOK, Locks, Ends, Sleepers, Going, AsleepReading, AsleepWriting, Copying,
   Places, Locked, Writing, Reading, Empty

\* Every step of every process keeps it.
LEMMA StepPInv == PInv /\ [Next]_vars => PInv'
<1> SUFFICES ASSUME PInv, [Next]_vars PROVE PInv'
  BY Zenon
<1>1. ASSUME NEW p \in Procs, Step(p) PROVE PInv'
  BY <1>1, TypeStep, LocksStep, EndsStep, SleepersStep, Zenon DEF PInv
<1>2. CASE UNCHANGED vars
  BY <1>2, Zenon DEF vars, PInv, TypeOK, Locks, Ends, Sleepers, Going, AsleepReading, AsleepWriting, Copying,
     KilledWriter, Empty, Full
<1> QED
  BY <1>1, <1>2, Zenon DEF Next, Step

\* What the invariant says of the page and of the sleepers.
LEMMA PInvPipeInv == PInv => PipeInv /\ WritersWait
<1> SUFFICES ASSUME PInv PROVE PipeInv /\ WritersWait
  BY Zenon
<1>1. NoUseAfterFree
  BY ZenonT(30) DEF NoUseAfterFree, PInv, TypeOK, Ends, Writing, Reading, Places
<1>2. ReadersWait
  BY PipeAssumption, Zenon DEF ReadersWait, PInv, Locks, Locked, Sleepers, AsleepReading, KilledWriter
<1>3. WritersWait
  BY PipeAssumption, Zenon DEF WritersWait, PInv, Locks, Locked, Sleepers, AsleepWriting
<1> QED
  BY <1>1, <1>2, <1>3, Zenon DEF PipeInv, PInv

\* The inductive invariant holds in every reachable state.
THEOREM PipeInvariant == Spec => []PInv
<1> QED
  BY InitPInv, StepPInv, PTL DEF Spec

\* For any number of readers and writers the page is freed once and never used
\* afterwards, and a sleeping reader has nothing to read (PipeInv).
THEOREM PipeIsSafe == Spec => []PipeInv
<1> QED
  BY PipeInvariant, PInvPipeInv, PTL

\* A writer asleep in pipewrite() with the lock free has a full pipe before it and a
\* reader that can make room.
THEOREM WritersHaveReason == Spec => []WritersWait
<1> QED
  BY PipeInvariant, PInvPipeInv, PTL

\* piperead() returns 0 to a reader that asked for bytes only when every write end is
\* closed and the ring is empty.
THEOREM EofMeansEnd == Spec => EofIsEnd
<1>1. ASSUME PInv, NEW p \in Procs, piperead_done(p), pc[p] = "copy", n[p] > 0, i[p] = 0
      PROVE  Empty /\ wref = {}
  <2>1. Empty
    BY <1>1 DEF piperead_done, At
  <2>2. ~writeopen
    BY <1>1, <2>1, Zenon DEF PInv, Sleepers, Copying
  <2> QED
    BY <1>1, <2>1, <2>2, Zenon DEF PInv, Ends
<1>2. PInv /\ [Next]_vars =>
        [\A p \in Procs : piperead_done(p) /\ pc[p] = "copy" /\ n[p] > 0 /\ i[p] = 0 => Empty /\ wref = {}]_vars
  BY <1>1, Zenon
<1> QED
  BY <1>2, PipeInvariant, PTL DEF EofIsEnd, Spec
-----------------------------------------------------------------------------
\* Quotient and remainder, as \div and % define them.
LEMMA Division == \A m \in Nat \ {0} : \A x \in Int : x = (x \div m) * m + (x % m)
BY SMTT(30)

\* A number has one remainder.
LEMMA ModUnique ==
  ASSUME NEW m \in Nat \ {0}, NEW q \in Int, NEW r \in 0 .. m - 1 PROVE (q * m + r) % m = r
OBVIOUS

\* The ring index does not notice that a counter has wrapped.
LEMMA ModShift ==
  ASSUME NEW m \in Nat \ {0}, NEW u \in Nat, u % m = 0, NEW x \in Nat PROVE (x + u) % m = x % m
<1> DEFINE q == x \div m
           s == u \div m
           r == x % m
<1>1. q \in Int /\ s \in Int /\ r \in 0 .. m - 1
  OBVIOUS
<1>2. x = q * m + r
  BY Division
<1>3. u = s * m
  BY Division
<1> HIDE DEF q, s, r
<1>4. x + u = (q + s) * m + r
  BY <1>1, <1>2, <1>3
<1>5. (x + u) % m = r
  <2>1. \A k \in Int : (k * m + r) % m = r
    BY <1>1, ModUnique, Zenon
  <2>2. q + s \in Int
    BY <1>1
  <2>3. ((q + s) * m + r) % m = r
    BY <2>1, <2>2, Zenon
  <2> QED
    BY <1>4, <2>3, Zenon
<1> QED
  BY <1>5, Zenon DEF r

\* Positions less than the size of the ring apart are different slots.
LEMMA ModApart ==
  ASSUME NEW m \in Nat \ {0}, NEW x \in Nat, NEW y \in Nat, x < y, y - x < m PROVE x % m # y % m
<1> SUFFICES ASSUME x % m = y % m PROVE FALSE
  BY Zenon
<1> DEFINE q == x \div m
           s == y \div m
           r == x % m
<1>1. q \in Int /\ s \in Int /\ r \in 0 .. m - 1
  OBVIOUS
<1>2. x = q * m + r /\ y = s * m + r
  BY Division
<1> HIDE DEF q, s, r
<1>3. y - x = (s - q) * m
  BY <1>1, <1>2
<1>4. CASE s - q <= 0
  <2>1. (s - q) * m <= 0
    BY <1>1, <1>4
  <2> QED
    BY <1>3, <2>1
<1>5. CASE s - q >= 1
  <2>1. (s - q) * m >= m
    BY <1>1, <1>5
  <2> QED
    BY <1>3, <2>1
<1> QED
  BY <1>1, <1>4, <1>5
\* data[nwrite % PIPESIZE] is the same slot after nwrite wraps.
LEMMA Wraps == \A x \in Nat : (x + UINT) % PIPESIZE = x % PIPESIZE
<1>1. PIPESIZE \in Nat \ {0} /\ UINT \in Nat /\ UINT % PIPESIZE = 0
  BY PipeAssumption, Zenon
<1> QED
  BY <1>1, ModShift, ZenonT(30)
-----------------------------------------------------------------------------
\* The bytes that wait, and the slot of the k-th of them.
Used == (nwrite - nread) % UINT
Slot(k) == (nread + k - 1) % PIPESIZE
Counters == nread \in 0 .. UINT - 1 /\ nwrite \in 0 .. UINT - 1

\* nwrite - nread in unsigned arithmetic.
LEMMA UsedIs ==
  ASSUME Counters
  PROVE  /\ Used \in 0 .. UINT - 1
         /\ nread <= nwrite => Used = nwrite - nread
         /\ nread > nwrite => Used = nwrite - nread + UINT
BY PipeAssumption DEF Used, Counters

\* The next byte goes to nwrite's slot, and no byte that waits is there.
LEMMA Slots ==
  ASSUME Counters
  PROVE  /\ Slot(Used + 1) = nwrite % PIPESIZE
         /\ \A k \in 1 .. Used : Slot(k) \in 0 .. PIPESIZE - 1
         /\ Used < PIPESIZE => \A k \in 1 .. Used : Slot(k) # nwrite % PIPESIZE
<1> USE PipeAssumption
<1>1. Slot(Used + 1) = nwrite % PIPESIZE
  <2>1. CASE nread <= nwrite
    BY <2>1, UsedIs DEF Slot, Counters
  <2>2. CASE nread > nwrite
    <3>1. nread + (Used + 1) - 1 = nwrite + UINT
      BY <2>2, UsedIs DEF Counters
    <3>2. (nwrite + UINT) % PIPESIZE = nwrite % PIPESIZE
      <4>1. nwrite \in Nat
        BY DEF Counters
      <4> QED
        BY <4>1, Wraps, ZenonT(30)
    <3> QED
      BY <3>1, <3>2, Zenon DEF Slot
  <2> QED
    BY <2>1, <2>2 DEF Counters
<1>2. ASSUME NEW k \in 1 .. Used PROVE Slot(k) \in 0 .. PIPESIZE - 1
  BY UsedIs DEF Slot, Counters
<1>3. ASSUME Used < PIPESIZE, NEW k \in 1 .. Used PROVE Slot(k) # Slot(Used + 1)
  <2> DEFINE x == nread + k - 1
             y == nread + (Used + 1) - 1
  <2>1. x \in Nat /\ y \in Nat /\ x < y /\ y - x < PIPESIZE
    BY <1>3, UsedIs DEF Counters
  <2>2. x % PIPESIZE # y % PIPESIZE
    BY <2>1, ModApart, Zenon
  <2> QED
    BY <2>2, Zenon DEF Slot
<1> QED
  BY <1>1, <1>2, <1>3, Zenon

\* A full ring, as pipewrite() tests it.
LEMMA FullIs == ASSUME Counters PROVE Full <=> Used = PIPESIZE
BY PipeAssumption, UsedIs DEF Full, Counters

\* Storing a byte: nwrite advances, wrapped or not.
LEMMA UsedPut ==
  ASSUME Counters, nread' = nread, nwrite' = (nwrite + 1) % UINT, Used < PIPESIZE
  PROVE  Used' = Used + 1
BY PipeAssumption, UsedIs DEF Used, Counters

\* Taking a byte: nread advances.
LEMMA UsedGet ==
  ASSUME Counters, nwrite' = nwrite, nread' = (nread + 1) % UINT, ~Empty
  PROVE  Used > 0 /\ Used' = Used - 1 /\ \A k \in 1 .. Used - 1 : Slot(k)' = Slot(k + 1)
<1> USE PipeAssumption
<1>1. CASE nread + 1 < UINT
  BY <1>1, UsedIs DEF Used, Counters, Empty, Slot
<1>2. CASE nread + 1 = UINT
  <2>1. nread' = 0
    BY <1>2
  <2>2. Used = nwrite + 1 /\ Used' = nwrite
    BY <1>2, <2>1, UsedIs DEF Used, Counters, Empty
  <2>3. ASSUME NEW k \in 1 .. Used - 1 PROVE Slot(k)' = Slot(k + 1)
    <3>1. (k - 1 + UINT) % PIPESIZE = (k - 1) % PIPESIZE
      <4>1. k - 1 \in Nat
        BY <2>2 DEF Counters
      <4> QED
        BY <4>1, Wraps, ZenonT(30)
    <3>2. Slot(k)' = (k - 1) % PIPESIZE
      BY <2>1 DEF Slot
    <3>3. nread + (k + 1) - 1 = k - 1 + UINT
      BY <1>2, <2>2 DEF Counters
    <3> QED
      BY <3>1, <3>2, <3>3, Zenon DEF Slot
  <2> QED
    BY <2>2, <2>3 DEF Counters
<1> QED
  BY <1>1, <1>2 DEF Counters
-----------------------------------------------------------------------------
\* The counters are at most PIPESIZE apart.
SInv == PInv /\ Used <= PIPESIZE

\* What the refinement mapping makes of the ring.
Ring == Buffered \in Seq(Bytes) /\ Len(Buffered) = Used /\ \A k \in 1 .. Used : Buffered[k] = data[Slot(k)]

\* The mapping is a sequence of bytes, one for every position between the counters.
LEMMA BufferedIs == TypeOK => Ring
<1> SUFFICES ASSUME TypeOK PROVE Ring
  BY Zenon
<1>1. Counters
  BY Zenon DEF TypeOK, Counters
<1>2. Used \in Nat
  BY <1>1, UsedIs
<1>3. Buffered = [k \in 1 .. Used |-> data[Slot(k)]]
  BY Zenon DEF Buffered, Used, Slot
<1>4. \A k \in 1 .. Used : data[Slot(k)] \in Bytes
  BY <1>1, Slots, Zenon DEF TypeOK
<1>5. Buffered \in [1 .. Used -> Bytes]
  BY <1>3, <1>4, Zenon
<1>6. Buffered \in Seq(Bytes) /\ Len(Buffered) = Used
  BY <1>2, <1>5
<1> QED
  BY <1>3, <1>6, ZenonT(30) DEF Ring

\* The same after a step.
LEMMA BufferedNext == TypeOK' => Ring'
BY BufferedIs, PTL

\* pipewrite() storing a byte appends it to the queue.
LEMMA PutStep ==
  ASSUME SInv, TypeOK', NEW p \in Procs, NEW b \in Bytes, pipewrite_byte(p, b)
  PROVE  Stream!Put(b) /\ (Used <= PIPESIZE)'
<1>1. TypeOK /\ Counters
  BY Zenon DEF SInv, PInv, TypeOK, Counters
<1>2. Used \in Nat /\ Used < PIPESIZE
  BY <1>1, FullIs, UsedIs, PipeAssumption DEF SInv, pipewrite_byte
<1>3. Used' = Used + 1
  BY <1>1, <1>2, UsedPut, Zenon DEF pipewrite_byte
<1>4. \A k \in 1 .. Used : Slot(k)' = Slot(k) /\ data'[Slot(k)] = data[Slot(k)]
  BY <1>1, <1>2, Slots, ZenonT(30) DEF pipewrite_byte, Slot, TypeOK
<1>5. data'[nwrite % PIPESIZE] = b
  <2>1. nwrite % PIPESIZE \in 0 .. PIPESIZE - 1
    BY <1>1, PipeAssumption, Mod DEF Counters
  <2> QED
    BY <1>1, <2>1, Zenon DEF pipewrite_byte, TypeOK
<1>6. Buffered'[Used + 1] = b
  <2>1. \A k \in 1 .. Used + 1 : Buffered'[k] = data'[Slot(k)]
    BY <1>3, BufferedNext, Zenon DEF Ring, Slot, pipewrite_byte
  <2> QED
    BY <1>1, <1>2, <1>5, <2>1, Slots
<1>7. \A k \in 1 .. Used : Buffered'[k] = Buffered[k]
  BY <1>1, <1>2, <1>3, <1>4, BufferedIs, BufferedNext DEF Ring
<1>8. Buffered' = Append(Buffered, b)
  <2>1. Buffered \in Seq(Bytes) /\ Buffered' \in Seq(Bytes) /\ Len(Buffered) = Used /\ Len(Buffered') = Used + 1
    BY <1>1, <1>3, BufferedIs, BufferedNext, Zenon DEF Ring
  <2> QED
    BY <1>2, <1>6, <1>7, <2>1
<1>9. Len(Buffered) < PIPESIZE /\ UNCHANGED out /\ Used' <= PIPESIZE
  BY <1>1, <1>2, <1>3, BufferedIs, PipeAssumption DEF Ring, pipewrite_byte
<1> QED
  BY <1>8, <1>9, Zenon DEF Stream!Put

\* piperead() taking a byte takes the head of the queue.
LEMMA GetStep ==
  ASSUME SInv, TypeOK', NEW p \in Procs, NEW copied \in BOOLEAN, piperead_byte(p, copied)
  PROVE  Stream!Get /\ (Used <= PIPESIZE)'
<1>1. TypeOK /\ Counters
  BY Zenon DEF SInv, PInv, TypeOK, Counters
<1>2. Used \in Nat /\ Used > 0 /\ Used' = Used - 1 /\ \A k \in 1 .. Used - 1 : Slot(k)' = Slot(k + 1)
  BY <1>1, UsedIs, UsedGet DEF piperead_byte
<1>3. Slot(1) = nread % PIPESIZE
  BY <1>1 DEF Slot, Counters
<1>4. out' = Buffered[1]
  BY <1>1, <1>2, <1>3, BufferedIs DEF Ring, piperead_byte
<1>5. \A k \in 1 .. Used - 1 : Buffered'[k] = Buffered[k + 1]
  BY <1>1, <1>2, BufferedIs, BufferedNext DEF Ring, piperead_byte
<1>6. Buffered # <<>> /\ Head(Buffered) = Buffered[1]
  BY <1>1, <1>2, BufferedIs DEF Ring
<1>7. Buffered' = Tail(Buffered)
  <2>1. Buffered \in Seq(Bytes) /\ Buffered' \in Seq(Bytes) /\ Len(Buffered) = Used /\ Len(Buffered') = Used - 1
    BY <1>1, <1>2, BufferedIs, BufferedNext, Zenon DEF Ring
  <2>2. Tail(Buffered) \in Seq(Bytes) /\ Len(Tail(Buffered)) = Used - 1
    BY <1>2, <1>6, <2>1
  <2>3. \A k \in 1 .. Used - 1 : Tail(Buffered)[k] = Buffered[k + 1]
    BY <1>2, <1>6, <2>1
  <2> QED
    BY <1>2, <1>5, <2>1, <2>2, <2>3
<1> QED
  BY <1>2, <1>4, <1>6, <1>7, PipeAssumption DEF Stream!Get, SInv

\* A new pipe is the empty queue.
LEMMA StreamInit == Init => SInv /\ Stream!Init
<1> SUFFICES ASSUME Init PROVE SInv /\ Stream!Init
  BY Zenon
<1>1. PInv
  BY InitPInv, Zenon
<1>2. Used = 0
  BY PipeAssumption DEF Init, Used
<1>3. Buffered = <<>>
  BY <1>1, <1>2, BufferedIs DEF PInv, Ring
<1> QED
  BY <1>1, <1>2, <1>3, PipeAssumption DEF SInv, Stream!Init, Init

\* Every step is a step of the queue or leaves it alone.
LEMMA StreamStep == SInv /\ [Next]_vars => SInv' /\ [Stream!Next]_<<Buffered, out>>
<1> SUFFICES ASSUME SInv, [Next]_vars PROVE SInv' /\ [Stream!Next]_<<Buffered, out>>
  BY Zenon
<1>1. PInv'
  BY StepPInv, Zenon DEF SInv
<1>2. ASSUME NEW p \in Procs, NEW b \in Bytes, pipewrite_byte(p, b) PROVE Stream!Next /\ (Used <= PIPESIZE)'
  BY <1>1, <1>2, PutStep, Zenon DEF Stream!Next, PInv
<1>3. ASSUME NEW p \in Procs, NEW copied \in BOOLEAN, piperead_byte(p, copied)
      PROVE  Stream!Next /\ (Used <= PIPESIZE)'
  BY <1>1, <1>3, GetStep, Zenon DEF Stream!Next, PInv
<1>4. ASSUME UNCHANGED <<data, nread, nwrite, out>> PROVE UNCHANGED <<Buffered, out>> /\ (Used <= PIPESIZE)'
  BY <1>4, Zenon DEF SInv, Buffered, Used
<1>5. \/ UNCHANGED <<data, nread, nwrite, out>>
      \/ \E p \in Procs, b \in Bytes : pipewrite_byte(p, b)
      \/ \E p \in Procs, copied \in BOOLEAN : piperead_byte(p, copied)
  BY DEF Next, InCall, vars, pipevars, acquire, pipewrite_fails, pipewrite_full, pipewrite_done, piperead_wait,
     piperead_start, piperead_done, sleep, kill, fileclose, pipeclose, call
<1> QED
  BY <1>1, <1>2, <1>3, <1>4, <1>5, Zenon DEF SInv

\* The bytes written to a pipe are read once each and in order, never more than PIPESIZE
\* of them wait, whatever the readers, writers, kills and closes do (IsStream).
THEOREM PipeIsStream == Spec => IsStream
<1> QED
  BY StreamInit, StreamStep, PTL DEF Spec, IsStream, Stream!Spec
=============================================================================
