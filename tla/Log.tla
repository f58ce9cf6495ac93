-------------------------------- MODULE Log --------------------------------
(***************************************************************************)
(* The redo log of kernel/log.c with the part of the buffer cache          *)
(* (kernel/bio.c) and of the disk that it relies on.                       *)
(*                                                                         *)
(* A process between begin_op and end_op is at pc "op", or at "modified"   *)
(* while it holds a buffer whose data it has changed and not yet given to  *)
(* log_write.  The last one out commits: "write_log", "install" and        *)
(* "committed" are the places in commit() and end_op() where another       *)
(* process can run or the machine can stop.  Every test or update of the   *)
(* fields of `log` is made under log.lock, and sleep() gives that lock up  *)
(* atomically, so each such critical section is one step.                  *)
(*                                                                         *)
(* A panic stops the processor that meets it.  The conditions under which  *)
(* the code panics are guards here, and NoPanic says that no process       *)
(* stands before a panic whose condition holds.                            *)
(***************************************************************************)
EXTENDS Integers, Sequences, FiniteSets

CONSTANTS Procs,        \* processes that make file-system calls
          Blocks,       \* home blocks of the file system
          Values,       \* contents of a block
          Data,         \* bound: the contents that each block is given
          NoBlock,      \* no buffer is held
          NoData,       \* the block is not in the buffer cache
          MAXOPBLOCKS,  \* param.h: what begin_op reserves for an operation
          LOGSIZE,      \* param.h: what begin_op takes the log to hold
          NLOG,         \* superblock nlog: log blocks on disk, header included
          OPBLOCKS,     \* the most blocks one operation really writes
          MaxCrash      \* bound: how often the machine stops

ASSUME LogAssumption ==
  /\ Procs # {} /\ IsFiniteSet(Procs)
  /\ IsFiniteSet(Blocks)
  /\ Values # {}
  /\ NoBlock \notin Blocks
  /\ NoData \notin Values
  /\ MAXOPBLOCKS \in Nat /\ LOGSIZE \in Nat /\ NLOG \in Nat \ {0}
  /\ OPBLOCKS \in Nat /\ OPBLOCKS <= MAXOPBLOCKS /\ MAXOPBLOCKS <= LOGSIZE
  /\ MaxCrash \in Nat

VARIABLES
  outstanding, committing, \* log.outstanding, log.committing
  lh,                      \* log.lh, the in-memory header: block[0..n-1]
  pc, held, wrote,         \* per process: place, locked buffer, blocks of its operation
  cache,                   \* contents of the buffer cache
  pin,                     \* the references bpin() added to a buffer
  tail,                    \* the loop index of write_log and install_trans
  mode,                    \* "boot" and "recover" during initlog, then "run"
  disk, dlog, dhead,       \* on disk: home blocks, log blocks, log header
  crashes

opvars   == <<outstanding, committing, pc, held, wrote>>
diskvars == <<disk, dlog, dhead>>
vars     == <<outstanding, committing, lh, pc, held, wrote, cache, pin, tail,
              mode, disk, dlog, dhead, crashes>>

Slots == 1 .. NLOG - 1
Inside == {"op", "modified"}
Committing == {"write_log", "install", "committed"}

\* The blocks a header names.
Logged(h) == {h[i] : i \in 1 .. Len(h)}

\* bread: the data of block b, from the cache or else from the disk.
Bread(b) == IF cache[b] = NoData THEN disk[b] ELSE cache[b]

\* The definitions named ..._bug are faulty variants of the definition that
\* follows them, each a mistake one could make in the code; they show that the
\* properties below can fail.
Woken_bug(f) == f

\* wakeup(&log): every sleeper becomes runnable and tests again.
Woken(f) == [p \in Procs |-> IF f[p] = "sleep" THEN "begin" ELSE f[p]]

\* The machine starts on the file system that mkfs made: an empty log.
Init == /\ outstanding = 0 /\ committing = FALSE /\ lh = <<>>
        /\ pc = [p \in Procs |-> "idle"]
        /\ held = [p \in Procs |-> NoBlock]
        /\ wrote = [p \in Procs |-> {}]
        /\ cache = [b \in Blocks |-> NoData]
        /\ pin = [b \in Blocks |-> 0]
        /\ tail = 0 /\ mode = "boot" /\ crashes = 0
        /\ disk \in [Blocks -> Values] /\ \A b \in Blocks : disk[b] \in Data[b]
        /\ \E v \in Values : dlog = [i \in Slots |-> v]
        /\ dhead = <<>>
-----------------------------------------------------------------------------
MustWait_bug == committing \/ Len(lh) + MAXOPBLOCKS > LOGSIZE

\* begin_op(): a commit is under way, or this operation might exhaust the log.
MustWait == committing \/ Len(lh) + (outstanding + 1) * MAXOPBLOCKS > LOGSIZE

\* begin_op(), also each time round its loop after a wakeup.
begin_op(p) ==
  /\ mode = "run" /\ pc[p] \in {"idle", "begin"}
  /\ IF MustWait
       THEN /\ pc' = [pc EXCEPT ![p] = "sleep"]
            /\ UNCHANGED outstanding
       ELSE /\ pc' = [pc EXCEPT ![p] = "op"]
            /\ outstanding' = outstanding + 1
  /\ UNCHANGED <<committing, lh, held, wrote, cache, pin, tail, mode, crashes, diskvars>>

\* The caller's part of the protocol above log_write: bread() a block, lock
\* it, change its data.  An operation changes at most OPBLOCKS blocks.
modify(p, b, v) ==
  /\ pc[p] = "op"
  /\ v \in Data[b]
  /\ \A q \in Procs : held[q] # b
  /\ Cardinality(wrote[p] \cup {b}) <= OPBLOCKS
  /\ pc' = [pc EXCEPT ![p] = "modified"]
  /\ held' = [held EXCEPT ![p] = b]
  /\ cache' = [cache EXCEPT ![b] = v]
  /\ UNCHANGED <<outstanding, committing, lh, wrote, pin, tail, mode, crashes, diskvars>>

TooBig == Len(lh) >= LOGSIZE \/ Len(lh) >= NLOG - 1

\* log_write(): block b is in the log already.
Absorbed(b) == b \in Logged(lh)

\* log_write() of the buffer that p changed, then the caller's brelse().
log_write(p) ==
  /\ pc[p] = "modified"
  /\ ~TooBig /\ outstanding >= 1
  /\ IF Absorbed(held[p])
       THEN UNCHANGED <<lh, pin>>
       ELSE /\ lh' = Append(lh, held[p])
            /\ pin' = [pin EXCEPT ![held[p]] = @ + 1]
  /\ pc' = [pc EXCEPT ![p] = "op"]
  /\ held' = [held EXCEPT ![p] = NoBlock]
  /\ wrote' = [wrote EXCEPT ![p] = @ \cup {held[p]}]
  /\ UNCHANGED <<outstanding, committing, cache, tail, mode, crashes, diskvars>>

\* end_op(): the operation that ends is the last one.
LastOut == outstanding = 1

\* end_op() up to its call of commit().
end_op(p) ==
  /\ pc[p] = "op"
  /\ ~committing
  /\ outstanding' = outstanding - 1
  /\ IF LastOut
       THEN /\ committing' = TRUE
            /\ tail' = 0
            /\ pc' = [pc EXCEPT ![p] = IF lh = <<>> THEN "committed" ELSE "write_log"]
       ELSE /\ pc' = Woken([pc EXCEPT ![p] = "idle"])
            /\ UNCHANGED <<committing, tail>>
  /\ wrote' = [wrote EXCEPT ![p] = {}]
  /\ UNCHANGED <<lh, held, cache, pin, mode, crashes, diskvars>>

\* One turn of write_log(): the cached block goes to its slot of the log.
write_log(p) ==
  /\ pc[p] = "write_log" /\ tail < Len(lh)
  /\ LET b == lh[tail + 1] IN
       /\ dlog' = [dlog EXCEPT ![tail + 1] = Bread(b)]
       /\ cache' = [cache EXCEPT ![b] = Bread(b)]
  /\ tail' = tail + 1
  /\ UNCHANGED <<opvars, lh, pin, mode, crashes, disk, dhead>>

LogWritten_bug == tail >= Len(lh) - 1

\* The loop of write_log() is over.
LogWritten == tail >= Len(lh)

\* write_head() after write_log(): the commit point.
write_head(p) ==
  /\ pc[p] = "write_log" /\ LogWritten
  /\ dhead' = lh
  /\ tail' = 0
  /\ pc' = [pc EXCEPT ![p] = "install"]
  /\ UNCHANGED <<outstanding, committing, lh, held, wrote, cache, pin, mode, crashes, disk, dlog>>

\* install_trans(): bunpin(dbuf) unless it recovers.
Unpinned(b, recovering) == IF recovering THEN pin ELSE [pin EXCEPT ![b] = @ - 1]

\* One turn of install_trans(recovering): a log block goes home.
install_trans(recovering) ==
  /\ tail < Len(lh)
  /\ LET b == lh[tail + 1] IN
       /\ cache' = [cache EXCEPT ![b] = dlog[tail + 1]]
       /\ disk' = [disk EXCEPT ![b] = dlog[tail + 1]]
       /\ pin' = Unpinned(b, recovering)
  /\ tail' = tail + 1
  /\ UNCHANGED <<opvars, lh, mode, crashes, dlog, dhead>>

install(p) == pc[p] = "install" /\ install_trans(FALSE)

Installed_bug == TRUE

\* The loop of install_trans() is over.
Installed == tail >= Len(lh)

\* The end of commit(): log.lh.n = 0 and write_head().
clear_log(p) ==
  /\ pc[p] = "install" /\ Installed
  /\ lh' = <<>> /\ dhead' = <<>>
  /\ pc' = [pc EXCEPT ![p] = "committed"]
  /\ UNCHANGED <<outstanding, committing, held, wrote, cache, pin, tail, mode, crashes, disk, dlog>>

\* The end of end_op() after commit().
end_commit(p) ==
  /\ pc[p] = "committed"
  /\ committing' = FALSE
  /\ pc' = Woken([pc EXCEPT ![p] = "idle"])
  /\ UNCHANGED <<outstanding, lh, held, wrote, cache, pin, tail, mode, crashes, diskvars>>
-----------------------------------------------------------------------------
\* bget() takes an unreferenced buffer for another block.
bget_recycle(b) ==
  /\ cache[b] # NoData /\ pin[b] = 0 /\ \A p \in Procs : held[p] # b
  /\ cache' = [cache EXCEPT ![b] = NoData]
  /\ UNCHANGED <<opvars, lh, pin, tail, mode, crashes, diskvars>>

\* bread() by a system call that only reads (no begin_op needed).
bread_miss(b) ==
  /\ mode = "run" /\ cache[b] = NoData
  /\ cache' = [cache EXCEPT ![b] = disk[b]]
  /\ UNCHANGED <<opvars, lh, pin, tail, mode, crashes, diskvars>>

\* The block write that is under way when the machine stops may leave
\* anything in its block.  The header lies in one sector and is not torn.
Torn ==
  \/ UNCHANGED <<disk, dlog>>
  \/ /\ \E p \in Procs : pc[p] = "write_log"
     /\ tail < Len(lh)
     /\ \E v \in Values : dlog' = [dlog EXCEPT ![tail + 1] = v]
     /\ UNCHANGED disk
  \/ /\ mode = "recover" \/ \E p \in Procs : pc[p] = "install"
     /\ tail < Len(lh)
     /\ \E v \in Values : disk' = [disk EXCEPT ![lh[tail + 1]] = v]
     /\ UNCHANGED dlog

\* Power failure, or a panic followed by a reboot: memory is lost.
Crash ==
  /\ crashes < MaxCrash
  /\ crashes' = crashes + 1
  /\ Torn
  /\ outstanding' = 0 /\ committing' = FALSE /\ lh' = <<>>
  /\ pc' = [p \in Procs |-> "idle"]
  /\ held' = [p \in Procs |-> NoBlock]
  /\ wrote' = [p \in Procs |-> {}]
  /\ cache' = [b \in Blocks |-> NoData]
  /\ pin' = [b \in Blocks |-> 0]
  /\ tail' = 0 /\ mode' = "boot"
  /\ UNCHANGED dhead

\* recover_from_log(), called by initlog() before any process makes a call.
read_head ==
  /\ mode = "boot"
  /\ lh' = dhead
  /\ tail' = 0 /\ mode' = "recover"
  /\ UNCHANGED <<opvars, cache, pin, crashes, diskvars>>

recover_install == mode = "recover" /\ install_trans(TRUE)

recover_clear ==
  /\ mode = "recover" /\ Installed
  /\ lh' = <<>> /\ dhead' = <<>>
  /\ mode' = "run"
  /\ UNCHANGED <<opvars, cache, pin, tail, crashes, disk, dlog>>

Commit(p) == write_log(p) \/ write_head(p) \/ install(p) \/ clear_log(p) \/ end_commit(p)

recover_from_log == read_head \/ recover_install \/ recover_clear

Next == \/ \E p \in Procs : \/ begin_op(p)
                            \/ \E b \in Blocks, v \in Values : modify(p, b, v)
                            \/ log_write(p)
                            \/ end_op(p)
                            \/ Commit(p)
        \/ \E b \in Blocks : bget_recycle(b) \/ bread_miss(b)
        \/ recover_from_log
        \/ Crash

Spec == Init /\ [][Next]_vars

\* Every process that can take a step of the kernel eventually takes it (the
\* scheduler goes round all of them), and a system call makes a bounded
\* number of log_writes before its end_op.
FairSpec == /\ Spec
            /\ WF_vars(recover_from_log)
            /\ \A p \in Procs : /\ WF_vars(pc[p] = "begin" /\ begin_op(p))
                                /\ WF_vars(log_write(p))
                                /\ SF_vars(end_op(p))
                                /\ WF_vars(Commit(p))
-----------------------------------------------------------------------------
TypeOK ==
  /\ outstanding \in 0 .. Cardinality(Procs) /\ committing \in BOOLEAN
  /\ lh \in Seq(Blocks) /\ dhead \in Seq(Blocks)
  /\ pc \in [Procs -> {"idle", "begin", "sleep"} \cup Inside \cup Committing]
  /\ held \in [Procs -> Blocks \cup {NoBlock}]
  /\ wrote \in [Procs -> SUBSET Blocks]
  /\ cache \in [Blocks -> Values \cup {NoData}]
  /\ pin \in [Blocks -> Nat]
  /\ tail \in Nat
  /\ mode \in {"boot", "recover", "run"}
  /\ disk \in [Blocks -> Values] /\ dlog \in [Slots -> Values]
  /\ crashes \in Nat

\* No process stands before one of the panics of log.c: "too big a
\* transaction" and "log_write outside of trans" in log_write(), and
\* "log.committing" in end_op().  The first is the capacity argument: what
\* begin_op() reserves is enough for whatever the admitted operations write.
NoPanic == \A p \in Procs : /\ pc[p] = "modified" => ~TooBig /\ outstanding >= 1
                            /\ pc[p] = "op" => ~committing

\* log.c:13-16: "The logging system only commits when there are no FS system
\* calls active."  While a process is in commit() it is the only one, no
\* operation is under way and the others are kept out by log.committing.
CommitAlone ==
  \A p \in Procs : pc[p] \in Committing =>
     /\ committing
     /\ \A q \in Procs \ {p} : pc[q] \notin Inside \cup Committing

\* A process asleep in begin_op() is never left without somebody who will
\* wake it: an operation is outstanding or a commit is under way, and both
\* end in wakeup(&log).
SleeperHasWaker ==
  (\E p \in Procs : pc[p] = "sleep") =>
     \E q \in Procs : pc[q] \in Inside \cup Committing

\* Block b is in the running transaction and has not gone home yet.
Pending(b) ==
  /\ mode = "run"
  /\ \E i \in 1 .. Len(lh) :
       /\ lh[i] = b
       /\ (\E p \in Procs : pc[p] = "install") => i > tail

\* bpin()/bunpin() balance: a buffer has one pin exactly while the log names
\* its block and the block has not gone home yet; absorption takes no second
\* pin, and no pin outlives the transaction.
PinsMatchLog == \A b \in Blocks : pin[b] = IF Pending(b) THEN 1 ELSE 0

\* When end_op() of the last operation is about to return, what memory holds
\* is what a reboot would find.
CommittedIsDurable ==
  (\E p \in Procs : pc[p] = "committed") => dhead = <<>> /\ \A b \in Blocks : Bread(b) = disk[b]

\* The file system that recovery would build from the disk as it is now.
Recovered ==
  [b \in Blocks |-> IF b \in Logged(dhead)
                      THEN dlog[CHOOSE i \in 1 .. Len(dhead) : dhead[i] = b]
                      ELSE disk[b]]

\* The file system that system calls see.
Memory == IF mode = "run" THEN [b \in Blocks |-> Bread(b)] ELSE Recovered

Active == {p \in Procs : pc[p] \in Inside}

Abs == INSTANCE AtomicOps WITH memory <- Memory, durable <- Recovered, active <- Active

\* Crash atomicity of begin_op()/log_write()/end_op(): however the steps of
\* processes, of a commit, of crashes (with torn block writes) and of
\* recovery interleave, the system behaves as one that makes whole groups of
\* finished operations durable in one step and loses only unfinished groups.
Atomic == Abs!Spec

\* A process that sleeps in begin_op() is woken (or the machine restarts).
SleeperIsWoken == \A p \in Procs : pc[p] = "sleep" ~> pc[p] # "sleep"
-----------------------------------------------------------------------------
(* The strengthening from which the safety properties are proved.           *)

NoDup(h) == \A i, j \in 1 .. Len(h) : h[i] = h[j] => i = j

\* outstanding and committing against the places of the processes.
PlacesInv ==
  /\ outstanding = Cardinality(Active)
  /\ committing <=> \E p \in Procs : pc[p] \in Committing
  /\ \A p, q \in Procs : pc[p] \in Committing /\ pc[q] \in Inside \cup Committing => p = q
  /\ mode # "run" => \A p \in Procs : pc[p] = "idle"

\* The headers in memory and on disk against the places.
HeadersInv ==
  /\ NoDup(lh) /\ Len(lh) < NLOG
  /\ NoDup(dhead) /\ Len(dhead) < NLOG
  /\ mode = "boot" => lh = <<>>
  /\ mode = "recover" => dhead = lh /\ tail <= Len(lh)
  /\ mode = "run" /\ (\A p \in Procs : pc[p] # "install") => dhead = <<>>
  /\ \A p \in Procs : pc[p] = "write_log" => tail <= Len(lh)
  /\ \A p \in Procs : pc[p] = "install" => dhead = lh /\ tail <= Len(lh)
  /\ mode = "run" /\ lh # <<>> => \E p \in Procs : pc[p] \in Inside \cup {"write_log", "install"}

\* A process holds a buffer exactly between modify() and log_write(), nobody
\* else has it, and it stays cached.
HeldInv ==
  /\ \A p \in Procs : held[p] # NoBlock <=> pc[p] = "modified"
  /\ \A p, q \in Procs : held[p] # NoBlock /\ held[p] = held[q] => p = q
  /\ \A p \in Procs : pc[p] = "modified" => cache[held[p]] # NoData

\* A block that is still to go home is cached; of any other that nobody is
\* changing the cache has what the disk has.
CopiesInv ==
  /\ \A b \in Blocks : Pending(b) => cache[b] # NoData
  /\ \A b \in Blocks : ~Pending(b) /\ (\A p \in Procs : held[p] # b) => cache[b] \in {NoData, disk[b]}

\* What the loops of write_log() and install_trans() have copied so far.
LoopsInv ==
  /\ (\E p \in Procs : pc[p] = "write_log") => \A i \in 1 .. tail : dlog[i] = cache[lh[i]]
  /\ mode = "recover" \/ (\E p \in Procs : pc[p] = "install") => \A i \in 1 .. tail : disk[lh[i]] = dlog[i]
  /\ (\E p \in Procs : pc[p] = "install") =>
        \A i \in 1 .. Len(lh) : i > tail => cache[lh[i]] = dlog[i]

\* Locked buffers, pins, and what the cache, the log and the disk hold.
BuffersInv == HeldInv /\ PinsMatchLog /\ CopiesInv /\ LoopsInv

\* The inductive invariant of the log: log.outstanding and log.committing
\* agree with where the processes are, the headers name each block once, and
\* each block's cached, logged and home copies are as the place of the commit
\* requires.
LogInv == TypeOK /\ PlacesInv /\ HeadersInv /\ BuffersInv

\* The blocks that the operations of S have given to log_write().
WroteIn(S) == {w \in S \X Blocks : w[2] \in wrote[w[1]]}

\* The log's capacity argument: each operation under way is charged with the
\* blocks it has logged and still owns the rest of the MAXOPBLOCKS blocks that
\* begin_op() reserved for it, and all of that fits into LOGSIZE.
CapacityInv ==
  /\ \A p \in Procs : pc[p] \notin Inside => wrote[p] = {}
  /\ \A p \in Procs : /\ wrote[p] \subseteq Logged(lh)
                      /\ Cardinality(wrote[p]) <= OPBLOCKS
                      /\ pc[p] = "modified" => Cardinality(wrote[p] \cup {held[p]}) <= OPBLOCKS
  /\ \A S \in SUBSET Active : Cardinality(WroteIn(S)) <= Cardinality(S) * OPBLOCKS
  /\ Active # {} => Len(lh) + Cardinality(Active) * MAXOPBLOCKS
                      <= LOGSIZE + Cardinality(WroteIn(Active))

\* The sizes under which the reservation is enough for the log on disk: its
\* header block takes one of the NLOG blocks, and log_write() refuses a full
\* log even when the block is in it already.
LogFits == OPBLOCKS < MAXOPBLOCKS /\ LOGSIZE + OPBLOCKS + 1 < NLOG + MAXOPBLOCKS
=============================================================================
