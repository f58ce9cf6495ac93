-------------------------------- MODULE Pipe --------------------------------
(***************************************************************************)
(* A pipe (kernel/pipe.c) from pipealloc() until it is freed, used by      *)
(* processes that share its two ends by fork(): pipewrite, piperead,       *)
(* pipeclose through fileclose(), and kill().                              *)
(*                                                                         *)
(* pi->lock is explicit, one turn of a loop is a step.  sleep() is atomic  *)
(* with the release of the lock, which module Proc checks.  The check of   *)
(* killed() and the sleep after it are two steps: kill() takes only        *)
(* p->lock.                                                                *)
(***************************************************************************)
EXTENDS Integers, Sequences

CONSTANTS Procs, NULL,
          Writers, Readers,  \* the processes that have the write / read end open at first
          Bytes, PIPESIZE,
          UINT,              \* nread and nwrite are counted modulo UINT
          Counts             \* the sizes asked of read and write

ASSUME PipeAssumption ==
  /\ NULL \notin Procs /\ Writers \subseteq Procs /\ Readers \subseteq Procs /\ Writers # {} /\ Readers # {}
  /\ PIPESIZE \in Nat \ {0} /\ UINT \in Nat /\ UINT > PIPESIZE /\ UINT % PIPESIZE = 0
  /\ Counts \subseteq Nat /\ Bytes # {}

VARIABLES data, nread, nwrite, readopen, writeopen, allocated,  \* struct pipe
          lock,
          rref, wref,   \* who still has the read, the write end open: f->ref
          pc, n, i,     \* of a process in a system call: where, bytes asked, bytes done
          killed,
          out           \* byte read last

pipevars == <<data, nread, nwrite, readopen, writeopen, allocated>>
vars == <<data, nread, nwrite, readopen, writeopen, allocated, lock, rref, wref, pc, n, i, killed, out>>

\* pipealloc() by a process that then forks.
Init == /\ data \in [0 .. PIPESIZE - 1 -> {CHOOSE b \in Bytes : TRUE}]
        /\ nread = 0 /\ nwrite = 0
        /\ readopen = TRUE /\ writeopen = TRUE /\ allocated = TRUE
        /\ lock = NULL
        /\ rref = Readers /\ wref = Writers
        /\ pc = [p \in Procs |-> "user"]
        /\ n = [p \in Procs |-> 0] /\ i = [p \in Procs |-> 0]
        /\ killed = [p \in Procs |-> FALSE]
        /\ out = CHOOSE b \in Bytes : TRUE

Goto(p, l) == pc' = [pc EXCEPT ![p] = l]
At(p, l) == pc[p] = l /\ lock = p
Empty == nread = nwrite
Full_bug == nwrite = nread + PIPESIZE
Full == nwrite = (nread + PIPESIZE) % UINT

\* Where a process sleeps on a channel, and where it goes on.
Asleep == [nread |-> "asleep_nread", nwrite |-> "asleep_nwrite"]
Acquire == [nread |-> "acquire_nread", nwrite |-> "acquire_nwrite"]

\* pc after wakeup(ch): everybody asleep on ch must take the lock again.
Woken(ch) == [p \in Procs |-> IF pc[p] = Asleep[ch] THEN Acquire[ch] ELSE pc[p]]
\* The same for a caller that goes on at l.
WokenFrom(p, ch, l) == [Woken(ch) EXCEPT ![p] = l]

\* The caller gets i[p] or -1 and its locals are gone.
Return(p) == n' = [n EXCEPT ![p] = 0] /\ i' = [i EXCEPT ![p] = 0]
-----------------------------------------------------------------------------
\* write(fd, addr, m) and read(fd, addr, m)
call(p, m) ==
  /\ pc[p] = "user" /\ ~killed[p]
  /\ \/ p \in wref /\ Goto(p, "acquire_nwrite")
     \/ p \in rref /\ Goto(p, "acquire_nread")
  /\ n' = [n EXCEPT ![p] = m] /\ i' = [i EXCEPT ![p] = 0]
  /\ UNCHANGED <<pipevars, lock, rref, wref, killed, out>>

\* acquire(&pi->lock), at the start of a call or at the end of sleep().
acquire(p) ==
  /\ pc[p] \in {"acquire_nwrite", "acquire_nread"} /\ lock = NULL
  /\ lock' = p
  /\ Goto(p, IF pc[p] = "acquire_nwrite" THEN "write" ELSE "read")
  /\ UNCHANGED <<pipevars, rref, wref, n, i, killed, out>>

\* A turn of pipewrite()'s loop that stores a byte.
pipewrite_byte(p, b) ==
  /\ At(p, "write") /\ i[p] < n[p] /\ readopen /\ ~killed[p] /\ ~Full
  /\ data' = [data EXCEPT ![nwrite % PIPESIZE] = b]
  /\ nwrite' = (nwrite + 1) % UINT
  /\ i' = [i EXCEPT ![p] = @ + 1]
  /\ UNCHANGED <<nread, readopen, writeopen, allocated, lock, rref, wref, pc, n, killed, out>>

\* The reader is gone or the writer is killed.
pipewrite_fails(p) ==
  /\ At(p, "write") /\ i[p] < n[p] /\ (~readopen \/ killed[p])
  /\ lock' = NULL /\ Goto(p, "user") /\ Return(p)
  /\ UNCHANGED <<pipevars, rref, wref, killed, out>>

\* A full pipe: wakeup(&pi->nread), then sleep(&pi->nwrite).
pipewrite_full(p) ==
  /\ At(p, "write") /\ i[p] < n[p] /\ readopen /\ ~killed[p] /\ Full
  /\ pc' = WokenFrom(p, "nread", "sleep_nwrite")
  /\ UNCHANGED <<pipevars, lock, rref, wref, n, i, killed, out>>

\* All written, or copyin() failed.
pipewrite_done_bug(p) ==
  /\ At(p, "write")
  /\ i[p] = n[p] \/ (readopen /\ ~killed[p] /\ ~Full)
  /\ Goto(p, "user")
  /\ lock' = NULL /\ Return(p)
  /\ UNCHANGED <<pipevars, rref, wref, killed, out>>
pipewrite_done(p) ==
  /\ At(p, "write")
  /\ i[p] = n[p] \/ (readopen /\ ~killed[p] /\ ~Full)
  /\ pc' = WokenFrom(p, "nread", "user")
  /\ lock' = NULL /\ Return(p)
  /\ UNCHANGED <<pipevars, rref, wref, killed, out>>
\* piperead() waits while the pipe is empty and may still be written.
piperead_wait(p) ==
  /\ At(p, "read") /\ Empty /\ writeopen
  /\ IF killed[p] THEN lock' = NULL /\ Goto(p, "user") /\ Return(p)
                  ELSE Goto(p, "sleep_nread") /\ UNCHANGED <<lock, n, i>>
  /\ UNCHANGED <<pipevars, rref, wref, killed, out>>

piperead_start_bug(p) ==
  /\ At(p, "read")
  /\ Goto(p, "copy")
  /\ UNCHANGED <<pipevars, lock, rref, wref, n, i, killed, out>>
piperead_start(p) ==
  /\ At(p, "read") /\ (~Empty \/ ~writeopen)
  /\ Goto(p, "copy")
  /\ UNCHANGED <<pipevars, lock, rref, wref, n, i, killed, out>>

\* for(i = 0; i < n; i++)
More(p) == i[p] < n[p]

\* One byte is taken.  When copyout() fails it is lost: i does not count it.
piperead_byte(p, copied) ==
  /\ At(p, "copy") /\ More(p) /\ ~Empty
  /\ out' = data[nread % PIPESIZE]
  /\ nread' = (nread + 1) % UINT
  /\ IF copied THEN i' = [i EXCEPT ![p] = @ + 1] /\ UNCHANGED pc
               ELSE UNCHANGED i /\ Goto(p, "copied")
  /\ UNCHANGED <<data, nwrite, readopen, writeopen, allocated, lock, rref, wref, n, killed>>

\* wakeup(&pi->nwrite) and return.
piperead_done_bug(p) ==
  /\ At(p, "copied") \/ (At(p, "copy") /\ (i[p] = n[p] \/ Empty))
  /\ Goto(p, "user")
  /\ lock' = NULL /\ Return(p)
  /\ UNCHANGED <<pipevars, rref, wref, killed, out>>
piperead_done(p) ==
  /\ At(p, "copied") \/ (At(p, "copy") /\ (i[p] = n[p] \/ Empty))
  /\ pc' = WokenFrom(p, "nwrite", "user")
  /\ lock' = NULL /\ Return(p)
  /\ UNCHANGED <<pipevars, rref, wref, killed, out>>

sleep(p) ==
  /\ \/ At(p, "sleep_nread") /\ Goto(p, "asleep_nread")
     \/ At(p, "sleep_nwrite") /\ Goto(p, "asleep_nwrite")
  /\ lock' = NULL
  /\ UNCHANGED <<pipevars, rref, wref, n, i, killed, out>>

kill(p) ==
  /\ ~killed[p]
  /\ killed' = [killed EXCEPT ![p] = TRUE]
  /\ pc' = [pc EXCEPT ![p] = CASE @ = "asleep_nread" -> "acquire_nread"
                               [] @ = "asleep_nwrite" -> "acquire_nwrite"
                               [] OTHER -> @]
  /\ UNCHANGED <<pipevars, lock, rref, wref, n, i, out>>

\* fileclose() by close() or exit(): the last reference of an end goes on to
\* pipeclose().
fileclose(p) ==
  /\ pc[p] = "user"
  /\ \/ /\ p \in wref /\ wref' = wref \ {p} /\ UNCHANGED rref
        /\ Goto(p, IF wref = {p} THEN "close_write" ELSE "user")
     \/ /\ p \in rref /\ rref' = rref \ {p} /\ UNCHANGED wref
        /\ Goto(p, IF rref = {p} THEN "close_read" ELSE "user")
  /\ UNCHANGED <<pipevars, lock, n, i, killed, out>>

BothClosed(r, w) == ~r /\ ~w

\* The second end to be closed frees the pipe.
pipeclose(p) ==
  /\ pc[p] \in {"close_write", "close_read"} /\ lock = NULL
  /\ writeopen' = (writeopen /\ pc[p] # "close_write")
  /\ readopen' = (readopen /\ pc[p] # "close_read")
  /\ pc' = WokenFrom(p, IF pc[p] = "close_write" THEN "nread" ELSE "nwrite", "user")
  /\ allocated' = (allocated /\ ~BothClosed(readopen', writeopen'))
  /\ UNCHANGED <<data, nread, nwrite, lock, rref, wref, n, i, killed, out>>

InCall(p) ==
  \/ acquire(p) \/ pipewrite_fails(p) \/ pipewrite_full(p) \/ pipewrite_done(p)
  \/ piperead_wait(p) \/ piperead_start(p) \/ piperead_done(p) \/ sleep(p) \/ pipeclose(p)
  \/ \E b \in Bytes : pipewrite_byte(p, b)
  \/ \E copied \in BOOLEAN : piperead_byte(p, copied)

Next == \E p \in Procs :
          InCall(p) \/ kill(p) \/ fileclose(p) \/ \E m \in Counts : call(p, m)

Spec == Init /\ [][Next]_vars
-----------------------------------------------------------------------------
Places == {"user", "write", "read", "copy", "copied", "close_write", "close_read",
           "acquire_nread", "acquire_nwrite", "sleep_nread", "sleep_nwrite", "asleep_nread", "asleep_nwrite"}
TypeOK ==
  /\ data \in [0 .. PIPESIZE - 1 -> Bytes] /\ out \in Bytes
  /\ nread \in 0 .. UINT - 1 /\ nwrite \in 0 .. UINT - 1
  /\ readopen \in BOOLEAN /\ writeopen \in BOOLEAN /\ allocated \in BOOLEAN
  /\ lock \in Procs \cup {NULL}
  /\ rref \subseteq Readers /\ wref \subseteq Writers
  /\ pc \in [Procs -> Places] /\ killed \in [Procs -> BOOLEAN]
  /\ n \in [Procs -> Counts \cup {0}] /\ i \in [Procs -> Nat]
  /\ \A p \in Procs : i[p] <= n[p]

\* No lost wakeup: with pi->lock free a reader sleeps only on a pipe that can
\* still be written and that is empty.  The exception is a writer that finds itself
\* killed after it stored bytes: pipewrite() then returns without
\* wakeup(&pi->nread).
ReadersWait ==
  lock = NULL =>
    \A p \in Procs : pc[p] = "asleep_nread" => writeopen /\ (Empty \/ \E w \in Writers : killed[w])

\* A writer sleeps only on a full pipe that can still be read.
WritersWait == lock = NULL => \A p \in Procs : pc[p] = "asleep_nwrite" => Full /\ readopen

\* The pipe's page is freed once, and only when nobody is in a call on it or
\* can start one.
NoUseAfterFree ==
  ~allocated => rref = {} /\ wref = {} /\ \A p \in Procs : pc[p] = "user"

\* Types, the life of the page, and readers that are woken.
PipeInv == TypeOK /\ NoUseAfterFree /\ ReadersWait

\* read() of at least one byte returns 0, end of file, only if every write end
\* is closed and all bytes are read, or the byte could not be copied out.
EofIsEnd ==
  [][\A p \in Procs : piperead_done(p) /\ pc[p] = "copy" /\ n[p] > 0 /\ i[p] = 0 =>
       Empty /\ wref = {}]_vars

Buffered == [k \in 1 .. (nwrite - nread) % UINT |-> data[(nread + k - 1) % PIPESIZE]]
Stream == INSTANCE ByteStream WITH queue <- Buffered, out <- out, Capacity <- PIPESIZE

\* The ring with its wrapping counters is a bounded first-in first-out queue.
IsStream == Stream!Spec
-----------------------------------------------------------------------------
\* Fairness: a process in a call goes on; strong where it must win the lock.
\* A reader eventually reads again or closes, a writer eventually closes (programs
\* end).
Fairness ==
  /\ \A p \in Procs : WF_vars(InCall(p)) /\ SF_vars(acquire(p)) /\ SF_vars(pipeclose(p))
  /\ \A p \in Writers : SF_vars(fileclose(p))
  /\ \A p \in Readers : SF_vars(fileclose(p) \/ \E m \in Counts \ {0} : call(p, m))

FairSpec == Spec /\ Fairness

\* With one process at each end that goes on or closes, every write() and every
\* read() returns.  (Of two writers one may find the pipe full again and again.)
CallsReturn == \A p \in Procs : pc[p] \in {"acquire_nwrite", "acquire_nread"} ~> pc[p] = "user"
=============================================================================
