----------------------------- MODULE AtomicOps -----------------------------
(***************************************************************************)
(* What the log promises to the file system (the comment at the head of   *)
(* kernel/log.c): the blocks written between begin_op() and end_op() are   *)
(* seen at once by everybody, and a crash brings back a state in which no  *)
(* operation is half done.  durable is the file system a reboot would      *)
(* find, memory the one that system calls read and write.                  *)
(***************************************************************************)
CONSTANTS Procs, Blocks, Values

VARIABLES memory, durable, active

vars == <<memory, durable, active>>

Init == /\ durable \in [Blocks -> Values]
        /\ memory = durable
        /\ active = {}

\* p starts an operation.
Begin(p) == /\ p \notin active
            /\ active' = active \cup {p}
            /\ UNCHANGED <<memory, durable>>

\* p, inside an operation, changes block b.
Write(p, b, v) == /\ p \in active
                  /\ memory' = [memory EXCEPT ![b] = v]
                  /\ UNCHANGED <<durable, active>>

\* p's operation is over.
End(p) == /\ p \in active
          /\ active' = active \ {p}
          /\ UNCHANGED <<memory, durable>>

\* All of the finished operations become durable in one step, and only
\* when no operation is under way.
Commit == /\ active = {}
          /\ durable' = memory
          /\ UNCHANGED <<memory, active>>

\* The machine stops; what was not durable is gone.
Crash == /\ memory' = durable
         /\ active' = {}
         /\ UNCHANGED durable

Next == \/ \E p \in Procs : \/ Begin(p)
                            \/ End(p)
                            \/ \E b \in Blocks, v \in Values : Write(p, b, v)
        \/ Commit
        \/ Crash

Spec == Init /\ [][Next]_vars
=============================================================================
