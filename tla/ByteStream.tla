----------------------------- MODULE ByteStream -----------------------------
(* What a pipe promises: a bounded queue of bytes, first in, first out. *)
EXTENDS Naturals, Sequences

CONSTANTS Bytes, Capacity

VARIABLES queue,  \* bytes written and not yet read
          out     \* the byte read last

Init == queue = <<>> /\ out \in Bytes

Put(b) == Len(queue) < Capacity /\ queue' = Append(queue, b) /\ UNCHANGED out
Get == queue # <<>> /\ out' = Head(queue) /\ queue' = Tail(queue)

Next == Get \/ \E b \in Bytes : Put(b)
Spec == Init /\ [][Next]_<<queue, out>>
=============================================================================
