---------------------------- MODULE BlockDevice -----------------------------
(* What virtio_disk_rw() promises: each call takes effect at one instant     *)
(* between its start and its return.                                         *)
CONSTANTS Procs, Blocks, Values, None

VARIABLES disk,  \* contents of the blocks
          buf,   \* contents of the buffer each process passes
          req    \* request of each process: None, waiting or done

Reqs == [block : Blocks, write : BOOLEAN, done : BOOLEAN]

Init == /\ disk \in [Blocks -> Values]
        /\ buf \in [Procs -> Values]
        /\ req = [p \in Procs |-> None]

Start(p) == /\ req[p] = None
            /\ \E r \in Reqs : ~r.done /\ req' = [req EXCEPT ![p] = r]
            /\ \E v \in Values : buf' = [buf EXCEPT ![p] = v]
            /\ UNCHANGED disk

Transfer(p) ==
  /\ req[p] # None /\ ~req[p].done
  /\ req' = [req EXCEPT ![p].done = TRUE]
  /\ IF req[p].write
       THEN disk' = [disk EXCEPT ![req[p].block] = buf[p]] /\ UNCHANGED buf
       ELSE buf' = [buf EXCEPT ![p] = disk[req[p].block]] /\ UNCHANGED disk

Return(p) == /\ req[p] # None /\ req[p].done
             /\ req' = [req EXCEPT ![p] = None]
             /\ UNCHANGED <<disk, buf>>

Next == \E p \in Procs : Start(p) \/ Transfer(p) \/ Return(p)
Spec == Init /\ [][Next]_<<disk, buf, req>>
=============================================================================
