----------------------------- MODULE BlockStore -----------------------------
(* What the buffer cache promises: blocks that one holder at a time has,     *)
(* whose contents change only by the hand of the holder.                     *)
CONSTANTS Holders, Blocks, Values, NULL

VARIABLES store,  \* current contents of the blocks
          holder  \* who has bread() a block and not released it

Init == store \in [Blocks -> Values] /\ holder = [n \in Blocks |-> NULL]

Bread(p, n) == /\ holder[n] = NULL
               /\ holder' = [holder EXCEPT ![n] = p] /\ UNCHANGED store
Modify(p, n) == /\ holder[n] = p
                /\ \E v \in Values : store' = [store EXCEPT ![n] = v]
                /\ UNCHANGED holder
Brelse(p, n) == /\ holder[n] = p
                /\ holder' = [holder EXCEPT ![n] = NULL] /\ UNCHANGED store

Next == \E p \in Holders, n \in Blocks : Bread(p, n) \/ Modify(p, n) \/ Brelse(p, n)
Spec == Init /\ [][Next]_<<store, holder>>
=============================================================================
