------------------------------- MODULE MCBio --------------------------------
(* The buffer cache for TLC: a block of the log, an indirect block and a data
   block, read in that order. *)
EXTENDS Bio, TLC

CONSTANTS n1, n2, n3
Contents1 == n1 :> {0} @@ n2 :> {1, 2} @@ n3 :> {3}
Order == {<<n1, n2>>, <<n1, n3>>, <<n2, n3>>}
=============================================================================
