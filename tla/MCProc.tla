------------------------------- MODULE MCProc -------------------------------
(* Processes for TLC: init and two more slots, on two processors.  The slots a and
   b are alike, so that it is enough for one of them to call kill(). *)
EXTENDS Proc

CONSTANTS init, a, b, c1, c2
Slots == {init, a, b}
Kills == [p \in Slots |-> IF p = a THEN {0, 2} ELSE {}]
Two == {c1, c2}
=============================================================================
