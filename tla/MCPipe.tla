------------------------------- MODULE MCPipe -------------------------------
(* A pipe of two bytes for TLC, with a process at each end. *)
EXTENDS Pipe

CONSTANTS w1, r1
OneToOne == {w1, r1}
W1 == {w1}
R1 == {r1}
Sizes == {0, 1, 3}
=============================================================================
