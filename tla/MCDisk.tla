------------------------------- MODULE MCDisk -------------------------------
(* The disk driver for TLC. *)
EXTENDS Disk, TLC

CONSTANTS p1, p2, p3
P3 == {p1, p2, p3}
Same == Permutations(P3)
=============================================================================
