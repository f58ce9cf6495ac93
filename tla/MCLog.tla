------------------------------- MODULE MCLog -------------------------------
(* The log on a small instance.  mkfs.c gives the log of the disk LOGSIZE    *)
(* blocks, its header included, so log_write() refuses a fourth block here,  *)
(* and there are blocks enough to fill the log: three operations, each with  *)
(* a block of its own, would.                                                *)
EXTENDS Log

CONSTANTS b1, b2, b3, v1, v2

\* Two blocks change; the third is logged with the contents it has.
MCData == [b \in Blocks |-> IF b = b3 THEN {v1} ELSE Values]
=============================================================================
