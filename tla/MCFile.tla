------------------------------- MODULE MCFile -------------------------------
(***************************************************************************)
(* Instance of File: two processes; a root and two files of up to four     *)
(* blocks of two cells, the last two of them indirect; every block has a   *)
(* bitmap block of its own.                                                *)
(***************************************************************************)
EXTENDS File

CONSTANTS p1, p2

C(op) == [op |-> op, fd |-> 0, n |-> 0, ok |-> 0, i |-> 1, v |-> 1, trunc |-> FALSE, rd |-> TRUE, wr |-> TRUE, to |-> p2]
open(i) == [C("open") EXCEPT !.i = i]
creat(i) == [open(i) EXCEPT !.trunc = TRUE]
rdonly(i) == [open(i) EXCEPT !.wr = FALSE]
write(v, n) == [C("write") EXCEPT !.v = v, !.n = n, !.ok = n]
fault(v, n, ok) == [write(v, n) EXCEPT !.ok = ok]
read(n) == [C("read") EXCEPT !.n = n, !.ok = n]
rfault(n, ok) == [read(n) EXCEPT !.ok = ok]
dup(fd) == [C("dup") EXCEPT !.fd = fd]
close_(fd) == [C("close") EXCEPT !.fd = fd]
fork == C("fork")
pipe == C("pipe")
exit_ == C("exit")

Load(procs, image, used, c1, n1, c2, n2) ==
  [procs |-> procs, image |-> image, used |-> used, calls |-> (p1 :> c1 @@ p2 :> c2), max |-> (p1 :> n1 @@ p2 :> n2)]

MCWorkloads ==
  { \* parent and child write through one open file, and read it
    Load({p1}, <<0>>, {}, {open(2), fork, write(1, 1), write(1, 7), close_(0)}, 4, {write(2, 3), read(3)}, 2),
    \* separate opens of one file, truncation, faults; a disk with room for it
    Load({p1, p2}, <<0>>, {8}, {open(2), write(1, 6), fault(1, 5, 3)}, 3, {creat(2), rdonly(2), write(2, 5), read(4), rfault(4, 3)}, 2),
    \* two files on a disk with room for one, and one of them on the image
    Load({p1, p2}, <<0>>, {7, 8}, {open(2), write(1, 1), write(1, 6)}, 3, {open(3), creat(3), write(2, 7)}, 3),
    Load({p1, p2}, <<7>>, {8}, {creat(2), rdonly(1), read(7)}, 2, {open(2), write(2, 5), read(5), read(UINT - 1)}, 3),
    \* a root whose entries end with a block, read while a file is written or not
    Load({p1, p2}, <<0, 0>>, {}, {rdonly(1), open(1), read(7)}, 2, {open(2), write(2, 1)}, 2),
    \* descriptors: a table of three entries, two descriptors each, one page
    Load({p1}, <<1>>, {}, {rdonly(1), pipe, dup(0), close_(0), fork, exit_}, 4, {pipe, close_(1), exit_}, 2),
    Load({p1, p2}, <<3>>, {}, {rdonly(1), pipe, exit_}, 3, {pipe, open(2), dup(0)}, 2) }
=============================================================================
