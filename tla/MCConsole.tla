----------------------------- MODULE MCConsole -----------------------------
(* Console on one or two processors, one workload for each of its parts. *)
EXTENDS Console, TLC

CONSTANTS c0, c1, p1, p2

Load(a, b) == [harts |-> {c0}, calls |-> (p1 :> a @@ p2 :> b), chars |-> {}, typed |-> 0,
               timers |-> 0, victims |-> {}, fault |-> FALSE]
R(n) == <<"consoleread", n>>
W(n) == <<"consolewrite", n>>
S(n) == <<"sys_sleep", n>>
F == <<"printf", 1>>

\* Editing, by one reader whose second call meets what the first one left: a line
\* may fill the buffer, and be edited while finished ones wait to be read.
Edit == [Load(<<R(2), R(1)>>, <<>>) EXCEPT !.chars = {"a", "cr", "^H"}, !.typed = 5]
Kill == [Load(<<R(2)>>, <<>>) EXCEPT !.chars = {"a", "nl", "^U"}, !.typed = 4]
Eof == [Load(<<R(2), R(1)>>, <<>>) EXCEPT !.chars = {"a", "^D"}, !.typed = 4]
\* Copies to and from user space fail, and the console prints on request.
Fault == [Load(<<R(2)>>, <<W(1)>>) EXCEPT !.chars = {"a", "nl", "^P"}, !.typed = 2, !.fault = TRUE]
\* Two readers, one of which is killed.
Readers == [Load(<<R(2)>>, <<R(1)>>) EXCEPT !.chars = {"a", "nl", "nul"}, !.typed = 2, !.victims = {p2}]
Read == [Load(<<R(2)>>, <<>>) EXCEPT !.harts = CPUs, !.chars = {"a", "nl", "del"}, !.typed = 2]
\* The three ways to write, and the ring at its limit.
Writers == [Load(<<W(2)>>, <<W(2)>>) EXCEPT !.harts = CPUs]
Echo == [Load(<<W(1)>>, <<F>>) EXCEPT !.harts = CPUs, !.chars = {"a"}, !.typed = 1]
\* The clock.
Clock == [Load(<<S(2)>>, <<F>>) EXCEPT !.timers = 3, !.victims = {p1}]
Yield == [Load(<<S(1)>>, <<F>>) EXCEPT !.harts = CPUs, !.timers = 2]

MCLoads == {Edit, Kill, Eof, Fault, Readers, Read, Writers, Echo, Clock, Yield}
=============================================================================
