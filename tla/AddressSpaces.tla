--------------------------- MODULE AddressSpaces ---------------------------
(***************************************************************************)
(* What user programs are promised about memory: each process has pages    *)
(* numbered from zero that nobody else can change; sbrk() adds zeroed      *)
(* pages at the end or takes pages from it, fork() gives the child a copy, *)
(* exec() replaces everything by the image of a program, and a call that   *)
(* fails for lack of memory changes nothing.  What the program is not      *)
(* promised: a shrink that ends inside a superpage takes the superpage's   *)
(* other pages, the last ones that are left, with it (Lose).               *)
(***************************************************************************)
EXTENDS Integers

CONSTANTS Procs,   \* process slots
          Pages,   \* page numbers
          Images,  \* what exec() may install: functions from page numbers
          Group,   \* pages of a superpage
          None     \* the slot has no process

VARIABLE mem       \* mem[p][n]: page n of process p

Live(p) == mem[p] # None

Init == mem = [p \in Procs |-> None]

First(p) == /\ \A q \in Procs : ~Live(q)
            /\ mem' = [mem EXCEPT ![p] = [n \in {0} |-> "file"]]

Grow(p) == /\ Live(p) /\ Live(p)'
           /\ DOMAIN mem[p] \subseteq DOMAIN mem'[p]
           /\ mem' = [mem EXCEPT ![p] = [n \in DOMAIN mem'[p] |->
                                           IF n \in DOMAIN mem[p] THEN mem[p][n] ELSE "zero"]]

Shrink(p) == /\ Live(p) /\ Live(p)'
             /\ DOMAIN mem'[p] \subseteq DOMAIN mem[p]
             /\ mem' = [mem EXCEPT ![p] = [n \in DOMAIN mem'[p] |-> mem[p][n]]]

Lose(p) == /\ Live(p)
           /\ \E n \in DOMAIN mem[p] :
                /\ n % Group = 0 /\ n + Group - 1 \notin DOMAIN mem[p]
                /\ mem' = [mem EXCEPT ![p] = [m \in DOMAIN mem[p] |-> IF m >= n THEN "fault" ELSE mem[p][m]]]

Store(p, n) == /\ Live(p) /\ n \in DOMAIN mem[p]
               /\ mem' = [mem EXCEPT ![p][n] = "user"]

Fork(p, c) == /\ Live(p) /\ ~Live(c)
              /\ mem' = [mem EXCEPT ![c] = mem[p]]

Exec(p) == /\ Live(p)
           /\ \E image \in Images : mem' = [mem EXCEPT ![p] = image]

Exit(p) == /\ Live(p)
           /\ mem' = [mem EXCEPT ![p] = None]

Next == /\ mem' # mem
        /\ \E p \in Procs : \/ First(p) \/ Grow(p) \/ Shrink(p) \/ Lose(p) \/ Exec(p) \/ Exit(p)
                            \/ \E n \in Pages : Store(p, n)
                            \/ \E c \in Procs : Fork(p, c)

Spec == Init /\ [][Next]_mem
=============================================================================
