-------------------------------- MODULE Cpu --------------------------------
(***************************************************************************)
(* Processors, interrupts and spin-locks (kernel/spinlock.c, the parts of  *)
(* kernel/trap.c and kernel/proc.c that turn interrupts on and off).       *)
(*                                                                         *)
(* A thread is a process in the kernel or the scheduler of a processor; it *)
(* has a stack k[t] of what is left to do, on top of which an interrupt    *)
(* puts its handler.  A processor has the interrupt-enable bit sie, and    *)
(* noff and intena of struct cpu.  p->lock, which sleep(), yield() and the *)
(* scheduler hold across the switch, is part of their step: module Proc    *)
(* has it in detail.                                                       *)
(***************************************************************************)
EXTENDS Integers, Sequences, FiniteSets

CONSTANTS CPUs, Procs, Locks, NULL

ASSUME CpuAssumption == /\ IsFiniteSet(CPUs) /\ CPUs \cap Procs = {}
                        /\ NULL \notin CPUs \cup Procs \cup Locks

VARIABLES sie, noff, intena, \* of each processor
          cur,               \* its process, NULL in the scheduler
          lk,                \* the processor that holds a lock
          k,                 \* what a thread has left to do
          saved,             \* intena of a process that is switched out
          chan               \* NULL for a process that runs, "" for one that may run,
                             \* or what it sleeps on

cvars == <<sie, noff, intena, cur, lk, k, saved, chan>>
cpu == <<sie, noff, intena>>

CpuInit == /\ sie = [c \in CPUs |-> TRUE] /\ noff = [c \in CPUs |-> 0] /\ intena = [c \in CPUs |-> FALSE]
           /\ cur = [c \in CPUs |-> NULL]
           /\ lk = [l \in Locks |-> NULL]
           /\ k = [t \in CPUs \cup Procs |-> <<>>]
           /\ saved = [p \in Procs |-> TRUE] /\ chan = [p \in Procs |-> ""]

T(c) == IF cur[c] = NULL THEN c ELSE cur[c]
At(c, f) == k[T(c)] # <<>> /\ Head(k[T(c)])[1] = f
Top(c) == Head(k[T(c)])
Run(c, todo) == k' = [k EXCEPT ![T(c)] = todo \o Tail(@)]
Return(c) == Run(c, <<>>)
-----------------------------------------------------------------------------
\* push_off: the first one remembers whether interrupts were on.
PushOff(c) == /\ sie' = [sie EXCEPT ![c] = FALSE]
              /\ intena' = [intena EXCEPT ![c] = IF noff[c] = 0 THEN sie[c] ELSE @]
              /\ noff' = [noff EXCEPT ![c] = @ + 1]

push_off(c) == At(c, "push_off") /\ PushOff(c) /\ Return(c) /\ UNCHANGED <<cur, lk, saved, chan>>

\* pop_off: the last one turns them on again.
Outermost(c) == noff[c] = 1 /\ intena[c]
pop_off(c) == /\ At(c, "pop_off") /\ ~sie[c] /\ noff[c] > 0
              /\ noff' = [noff EXCEPT ![c] = @ - 1]
              /\ sie' = [sie EXCEPT ![c] = Outermost(c)]
              /\ Return(c) /\ UNCHANGED <<intena, cur, lk, saved, chan>>

\* acquire: push_off, the test for a lock that is held already, and the swap.
acquire(c) == /\ At(c, "acquire") /\ lk[Top(c)[2]] # c
              /\ PushOff(c)
              /\ Run(c, << <<"spin", Top(c)[2]>> >>)
              /\ UNCHANGED <<cur, lk, saved, chan>>

spin(c) == /\ At(c, "spin") /\ lk[Top(c)[2]] = NULL
           /\ lk' = [lk EXCEPT ![Top(c)[2]] = c]
           /\ Return(c) /\ UNCHANGED <<cpu, cur, saved, chan>>

release(c) == /\ At(c, "release") /\ lk[Top(c)[2]] = c
              /\ lk' = [lk EXCEPT ![Top(c)[2]] = NULL]
              /\ Run(c, << <<"pop_off">> >>)
              /\ UNCHANGED <<cpu, cur, saved, chan>>

\* An interrupt, when they are on: the hardware turns them off, kerneltrap() or
\* usertrap() runs the handler, and returning from it turns them on.
Trap(c, handler) == /\ sie[c]
                    /\ sie' = [sie EXCEPT ![c] = FALSE]
                    /\ k' = [k EXCEPT ![T(c)] = handler \o << <<"sret">> >> \o @]
                    /\ UNCHANGED <<noff, intena, cur, lk, saved, chan>>

sret(c) == /\ At(c, "sret")
           /\ sie' = [sie EXCEPT ![c] = TRUE]
           /\ Return(c) /\ UNCHANGED <<noff, intena, cur, lk, saved, chan>>

\* Leaving the processor to the scheduler, which enables interrupts; sched()
\* keeps intena for the process.
Leave(c, on) == /\ cur' = [cur EXCEPT ![c] = NULL]
                /\ sie' = [sie EXCEPT ![c] = TRUE] /\ noff' = [noff EXCEPT ![c] = 0]
                /\ chan' = [chan EXCEPT ![cur[c]] = on]

\* sleep(on, l), to be followed by acquire(l): sched() wants p->lock to be the
\* only lock held.
sleep(c) == /\ At(c, "sleep") /\ noff[c] = 1 /\ lk[Top(c)[3]] = c
            /\ lk' = [lk EXCEPT ![Top(c)[3]] = NULL]
            /\ saved' = [saved EXCEPT ![cur[c]] = intena[c]]
            /\ Leave(c, Top(c)[2])
            /\ Run(c, << <<"acquire", Top(c)[3]>> >>)
            /\ UNCHANGED intena

\* yield() in the handler of the timer: interrupts were off before p->lock was
\* taken.
yield(c) == /\ At(c, "yield")
            /\ IF cur[c] # NULL
                 THEN Leave(c, "") /\ saved' = [saved EXCEPT ![cur[c]] = sie[c]]
                 ELSE UNCHANGED <<cur, sie, noff, chan, saved>>
            /\ Return(c) /\ UNCHANGED <<intena, lk>>

\* wakeup(on)
Woken(on) == [p \in Procs |-> IF chan[p] = on THEN "" ELSE chan[p]]

\* scheduler(), the return from sched() and the release of p->lock: interrupts
\* are as they were when the process took p->lock.
Restored_bug(p) == TRUE
Restored(p) == saved[p]
resume(c, p) == /\ cur[c] = NULL /\ k[c] = <<>> /\ chan[p] = ""
                /\ cur' = [cur EXCEPT ![c] = p]
                /\ chan' = [chan EXCEPT ![p] = NULL]
                /\ sie' = [sie EXCEPT ![c] = Restored(p)]
                /\ intena' = [intena EXCEPT ![c] = Restored(p)]
                /\ UNCHANGED <<noff, lk, k, saved>>

CpuStep(c) == push_off(c) \/ pop_off(c) \/ acquire(c) \/ spin(c) \/ release(c) \/ sret(c) \/ sleep(c) \/ yield(c)
-----------------------------------------------------------------------------
\* Before which panic c stands: "acquire", "release", "pop_off", "pop_off -
\* interruptible", "sched locks".
CpuPanics(c) ==
  \/ At(c, "acquire") /\ lk[Top(c)[2]] = c
  \/ At(c, "release") /\ lk[Top(c)[2]] # c
  \/ At(c, "pop_off") /\ (sie[c] \/ noff[c] < 1)
  \/ At(c, "sleep") /\ (noff[c] # 1 \/ cur[c] = NULL)

InHandler(c) == \E j \in DOMAIN k[T(c)] : k[T(c)][j][1] = "sret"
=============================================================================
