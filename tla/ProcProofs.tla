------------------------------ MODULE ProcProofs ------------------------------
(***************************************************************************)
(* Proofs about module Proc for any number of slots and processors.        *)
(*                                                                         *)
(* PInv is inductive.  Who holds a lock, what state a process has and      *)
(* where it goes on are determined by its place (Locks, States); the child *)
(* of a fork() in progress belongs to one forker (Forks); a process leaves *)
(* no children behind (Tree); and a zombie whose parent is asleep in       *)
(* wait() is still going to be announced by somebody who holds wait_lock   *)
(* (Zombies).                                                              *)
(***************************************************************************)
EXTENDS Proc, TLAPS

\* Time for the provers.
USE SMTT(30), ZenonT(30)

Live == {"RUNNING", "RUNNABLE", "SLEEPING"}
Own == {"sched", "resumed", "sleep_release"}
Waits == {"reparent", "wakeup", "exit", "scan", "sleep", "sleep_release"}

\* A place decides which locks are held.
Locks == \A p \in Procs : /\ plock[p] = IF pc[p] \in Own THEN p ELSE NULL
                          /\ wlock = p <=> pc[p] \in Waits

\* Where p is, or goes on when it runs again or has the lock.
Parked == {"off", "sched", "resumed", "spin"}
Where(p) == IF pc[p] \in Parked THEN ret[p] ELSE pc[p]

\* State, channel and the place to go on at agree with the place.
StateOK(p) ==
  /\ state[p] = "RUNNING" <=> pc[p] \notin {"off", "sched"}
  /\ state[p] \in {"UNUSED", "USED"} => pc[p] = "off"
  /\ state[p] = "RUNNABLE" \/ pc[p] = "resumed" => ret[p] \in Preemptible \cup {"awake"}
  /\ state[p] = "SLEEPING" => ret[p] = "awake"
  /\ state[p] = "ZOMBIE" => ret[p] = "dead"
  /\ state[p] = "USED" => ret[p] = "user"
  /\ state[p] = "UNUSED" => ret[p] \in {"user", "dead"}
  /\ pc[p] = "spin" => ret[p] \in {"fork_parent", "exiting", "wait"}
  /\ pc[p] = "wakeup" => ret[p] \in {"reparent", "exit"}
  /\ pc[p] \notin {"awake", "dead"}
  /\ chan[p] = IF pc[p] \in {"off", "sched", "resumed"} /\ ret[p] = "awake" THEN p ELSE NULL
States == \A p \in Procs : StateOK(p)

\* A processor's process is on its stack, and on no other processor.
Stacks == /\ \A c \in Cpus : cpu[c] # NULL => pc[cpu[c]] # "off"
          /\ \A c, d \in Cpus : cpu[c] # NULL /\ cpu[c] = cpu[d] => c = d

\* init is nobody's child and does not exit.
Exits == {"exiting", "reparent", "wakeup", "exit", "dead"}
InitLives == /\ parent[initproc] = NULL /\ state[initproc] \in Live
             /\ pc[initproc] \notin Exits /\ ret[initproc] \notin Exits

\* The child of a fork() that has not returned.
Forking(p) == Where(p) \in {"fork_parent", "fork_run"}
Forks == /\ \A p \in Procs : Forking(p) => target[p] \in Procs /\ state[target[p]] = "USED"
         /\ \A p \in Procs : Where(p) = "fork_run" => parent[target[p]] = p
         /\ \A p, q \in Procs : Forking(p) /\ Forking(q) /\ target[p] = target[q] => p = q

\* A process about to be a zombie has no children.
Leaving(p) == pc[p] = "exit" \/ (pc[p] = "wakeup" /\ ret[p] = "exit")
Tree == ParentsLive /\ \A p, q \in Procs : Leaving(p) => parent[q] # p

Asleep(p) == Wakes(p, p)
Zombie(p, q) == parent[q] = p /\ state[q] = "ZOMBIE"
\* The parent of an exiting process will be woken or is awake.
Announced(p) ==
  /\ pc[p] = "wakeup" /\ ret[p] = "reparent" => target[p] = initproc
  /\ pc[p] = "wakeup" /\ ret[p] = "exit" => target[p] = parent[p] /\ (parent[p] \in todo[p] \/ ~Asleep(parent[p]))
  /\ pc[p] = "exit" => ~Asleep(parent[p])
\* wait() does not sleep on a zombie it has not looked at.
Seen(p, q) ==
  Zombie(p, q) => /\ pc[p] = "scan" => q \in todo[p]
                  /\ pc[p] \notin {"sleep", "sleep_release"}
                  /\ Asleep(p) => \E r \in Procs : pc[r] = "wakeup" /\ target[r] = p /\ p \in todo[r]
Zombies == /\ \A p \in Procs : Announced(p)
           /\ \A p, q \in Procs : Seen(p, q)

PInv == TypeOK /\ Locks /\ States /\ Stacks /\ InitLives /\ Forks /\ Tree /\ Zombies
-----------------------------------------------------------------------------
\* A step of process p or of the processor that runs it.
Step(p) == \/ \E c \in Cpus : (cpu[c] = p /\ scheduler_back(c)) \/ scheduler(c, p)
           \/ Resumes(p) \/ Kernel(p) \/ User(p)

\* Every step of proc.c keeps the types.
LEMMA TypeStep ==
  ASSUME TypeOK, InitLives, States, Forks, NEW p \in Procs, Step(p)
  PROVE  TypeOK'
<1> USE ProcAssumption
<1>1. ASSUME NEW c \in Cpus, scheduler(c, p) PROVE TypeOK'
  BY <1>1, Zenon DEF scheduler, Runnable, procvars, Goto, TypeOK, Places
<1>2. ASSUME NEW c \in Cpus, cpu[c] = p, scheduler_back(c) PROVE TypeOK'
  BY <1>2, Zenon DEF scheduler_back, procvars, Goto, TypeOK, Places
<1>3. CASE resume(p)
  BY <1>3, Zenon DEF resume, procvars, Goto, TypeOK, Places
<1>4. CASE yield(p)
  BY <1>4, Zenon DEF yield, procvars, Goto, TypeOK, Places
<1>5. CASE sleep_lock(p)
  BY <1>5, Zenon DEF sleep_lock, procvars, Goto, TypeOK, Places
<1>6. CASE sleep(p)
  BY <1>6, Zenon DEF sleep, Unlock, procvars, Goto, TypeOK, Places
<1>7. CASE sleep_end(p)
  BY <1>7, Zenon DEF sleep_end, procvars, Goto, TypeOK, Places
<1>8. ASSUME NEW q \in Procs, wakeup(p, q) PROVE TypeOK'
  BY <1>8, Zenon DEF wakeup, procvars, Goto, TypeOK, Places
<1>9. CASE spin(p)
  BY <1>9, Zenon DEF spin, procvars, Goto, TypeOK, Places
<1>10. ASSUME NEW np \in Procs, fork(p, np) PROVE TypeOK'
  BY <1>10 DEF fork, CountPid, allocpid, procvars, Goto, TypeOK, Places
<1>11. ASSUME NEW np \in Procs, fork_fails(p, np) PROVE TypeOK'
  BY <1>11 DEF fork_fails, CountPid, freeproc, procvars, Goto, TypeOK, Places
<1>12. CASE fork_parent(p)
  BY <1>12, Zenon DEF fork_parent, Acquires, procvars, Goto, TypeOK, Places, Preemptible, States, StateOK,
     Wakes,
     Forks, Forking, Where, Parked
<1>13. CASE fork_run(p)
  BY <1>13, Zenon DEF fork_run, procvars, Goto, TypeOK, Places, Preemptible, States, StateOK, Wakes, Forks,
     Forking,
     Where, Parked
<1>14. CASE syscall(p)
  BY <1>14 DEF syscall, procvars, Goto, TypeOK, Places
<1>15. CASE exit(p)
  BY <1>15, Zenon DEF exit, Acquires, procvars, Goto, TypeOK, Places
<1>16. ASSUME NEW q \in Procs, reparent(p, q) PROVE TypeOK'
  BY <1>16, Zenon DEF reparent, CallWakeup, Children, procvars, Goto, TypeOK, Places
<1>17. CASE exit_wakeup(p)
  BY <1>17, Zenon DEF exit_wakeup, CallWakeup, Children, procvars, Goto, TypeOK, Places
<1>18. CASE exit_sched(p)
  BY <1>18, Zenon DEF exit_sched, Unlock, procvars, Goto, TypeOK, Places
<1>19. CASE wait(p)
  BY <1>19, Zenon DEF wait, Acquires, Children, procvars, Goto, TypeOK, Places
<1>20. ASSUME NEW q \in Procs, wait_next(p, q) PROVE TypeOK'
  BY <1>20, Zenon DEF wait_next, procvars, Goto, TypeOK, Places
<1>21. ASSUME NEW q \in Procs, wait_reap(p, q) PROVE TypeOK'
  <2>1. /\ state' \in [Procs -> {"UNUSED", "USED", "SLEEPING", "RUNNABLE", "RUNNING", "ZOMBIE"}]
        /\ chan' \in [Procs -> Procs \cup {NULL}]
        /\ killed' \in [Procs -> BOOLEAN] /\ parent' \in [Procs -> Procs \cup {NULL}] /\ pid' \in [Procs -> 0 .. MaxPid]
    <3>1. CASE freeproc(q)
      BY <3>1 DEF freeproc, TypeOK
    <3>2. CASE UNCHANGED <<state, chan, killed, parent, pid, named>>
      BY <3>2, Zenon DEF TypeOK
    <3> QED
      BY <1>21, <3>1, <3>2, Zenon DEF wait_reap
  <2>2. UNCHANGED <<nextpid, plock, cpu, ret, target>> /\ wlock' = NULL
    BY <1>21, Zenon DEF wait_reap
  <2>4. named' \subseteq Procs \X Nat
    BY <1>21, Zenon DEF wait_reap, freeproc, TypeOK
  <2>3. pc' \in [Procs -> Places] /\ todo' \in [Procs -> SUBSET Procs]
    BY <1>21, Zenon DEF wait_reap, Goto, TypeOK, Places
  <2> QED
    BY <2>1, <2>2, <2>3, <2>4, Zenon DEF TypeOK
<1>22. CASE wait_none(p)
  BY <1>22 DEF wait_none, Children, procvars, Goto, TypeOK, Places
<1>23. ASSUME NEW n \in KillArgs[p], NEW q \in Procs, kill(p, n, q) PROVE TypeOK'
  <2>1. n \in Nat
    BY ProcAssumption, Zenon
  <2>2. named' \subseteq Procs \X Nat
    BY <1>23, <2>1 DEF kill, TypeOK
  <2>3. /\ state' \in [Procs -> {"UNUSED", "USED", "SLEEPING", "RUNNABLE", "RUNNING", "ZOMBIE"}]
        /\ killed' \in [Procs -> BOOLEAN]
    BY <1>23 DEF kill, TypeOK
  <2> QED
    BY <1>23, <2>2, <2>3, Zenon DEF kill, TypeOK
<1> QED
  BY <1>1, <1>2, <1>3, <1>4, <1>5, <1>6, <1>7, <1>8, <1>9, <1>10, <1>11, <1>12, <1>13, <1>14, <1>15, <1>16,
     Zenon, <1>17, <1>18, <1>19, <1>20, <1>21, <1>22, <1>23 DEF Step, Resumes, Kernel, User

\* p->lock and wait_lock are held exactly at the places that say so.
LEMMA LocksStep ==
  ASSUME TypeOK, Locks, States, NEW p \in Procs, Step(p)
  PROVE  Locks'
<1> USE ProcAssumption
<1>1. ASSUME NEW c \in Cpus, scheduler(c, p) PROVE Locks'
  BY <1>1 DEF scheduler, Runnable, procvars, Goto, TypeOK, Locks, Own, Waits, States, StateOK, Preemptible
<1>2. ASSUME NEW c \in Cpus, cpu[c] = p, scheduler_back(c) PROVE Locks'
  BY <1>2 DEF scheduler_back, procvars, Goto, TypeOK, Locks, Own, Waits
<1>3. CASE resume(p)
  BY <1>3 DEF resume, procvars, Goto, TypeOK, Locks, Own, Waits, States, StateOK, Preemptible
<1>4. CASE yield(p)
  BY <1>4 DEF yield, procvars, Goto, TypeOK, Locks, Own, Waits, States, StateOK, Preemptible
<1>5. CASE sleep_lock(p)
  BY <1>5 DEF sleep_lock, procvars, Goto, TypeOK, Locks, Own, Waits
<1>6. CASE sleep(p)
  BY <1>6 DEF sleep, Unlock, procvars, Goto, TypeOK, Locks, Own, Waits
<1>7. CASE sleep_end(p)
  BY <1>7 DEF sleep_end, procvars, Goto, TypeOK, Locks, Own, Waits
<1>8. ASSUME NEW q \in Procs, wakeup(p, q) PROVE Locks'
  BY <1>8 DEF wakeup, procvars, Goto, TypeOK, Locks, Own, Waits, States, StateOK, Preemptible
<1>9. CASE spin(p)
  BY <1>9 DEF spin, procvars, Goto, TypeOK, Locks, Own, Waits
<1>10. ASSUME NEW np \in Procs, fork(p, np) PROVE Locks'
  BY <1>10 DEF fork, CountPid, allocpid, procvars, Goto, TypeOK, Locks, Own, Waits
<1>11. ASSUME NEW np \in Procs, fork_fails(p, np) PROVE Locks'
  BY <1>11, Zenon DEF fork_fails, CountPid, freeproc, procvars, Goto, TypeOK, Locks, Own, Waits
<1>12. CASE fork_parent(p)
  BY <1>12 DEF fork_parent, Acquires, procvars, Goto, TypeOK, Locks, Own, Waits
<1>13. CASE fork_run(p)
  BY <1>13 DEF fork_run, procvars, Goto, TypeOK, Locks, Own, Waits
<1>14. CASE syscall(p)
  BY <1>14 DEF syscall, procvars, Goto, TypeOK, Locks, Own, Waits
<1>15. CASE exit(p)
  BY <1>15 DEF exit, Acquires, procvars, Goto, TypeOK, Locks, Own, Waits
<1>16. ASSUME NEW q \in Procs, reparent(p, q) PROVE Locks'
  BY <1>16 DEF reparent, CallWakeup, Children, procvars, Goto, TypeOK, Locks, Own, Waits
<1>17. CASE exit_wakeup(p)
  BY <1>17 DEF exit_wakeup, CallWakeup, Children, procvars, Goto, TypeOK, Locks, Own, Waits
<1>18. CASE exit_sched(p)
  BY <1>18 DEF exit_sched, Unlock, procvars, Goto, TypeOK, Locks, Own, Waits
<1>19. CASE wait(p)
  BY <1>19 DEF wait, Acquires, Children, procvars, Goto, TypeOK, Locks, Own, Waits
<1>20. ASSUME NEW q \in Procs, wait_next(p, q) PROVE Locks'
  BY <1>20, Zenon DEF wait_next, procvars, Goto, TypeOK, Locks, Own, Waits
<1>21. ASSUME NEW q \in Procs, wait_reap(p, q) PROVE Locks'
  BY <1>21, Zenon DEF wait_reap, freeproc, procvars, Goto, TypeOK, Locks, Own, Waits
<1>22. CASE wait_none(p)
  BY <1>22 DEF wait_none, Children, procvars, Goto, TypeOK, Locks, Own, Waits
<1>23. ASSUME NEW n \in KillArgs[p], NEW q \in Procs, kill(p, n, q) PROVE Locks'
  BY <1>23, Zenon DEF kill, procvars, Goto, TypeOK, Locks, Own, Waits
<1> QED
  BY <1>1, <1>2, <1>3, <1>4, <1>5, <1>6, <1>7, <1>8, <1>9, <1>10, <1>11, <1>12, <1>13, <1>14, <1>15, <1>16,
     Zenon, <1>17, <1>18, <1>19, <1>20, <1>21, <1>22, <1>23 DEF Step, Resumes, Kernel, User

\* The state of a process, its channel and where it goes on stay in agreement with its place.
LEMMA StatesStep ==
  ASSUME TypeOK, Locks, States, InitLives, Forks, NEW p \in Procs, Step(p)
  PROVE  States'
<1> USE ProcAssumption
<1>1. ASSUME NEW c \in Cpus, scheduler(c, p) PROVE States'
  BY <1>1 DEF scheduler, Runnable, procvars, Goto, TypeOK, States, StateOK, Preemptible
<1>2. ASSUME NEW c \in Cpus, cpu[c] = p, scheduler_back(c) PROVE States'
  BY <1>2 DEF scheduler_back, procvars, Goto, TypeOK, States, StateOK, Preemptible
<1>3. CASE resume(p)
  BY <1>3 DEF resume, procvars, Goto, TypeOK, States, StateOK, Preemptible
<1>4. CASE yield(p)
  BY <1>4 DEF yield, procvars, Goto, TypeOK, States, StateOK, Preemptible
<1>5. CASE sleep_lock(p)
  BY <1>5 DEF sleep_lock, procvars, Goto, TypeOK, States, StateOK, Preemptible
<1>6. CASE sleep(p)
  BY <1>6 DEF sleep, Unlock, procvars, Goto, TypeOK, States, StateOK, Preemptible
<1>7. CASE sleep_end(p)
  BY <1>7 DEF sleep_end, procvars, Goto, TypeOK, States, StateOK, Preemptible
<1>8. ASSUME NEW q \in Procs, wakeup(p, q) PROVE States'
  BY <1>8 DEF wakeup, procvars, Goto, TypeOK, States, StateOK, Preemptible, Locks, Own, Waits, Wakes, Free
<1>9. CASE spin(p)
  BY <1>9 DEF spin, procvars, Goto, TypeOK, States, StateOK, Preemptible
<1>10. ASSUME NEW np \in Procs, fork(p, np) PROVE States'
  BY <1>10 DEF fork, CountPid, allocpid, procvars, Goto, TypeOK, States, StateOK, Preemptible
<1>11. ASSUME NEW np \in Procs, fork_fails(p, np) PROVE States'
  BY <1>11 DEF fork_fails, CountPid, freeproc, procvars, Goto, TypeOK, States, StateOK, Preemptible
<1>12. CASE fork_parent(p)
  BY <1>12 DEF fork_parent, Acquires, procvars, Goto, TypeOK, States, StateOK, Preemptible
<1>13. CASE fork_run(p)
  BY <1>13 DEF fork_run, procvars, Goto, TypeOK, States, StateOK, Preemptible, Locks, Own, Waits, Wakes, Free,
     Forks, Forking, Where, Parked
<1>14. CASE syscall(p)
  BY <1>14 DEF syscall, procvars, Goto, TypeOK, States, StateOK, Preemptible
<1>15. CASE exit(p)
  BY <1>15 DEF exit, Acquires, procvars, Goto, TypeOK, States, StateOK, Preemptible
<1>16. ASSUME NEW q \in Procs, reparent(p, q) PROVE States'
  BY <1>16 DEF reparent, CallWakeup, Children, procvars, Goto, TypeOK, States, StateOK, Preemptible
<1>17. CASE exit_wakeup(p)
  BY <1>17 DEF exit_wakeup, CallWakeup, Children, procvars, Goto, TypeOK, States, StateOK, Preemptible
<1>18. CASE exit_sched(p)
  BY <1>18 DEF exit_sched, Unlock, procvars, Goto, TypeOK, States, StateOK, Preemptible
<1>19. CASE wait(p)
  BY <1>19 DEF wait, Acquires, Children, procvars, Goto, TypeOK, States, StateOK, Preemptible
<1>20. ASSUME NEW q \in Procs, wait_next(p, q) PROVE States'
  BY <1>20 DEF wait_next, procvars, Goto, TypeOK, States, StateOK, Preemptible
<1>21. ASSUME NEW q \in Procs, wait_reap(p, q) PROVE States'
  BY <1>21 DEF wait_reap, freeproc, procvars, Goto, TypeOK, States, StateOK, Preemptible, Locks, Own, Waits,
     Wakes, Free
<1>22. CASE wait_none(p)
  BY <1>22 DEF wait_none, Children, procvars, Goto, TypeOK, States, StateOK, Preemptible
<1>23. ASSUME NEW n \in KillArgs[p], NEW q \in Procs, kill(p, n, q) PROVE States'
  BY <1>23 DEF kill, procvars, Goto, TypeOK, States, StateOK, Preemptible
<1> QED
  BY <1>1, <1>2, <1>3, <1>4, <1>5, <1>6, <1>7, <1>8, <1>9, <1>10, <1>11, <1>12, <1>13, <1>14, <1>15, <1>16,
     Zenon, <1>17, <1>18, <1>19, <1>20, <1>21, <1>22, <1>23 DEF Step, Resumes, Kernel, User

\* No step puts a process on two processors.
LEMMA StacksStep ==
  ASSUME TypeOK, Locks, States, Stacks, NEW p \in Procs, Step(p)
  PROVE  Stacks'
<1> USE ProcAssumption
<1>1. ASSUME NEW c \in Cpus, scheduler(c, p) PROVE Stacks'
  BY <1>1 DEF scheduler, Runnable, procvars, Goto, TypeOK, Stacks, Locks, Own, States, StateOK, Preemptible,
     Free
<1>2. ASSUME NEW c \in Cpus, cpu[c] = p, scheduler_back(c) PROVE Stacks'
  BY <1>2 DEF scheduler_back, procvars, Goto, TypeOK, Stacks
<1>3. CASE resume(p)
  BY <1>3 DEF resume, procvars, Goto, TypeOK, Stacks, Locks, Own, States, StateOK, Preemptible, Free
<1>4. CASE yield(p)
  BY <1>4, Zenon DEF yield, procvars, Goto, TypeOK, Stacks
<1>5. CASE sleep_lock(p)
  BY <1>5, Zenon DEF sleep_lock, procvars, Goto, TypeOK, Stacks
<1>6. CASE sleep(p)
  BY <1>6, Zenon DEF sleep, Unlock, procvars, Goto, TypeOK, Stacks
<1>7. CASE sleep_end(p)
  BY <1>7, Zenon DEF sleep_end, procvars, Goto, TypeOK, Stacks
<1>8. ASSUME NEW q \in Procs, wakeup(p, q) PROVE Stacks'
  BY <1>8 DEF wakeup, procvars, Goto, TypeOK, Stacks, Locks, Own, States, StateOK, Preemptible, Free
<1>9. CASE spin(p)
  BY <1>9, Zenon DEF spin, procvars, Goto, TypeOK, Stacks
<1>10. ASSUME NEW np \in Procs, fork(p, np) PROVE Stacks'
  BY <1>10, Zenon DEF fork, CountPid, allocpid, procvars, Goto, TypeOK, Stacks
<1>11. ASSUME NEW np \in Procs, fork_fails(p, np) PROVE Stacks'
  BY <1>11, Zenon DEF fork_fails, CountPid, freeproc, procvars, Goto, TypeOK, Stacks
<1>12. CASE fork_parent(p)
  BY <1>12, Zenon DEF fork_parent, Acquires, procvars, Goto, TypeOK, Stacks
<1>13. CASE fork_run(p)
  BY <1>13, Zenon DEF fork_run, procvars, Goto, TypeOK, Stacks
<1>14. CASE syscall(p)
  BY <1>14 DEF syscall, procvars, Goto, TypeOK, Stacks
<1>15. CASE exit(p)
  BY <1>15, Zenon DEF exit, Acquires, procvars, Goto, TypeOK, Stacks
<1>16. ASSUME NEW q \in Procs, reparent(p, q) PROVE Stacks'
  BY <1>16, Zenon DEF reparent, CallWakeup, Children, procvars, Goto, TypeOK, Stacks
<1>17. CASE exit_wakeup(p)
  BY <1>17, Zenon DEF exit_wakeup, CallWakeup, Children, procvars, Goto, TypeOK, Stacks
<1>18. CASE exit_sched(p)
  BY <1>18, Zenon DEF exit_sched, Unlock, procvars, Goto, TypeOK, Stacks
<1>19. CASE wait(p)
  BY <1>19, Zenon DEF wait, Acquires, Children, procvars, Goto, TypeOK, Stacks
<1>20. ASSUME NEW q \in Procs, wait_next(p, q) PROVE Stacks'
  BY <1>20, Zenon DEF wait_next, procvars, Goto, TypeOK, Stacks
<1>21. ASSUME NEW q \in Procs, wait_reap(p, q) PROVE Stacks'
  BY <1>21, Zenon DEF wait_reap, freeproc, procvars, Goto, TypeOK, Stacks
<1>22. CASE wait_none(p)
  BY <1>22 DEF wait_none, Children, procvars, Goto, TypeOK, Stacks
<1>23. ASSUME NEW n \in KillArgs[p], NEW q \in Procs, kill(p, n, q) PROVE Stacks'
  BY <1>23, Zenon DEF kill, procvars, Goto, TypeOK, Stacks
<1> QED
  BY <1>1, <1>2, <1>3, <1>4, <1>5, <1>6, <1>7, <1>8, <1>9, <1>10, <1>11, <1>12, <1>13, <1>14, <1>15, <1>16,
     Zenon, <1>17, <1>18, <1>19, <1>20, <1>21, <1>22, <1>23 DEF Step, Resumes, Kernel, User

\* init stays alive and without a parent.
LEMMA InitStep ==
  ASSUME TypeOK, Locks, States, InitLives, Forks, NEW p \in Procs, Step(p)
  PROVE  InitLives'
<1> USE ProcAssumption
<1>1. ASSUME NEW c \in Cpus, scheduler(c, p) PROVE InitLives'
  BY <1>1, Zenon DEF scheduler, Runnable, procvars, Goto, TypeOK, InitLives, Live, Exits
<1>2. ASSUME NEW c \in Cpus, cpu[c] = p, scheduler_back(c) PROVE InitLives'
  BY <1>2, Zenon DEF scheduler_back, procvars, Goto, TypeOK, InitLives, Live, Exits
<1>3. CASE resume(p)
  BY <1>3, Zenon DEF resume, procvars, Goto, TypeOK, InitLives, Live, Exits
<1>4. CASE yield(p)
  BY <1>4, Zenon DEF yield, procvars, Goto, TypeOK, InitLives, Live, Exits
<1>5. CASE sleep_lock(p)
  BY <1>5, Zenon DEF sleep_lock, procvars, Goto, TypeOK, InitLives, Live, Exits
<1>6. CASE sleep(p)
  BY <1>6, Zenon DEF sleep, Unlock, procvars, Goto, TypeOK, InitLives, Live, Exits
<1>7. CASE sleep_end(p)
  BY <1>7, Zenon DEF sleep_end, procvars, Goto, TypeOK, InitLives, Live, Exits
<1>8. ASSUME NEW q \in Procs, wakeup(p, q) PROVE InitLives'
  BY <1>8, Zenon DEF wakeup, procvars, Goto, TypeOK, InitLives, Live, Exits
<1>9. CASE spin(p)
  BY <1>9, Zenon DEF spin, procvars, Goto, TypeOK, InitLives, Live, Exits
<1>10. ASSUME NEW np \in Procs, fork(p, np) PROVE InitLives'
  BY <1>10, Zenon DEF fork, CountPid, allocpid, procvars, Goto, TypeOK, InitLives, Live, Exits
<1>11. ASSUME NEW np \in Procs, fork_fails(p, np) PROVE InitLives'
  BY <1>11, Zenon DEF fork_fails, CountPid, freeproc, procvars, Goto, TypeOK, InitLives, Live, Exits
<1>12. CASE fork_parent(p)
  BY <1>12 DEF fork_parent, Acquires, procvars, Goto, TypeOK, InitLives, Live, Exits, States, StateOK,
     Preemptible, Wakes, Forks, Forking, Where, Parked
<1>13. CASE fork_run(p)
  BY <1>13, Zenon DEF fork_run, procvars, Goto, TypeOK, InitLives, Live, Exits
<1>14. CASE syscall(p)
  BY <1>14 DEF syscall, procvars, Goto, TypeOK, InitLives, Live, Exits
<1>15. CASE exit(p)
  BY <1>15, Zenon DEF exit, Acquires, procvars, Goto, TypeOK, InitLives, Live, Exits
<1>16. ASSUME NEW q \in Procs, reparent(p, q) PROVE InitLives'
  BY <1>16, Zenon DEF reparent, CallWakeup, Children, procvars, Goto, TypeOK, InitLives, Live, Exits
<1>17. CASE exit_wakeup(p)
  BY <1>17, Zenon DEF exit_wakeup, CallWakeup, Children, procvars, Goto, TypeOK, InitLives, Live, Exits
<1>18. CASE exit_sched(p)
  BY <1>18, Zenon DEF exit_sched, Unlock, procvars, Goto, TypeOK, InitLives, Live, Exits
<1>19. CASE wait(p)
  BY <1>19, Zenon DEF wait, Acquires, Children, procvars, Goto, TypeOK, InitLives, Live, Exits
<1>20. ASSUME NEW q \in Procs, wait_next(p, q) PROVE InitLives'
  BY <1>20, Zenon DEF wait_next, procvars, Goto, TypeOK, InitLives, Live, Exits
<1>21. ASSUME NEW q \in Procs, wait_reap(p, q) PROVE InitLives'
  BY <1>21 DEF wait_reap, freeproc, procvars, Goto, TypeOK, InitLives, Live, Exits
<1>22. CASE wait_none(p)
  BY <1>22 DEF wait_none, Children, procvars, Goto, TypeOK, InitLives, Live, Exits
<1>23. ASSUME NEW n \in KillArgs[p], NEW q \in Procs, kill(p, n, q) PROVE InitLives'
  BY <1>23, Zenon DEF kill, procvars, Goto, TypeOK, InitLives, Live, Exits
<1> QED
  BY <1>1, <1>2, <1>3, <1>4, <1>5, <1>6, <1>7, <1>8, <1>9, <1>10, <1>11, <1>12, <1>13, <1>14, <1>15, <1>16,
     Zenon, <1>17, <1>18, <1>19, <1>20, <1>21, <1>22, <1>23 DEF Step, Resumes, Kernel, User

\* The child of a fork() in progress stays with its forker.
LEMMA ForksStep ==
  ASSUME TypeOK, Locks, States, InitLives, Forks, NEW p \in Procs, Step(p)
  PROVE  Forks'
<1> USE ProcAssumption
<1>1. ASSUME NEW c \in Cpus, scheduler(c, p) PROVE Forks'
  BY <1>1 DEF scheduler, Runnable, procvars, Goto, TypeOK, Forks, Forking, Where, Parked, States, StateOK,
     Preemptible, Wakes
<1>2. ASSUME NEW c \in Cpus, cpu[c] = p, scheduler_back(c) PROVE Forks'
  BY <1>2 DEF scheduler_back, procvars, Goto, TypeOK, Forks, Forking, Where, Parked
<1>3. CASE resume(p)
  BY <1>3 DEF resume, procvars, Goto, TypeOK, Forks, Forking, Where, Parked
<1>4. CASE yield(p)
  BY <1>4 DEF yield, procvars, Goto, TypeOK, Forks, Forking, Where, Parked, States, StateOK, Preemptible,
     Wakes
<1>5. CASE sleep_lock(p)
  BY <1>5 DEF sleep_lock, procvars, Goto, TypeOK, Forks, Forking, Where, Parked
<1>6. CASE sleep(p)
  BY <1>6 DEF sleep, Unlock, procvars, Goto, TypeOK, Forks, Forking, Where, Parked, States, StateOK,
     Preemptible, Wakes
<1>7. CASE sleep_end(p)
  BY <1>7 DEF sleep_end, procvars, Goto, TypeOK, Forks, Forking, Where, Parked
<1>8. ASSUME NEW q \in Procs, wakeup(p, q) PROVE Forks'
  BY <1>8 DEF wakeup, procvars, Goto, TypeOK, Forks, Forking, Where, Parked, States, StateOK, Preemptible,
     Wakes
<1>9. CASE spin(p)
  BY <1>9 DEF spin, procvars, Goto, TypeOK, Forks, Forking, Where, Parked
<1>10. ASSUME NEW np \in Procs, fork(p, np) PROVE Forks'
  BY <1>10 DEF fork, CountPid, allocpid, procvars, Goto, TypeOK, Forks, Forking, Where, Parked
<1>11. ASSUME NEW np \in Procs, fork_fails(p, np) PROVE Forks'
  BY <1>11 DEF fork_fails, CountPid, freeproc, procvars, Goto, TypeOK, Forks, Forking, Where, Parked
<1>12. CASE fork_parent(p)
  BY <1>12 DEF fork_parent, Acquires, procvars, Goto, TypeOK, Forks, Forking, Where, Parked
<1>13. CASE fork_run(p)
  BY <1>13 DEF fork_run, procvars, Goto, TypeOK, Forks, Forking, Where, Parked
<1>14. CASE syscall(p)
  BY <1>14 DEF syscall, procvars, Goto, TypeOK, Forks, Forking, Where, Parked
<1>15. CASE exit(p)
  BY <1>15 DEF exit, Acquires, procvars, Goto, TypeOK, Forks, Forking, Where, Parked
<1>16. ASSUME NEW q \in Procs, reparent(p, q) PROVE Forks'
  BY <1>16 DEF reparent, CallWakeup, Children, procvars, Goto, TypeOK, Forks, Forking, Where, Parked
<1>17. CASE exit_wakeup(p)
  BY <1>17 DEF exit_wakeup, CallWakeup, Children, procvars, Goto, TypeOK, Forks, Forking, Where, Parked
<1>18. CASE exit_sched(p)
  BY <1>18 DEF exit_sched, Unlock, procvars, Goto, TypeOK, Forks, Forking, Where, Parked, States, StateOK,
     Preemptible, Wakes
<1>19. CASE wait(p)
  BY <1>19 DEF wait, Acquires, Children, procvars, Goto, TypeOK, Forks, Forking, Where, Parked
<1>20. ASSUME NEW q \in Procs, wait_next(p, q) PROVE Forks'
  BY <1>20 DEF wait_next, procvars, Goto, TypeOK, Forks, Forking, Where, Parked
<1>21. ASSUME NEW q \in Procs, wait_reap(p, q) PROVE Forks'
  BY <1>21 DEF wait_reap, freeproc, procvars, Goto, TypeOK, Forks, Forking, Where, Parked
<1>22. CASE wait_none(p)
  BY <1>22 DEF wait_none, Children, procvars, Goto, TypeOK, Forks, Forking, Where, Parked
<1>23. ASSUME NEW n \in KillArgs[p], NEW q \in Procs, kill(p, n, q) PROVE Forks'
  BY <1>23 DEF kill, procvars, Goto, TypeOK, Forks, Forking, Where, Parked
<1> QED
  BY <1>1, <1>2, <1>3, <1>4, <1>5, <1>6, <1>7, <1>8, <1>9, <1>10, <1>11, <1>12, <1>13, <1>14, <1>15, <1>16,
     Zenon, <1>17, <1>18, <1>19, <1>20, <1>21, <1>22, <1>23 DEF Step, Resumes, Kernel, User

\* Parents stay alive: exit() gives the children away first.
LEMMA TreeStep ==
  ASSUME TypeOK, Locks, States, InitLives, Forks, Tree, NEW p \in Procs, Step(p)
  PROVE  Tree'
<1> USE ProcAssumption
<1>1. ASSUME NEW c \in Cpus, scheduler(c, p) PROVE Tree'
  BY <1>1 DEF scheduler, Runnable, procvars, Goto, TypeOK, Tree, ParentsLive, Leaving
<1>2. ASSUME NEW c \in Cpus, cpu[c] = p, scheduler_back(c) PROVE Tree'
  BY <1>2, Zenon DEF scheduler_back, procvars, Goto, TypeOK, Tree, ParentsLive, Leaving
<1>3. CASE resume(p)
  BY <1>3 DEF resume, procvars, Goto, TypeOK, Tree, ParentsLive, Leaving, States, StateOK, Wakes, Preemptible
<1>4. CASE yield(p)
  BY <1>4 DEF yield, procvars, Goto, TypeOK, Tree, ParentsLive, Leaving, States, StateOK, Wakes, Preemptible
<1>5. CASE sleep_lock(p)
  BY <1>5, Zenon DEF sleep_lock, procvars, Goto, TypeOK, Tree, ParentsLive, Leaving
<1>6. CASE sleep(p)
  BY <1>6 DEF sleep, Unlock, procvars, Goto, TypeOK, Tree, ParentsLive, Leaving, States, StateOK, Wakes,
     Preemptible
<1>7. CASE sleep_end(p)
  BY <1>7 DEF sleep_end, procvars, Goto, TypeOK, Tree, ParentsLive, Leaving
<1>8. ASSUME NEW q \in Procs, wakeup(p, q) PROVE Tree'
  BY <1>8 DEF wakeup, procvars, Goto, TypeOK, Tree, ParentsLive, Leaving, States, StateOK, Wakes, Preemptible
<1>9. CASE spin(p)
  BY <1>9, Zenon DEF spin, procvars, Goto, TypeOK, Tree, ParentsLive, Leaving
<1>10. ASSUME NEW np \in Procs, fork(p, np) PROVE Tree'
  BY <1>10 DEF fork, CountPid, allocpid, procvars, Goto, TypeOK, Tree, ParentsLive, Leaving
<1>11. ASSUME NEW np \in Procs, fork_fails(p, np) PROVE Tree'
  BY <1>11 DEF fork_fails, CountPid, freeproc, procvars, Goto, TypeOK, Tree, ParentsLive, Leaving
<1>12. CASE fork_parent(p)
  BY <1>12 DEF fork_parent, Acquires, procvars, Goto, TypeOK, Tree, ParentsLive, Leaving, States, StateOK,
     Wakes, Preemptible, Locks, Waits, Own, Free, InitLives, Live, Exits, Forks, Forking, Where, Parked
<1>13. CASE fork_run(p)
  BY <1>13 DEF fork_run, procvars, Goto, TypeOK, Tree, ParentsLive, Leaving, States, StateOK, Wakes,
     Preemptible, Locks, Waits, Own, Free, InitLives, Live, Exits, Forks, Forking, Where, Parked
<1>14. CASE syscall(p)
  BY <1>14 DEF syscall, procvars, Goto, TypeOK, Tree, ParentsLive, Leaving
<1>15. CASE exit(p)
  BY <1>15 DEF exit, Acquires, procvars, Goto, TypeOK, Tree, ParentsLive, Leaving
<1>16. ASSUME NEW q \in Procs, reparent(p, q) PROVE Tree'
  BY <1>16 DEF reparent, CallWakeup, Children, procvars, Goto, TypeOK, Tree, ParentsLive, Leaving, States,
     StateOK, Wakes, Preemptible, Locks, Waits, Own, Free, InitLives, Live, Exits
<1>17. CASE exit_wakeup(p)
  BY <1>17, Zenon DEF exit_wakeup, CallWakeup, Children, procvars, Goto, TypeOK, Tree, ParentsLive, Leaving
<1>18. CASE exit_sched(p)
  BY <1>18 DEF exit_sched, Unlock, procvars, Goto, TypeOK, Tree, ParentsLive, Leaving, States, StateOK, Wakes,
     Preemptible
<1>19. CASE wait(p)
  BY <1>19, Zenon DEF wait, Acquires, Children, procvars, Goto, TypeOK, Tree, ParentsLive, Leaving
<1>20. ASSUME NEW q \in Procs, wait_next(p, q) PROVE Tree'
  BY <1>20, Zenon DEF wait_next, procvars, Goto, TypeOK, Tree, ParentsLive, Leaving
<1>21. ASSUME NEW q \in Procs, wait_reap(p, q) PROVE Tree'
  BY <1>21 DEF wait_reap, freeproc, procvars, Goto, TypeOK, Tree, ParentsLive, Leaving
<1>22. CASE wait_none(p)
  BY <1>22 DEF wait_none, Children, procvars, Goto, TypeOK, Tree, ParentsLive, Leaving
<1>23. ASSUME NEW n \in KillArgs[p], NEW q \in Procs, kill(p, n, q) PROVE Tree'
  BY <1>23, Zenon DEF kill, procvars, Goto, TypeOK, Tree, ParentsLive, Leaving
<1> QED
  BY <1>1, <1>2, <1>3, <1>4, <1>5, <1>6, <1>7, <1>8, <1>9, <1>10, <1>11, <1>12, <1>13, <1>14, <1>15, <1>16,
     Zenon, <1>17, <1>18, <1>19, <1>20, <1>21, <1>22, <1>23 DEF Step, Resumes, Kernel, User

\* No zombie goes unnoticed: the only steps that make one are followed by a wakeup().
LEMMA ZombiesStep ==
  ASSUME TypeOK, Locks, States, InitLives, Forks, Tree, Zombies, NEW p \in Procs, Step(p)
  PROVE  Zombies'
<1> USE ProcAssumption
<1>1. ASSUME NEW c \in Cpus, scheduler(c, p) PROVE Zombies'
  BY <1>1 DEF scheduler, Runnable, procvars, Goto, TypeOK, Zombies, Announced, Seen, Zombie, Asleep, Wakes,
     Locks, Waits, States, StateOK, Preemptible
<1>2. ASSUME NEW c \in Cpus, cpu[c] = p, scheduler_back(c) PROVE Zombies'
  BY <1>2 DEF scheduler_back, procvars, Goto, TypeOK, Zombies, Announced, Seen, Zombie, Asleep, Wakes
<1>3. CASE resume(p)
  BY <1>3 DEF resume, procvars, Goto, TypeOK, Zombies, Announced, Seen, Zombie, Asleep, Wakes, Locks, Waits,
     States, StateOK, Preemptible
<1>4. CASE yield(p)
  BY <1>4 DEF yield, procvars, Goto, TypeOK, Zombies, Announced, Seen, Zombie, Asleep, Wakes, Locks, Waits,
     States, StateOK, Preemptible
<1>5. CASE sleep_lock(p)
  BY <1>5 DEF sleep_lock, procvars, Goto, TypeOK, Zombies, Announced, Seen, Zombie, Asleep, Wakes
<1>6. CASE sleep(p)
  BY <1>6 DEF sleep, Unlock, procvars, Goto, TypeOK, Zombies, Announced, Seen, Zombie, Asleep, Wakes, Locks,
     Waits, States, StateOK, Preemptible
<1>7. CASE sleep_end(p)
  BY <1>7 DEF sleep_end, procvars, Goto, TypeOK, Zombies, Announced, Seen, Zombie, Asleep, Wakes
<1>8. ASSUME NEW q \in Procs, wakeup(p, q) PROVE Zombies'
  BY <1>8 DEF wakeup, procvars, Goto, TypeOK, Zombies, Announced, Seen, Zombie, Asleep, Wakes, Locks, Waits,
     States, StateOK, Preemptible
<1>9. CASE spin(p)
  BY <1>9 DEF spin, procvars, Goto, TypeOK, Zombies, Announced, Seen, Zombie, Asleep, Wakes
<1>10. ASSUME NEW np \in Procs, fork(p, np) PROVE Zombies'
  BY <1>10 DEF fork, CountPid, allocpid, procvars, Goto, TypeOK, Zombies, Announced, Seen, Zombie, Asleep,
     Wakes
<1>11. ASSUME NEW np \in Procs, fork_fails(p, np) PROVE Zombies'
  BY <1>11 DEF fork_fails, CountPid, freeproc, procvars, Goto, TypeOK, Zombies, Announced, Seen, Zombie,
     Asleep, Wakes, Locks, Waits, States, StateOK, Preemptible
<1>12. CASE fork_parent(p)
  BY <1>12 DEF fork_parent, Acquires, procvars, Goto, TypeOK, Zombies, Announced, Seen, Zombie, Asleep, Wakes,
     Locks, Waits, States, StateOK, Preemptible
<1>13. CASE fork_run(p)
  BY <1>13 DEF fork_run, procvars, Goto, TypeOK, Zombies, Announced, Seen, Zombie, Asleep, Wakes
<1>14. CASE syscall(p)
  BY <1>14 DEF syscall, procvars, Goto, TypeOK, Zombies, Announced, Seen, Zombie, Asleep, Wakes
<1>15. CASE exit(p)
  BY <1>15 DEF exit, Acquires, procvars, Goto, TypeOK, Zombies, Announced, Seen, Zombie, Asleep, Wakes
<1>16. ASSUME NEW q \in Procs, reparent(p, q) PROVE Zombies'
  BY <1>16 DEF reparent, CallWakeup, Children, procvars, Goto, TypeOK, Zombies, Announced, Seen, Zombie,
     Asleep, Wakes, Locks, Waits, States, StateOK, Preemptible
<1>17. CASE exit_wakeup(p)
  BY <1>17 DEF exit_wakeup, CallWakeup, Children, procvars, Goto, TypeOK, Zombies, Announced, Seen, Zombie,
     Asleep, Wakes, Locks, Waits, States, StateOK, Preemptible, Own, Free, Tree, ParentsLive, InitLives, Live,
     Exits, Leaving
<1>18. CASE exit_sched(p)
  BY <1>18 DEF exit_sched, Unlock, procvars, Goto, TypeOK, Zombies, Announced, Seen, Zombie, Asleep, Wakes,
     Locks, Waits, States, StateOK, Preemptible
<1>19. CASE wait(p)
  BY <1>19 DEF wait, Acquires, Children, procvars, Goto, TypeOK, Zombies, Announced, Seen, Zombie, Asleep,
     Wakes
<1>20. ASSUME NEW q \in Procs, wait_next(p, q) PROVE Zombies'
  BY <1>20 DEF wait_next, procvars, Goto, TypeOK, Zombies, Announced, Seen, Zombie, Asleep, Wakes
<1>21. ASSUME NEW q \in Procs, wait_reap(p, q) PROVE Zombies'
  <2>1. \A r \in Procs : pc'[r] = (IF r = p THEN "user" ELSE pc[r]) /\ (r # p => todo'[r] = todo[r])
    BY <1>21, Zenon DEF wait_reap, Goto, TypeOK
  <2>2. UNCHANGED <<ret, target>> /\ pc[p] = "scan"
    BY <1>21, Zenon DEF wait_reap
  <2>3. \A r \in Procs : state'[r] = state[r] \/ state'[r] = "UNUSED"
    BY <1>21 DEF wait_reap, freeproc, TypeOK
  <2>4. \A r \in Procs : (parent'[r] = parent[r] \/ parent'[r] = NULL) /\ (chan'[r] = chan[r] \/ chan'[r] = NULL)
    BY <1>21 DEF wait_reap, freeproc, TypeOK
  <2>5. \A r \in Procs : r # p => pc[r] \notin Waits
    BY <2>2, Zenon DEF Locks, Waits
  <2>6. ASSUME NEW r \in Procs PROVE Announced(r)'
    BY <2>1, <2>2, <2>5, Zenon DEF Announced, Waits
  <2>7. ASSUME NEW r \in Procs, NEW s \in Procs PROVE Seen(r, s)'
    <3>1. Zombie(r, s)' => Zombie(r, s)
      BY <2>3, <2>4, ProcAssumption, Zenon DEF Zombie
    <3>2. Asleep(r)' => Asleep(r)
      BY <2>3, <2>4, ProcAssumption, Zenon DEF Asleep, Wakes
    <3>3. Zombie(r, s) => ~Asleep(r)
      BY <2>2, <2>5, Zenon DEF Zombies, Seen, Waits
    <3>4. pc'[r] \notin {"scan", "sleep", "sleep_release"}
      BY <2>1, <2>5, Zenon DEF Waits
    <3> QED
      BY <3>1, <3>2, <3>3, <3>4, Zenon DEF Seen
  <2> QED
    BY <2>6, <2>7, Zenon DEF Zombies
<1>22. CASE wait_none(p)
  BY <1>22 DEF wait_none, Children, procvars, Goto, TypeOK, Zombies, Announced, Seen, Zombie, Asleep, Wakes
<1>23. ASSUME NEW n \in KillArgs[p], NEW q \in Procs, kill(p, n, q) PROVE Zombies'
  BY <1>23 DEF kill, procvars, Goto, TypeOK, Zombies, Announced, Seen, Zombie, Asleep, Wakes
<1> QED
  BY <1>1, <1>2, <1>3, <1>4, <1>5, <1>6, <1>7, <1>8, <1>9, <1>10, <1>11, <1>12, <1>13, <1>14, <1>15, <1>16,
     Zenon, <1>17, <1>18, <1>19, <1>20, <1>21, <1>22, <1>23 DEF Step, Resumes, Kernel, User

-----------------------------------------------------------------------------
\* The state after userinit() satisfies the invariant.
LEMMA InitPInv == Init => PInv
<1> SUFFICES ASSUME Init PROVE PInv
  BY Zenon
<1> USE ProcAssumption
<1>1. TypeOK
  BY DEF Init, TypeOK, Places
<1>2. Locks /\ States /\ Stacks
  BY Zenon DEF Init, Locks, Own, Waits, States, StateOK, Stacks, Preemptible
<1>3. InitLives /\ Forks
  BY Zenon DEF Init, InitLives, Live, Exits, Forks, Forking, Where, Parked
<1>4. Tree /\ Zombies
  BY Zenon DEF Init, Tree, ParentsLive, Leaving, Zombies, Announced, Seen, Zombie
<1> QED
  BY <1>1, <1>2, <1>3, <1>4, Zenon DEF PInv

\* Every step of every processor and process keeps it.
LEMMA StepPInv == PInv /\ [Next]_vars => PInv'
<1> SUFFICES ASSUME PInv, [Next]_vars PROVE PInv'
  BY Zenon
<1>1. ASSUME NEW p \in Procs, Step(p) PROVE PInv'
  BY <1>1, TypeStep, LocksStep, StatesStep, StacksStep, InitStep, ForksStep, TreeStep, ZombiesStep, Zenon
     DEF PInv
<1>2. ASSUME NEW c \in Cpus, scheduler_back(c) PROVE PInv'
  <2>1. cpu[c] \in Procs
    BY <1>2, Zenon DEF scheduler_back, PInv, TypeOK
  <2>2. Step(cpu[c])
    BY <1>2, Zenon DEF Step
  <2> QED
    BY <1>1, <2>1, <2>2, Zenon
<1>3. CASE UNCHANGED vars
  <2>1. TypeOK' /\ Locks' /\ States' /\ Stacks'
    BY <1>3, Zenon DEF vars, PInv, TypeOK, Locks, States, StateOK, Stacks
  <2>2. InitLives' /\ Tree'
    BY <1>3, Zenon DEF vars, PInv, InitLives, Tree, ParentsLive, Leaving
  <2>3. Forks'
    BY <1>3 DEF vars, PInv, Forks, Forking, Where
  <2>4. Zombies'
    BY <1>3, Zenon DEF vars, PInv, Zombies, Announced, Seen, Zombie, Asleep, Wakes
  <2> QED
    BY <2>1, <2>2, <2>3, <2>4, Zenon DEF PInv
<1> QED
  BY <1>1, <1>2, <1>3, Zenon DEF Next, Step

\* The inductive invariant holds in every reachable state.
THEOREM ProcInvariant == Spec => []PInv
<1> QED
  BY InitPInv, StepPInv, PTL DEF Spec

\* With any number of slots and processors no kernel stack is ever used by two
\* processors, the panics of sched() are out of reach, and every process has a parent that
\* can still wait for it (ProcInv).
THEOREM ProcIsSafe == Spec => []ProcInv
<1>1. PInv => ProcInv
  <2> SUFFICES ASSUME PInv PROVE ProcInv
    BY Zenon
  <2>1. OneStack
    <3>1. \A c \in Cpus : cpu[c] # NULL => cpu[c] \in Procs /\ pc[cpu[c]] # "off"
      BY Zenon DEF PInv, TypeOK, Stacks
    <3>2. \A p \in Procs : pc[p] # "off" => state[p] = "RUNNING" \/ ~Free(p)
      BY ProcAssumption, ZenonT(30) DEF PInv, Locks, Own, States, StateOK, Free
    <3> QED
      BY <3>1, <3>2, Zenon DEF OneStack, PInv, Stacks
  <2>2. SchedLocks
    BY ProcAssumption DEF PInv, SchedLocks, Locks, Own, Waits, States, StateOK, Free
  <2> QED
    BY <2>1, <2>2, Zenon DEF PInv, Tree, ProcInv
<1> QED
  BY <1>1, ProcInvariant, PTL

\* With wait_lock free no process sleeps in wait() on a child that is a zombie: neither
\* exit() nor reparent() loses a wakeup (NoMissedZombie).
THEOREM NoZombieMissed == Spec => []NoMissedZombie
<1>1. PInv => NoMissedZombie
  BY ProcAssumption DEF PInv, NoMissedZombie, Locks, Waits, Zombies, Seen, Zombie, Asleep
<1> QED
  BY <1>1, ProcInvariant, PTL

-----------------------------------------------------------------------------
\* The flag of a slot in use was set under its present id or while the slot was free, and
\* that of a free slot was set by kill(0).
Marked == \A p \in Procs : /\ killed[p] => <<p, pid[p]>> \in named \/ <<p, 0>> \in named
                           /\ state[p] = "UNUSED" => pid[p] = 0

\* freeproc() clears the flag before the slot is used again, and only a free slot is given
\* an id.
LEMMA MarkedStep ==
  ASSUME PInv, Marked, NEW p \in Procs, Step(p)
  PROVE  Marked'
<1>1. state = [q \in Procs |-> state[q]] /\ killed = [q \in Procs |-> killed[q]] /\ pid = [q \in Procs |-> pid[q]]
  BY Zenon DEF PInv, TypeOK
<1>2. nextpid # 0
  BY DEF PInv, TypeOK
<1>3. \A q \in Procs : StateOK(q)
  BY Zenon DEF PInv, States
<1>4. ASSUME NEW np \in Procs, fork(p, np) PROVE Marked'
  BY <1>1, <1>2, <1>4, Zenon DEF Marked, fork, allocpid
<1>5. ASSUME NEW np \in Procs, fork_fails(p, np) PROVE Marked'
  BY <1>1, <1>5, Zenon DEF Marked, fork_fails, freeproc
<1>6. ASSUME NEW q \in Procs, wait_reap(p, q) PROVE Marked'
  <2>1. CASE freeproc(q)
    BY <1>1, <1>6, <2>1, Zenon DEF Marked, wait_reap, freeproc
  <2>2. CASE UNCHANGED <<state, chan, killed, parent, pid, named>>
    BY <1>6, <2>2, ZenonT(30) DEF Marked, wait_reap
  <2> QED
    BY <1>6, <2>1, <2>2, Zenon DEF wait_reap
<1>7. ASSUME NEW n \in KillArgs[p], NEW q \in Procs, kill(p, n, q) PROVE Marked'
  BY <1>1, <1>7, Zenon DEF Marked, kill
<1>8. ASSUME UNCHANGED <<killed, pid, named>>, \A q \in Procs : state'[q] = "UNUSED" <=> state[q] = "UNUSED"
      PROVE  Marked'
  BY <1>8, Zenon DEF Marked
<1>9. ASSUME NEW c \in Cpus, scheduler(c, p) PROVE Marked'
  BY <1>1, <1>8, <1>9, Zenon DEF scheduler, Runnable
<1>10. CASE yield(p)
  BY <1>1, <1>3, <1>8, <1>10, Zenon DEF yield, StateOK, Preemptible
<1>11. CASE sleep(p)
  BY <1>1, <1>3, <1>8, <1>11, Zenon DEF sleep, StateOK
<1>12. CASE fork_run(p)
  <2>1. target[p] \in Procs /\ state[target[p]] = "USED"
    BY <1>12, Zenon DEF fork_run, PInv, Forks, Forking, Where, Parked
  <2> QED
    BY <1>1, <1>8, <1>12, <2>1, Zenon DEF fork_run
<1>13. CASE exit_sched(p)
  BY <1>1, <1>3, <1>8, <1>13, Zenon DEF exit_sched, StateOK
<1>14. ASSUME NEW q \in Procs, wakeup(p, q) PROVE Marked'
  BY <1>1, <1>8, <1>14, Zenon DEF wakeup, Wakes
<1>15. ASSUME UNCHANGED <<state, killed, pid, named>> PROVE Marked'
  BY <1>8, <1>15, Zenon
<1>16. CASE Resumes(p) \/ syscall(p) \/ \E c \in Cpus : scheduler_back(c)
  BY <1>15, <1>16, Zenon DEF Resumes, resume, sleep_end, syscall, scheduler_back, procvars
<1>17. CASE sleep_lock(p) \/ spin(p) \/ fork_parent(p) \/ exit(p) \/ wait(p) \/ exit_wakeup(p) \/ wait_none(p)
  BY <1>15, <1>17, ZenonT(30) DEF sleep_lock, spin, fork_parent, exit, wait, exit_wakeup, wait_none, procvars
<1>18. ASSUME NEW q \in Procs, reparent(p, q) \/ wait_next(p, q) PROVE Marked'
  BY <1>15, <1>18, ZenonT(30) DEF reparent, wait_next, procvars
<1> QED
  BY <1>4, <1>5, <1>6, <1>7, <1>9, <1>10, <1>11, <1>12, <1>13, <1>14, <1>16, <1>17, <1>18, Zenon DEF Step,
     Kernel, User

\* kill() marks the process that was named and no later user of its slot, but for
\* kill(0), which marks a free slot for the next one (KilledWasNamed).
THEOREM KillsByName == Spec => []KilledWasNamed
<1>1. Init => Marked
  BY ProcAssumption, ZenonT(30) DEF Init, Marked
<1>2. PInv /\ Marked /\ [Next]_vars => Marked'
  <2> SUFFICES ASSUME PInv, Marked, [Next]_vars PROVE Marked'
    BY Zenon
  <2>1. ASSUME NEW p \in Procs, Step(p) PROVE Marked'
    BY <2>1, MarkedStep, Zenon
  <2>2. ASSUME NEW c \in Cpus, scheduler_back(c) PROVE Marked'
    BY <2>2, Zenon DEF scheduler_back, procvars, Marked
  <2>3. CASE UNCHANGED vars
    BY <2>3, Zenon DEF vars, Marked
  <2> QED
    BY <2>1, <2>2, <2>3, Zenon DEF Next, Step
<1>3. Marked => KilledWasNamed
  BY Zenon DEF Marked, KilledWasNamed
<1> QED
  BY <1>1, <1>2, <1>3, ProcInvariant, PTL DEF Spec
=============================================================================
