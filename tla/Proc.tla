-------------------------------- MODULE Proc --------------------------------
(***************************************************************************)
(* Processes (kernel/proc.c): the scheduler and swtch, sleep and wakeup,   *)
(* fork, exit, wait, kill and the check of killed in usertrap.             *)
(*                                                                         *)
(* Locks are explicit where a process holds one across several steps:      *)
(* plock[q] is q->lock, wlock is wait_lock.  A critical section that takes *)
(* one p->lock, makes its changes and releases it is one step, enabled     *)
(* when the lock is free.  A processor runs the process in cpu[c] or, when *)
(* that is NULL, its scheduler loop.  swtch() hands p->lock over: between  *)
(* sched() and the scheduler's release the process is at pc "sched" and    *)
(* still on its processor.                                                 *)
(***************************************************************************)
EXTENDS Integers

CONSTANTS Procs, initproc,  \* slots of proc[]; the first process
          Cpus, NULL,
          MaxPid,           \* bound: process ids given out
          KillArgs          \* bound: the arguments that each process gives to kill()

ASSUME ProcAssumption ==
  /\ initproc \in Procs /\ NULL \notin Procs
  /\ MaxPid \in Nat /\ MaxPid >= 2 /\ KillArgs \in [Procs -> SUBSET (Nat \ {1})]  \* nobody kills init

VARIABLES state, chan, killed, parent, pid,  \* fields of struct proc
          nextpid,
          plock, wlock,  \* who holds p->lock and wait_lock
          cpu,           \* cpus[c].proc
          pc, ret,       \* where a process is; where it goes on after sched() or wakeup()
          todo, target,  \* locals: slots left to scan; the channel or child in use
          named          \* history: <<q, n>> when kill(n) has marked slot q, until q is freed

procvars == <<state, chan, killed, parent, pid, nextpid>>
vars == <<state, chan, killed, parent, pid, nextpid, plock, wlock, cpu, pc, ret, todo, target, named>>

Init == /\ state = [p \in Procs |-> IF p = initproc THEN "RUNNABLE" ELSE "UNUSED"]
        /\ chan = [p \in Procs |-> NULL]
        /\ killed = [p \in Procs |-> FALSE]
        /\ parent = [p \in Procs |-> NULL]
        /\ pid = [p \in Procs |-> IF p = initproc THEN 1 ELSE 0]
        /\ nextpid = 2
        /\ plock = [p \in Procs |-> NULL] /\ wlock = NULL
        /\ cpu = [c \in Cpus |-> NULL]
        /\ pc = [p \in Procs |-> "off"]
        /\ ret = [p \in Procs |-> "user"]
        /\ todo = [p \in Procs |-> {}] /\ target = [p \in Procs |-> NULL]
        /\ named = {}

Free(q) == plock[q] = NULL
Goto(p, l) == pc' = [pc EXCEPT ![p] = l]
Preemptible == {"user", "fork_parent", "fork_run", "exiting", "wait"}
Children(p) == {q \in Procs : parent[q] = p}
-----------------------------------------------------------------------------
\* The scheduler looks at p->state with p->lock held.
Runnable_bug(p) == state[p] = "RUNNABLE"
Runnable(p) == Free(p) /\ state[p] = "RUNNABLE"

\* scheduler(): find a runnable process, mark it running and swtch() to it
\* with its lock held.
scheduler(c, p) ==
  /\ cpu[c] = NULL /\ Runnable(p)
  /\ state' = [state EXCEPT ![p] = "RUNNING"]
  /\ cpu' = [cpu EXCEPT ![c] = p]
  /\ plock' = [plock EXCEPT ![p] = p]
  /\ Goto(p, "resumed")
  /\ UNCHANGED <<chan, killed, parent, pid, nextpid, wlock, ret, todo, target, named>>

\* After swtch() back: c->proc = 0 and release(&p->lock).
scheduler_back(c) ==
  /\ cpu[c] # NULL /\ pc[cpu[c]] = "sched"
  /\ cpu' = [cpu EXCEPT ![c] = NULL]
  /\ plock' = [plock EXCEPT ![cpu[c]] = NULL]
  /\ Goto(cpu[c], "off")
  /\ UNCHANGED <<procvars, wlock, ret, todo, target, named>>

\* Release of p->lock by a process that has come back from sched(): at the
\* end of yield(), or in forkret().
resume(p) ==
  /\ pc[p] = "resumed" /\ ret[p] \in Preemptible
  /\ plock' = [plock EXCEPT ![p] = NULL]
  /\ Goto(p, ret[p])
  /\ UNCHANGED <<procvars, wlock, cpu, ret, todo, target, named>>

\* yield() on a timer interrupt, from usertrap() or, where the kernel holds
\* no spinlock, from kerneltrap().
yield(p) ==
  /\ pc[p] \in Preemptible /\ Free(p)
  /\ plock' = [plock EXCEPT ![p] = p]
  /\ state' = [state EXCEPT ![p] = "RUNNABLE"]
  /\ Goto(p, "sched")
  /\ ret' = [ret EXCEPT ![p] = pc[p]]
  /\ UNCHANGED <<chan, killed, parent, pid, nextpid, wlock, cpu, todo, target, named>>

\* The first lines of sleep(p, &wait_lock): p->lock is taken before wait_lock
\* is given up.
sleep_lock(p) ==
  /\ pc[p] = "sleep" /\ Free(p)
  /\ plock' = [plock EXCEPT ![p] = p]
  /\ Goto(p, "sleep_release")
  /\ UNCHANGED <<procvars, wlock, cpu, ret, todo, target, named>>

Unlock == wlock' = NULL

sleep(p) ==
  /\ pc[p] = "sleep_release"
  /\ Unlock
  /\ chan' = [chan EXCEPT ![p] = p]
  /\ state' = [state EXCEPT ![p] = "SLEEPING"]
  /\ Goto(p, "sched")
  /\ ret' = [ret EXCEPT ![p] = "awake"]
  /\ UNCHANGED <<killed, parent, pid, nextpid, plock, cpu, todo, target, named>>

\* sleep() after sched(); wait() goes on by taking wait_lock again.
sleep_end(p) ==
  /\ pc[p] = "resumed" /\ ret[p] = "awake"
  /\ chan' = [chan EXCEPT ![p] = NULL]
  /\ plock' = [plock EXCEPT ![p] = NULL]
  /\ Goto(p, "wait")
  /\ UNCHANGED <<state, killed, parent, pid, nextpid, wlock, cpu, ret, todo, target, named>>

\* wakeup(ch), called by p; p goes on at l.
CallWakeup(p, ch, l) ==
  /\ Goto(p, "wakeup")
  /\ target' = [target EXCEPT ![p] = ch]
  /\ todo' = [todo EXCEPT ![p] = Procs \ {p}]
  /\ ret' = [ret EXCEPT ![p] = l]

Wakes(q, ch) == state[q] = "SLEEPING" /\ chan[q] = ch

\* One turn of wakeup()'s loop.
wakeup(p, q) ==
  /\ pc[p] = "wakeup" /\ q \in todo[p] /\ Free(q)
  /\ state' = [state EXCEPT ![q] = IF Wakes(q, target[p]) THEN "RUNNABLE" ELSE @]
  /\ todo' = [todo EXCEPT ![p] = @ \ {q}]
  /\ Goto(p, IF todo[p] = {q} THEN ret[p] ELSE "wakeup")
  /\ UNCHANGED <<chan, killed, parent, pid, nextpid, plock, wlock, cpu, ret, target, named>>

\* acquire(&wait_lock) turns interrupts off before it spins: no yield any more.
spin(p) ==
  /\ pc[p] \in {"fork_parent", "exiting", "wait"}
  /\ ret' = [ret EXCEPT ![p] = pc[p]]
  /\ Goto(p, "spin")
  /\ UNCHANGED <<procvars, plock, wlock, cpu, todo, target, named>>

Acquires(p, l) == pc[p] = "spin" /\ ret[p] = l /\ wlock = NULL
-----------------------------------------------------------------------------
\* allocpid(): the id, and the counter after it.
allocpid == nextpid
CountPid == nextpid' = nextpid + 1

\* freeproc()
freeproc_bug(q) ==
  /\ state' = [state EXCEPT ![q] = "UNUSED"]
  /\ chan' = [chan EXCEPT ![q] = NULL]
  /\ parent' = [parent EXCEPT ![q] = NULL]
  /\ pid' = [pid EXCEPT ![q] = 0]
  /\ named' = {m \in named : m[1] # q}
  /\ UNCHANGED killed
freeproc(q) ==
  /\ state' = [state EXCEPT ![q] = "UNUSED"]
  /\ chan' = [chan EXCEPT ![q] = NULL]
  /\ killed' = [killed EXCEPT ![q] = FALSE]
  /\ parent' = [parent EXCEPT ![q] = NULL]
  /\ pid' = [pid EXCEPT ![q] = 0]
  /\ named' = {m \in named : m[1] # q}

\* fork(): allocproc() and the copying under np->lock.
fork(p, np) ==
  /\ pc[p] = "user" /\ ~killed[p]
  /\ state[np] = "UNUSED" /\ Free(np) /\ nextpid <= MaxPid
  /\ CountPid
  /\ state' = [state EXCEPT ![np] = "USED"]
  /\ pid' = [pid EXCEPT ![np] = allocpid]
  /\ ret' = [ret EXCEPT ![np] = "user"]
  /\ target' = [target EXCEPT ![p] = np]
  /\ Goto(p, "fork_parent")
  /\ UNCHANGED <<chan, killed, parent, plock, wlock, cpu, todo, named>>

\* fork() out of memory: freeproc(np).
fork_fails(p, np) ==
  /\ pc[p] = "user" /\ ~killed[p]
  /\ state[np] = "UNUSED" /\ Free(np) /\ nextpid <= MaxPid
  /\ CountPid
  /\ freeproc(np)
  /\ UNCHANGED <<plock, wlock, cpu, pc, ret, todo, target>>

fork_parent(p) ==
  /\ Acquires(p, "fork_parent")
  /\ parent' = [parent EXCEPT ![target[p]] = p]
  /\ Goto(p, "fork_run")
  /\ UNCHANGED <<state, chan, killed, pid, nextpid, plock, wlock, cpu, ret, todo, target, named>>

fork_run(p) ==
  /\ pc[p] = "fork_run" /\ Free(target[p])
  /\ state' = [state EXCEPT ![target[p]] = "RUNNABLE"]
  /\ target' = [target EXCEPT ![p] = NULL]
  /\ Goto(p, "user")
  /\ UNCHANGED <<chan, killed, parent, pid, nextpid, plock, wlock, cpu, ret, todo, named>>

\* A process in user space enters exit(), by the system call or because
\* usertrap() finds it killed, or wait().  init does not exit.
syscall(p) ==
  /\ pc[p] = "user"
  /\ \/ p # initproc /\ Goto(p, "exiting")
     \/ ~killed[p] /\ Goto(p, "wait")
  /\ UNCHANGED <<procvars, plock, wlock, cpu, ret, todo, target, named>>

\* exit() has wait_lock.
exit(p) ==
  /\ Acquires(p, "exiting")
  /\ wlock' = p
  /\ Goto(p, "reparent")
  /\ UNCHANGED <<procvars, plock, cpu, ret, todo, target, named>>

\* reparent(): the next child goes to init, then wakeup(initproc).
reparent(p, q) ==
  /\ pc[p] = "reparent" /\ q \in Children(p)
  /\ parent' = [parent EXCEPT ![q] = initproc]
  /\ CallWakeup(p, initproc, "reparent")
  /\ UNCHANGED <<state, chan, killed, pid, nextpid, plock, wlock, cpu, named>>

\* No child is left: wakeup(p->parent).
exit_wakeup(p) ==
  /\ pc[p] = "reparent" /\ Children(p) = {}
  /\ CallWakeup(p, parent[p], "exit")
  /\ UNCHANGED <<procvars, plock, wlock, cpu, named>>

\* ZOMBIE under p->lock, then release wait_lock and sched().
exit_sched(p) ==
  /\ pc[p] = "exit" /\ Free(p)
  /\ plock' = [plock EXCEPT ![p] = p]
  /\ state' = [state EXCEPT ![p] = "ZOMBIE"]
  /\ Unlock
  /\ Goto(p, "sched")
  /\ ret' = [ret EXCEPT ![p] = "dead"]
  /\ target' = [target EXCEPT ![p] = NULL]
  /\ UNCHANGED <<chan, killed, parent, pid, nextpid, cpu, todo, named>>
-----------------------------------------------------------------------------
wait_first(p) ==
  /\ Acquires(p, "wait")
  /\ wlock' = p
  /\ todo' = [todo EXCEPT ![p] = IF Children(p) = {} THEN {} ELSE {CHOOSE q \in Children(p) : TRUE}]
  /\ Goto(p, "scan")
  /\ UNCHANGED <<procvars, plock, cpu, ret, target, named>>

\* wait() takes wait_lock and looks at its children.  Nobody else can give it
\* children or take them away until it releases the lock.
wait(p) ==
  /\ Acquires(p, "wait")
  /\ wlock' = p
  /\ todo' = [todo EXCEPT ![p] = Children(p)]
  /\ Goto(p, "scan")
  /\ UNCHANGED <<procvars, plock, cpu, ret, target, named>>

\* A child that is no zombie; acquire(&pp->lock) waits for one that is still
\* on its way out.
wait_next(p, q) ==
  /\ pc[p] = "scan" /\ q \in todo[p] /\ Free(q)
  /\ state[q] # "ZOMBIE"
  /\ todo' = [todo EXCEPT ![p] = @ \ {q}]
  /\ UNCHANGED <<procvars, plock, wlock, cpu, pc, ret, target, named>>

\* The exit status cannot be copied out; init passes no address.
copyout_fails_bug(p) == TRUE
copyout_fails(p) == p # initproc

\* A zombie: freeproc() it, or return -1.
wait_reap(p, q) ==
  /\ pc[p] = "scan" /\ q \in todo[p] /\ Free(q)
  /\ state[q] = "ZOMBIE"
  /\ \/ freeproc(q)
     \/ copyout_fails(p) /\ UNCHANGED <<state, chan, killed, parent, pid, named>>
  /\ wlock' = NULL
  /\ todo' = [todo EXCEPT ![p] = {}]
  /\ Goto(p, "user")
  /\ UNCHANGED <<nextpid, plock, cpu, ret, target>>

\* No zombie: give up if there is no child or p is killed, else sleep.
wait_none(p) ==
  /\ pc[p] = "scan" /\ todo[p] = {} /\ Free(p)
  /\ IF Children(p) = {} \/ killed[p]
       THEN wlock' = NULL /\ Goto(p, "user")
       ELSE UNCHANGED wlock /\ Goto(p, "sleep")
  /\ UNCHANGED <<procvars, plock, cpu, ret, todo, target, named>>

\* kill(n): nothing is asked of n or of the state of the slot, so that kill(0)
\* finds one that is free.
kill(p, n, q) ==
  /\ pc[p] = "user" /\ ~killed[p] /\ n \in KillArgs[p]
  /\ pid[q] = n /\ Free(q)
  /\ killed' = [killed EXCEPT ![q] = TRUE]
  /\ state' = [state EXCEPT ![q] = IF @ = "SLEEPING" THEN "RUNNABLE" ELSE @]
  /\ named' = named \cup {<<q, n>>}
  /\ UNCHANGED <<chan, parent, pid, nextpid, plock, wlock, cpu, pc, ret, todo, target>>

Resumes(p) == resume(p) \/ sleep_end(p)

Kernel(p) ==
  \/ sleep_lock(p) \/ sleep(p)
  \/ \E q \in Procs : wakeup(p, q)
  \/ spin(p) \/ fork_parent(p) \/ fork_run(p)
  \/ \E q \in Procs : reparent(p, q)
  \/ exit_wakeup(p) \/ exit_sched(p)
  \/ exit(p) \/ wait(p)
  \/ \E q \in Procs : wait_next(p, q) \/ wait_reap(p, q)
  \/ wait_none(p)

User(p) ==
  \/ yield(p) \/ syscall(p)
  \/ \E q \in Procs : fork(p, q) \/ fork_fails(p, q)
  \/ \E n \in KillArgs[p], q \in Procs : kill(p, n, q)

Next == \/ \E c \in Cpus : scheduler_back(c) \/ \E p \in Procs : scheduler(c, p)
        \/ \E p \in Procs : Resumes(p) \/ Kernel(p) \/ User(p)

Spec == Init /\ [][Next]_vars
-----------------------------------------------------------------------------
Places == {"off", "sched", "user", "resumed", "awake", "dead", "sleep", "sleep_release",
           "wakeup", "fork_parent", "fork_run", "reparent", "exit", "exiting",
           "wait", "spin", "scan"}

TypeOK ==
  /\ state \in [Procs -> {"UNUSED", "USED", "SLEEPING", "RUNNABLE", "RUNNING", "ZOMBIE"}]
  /\ chan \in [Procs -> Procs \cup {NULL}] /\ parent \in [Procs -> Procs \cup {NULL}]
  /\ killed \in [Procs -> BOOLEAN]
  /\ pid \in [Procs -> 0 .. MaxPid] /\ nextpid \in 2 .. MaxPid + 1
  /\ plock \in [Procs -> Procs \cup {NULL}] /\ wlock \in Procs \cup {NULL}
  /\ cpu \in [Cpus -> Procs \cup {NULL}]
  /\ pc \in [Procs -> Places] /\ ret \in [Procs -> Places]
  /\ todo \in [Procs -> SUBSET Procs] /\ target \in [Procs -> Procs \cup {NULL}]
  /\ named \subseteq Procs \X Nat

\* A process runs on at most one processor, and one that is not RUNNING is on
\* its kernel stack only while its lock is held: another scheduler can never
\* switch to a stack that is still in use (proc.c, scheduler and sched).
OneStack ==
  /\ \A c, d \in Cpus : cpu[c] # NULL /\ cpu[c] = cpu[d] => c = d
  /\ \A c \in Cpus : cpu[c] # NULL => state[cpu[c]] = "RUNNING" \/ ~Free(cpu[c])

\* sched() is called with p->lock held and no other lock: its panics
\* ("sched p->lock", "sched locks", "sched running") are out of reach.
SchedLocks == \A p \in Procs : pc[p] = "sched" => ~Free(p) /\ wlock # p /\ state[p] # "RUNNING"

\* No lost wakeup in wait(): with wait_lock free, a parent asleep in wait()
\* has no zombie child.
NoMissedZombie ==
  wlock = NULL =>
    \A p, q \in Procs : parent[q] = p /\ state[q] = "ZOMBIE" => ~Wakes(p, p)

\* The process tree: every process but init has a parent that is still able to
\* call wait(); only a child whose fork() has not come that far has none.
ParentsLive ==
  \A q \in Procs \ {initproc} :
    /\ parent[q] # NULL => state[q] # "UNUSED" /\ state[parent[q]] \in {"RUNNING", "RUNNABLE", "SLEEPING"}
    /\ state[q] \notin {"UNUSED", "USED"} => parent[q] # NULL

\* Types, stacks and locks around sched() and swtch(), and the process tree.
ProcInv == TypeOK /\ OneStack /\ SchedLocks /\ ParentsLive

\* "Kill the process with the given pid": a process is marked killed only when
\* kill() was given its own id, never that of an earlier process of its slot.
\* kill(0) is the exception: it marks a free slot, whose id is 0, and the next
\* process of that slot (and no later one) starts out killed.
KilledWasNamed ==
  \A p \in Procs : killed[p] /\ state[p] # "UNUSED" => <<p, pid[p]>> \in named \/ <<p, 0>> \in named
-----------------------------------------------------------------------------
\* Fairness: processors keep scheduling and every started kernel operation
\* goes on; strong fairness where a spinlock has to be won and a timer
\* interrupt may come first.  init's loop (user/init.c) keeps calling wait(),
\* and nothing is assumed of the calls of other processes.  What a switch to a
\* process and back consists of comes in one order, so that fairness of the
\* whole is fairness of each part.
GoesOn(p) == Kernel(p) \/ (p = initproc /\ syscall(p))
Switches(p) == \/ \E c \in Cpus : scheduler(c, p) \/ (cpu[c] = p /\ scheduler_back(c))
               \/ Resumes(p)
Fairness ==
  \A p \in Procs : SF_vars(GoesOn(p)) /\ SF_vars(Switches(p))

FairSpec == Spec /\ Fairness

\* init reaps: a zombie whose parent is init, its own child or an orphan given
\* to it by reparent(), is eventually freed.
OrphansReaped ==
  \A q \in Procs \ {initproc} : state[q] = "ZOMBIE" /\ parent[q] = initproc ~> state[q] = "UNUSED"
=============================================================================
