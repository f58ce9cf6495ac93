------------------------------ MODULE Console ------------------------------
(***************************************************************************)
(* The console (kernel/console.c), the UART driver below it                *)
(* (kernel/uart.c), printf() as one more of its writers, and the clock     *)
(* (clockintr(), sys_sleep()), on the processors of module Cpu.  Every     *)
(* access to a device register and every access to shared memory between   *)
(* two lock operations is a step, and an interrupt may come between any    *)
(* two of them when it is enabled.                                         *)
(***************************************************************************)
EXTENDS Cpu

CONSTANTS
  Cpu0,             \* the processor that counts ticks
  INPUT_BUF_SIZE, UART_TX_BUF_SIZE,
  UINT,             \* 2^32, the range of uint
  FIFO,             \* the depth of the transmit FIFO that uartinit() enables
  Loads             \* what the processes do, and what else may happen

ASSUME ConsoleAssumption ==
  /\ Locks = {"cons", "tx", "pr", "ticks"} /\ Cpu0 \in CPUs
  /\ UINT % INPUT_BUF_SIZE = 0 /\ Cardinality(CPUs) <= FIFO

VARIABLES load,     \* the processors in use, the calls of each process, the characters
                    \* that may be typed and how many, how many timer interrupts, who
                    \* may be killed, whether copies to and from user space fail
          cons,     \* buf, r, w, e
          rd,       \* of a process in consoleread(): what it has in dst, and n
          tx_buf, tx_r, tx_w,
          ticks, killed,
          rx, fifo, txint, claimed, \* the UART and the PLIC
          typed, timers,            \* how often the outside acted
          wrote, out, lost          \* history: characters that uartputc() took, and
                                    \* that left the UART; one written to a full FIFO

consvars == <<cons, rd>>
txvars == <<tx_buf, tx_r, tx_w, wrote>>
uart == <<rx, fifo, txint, out, lost>>
env == <<load, typed, timers>>
vars == <<cvars, consvars, txvars, uart, env, ticks, killed, claimed>>

\* The system has run for a while: ticks and the indices of cons are about to wrap.
\* Nobody looks at the characters below cons.r.
Init == /\ CpuInit /\ load \in Loads
        /\ cons = [buf |-> [i \in 0..INPUT_BUF_SIZE-1 |-> "nul"], r |-> UINT-2, w |-> UINT-2, e |-> UINT-2]
        /\ rd = [p \in Procs |-> NULL]
        /\ tx_buf = [i \in 0..UART_TX_BUF_SIZE-1 |-> NULL] /\ tx_r = 0 /\ tx_w = 0
        /\ ticks = UINT - 1 /\ killed = {}
        /\ rx = <<>> /\ fifo = <<>> /\ txint = FALSE /\ claimed = FALSE
        /\ typed = 0 /\ timers = 0 /\ wrote = <<>> /\ out = <<>> /\ lost = FALSE

\* A step that only touches the variables of Cpu, or only the stack of c.
Pure == UNCHANGED <<consvars, txvars, uart, env, ticks, killed, claimed>>
Local(c, todo) == Run(c, todo) /\ UNCHANGED <<cpu, cur, lk, saved, chan>>
Wakes(c, on, todo) == Run(c, todo) /\ chan' = Woken(on) /\ UNCHANGED <<cpu, cur, lk, saved>>

\* The next system call of a process, which exits when it has none left or finds
\* that it was killed.
syscall(c) ==
  /\ cur[c] # NULL /\ k[cur[c]] = <<>>
  /\ IF load.calls[cur[c]] = <<>> \/ cur[c] \in killed
       THEN /\ Leave(c, "exit") /\ UNCHANGED <<load, rd, intena, k, lk, saved>>
       ELSE LET call == Head(load.calls[cur[c]])
                n == call[2]
            IN /\ load' = [load EXCEPT !.calls[cur[c]] = Tail(@)]
               /\ k' = [k EXCEPT ![cur[c]] =
                    CASE call[1] = "consoleread" -> << <<"acquire", "cons">>, <<"read">>, <<"release", "cons">> >>
                      [] call[1] = "consolewrite" -> << <<"write", n>> >>
                      [] call[1] = "printf" -> << <<"printf", n>> >>
                      [] call[1] = "sys_sleep" -> << <<"acquire", "ticks">>, <<"ticks0", n>>, <<"release", "ticks">> >>]
               /\ rd' = [rd EXCEPT ![cur[c]] = IF call[1] = "consoleread" THEN [dst |-> <<>>, n |-> n] ELSE @]
               /\ UNCHANGED <<cpu, cur, lk, saved, chan>>
  /\ UNCHANGED <<cons, txvars, uart, typed, timers, ticks, killed, claimed>>
-----------------------------------------------------------------------------
(* uart.c *)

\* What a write to THR does to the device.
ToThr(v) == /\ fifo' = IF Len(fifo) < FIFO THEN Append(fifo, v) ELSE fifo
            /\ lost' = (lost \/ Len(fifo) = FIFO)
            /\ txint' = FALSE
            /\ UNCHANGED <<rx, out>>

uartputc_sync(v) == << <<"push_off">>, <<"lsr">>, <<"thr", v>>, <<"pop_off">> >>

lsr(c) == At(c, "lsr") /\ fifo = <<>> /\ Local(c, <<>>) /\ Pure
thr(c) == /\ At(c, "thr") /\ ToThr(Top(c)[2]) /\ Local(c, <<>>)
          /\ UNCHANGED <<consvars, txvars, env, ticks, killed, claimed>>

Full == tx_w = tx_r + UART_TX_BUF_SIZE
Slot(i) == i % UART_TX_BUF_SIZE

\* uartputc(), from the point where it has the lock.
uartputc(c) ==
  /\ At(c, "uartputc")
  /\ IF Full
       THEN Local(c, << <<"sleep", "tx_r", "tx">>, Top(c) >>) /\ Pure
       ELSE /\ tx_buf' = [tx_buf EXCEPT ![Slot(tx_w)] = Top(c)[2]]
            /\ tx_w' = tx_w + 1
            /\ wrote' = Append(wrote, Top(c)[2])
            /\ Local(c, << <<"uartstart">> >>)
            /\ UNCHANGED <<tx_r, consvars, uart, env, ticks, killed, claimed>>

\* uartstart(): an iteration tests the ring and LSR; "send" takes the character and
\* wakes the writers.
Empty == tx_w = tx_r
uartstart(c) ==
  /\ At(c, "uartstart")
  /\ \/ Empty /\ Local(c, <<>>) /\ txint' = FALSE
     \/ ~Empty /\ fifo # <<>> /\ Local(c, <<>>) /\ UNCHANGED txint
     \/ ~Empty /\ fifo = <<>> /\ Local(c, << <<"send">> >>) /\ UNCHANGED txint
  /\ UNCHANGED <<rx, fifo, out, lost, consvars, txvars, env, ticks, killed, claimed>>

send_bug(c) == /\ At(c, "send")
               /\ tx_r' = tx_r + 1
               /\ Local(c, << <<"thr", tx_buf[Slot(tx_r)]>>, <<"uartstart">> >>)
               /\ UNCHANGED <<tx_buf, tx_w, wrote, consvars, uart, env, ticks, killed, claimed>>
send_late_bug(c) == /\ At(c, "send")
                    /\ tx_r' = tx_r + 1
                    /\ Wakes(c, "tx_r", << <<"thr", tx_buf[Slot(tx_r + 1)]>>, <<"uartstart">> >>)
                    /\ UNCHANGED <<tx_buf, tx_w, wrote, consvars, uart, env, ticks, killed, claimed>>
send(c) == /\ At(c, "send")
           /\ tx_r' = tx_r + 1
           /\ Wakes(c, "tx_r", << <<"thr", tx_buf[Slot(tx_r)]>>, <<"uartstart">> >>)
           /\ UNCHANGED <<tx_buf, tx_w, wrote, consvars, uart, env, ticks, killed, claimed>>

\* uartintr(): first the input, then the output.
uartintr == << <<"uartgetc">>, <<"acquire", "tx">>, <<"uartstart">>, <<"release", "tx">>, <<"plic_complete">> >>

uartgetc(c) ==
  /\ At(c, "uartgetc")
  /\ \/ rx = <<>> /\ Local(c, <<>>) /\ UNCHANGED rx
     \/ /\ rx # <<>> /\ rx' = Tail(rx)
        /\ Local(c, << <<"acquire", "cons">>, <<"consoleintr", Head(rx)>>, <<"release", "cons">>, Top(c) >>)
  /\ UNCHANGED <<consvars, txvars, fifo, txint, out, lost, env, ticks, killed, claimed>>
-----------------------------------------------------------------------------
(* console.c *)

consputc(ch) == IF ch = "BACKSPACE" THEN uartputc_sync("bs") \o uartputc_sync("sp") \o uartputc_sync("bs")
                                    ELSE uartputc_sync(ch)

\* consolewrite(): one uartputc() per character, numbered downwards, until a copy
\* from user space fails.
consolewrite(c) ==
  /\ At(c, "write")
  /\ LET n == Top(c)[2]
     IN \/ (n = 0 \/ load.fault) /\ Local(c, <<>>)
        \/ /\ n > 0
           /\ Local(c, << <<"acquire", "tx">>, <<"uartputc", <<cur[c], n>> >>, <<"release", "tx">>, <<"write", n-1>> >>)
  /\ Pure

Sub(i, j) == (i - j + UINT) % UINT
Idx(i) == i % INPUT_BUF_SIZE
SetCons(f) == cons' = f /\ UNCHANGED <<rd, txvars, uart, env, ticks, killed, claimed>>

\* consoleintr(c), from the point where it has the lock.  procdump() prints with
\* printf().
HasRoom == Sub(cons.e, cons.r) < INPUT_BUF_SIZE
Commits(ch, e) == ch \in {"nl", "^D"} \/ Sub(e, cons.r) = INPUT_BUF_SIZE
consoleintr(c) ==
  /\ At(c, "consoleintr")
  /\ LET ch == Top(c)[2]
         lf == IF ch = "cr" THEN "nl" ELSE ch
     IN Local(c, CASE ch = "^P" -> << <<"printf", 1>> >>
                   [] ch = "^U" -> << <<"kill_line">> >>
                   [] ch \in {"^H", "del"} -> << <<"backspace">> >>
                   [] OTHER -> IF ch # "nul" /\ HasRoom THEN consputc(lf) \o << <<"store", lf>> >> ELSE <<>>)
  /\ Pure

kill_line(c) ==
  /\ At(c, "kill_line")
  /\ IF cons.e # cons.w /\ cons.buf[Idx(Sub(cons.e, 1))] # "nl"
       THEN SetCons([cons EXCEPT !.e = Sub(@, 1)]) /\ Local(c, consputc("BACKSPACE") \o << Top(c) >>)
       ELSE Local(c, <<>>) /\ Pure

Erasable_bug == cons.e # cons.r
Erasable == cons.e # cons.w
backspace(c) ==
  /\ At(c, "backspace")
  /\ IF Erasable
       THEN SetCons([cons EXCEPT !.e = Sub(@, 1)]) /\ Local(c, consputc("BACKSPACE"))
       ELSE Local(c, <<>>) /\ Pure

store(c) ==
  /\ At(c, "store")
  /\ LET ch == Top(c)[2]
         e == (cons.e + 1) % UINT
         new == [cons EXCEPT !.buf[Idx(cons.e)] = ch, !.e = e]
     IN IF Commits(ch, e)
          THEN SetCons([new EXCEPT !.w = e]) /\ Wakes(c, "cons.r", <<>>)
          ELSE SetCons(new) /\ Local(c, <<>>)

\* consoleread(): an iteration of its loop.  The test of killed and the sleep are
\* two steps; the copy to user space may fail.
Ends(p) == rd' = [rd EXCEPT ![p] = NULL]
consoleread(c) ==
  /\ At(c, "read")
  /\ LET p == cur[c]
         ch == cons.buf[Idx(cons.r)]
         took == [cons EXCEPT !.r = (@ + 1) % UINT]
     IN \/ /\ rd[p].n = 0
           /\ Ends(p) /\ Local(c, <<>>) /\ UNCHANGED cons
        \/ /\ rd[p].n > 0 /\ cons.r = cons.w /\ p \in killed
           /\ Ends(p) /\ Local(c, <<>>) /\ UNCHANGED cons
        \/ /\ rd[p].n > 0 /\ cons.r = cons.w /\ p \notin killed
           /\ Local(c, << <<"sleep", "cons.r", "cons">>, Top(c) >>) /\ UNCHANGED consvars
        \/ /\ rd[p].n > 0 /\ cons.r # cons.w /\ ch = "^D"
           /\ Ends(p) /\ Local(c, <<>>)
           /\ cons' = IF rd[p].dst # <<>> THEN cons ELSE took
        \/ /\ rd[p].n > 0 /\ cons.r # cons.w /\ ch # "^D"
           /\ cons' = took
           /\ \/ load.fault /\ Ends(p) /\ Local(c, <<>>)
              \/ /\ ch = "nl" /\ Ends(p) /\ Local(c, <<>>)
              \/ /\ ch # "nl" /\ rd' = [rd EXCEPT ![p] = [dst |-> Append(@.dst, ch), n |-> @.n - 1]]
                 /\ Local(c, << Top(c) >>)
  /\ UNCHANGED <<txvars, uart, env, ticks, killed, claimed>>
-----------------------------------------------------------------------------
(* printf.c and the clock *)

printf(c) == /\ At(c, "printf")
             /\ Local(c, << <<"acquire", "pr">> >> \o consputc("k") \o << <<"release", "pr">> >>)
             /\ Pure

\* clockintr() and the rest of a timer interrupt
clockintr(c) == (IF c = Cpu0 THEN << <<"acquire", "ticks">>, <<"tick">>, <<"release", "ticks">> >> ELSE <<>>)
                  \o << <<"yield">> >>

tick(c) == /\ At(c, "tick") /\ ticks' = ticks + 1 /\ Wakes(c, "ticks", <<>>)
           /\ UNCHANGED <<consvars, txvars, uart, env, killed, claimed>>

\* sys_sleep(n): ticks0 is read, then the loop runs, both with the lock.  ticks is a
\* uint in the code; here it also counts the times it wrapped.
Early_bug(t0, n) == (ticks % UINT) < (t0 + n) % UINT
Early(t0, n) == Sub(ticks % UINT, t0 % UINT) < n
ticks0(c) == At(c, "ticks0") /\ Local(c, << <<"sys_sleep", Top(c)[2], ticks>> >>) /\ Pure

sys_sleep(c) ==
  /\ At(c, "sys_sleep")
  /\ LET n == Top(c)[2]
         t0 == Top(c)[3]
     IN Local(c, IF ~Early(t0, n) THEN << <<"slept", n, t0>> >>
                 ELSE IF cur[c] \in killed THEN <<>>
                 ELSE << <<"sleep", "ticks", "ticks">>, Top(c) >>)
  /\ Pure

slept(c) == At(c, "slept") /\ Local(c, <<>>) /\ Pure

\* plic_complete(): the UART may interrupt again.
plic_complete(c) == /\ At(c, "plic_complete") /\ claimed' = FALSE /\ Local(c, <<>>)
                    /\ UNCHANGED <<consvars, txvars, uart, env, ticks, killed>>
-----------------------------------------------------------------------------
(* The outside *)

\* devintr(), for the two sources
UartIrq(c) == /\ ~claimed /\ (rx # <<>> \/ txint)
              /\ Trap(c, uartintr) /\ claimed' = TRUE
              /\ UNCHANGED <<consvars, txvars, uart, env, ticks, killed>>

TimerIrq(c) == /\ timers < load.timers /\ timers' = timers + 1
               /\ Trap(c, clockintr(c))
               /\ UNCHANGED <<consvars, txvars, uart, load, typed, ticks, killed, claimed>>

\* A character arrives (one that finds the receiver full is dropped there).
Type(ch) == /\ typed < load.typed /\ rx = <<>> /\ typed' = typed + 1
            /\ rx' = <<ch>>
            /\ UNCHANGED <<cvars, consvars, txvars, fifo, txint, out, lost, load, timers, ticks, killed, claimed>>

\* The UART sends a character; it interrupts when the FIFO has become empty.
Transmit == /\ fifo # <<>>
            /\ fifo' = Tail(fifo) /\ txint' = (Len(fifo) = 1)
            /\ out' = IF Head(fifo) \in Procs \X (1..9) THEN Append(out, Head(fifo)) ELSE out
            /\ UNCHANGED <<cvars, consvars, txvars, rx, lost, env, ticks, killed, claimed>>

\* kill(), from elsewhere: it sets the flag and wakes a process that sleeps.
kill(p) == /\ p \in load.victims \ killed
           /\ killed' = killed \cup {p}
           /\ chan' = [chan EXCEPT ![p] = IF @ \in {"cons.r", "tx_r", "ticks"} THEN "" ELSE @]
           /\ UNCHANGED <<cpu, cur, lk, k, saved, consvars, txvars, uart, env, ticks, claimed>>

Step(c) == \/ CpuStep(c) /\ Pure
           \/ syscall(c)
           \/ lsr(c) \/ thr(c) \/ uartputc(c) \/ uartstart(c) \/ send(c) \/ uartgetc(c)
           \/ consolewrite(c) \/ consoleintr(c) \/ kill_line(c) \/ backspace(c) \/ store(c) \/ consoleread(c)
           \/ printf(c) \/ tick(c) \/ ticks0(c) \/ sys_sleep(c) \/ slept(c) \/ plic_complete(c)
           \/ \E p \in Procs : resume(c, p) /\ Pure

\* Every process has exited, or waits for the user or for the clock.
Idle == /\ \A c \in CPUs : cur[c] = NULL /\ k[c] = <<>>
        /\ \A p \in Procs : chan[p] \in {"exit", "cons.r", "ticks"}
        /\ fifo = <<>> /\ rx = <<>> /\ ~txint
        /\ UNCHANGED vars

Next == \/ \E c \in load.harts : Step(c) \/ UartIrq(c) \/ TimerIrq(c)
        \/ \E ch \in load.chars : Type(ch)
        \/ Transmit
        \/ \E p \in Procs : kill(p)
        \/ Idle

Spec == Init /\ [][Next]_vars
-----------------------------------------------------------------------------
\* No processor reaches the panics of spinlock.c and sched(): a lock is never taken
\* by the processor that holds it (an interrupt handler would wait for the code it
\* interrupted), push_off() and pop_off() nest, and nobody sleeps with a second lock.
NoPanic == \A c \in CPUs : ~CpuPanics(c)

\* From the trap to the return from it, interrupts stay off, also when the handler
\* yields and the process resumes on another processor in the place of a process
\* with another intena: a second trap would overwrite sepc and sstatus.
TrapsNotNested == \A c \in CPUs : InHandler(c) => ~sie[c]

\* Locks and interrupts: neither a lock nor a trap is entered twice.
InterruptsSafe == NoPanic /\ TrapsNotNested

\* Characters that write() puts in the ring leave the UART in that order, none lost
\* or sent twice, although echo and printf() write THR without uart_tx_lock.
FromWrite(v) == v \in Procs \X (1..9)
OutputInOrder ==
  LET ring == [i \in 1..(tx_w - tx_r) |-> tx_buf[Slot(tx_r + i - 1)]]
      inThr == {k[T(c)][1][2] : c \in {d \in CPUs : At(d, "thr") /\ FromWrite(Top(d)[2])}}
  IN /\ ~lost /\ Cardinality(inThr) <= 1
     /\ wrote = out \o SelectSeq(fifo, FromWrite) \o (IF inThr = {} THEN <<>> ELSE <<CHOOSE v \in inThr : TRUE>>) \o ring

\* A character in the ring is never stranded: the UART is sending and will interrupt,
\* its interrupt is pending, or somebody is on the way to uartstart().
TxKicked ==
  tx_r # tx_w => \/ fifo # <<>> \/ txint
                 \/ \E t \in CPUs \cup Procs : \E j \in DOMAIN k[t] : k[t][j][1] \in {"uartstart", "send"}

\* No wakeup is missed: who sleeps in consoleread(), uartputc() or sys_sleep() would
\* still sleep if it looked again.
SleepersWait ==
  \A p \in Procs : /\ chan[p] = "cons.r" => cons.r = cons.w
                   /\ chan[p] = "tx_r" => Full
                   /\ chan[p] = "ticks" => Early(k[p][2][3], k[p][2][2])

\* Whoever waits, for the UART or in sleep(), is woken when there is reason to.
NoLostWakeup == TxKicked /\ SleepersWait

\* sys_sleep(n) is not over before n ticks, also when the uint ticks wraps.
SleptEnough == \A c \in CPUs : At(c, "slept") => ticks - Top(c)[3] >= Top(c)[2]

\* Readers get what a line editor would give them: lines as edited, in order, each
\* read at most one line, end-of-file once; for every wrap of the indices.
Stored(i, j) == [x \in 1..Sub(j, i) |-> cons.buf[Idx(i + x - 1)]]
Killing == \E t \in CPUs \cup Procs : \E j \in DOMAIN k[t] : k[t][j][1] = "kill_line"
Editor == INSTANCE LineEditor WITH Size <- INPUT_BUF_SIZE, lines <- Stored(cons.r, cons.w),
            line <- IF Killing THEN <<>> ELSE Stored(cons.w, cons.e)
IsLineEditor == Editor!Spec
=============================================================================
