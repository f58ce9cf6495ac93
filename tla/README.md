# A TLA+ verification of xv6 with superpages

The repository is xv6 for RISC-V with superpages added to `kernel/vm.c` and `kernel/kalloc.c`.
This directory models the kernel, `mkfs`, the shell and the user allocator in TLA+, checks the
models with TLC on small instances, and proves the log, pipes, the process table, the buffer cache,
the disk driver and the ownership of memory correct with TLAPS for every instance.

## 1. The system

| part | state | operations | works with |
|---|---|---|---|
| log (`log.c`) | header in memory and on disk, `outstanding`, `committing` | `begin_op`, `log_write`, `end_op`, commit, recovery | buffer cache, every file-system call |
| buffer cache (`bio.c`, `sleeplock.c`) | buffers with block, `valid`, `refcnt`, sleep-lock; list by use | `bread`, `bwrite`, `brelse`, `bpin`, `bunpin` | disk driver below, log and inodes above |
| disk driver (`virtio_disk.c`) | descriptors, avail and used rings, `info[]`, `used_idx` | `virtio_disk_rw`, `virtio_disk_intr` | the device, `sleep`/`wakeup` |
| allocators (`kalloc.c`) | free pages, free superpages | `kalloc`, `kfree`, `superalloc`, `superfree` | page tables, pipes |
| page tables (`vm.c`), `exec.c` | three-level tables per process | `walk`, `mappages`, `uvmalloc`, `uvmdealloc`, `uvmcopy`, `uvmfree`, `copyout`, `exec` | allocators, `fork`, `sbrk` |
| processes (`proc.c`, `trap.c`) | `state`, `chan`, `killed`, `parent`, `pid`, locks, what each processor runs | scheduler, `yield`, `sleep`, `wakeup`, `fork`, `exit`, `wait`, `kill` | everything that sleeps |
| pipes (`pipe.c`) | ring with wrapping counters, two open flags | `pipewrite`, `piperead`, `pipeclose` | file table, `sleep`/`wakeup` |
| names (`fs.c`, `sysfile.c`) | inode table, inodes, directory entries | `iget`, `iput`, `ilock`, `dirlink`, `namex`; open, link, unlink, mkdir, mknod, chdir | log |
| contents (`fs.c`, `mkfs.c`) | bitmap, block addresses, blocks | `balloc`, `bfree`, `bmap`, `itrunc`, `readi`, `writei`; the image | log, inodes |
| files (`file.c`, `sysfile.c`) | `ftable`, descriptors | open, close, dup, read, write, pipe, fork, exit | inodes, pipes |
| console, UART, clock (`console.c`, `uart.c`, `trap.c`) | input line, transmit ring, `ticks` | `consoleread`, `consolewrite`, `printf`, interrupts, `sys_sleep` | spinlocks, `sleep`/`wakeup` |
| spinlocks (`spinlock.c`) | `noff`, `intena`, holder | `acquire`, `release`, `push_off`, `pop_off` | everything |
| user space (`sh.c`, `init.c`, `umalloc.c`) | processes, descriptors; free list | the parser, `runcmd`, `malloc`, `free` | system calls |

What is hard here: interleavings of processes on several processors with an interrupt at any
point where interrupts are on; sleeping with a lock handed over; wakeups that must not be lost;
a crash between any two disk writes; memory, disk or table entries running out in the middle of
an operation; a device that completes requests in any order; counters that wrap. `PROJECT.json`
lists each such hazard with the line where it bites and the properties that would catch it.

## 2. Modules

Each component has one module with its variables, one action per handler or per step of it,
`Spec`, its properties and, next to some definitions, a mutated form (`..._bug` or a name of its
own) that shows which mistake a property would catch. `MC*` modules give the constants values.

| module | models | abstract promise |
|---|---|---|
| `Log` | `log.c` with the buffers it pins, crashes, torn block writes, recovery | `AtomicOps`: groups of operations become durable in one step |
| `Vm` | `kalloc.c`, the user half of `vm.c`, `growproc`, `fork`, `freeproc`, `exec` | `AddressSpaces`: every process has a memory of its own |
| `Proc` | scheduler hand-over, `yield`, `sleep`, `wakeup`, `fork`, `exit`, `wait`, `kill` | - |
| `Pipe` | `pipe.c` with `fileclose` and `kill` | `ByteStream`: a bounded FIFO queue |
| `Disk` | `virtio_disk.c`; the device is external | `BlockDevice`: a request acts at one instant |
| `Bio` | `bio.c` and the sleep-lock of a buffer | `BlockStore`: one holder per block, contents change only by the holder |
| `Fs` | inode table, directories, paths and the calls on names | - (the tree itself is compared with link counts) |
| `Inode` | blocks and contents of inodes, as operators on a disk | - |
| `Mkfs` | the image, as the first state of `File` | - |
| `File` | file table, descriptors, read, write, `pipealloc`, fork, exit; EXTENDS `Inode` and `Mkfs` | `ByteFiles`: byte sequences with offsets |
| `Cpu` | processors, interrupts, spinlocks, the switch | - |
| `Console` | console, UART, `printf`'s output, clock; EXTENDS `Cpu` | `LineEditor`: an ideal line editor |
| `Sh` | the shell's parser and `runcmd`, `init` | a grammar, for the parser |
| `Umalloc` | `malloc`, `free`, `morecore` | - |

Theorems are in `LogProofs`, `LogTheorems`, `PipeProofs`, `ProcProofs`, `BioProofs`,
`DiskStepProofs`, `DiskProofs` and `VmProofs`.

The modules fit together by their promises. `Disk` shows that `virtio_disk_rw` acts at one
instant, which `Bio` and `Log` take as a step. `Bio` shows what `Log` assumes of buffers, with
`Log`'s pinning rule as the rule its clients keep. `Fs` takes from `AtomicOps` that the disk
after a reboot is that of the last moment without an operation under way. `File` counts what each
operation logs, which is `Log`'s `OPBLOCKS`. `Sh` uses descriptors, pipes and orphans as `File`,
`Pipe` and `Proc` have them. `Proc` has `p->lock` and `sleep` in detail; the others use `sleep`
as one atomic step.

**Log.** `lh`, `dhead`, `dlog` are the header in memory, the header on disk and the log blocks;
`cache` and `home` the cached and the home copies of the blocks. A commit is one step per block
written, a crash loses memory and may tear the write under way.

**Vm.** A page-table entry's place is `<<level, index>>`; a superpage frame is `<<s, j>>`, frame
`j` of superpage `s`. `SP` pages make a superpage, `PGSIZE` bytes a page. The loops of
`uvmalloc`, `uvmunmap` and `uvmcopy` take one step per turn, with their locals in `k[p]`, so that
memory can run out, and another process run, at every turn. Which free frame the allocators hand
out does not matter to any property and is fixed by `CHOOSE`; `Left(n)` is the freelist after `n`
calls of `kalloc` and `Fresh(i)` the `i`-th frame that they return.

**Proc.** `plock[q]` is `q->lock`, `wlock` is `wait_lock`. A section that takes one `p->lock` and
releases it is one step. A process is at pc `"sched"` from its call of `sched()` until the
scheduler has released its lock. Timer interrupts preempt it wherever the kernel holds no
spinlock (`Preemptible`); spinning for `wait_lock` is not such a place, because `acquire` turns
interrupts off first.

**Pipe.** `pi->lock` is explicit, a turn of a loop is a step, and the test of `killed()` and the
sleep after it are two steps, since `kill()` does not take `pi->lock`. Counters wrap at `UINT`.

**Disk.** The driver's write of the ring entry and of its index are two steps with the device in
between; the interrupt handler's acknowledgement, each turn of its loop and its exit are steps.

**Bio.** `brelse` is two steps (sleep-lock, then reference), a disk read two (data, then `valid`).
A process may hold up to `HELD` buffers and wait for another; a use `<<p, i>>` is the `i`-th of
them, and `Before` says which block is read while which is held. The callers in `log.c` and `fs.c`
go from a block of the log to a home block and from an indirect block to what it lists, so `Before`
is an order; with a cycle in it two processes can wait for each other and `BreadReturns` fails.

**Fs.** A process in a call has a stack `k[p]` of what is left of the C functions it is in, and
registers `r[p]` for their pointers to inodes; every error path pops and pushes the same way.
`dino` is the disk as calls see it, `durable` the disk after a reboot, `mem` the copies in the
inode table. A step is a critical section of `itable.lock` or the work under one inode's lock.
`leaked` is a history variable for the inodes of section 6 that the code is known to lose.

**Inode, Mkfs, File.** The disk is a record (bitmap, `addrs`, sizes, block contents, blocks
logged, a flag for panics) and each function of `fs.c` an operator from one disk to the next, one
step under the inode's lock; `filewrite`'s parts, the update of `f->off` and each `fileclose`
are steps of their own. A block has `BSIZE` cells, and a bitmap block `BPB` bits.

**Cpu, Console.** A thread is a process in the kernel or a processor's scheduler, with a stack of
what is left to do; an interrupt pushes its handler on it. Every access to a device register and
every access to shared data between lock operations is a step. The UART is external: a FIFO
behind THR, LSR, and an interrupt that reading ISR or writing THR withdraws.

**Sh, Umalloc.** A line is a sequence of tokens. The parser is a recursive descent like the
code's; the grammar it is compared with is a separate definition that tries all splits of the
line. A process is the list of what is left for it to do, from the loop that opens the console
until three descriptors are there. The heap is a function from addresses, in units of headers, to
`ptr` and `size`.

## 3. Runs

| run | shows | bounds, and why they are enough |
|---|---|---|
| `log` | no panic, durability, atomicity, sleepers woken | 2 processes, 3 blocks of which 2 change, 2 crashes: both in one group commit, one asleep while the other commits, a crash during recovery. The log has 4 blocks, header included, as `mkfs` counts them, and 3 logged blocks would fill it: only the reservation keeps the third out |
| `vm` | no frame shared, which are lost and which calls panic, page tables freed once, isolation | 2 processes and the workloads `Paging`, `Executing`, `Superpages`, `Shrinking`; a superpage of 3 pages |
| `vm_walkaddr` (violation) | see section 6 | 1 process, `copyout` to the second page of a superpage |
| `proc` | stacks, locks, process tree, kill, no zombie missed, init reaps | 3 slots, 2 processors, 2 forks, kill of one id and of id 0. A grandchild of init needs a fourth slot: the safety of that case is covered by the theorems of section 4 |
| `pipe` | FIFO, no lost wakeup, no use after free, end of file, calls return | 1 writer, 1 reader, 2 bytes, counters modulo 4, calls of 0, 1 and 3 bytes: below, at and above the capacity. More of each: section 4 |
| `disk` | descriptors, completions, linearizable requests | 3 processes, 8 descriptors as in the code: two requests in flight, one waiting; one block, two values; ring indices wrap at 16 |
| `bio` | one buffer per block, references, coherence, panic only when full, `bread` returns | 2 processes with up to 2 buffers each, 3 blocks, 2 buffers in all, 1 pin: always too few buffers, and processes that wait for each other's |
| `fs` | references and copies of inodes, the one panic there is, link counts after every reboot, no cycle of waits | 2 processes, 3 inodes, one crash, a disk that may be full whenever a directory grows; 5 workloads that make create, link, unlink, mkdir, mknod, chdir and path walks meet, on trees of up to two levels |
| `fs_orphan` (violation) | see section 6 | the same without a crash |
| `file` | counts of files, inodes, pipes, blocks; size of operations; files are byte sequences | 2 processes, 8 blocks of 2 cells, 2 direct blocks, 3 files, 2 descriptors each, one page: writes that cross into the indirect block, reads that wrap, tables and disk that fill up, a root that ends with a block; 7 workloads |
| `console` | locks against interrupts, output order, wakeups, sleep, line editing | 2 processors, 2 processes, input of 4 characters' room, transmit ring of 2, `uint` of 8 values, FIFO of 2; 10 workloads of up to 5 characters typed |
| `user` | parser against grammar, descriptors, order of parts, every line ends; the heap | all lines of up to 2 tokens, those of 3 with a word and 7 longer ones, 6 processes, 5 descriptors, every fork, open and pipe that may fail; a heap of 10 units with requests of 0, 3 and 9 bytes, the last one larger than the unit by which `morecore` grows |

The workloads are values of a variable `load` (in `Sh` the line `text`) which a behaviour never
changes, so that their state spaces add up instead of multiplying.

Deadlock is checked in `log`, `proc`, `disk` and `console` (there `Idle` is the only way to stop:
everybody has exited or waits for the user or the clock). It is not where the system may stop:
`vm*`, `fs*`, `file` and `user` (a process has made its calls or exited), `pipe` (both ends
closed), `bio` (a process in `panic` stops). Symmetry is used only in `disk`, which has no
liveness property and does not tell its processes apart.

**Fairness.** A process in a kernel operation goes on (weak fairness): the scheduler visits every
slot in turn and timer interrupts preempt user code. Where a spinlock or sleep-lock must be won
against others fairness is strong: the hardware's lock is not a queue, so this is an assumption
about it, stated in `Fairness` of each module. Of the programs, `log` takes that an operation
makes finitely many writes before its `end_op`; `proc` that init keeps calling `wait`
(`user/init.c`); `pipe` that a reader reads again or closes and a writer closes in the end;
`bio` that each use of a buffer goes on to its release, whatever else its process reads in
between. `proc` and `bio` state strong fairness once per process or use, for the disjunction of its
steps, which one condition for each of the steps implies. Without the one about readers a writer may wait for ever, and two
writers of one pipe can starve each other, so `CallsReturn` is stated for one.

## 4. Theorems

**Log**, for every number of processes, blocks, values and every log size, from `LogAssumption`
(finite sets of processes and blocks, `OPBLOCKS <= MAXOPBLOCKS <= LOGSIZE`):

* `LogInvariant`: `Spec => []LogInv`. The invariant has four parts: types; places (who is in an
  operation against `outstanding`, at most one committer and then nobody else); headers (no
  block twice, the disk's header is empty or equal to the one in memory); buffers (what is
  pinned is what is logged, and where each block's newest copy is). None of the safety
  properties is inductive alone: that a crash loses nothing needs to know where every copy is at
  each step of the commit, which needs that nobody else writes then.
* `CommitRunsAlone`, `CommittedDurable`, `SleepersHaveWakers` follow from it.
* `LogIsAtomic`: `Spec => Atomic`, step by step against `AtomicOps`; the mapping takes as durable
  contents what recovery would produce now (`Recovered`), so the commit point is the write of
  the header.
* `Capacity` and `NoPanicTheorem`: logged plus reserved blocks fit, counted over pairs of
  process and unused reservation; no panic of `log.c` if the log on disk is large enough
  (`LogFits`), see section 6.

**Pipes**, for any number of readers and writers, any sizes of calls and any `PIPESIZE` that
divides the range `UINT` of the counters (`PipeAssumption`; 512 and 2^32 in the code):

* `PipeInvariant`: `Spec => []PInv`. That a sleeper has reason to sleep is not inductive: bytes
  come and go while it sleeps, and the wakeup comes only at the end of the loop. `Sleepers` says
  that in between somebody is at a place from which it will call `wakeup`; that such a process is
  the only one in the critical section is `Locks`; that the page is there is `Ends`.
* `PipeIsSafe`, `WritersHaveReason` and `EofMeansEnd` follow.
* `PipeIsStream`: the ring implements `ByteStream`. The number of bytes that wait is the
  difference of the counters modulo `UINT` and stays within `PIPESIZE`; their slots differ; a
  counter that wraps stays at its slot because `PIPESIZE` divides `UINT`.

**Processes**, for any number of slots and processors (`ProcAssumption`: nobody
kills init):

* `ProcInvariant`: `Spec => []PInv`. A process's place determines the locks it holds and its
  state; the child of a fork in progress belongs to one forker; who leaves has no children; a
  zombie whose parent sleeps in `wait` is about to be announced by a holder of `wait_lock`
  (`Zombies`). The last part is what `wait_lock` around `reparent`, both wakeups and the state
  change is for.
* `ProcIsSafe` (one processor per kernel stack, no panic of `sched`, parents that can wait) and
  `NoZombieMissed` follow. `KillsByName` holds for calls of `kill(0)`, too: a slot in use was killed
  under its present id, or by a `kill(0)` since it was last freed (section 6).

**Buffer cache**, for any number of processes, blocks and buffers, any number `HELD` of buffers that
a process has at a time and any order `Before` (`BioAssumption`: finitely many processes, at least
one buffer):

* `CacheInvariant`: `Spec => []RInv`: who uses which buffer, the owner of each sleep-lock, one
  buffer per block, `refcnt` as the number of users plus the pin, the list complete. Then
  `CacheInOrder` and `PanicsWhenFull` (a counting argument over the users of each buffer, the
  caller's own other buffers among them).
* `CacheIsCoherent`: the cache implements `BlockStore`. `CInv` adds that a valid buffer that
  differs from the disk is pinned or still with the process that changed it. A buffer that `bget`
  recycles has `refcnt` 0, so it is neither, and nothing is lost with it.

**Disk driver**, for any number of processes, blocks and values, any `NUM` of at least three that
divides the range `UINT16` of the ring indices (`DiskAssumption`; 8 and 2^16 in the code):

* `DiskInvariant`: `Spec => []DInv`. Where a process is says whether it has a chain, and where the
  chain is: before the avail ring, in it, with the device, in the used ring, or done with
  (`Progress`). What is in the rings are heads of chains of processes that wait (`Owned`), each
  once, and the windows between two indices never exceed `NUM` entries (`Rings`): there are at
  most `NUM` descriptors, so a window that grows has a slot to grow into, and an index that wraps
  keeps its slot because `NUM` divides `UINT16`. `Interrupted` is the driver's protocol with the
  device: after it acknowledges an interrupt it looks at the ring until it is empty.
* `DiskIsSafe` (descriptors are free or in one chain; no panic of the handler or of `free_desc`)
  and `CompletionsArrive` follow.
* `DiskIsLinearizable`: the driver and the device implement `BlockDevice`; the device's completion
  is the instant at which a request acts, every other step between call and return is a stutter.

**User memory**, for any sets of processes, pages, superpages and page tables, any sizes of pages
and superpages, and any sizes that programs pass to `sbrk`, store to or are made of, within a bound
on the size of an address space that keeps it below the trapframe's page
(`VmAssumption`, `WorkloadAssumption`):

* `VmInvariant`: `Spec => []VInv`. The invariant has two halves. `MemOK` is about frames: what an
  entry may point to (a frame, and at level 1 a leaf the first frame of a superpage), and that every
  frame has one use among the entries of all tables, the trapframes, the freelist and the superpage
  pool. `ProcOK` is about processes: which table the call that a process is in works on (its own,
  its child's, or the one that `exec` builds or takes down), that no two processes work on one
  table, that a child has one parent at a time, and how far each loop goes. Neither half is
  inductive alone. A frame that `uvmunmap` or `freewalk` returns must not be in another table, which
  is `MemOK`; that nobody else is in the middle of working on that table is `ProcOK`; and the loops
  stay below the trampoline and the trapframe, which `uvmunmap` would otherwise give to the
  freelist, only because of the ranges in `ProcOK`. The halves meet in a table's root, which says
  whether the table is in use: the memory lemmas say what each operation does to roots, the process
  lemmas take no more than that from them.
* `MemoryIsExclusive`: `Spec => []VmInv`. It holds for the shrink into a superpage of section 6,
  too: that one loses frames and panics, but it never makes two owners of one.

All inductive invariants were first checked by TLC on the instances of section 3 (`Proc`'s with a
fourth slot).

Only model-checked: all liveness (fairness is out of the prover's reach); the shell's parser and
`File`'s refinement, which rest on recursive operators; `NoLeak`, `PanicOnlyAfterShrink` and
`Isolated` of `Vm`, for the workloads of the run; the
safety of `Fs`, `File`, `Console` and `Umalloc`.

## 5. Not modelled

* Register programming: boot (`start.c`, `entry.S`), the PLIC's enables, the virtio negotiation,
  assembly that saves registers. `main()` runs the init functions once, in order, before
  `started` lets the other processors in; what they set up is the `Init` of each module.
* Formatting, string routines, argument decoding, `fetchstr`, `stati`, `vmprint`: no state.
* The kernel's own page table: constant after boot.
* Weak memory: steps interleave as on a sequentially consistent machine, which the fences in
  `acquire`, `release` and the disk driver justify for data under locks and rings.
* User programs other than `sh`, `init` and `umalloc`: each is one loop over system calls. The
  tests were read for what they expect of the kernel.
* Of `exec`, the ELF format and the strings on the stack; of `sh`, the scan of characters, `cd`
  and the size of the line buffer.

Limits inside modelled parts: `Proc` assumes that nobody kills init (`exit` panics for it); `Console` assumes a FIFO with room
for a character of each processor (16 in the hardware, `NCPU` is 8) and leaves out `panicked`;
`Umalloc` has no requests near 2^32 bytes, where `nunits` wraps; that a process waiting for disk
descriptors is served in the end is not checked, because the code lets others overtake it
(`NoLostCompletion` is the safety that remains).

A kill between the test of `killed()` and the sleep that follows it in `wait`, `piperead`,
`pipewrite`, `consoleread` or `sys_sleep` leaves the victim asleep until its channel is woken;
the models have that behaviour and no comment in the code denies it.

## 6. Disagreements found

Two are runs of their own, against a comment in the code:

* `vm_walkaddr`: `walkaddr` returns a superpage's first frame for all of its pages, where its
  comment (`vm.c:145`) promises the physical address.
* `fs_orphan`: `iput` frees an inode, unlocks it and drops its reference later. If `ialloc` gives
  the inode out in between and that creation fails, its `iput` sees two references and does not
  free, and the first one only decrements: the inode stays allocated without link or reference,
  where the comment (`fs.c:332`) says it is freed. `Accounted` sets these inodes apart.

The others were met while modelling. Where a run reaches one, the property that it would break names
it as its only exception, by what the state looks like and not by what the code did; the rest of
the property then says that nothing else goes wrong.

*Memory.*
* Growing past a superpage boundary by a page, shrinking back and growing by a superpage panics
  with "remap" (`vm.c:222`), because `uvmunmap` keeps the empty level-0 table; a growth that runs
  out of memory half-way leaves one, too. `PanicOnlyAfterShrink` allows this panic where the
  level-1 entry points to a page-table page without a valid entry (`EmptyTable`).
* A shrink that ends inside a superpage (`vm.c:245` looks only at addresses that are aligned)
  reaches the superpage through `walk`: the first page goes to the 4K pool, the whole superpage
  is unmapped, and a second page of it panics; the comment at `vm.c:357` says that the sizes need
  not be aligned. `Split` is the set of superpages whose first frame is in use as a page;
  `NoLeak` allows the loss of their other frames and `PanicOnlyAfterShrink` the panic.
* The superpage branch of `uvmalloc` adds `PTE_W` whatever permission `exec` asked for, so a
  read-only segment of a superpage or more is mapped writable (`uvmalloc_super`).

*Log and files.*
* `param.h` sizes the log as `LOGSIZE` data blocks, `mkfs` reserves `LOGSIZE` blocks with the
  header among them, and `log_write` refuses a full log even for a block that is in it: `NoPanic`
  of `Log` fails with `OPBLOCKS = MAXOPBLOCKS` and `NLOG = LOGSIZE`; the run has an operation use
  one block less than it reserves. With the code's numbers
  `LogFits` leaves eight blocks for an operation. `filewrite`'s largest part logs seven on the
  disk that `mkfs` makes (four data blocks, one of the bitmap, the indirect block, the inode);
  `OpFits` shows ten, the whole share, for a disk on which every allocation touches another
  bitmap block.
* Creating or linking into a directory that another process removes meanwhile succeeds, and the
  inode is lost with the directory (`leaked` in `Fs`).
* A process whose current directory was removed, and its parent after it, can reach the panic
  "ilock: no type" (`fs.c:314`) by `..`. A workload of `fs` does; `PanicOnlyByDotDot` allows a panic
  only for who follows `..` to a freed inode that is the parent of no directory with a link.
* `NFILE` is 100 and `NINODE` 50: open files alone can reach the panic "iget: no inodes".
* A `writei` whose source faults within a block leaves the cached block changed but not logged
  (`fs.c:522`): the change is visible and may be lost. `either_copyin` has that behaviour.
* `mkfs` rounds the root directory's size up by a whole block when it is already a multiple
  (`mkfs.c:168`), although the directory has no block there. A read of the root then allocates it
  outside of a transaction, and `log_write` panics unless another operation is under way; a
  workload of `file` has such an image, and `RootShort` is the exception in `FileInv`.

*Processes, pipes, console.*
* `freeproc` leaves pid 0 in an unused slot and `kill` does not look at the state, so `kill(0)`
  marks the next process of that slot. `KilledWasNamed` says so: the flag was set under the
  process's own id, or by a `kill(0)` since the slot was freed.
* A killed writer does not wake the readers of the bytes it stored: the exception for
  killed writers in `PipeInv`.
* `uartputc_sync` tests LSR and writes THR without `uart_tx_lock`; only the depth of the FIFO
  saves the second character.

*User space.*
* `> a > b` writes to `a`, the redirection that the shell opens last.
* When the second fork of a pipeline fails the left program is left running while the shell
  prompts (`ForegroundDone` holds unless a fork failed); when init's fork fails it exits, which
  is a kernel panic (the exception in `LineEnds`).
