-------------------------------- MODULE File --------------------------------
(***************************************************************************)
(* Open files and descriptors (kernel/file.c), the calls on them           *)
(* (kernel/sysfile.c: dup, read, write, close, open, pipe), pipealloc and  *)
(* pipeclose (kernel/pipe.c), and what fork and exit do with descriptors   *)
(* (kernel/proc.c).  Inodes have the blocks and contents of module Inode,  *)
(* at first those of an image made by mkfs;                                *)
(* their names and links are in Fs, what goes through a pipe in Pipe.  A   *)
(* device differs from an inode only in where its bytes go, and is left    *)
(* out.                                                                    *)
(*                                                                         *)
(* As in Fs, k[p] is what process p still has to do in its call, and a     *)
(* critical section of ftable.lock, or the work of one function under an   *)
(* inode's lock, is a step.                                                *)
(***************************************************************************)
EXTENDS Mkfs

CONSTANTS Procs, NULL,
          NFILE,       \* entries of the file table
          NOFILE,      \* descriptors of a process
          NPAGE,       \* pages that kalloc can give to pipes
          MAXOPBLOCKS, \* blocks an operation may log
          Workloads    \* disks and what is asked of them (see load)

Files == 1 .. NFILE
FDs == 0 .. NOFILE - 1
Pages == 1 .. NPAGE

ASSUME FileAssumption == /\ IsFiniteSet(Procs) /\ NULL \notin Procs
                         /\ {NFILE, NOFILE, NPAGE} \subseteq Nat
                         /\ MAXOPBLOCKS \in Nat \ {0}

VARIABLES ftable,       \* [Files -> entry]
          ofile,        \* p->ofile: [Procs -> [FDs -> Files or 0]]
          alive,        \* processes that exist
          fs, iref, ilk, \* the disk; references to inodes; holders of their locks
          pipes,        \* pages of pipes: which ends are open
          inop, logged, \* processes in a transaction and the blocks they logged
          k, r,         \* what is left to do; locals of the calls under way
          calls,        \* counted to bound a behaviour
          load          \* fixed for a behaviour: the first image, blocks in use beside
                        \* it, the calls each process may make and how many

table == <<ftable, ofile, alive>>
inodes == <<fs, iref, ilk>>
log == <<inop, logged>>
vars == <<ftable, ofile, alive, fs, iref, ilk, pipes, inop, logged, k, r, calls, load>>

\* fileinit(): static storage is zero, and FD_NONE is.
NoFile == [ref |-> 0, type |-> "none", readable |-> FALSE, writable |-> FALSE, ip |-> 0, pipe |-> 0, off |-> 0]
Idle == [f0 |-> 0, f1 |-> 0, i |-> 0, n |-> 0, ok |-> 0, n1 |-> 0, tot |-> 0, got |-> <<>>, call |-> NULL]

Init == /\ load \in Workloads
        /\ ftable = [f \in Files |-> NoFile]
        /\ ofile = [p \in Procs |-> [fd \in FDs |-> 0]]
        /\ alive = load.procs
        /\ fs = [mkfs(load.image) EXCEPT !.used = @ \cup load.used]
        /\ iref = [i \in Inums |-> 0] /\ ilk = [i \in Inums |-> NULL]
        /\ pipes = [g \in Pages |-> {}]
        /\ inop = {} /\ logged = [p \in Procs |-> {}]
        /\ k = [p \in Procs |-> <<>>] /\ r = [p \in Procs |-> Idle]
        /\ calls = [p \in Procs |-> 0]

At(p, x) == k[p] # <<>> /\ Head(k[p])[1] = x
Arg(p) == Head(k[p])[2]
Run(p, todo) == k' = [k EXCEPT ![p] = todo \o Tail(@)]
Return(p) == Run(p, <<>>)
-----------------------------------------------------------------------------
(* The log and the inode layer, as their callers see them.                 *)

begin_op(p) ==
  /\ At(p, "begin_op") /\ p \notin inop
  /\ inop' = inop \cup {p} /\ logged' = [logged EXCEPT ![p] = {}]
  /\ Return(p) /\ UNCHANGED <<table, inodes, pipes, r, calls, load>>

end_op(p) ==
  /\ At(p, "end_op") /\ p \in inop
  /\ inop' = inop \ {p} /\ logged' = [logged EXCEPT ![p] = {}]
  /\ Return(p) /\ UNCHANGED <<table, inodes, pipes, r, calls, load>>

namei(p) ==
  /\ At(p, "namei")
  /\ iref' = [iref EXCEPT ![Arg(p)] = @ + 1]
  /\ r' = [r EXCEPT ![p].i = Arg(p)]
  /\ Return(p) /\ UNCHANGED <<table, fs, ilk, pipes, log, calls, load>>

iput(p) ==
  /\ At(p, "iput") /\ p \in inop
  /\ iref' = [iref EXCEPT ![Arg(p)] = @ - 1]
  /\ Return(p) /\ UNCHANGED <<table, fs, ilk, pipes, log, r, calls, load>>

ilock(p) ==
  /\ At(p, "ilock") /\ ilk[Arg(p)] = NULL
  /\ ilk' = [ilk EXCEPT ![Arg(p)] = p]
  /\ Return(p) /\ UNCHANGED <<table, fs, iref, pipes, log, r, calls, load>>

iunlock(p) ==
  /\ At(p, "iunlock") /\ ilk[Arg(p)] = p
  /\ ilk' = [ilk EXCEPT ![Arg(p)] = NULL]
  /\ Return(p) /\ UNCHANGED <<table, fs, iref, pipes, log, r, calls, load>>

\* The disk becomes new, and what it logged is p's; log_write() panics when no
\* operation at all is under way.
Update(p, new) ==
  /\ fs' = [new EXCEPT !.logged = {}, !.failed = @ \/ (new.logged # {} /\ inop = {}),
                       !.ret = 0, !.tot = 0, !.got = <<>>]
  /\ logged' = [logged EXCEPT ![p] = @ \cup new.logged]
-----------------------------------------------------------------------------
(* The file table.                                                         *)

\* filealloc() into local x, which stays 0 when the table is full.
filealloc(p) ==
  LET free == {f \in Files : ftable[f].ref = 0}
      f == CHOOSE f \in free : \A g \in free : f <= g IN
  /\ At(p, "filealloc")
  /\ IF free = {} THEN UNCHANGED <<ftable, r>>
       ELSE /\ ftable' = [ftable EXCEPT ![f].ref = 1]
            /\ r' = [r EXCEPT ![p][Arg(p)] = f]
  /\ Return(p) /\ UNCHANGED <<ofile, alive, inodes, pipes, log, calls, load>>

filedup(f, n) == [f EXCEPT !.ref = @ + n]

\* fileclose(f): the last reference gives the entry back, and works on a copy.
Closed(f) == [f EXCEPT !.ref = 0, !.type = "none"]
fileclose(p) ==
  LET f == Arg(p)
      ff == ftable[f] IN
  /\ At(p, "fileclose") /\ ff.ref > 0
  /\ \/ /\ ff.ref > 1
        /\ ftable' = [ftable EXCEPT ![f].ref = @ - 1]
        /\ Return(p)
     \/ /\ ff.ref = 1
        /\ ftable' = [ftable EXCEPT ![f] = Closed(ff)]
        /\ Run(p, CASE ff.type = "pipe" -> << <<"pipeclose", ff.pipe, ff.writable>> >>
                    [] ff.type = "inode" -> << <<"begin_op">>, <<"iput", ff.ip>>, <<"end_op">> >>
                    [] ff.type = "none" -> <<>>)
  /\ UNCHANGED <<ofile, alive, inodes, pipes, log, r, calls, load>>

\* pipeclose(pi, writable): the second end frees the page.
pipeclose(p) ==
  /\ At(p, "pipeclose")
  /\ pipes' = [pipes EXCEPT ![Arg(p)] = @ \ {Head(k[p])[3]}]
  /\ Return(p) /\ UNCHANGED <<table, inodes, log, r, calls, load>>

\* fdalloc(): the lowest descriptors that are free.
FreeFDs(p) == {fd \in FDs : ofile[p][fd] = 0}
Lowest(S) == CHOOSE fd \in S : \A e \in S : fd <= e
-----------------------------------------------------------------------------
(* sys_open after namei and ilock, sys_pipe, and closing.                  *)

\* The only directory is the root.
T_DIR(i) == i = ROOTINO

\* A directory is opened for reading only, and no other flag is given.
open_type(p) ==
  LET i == r[p].i
      c == r[p].call
      refused == T_DIR(i) /\ (c.wr \/ c.trunc) IN
  /\ At(p, "open_type")
  /\ r' = [r EXCEPT ![p].i = IF refused THEN 0 ELSE @]
  /\ Run(p, IF refused THEN << <<"iunlock", i>>, <<"iput", i>>, <<"end_op">> >>
                       ELSE << <<"filealloc", "f0">>, <<"open_fd">> >>)
  /\ UNCHANGED <<table, inodes, pipes, log, calls, load>>

\* fdalloc and, if it succeeds, the fields of the file and O_TRUNC; if it does
\* not, the file is closed within open's own transaction.
open_fd(p) ==
  LET i == r[p].i
      f == r[p].f0
      c == r[p].call IN
  /\ At(p, "open_fd")
  /\ r' = [r EXCEPT ![p].f0 = 0, ![p].i = 0]
  /\ IF f # 0 /\ FreeFDs(p) # {}
       THEN /\ ftable' = [ftable EXCEPT ![f] = [@ EXCEPT !.type = "inode", !.off = 0, !.ip = i,
                                                         !.readable = c.rd, !.writable = c.wr]]
            /\ ofile' = [ofile EXCEPT ![p][Lowest(FreeFDs(p))] = f]
            /\ Update(p, IF c.trunc /\ ~T_DIR(i) THEN itrunc(fs, i) ELSE fs)
            /\ Run(p, << <<"iunlock", i>>, <<"end_op">> >>)
       ELSE /\ Run(p, (IF f # 0 THEN << <<"fileclose", f>> >> ELSE <<>>)
                      \o << <<"iunlock", i>>, <<"iput", i>>, <<"end_op">> >>)
            /\ UNCHANGED <<ftable, ofile, fs, logged>>
  /\ UNCHANGED <<alive, iref, ilk, pipes, inop, calls, load>>

\* "bad:" of pipealloc and the error paths of sys_pipe.
GiveUp(p) == (IF r[p].f0 # 0 THEN << <<"fileclose", r[p].f0>> >> ELSE <<>>)
             \o (IF r[p].f1 # 0 THEN << <<"fileclose", r[p].f1>> >> ELSE <<>>)

\* The second filealloc() comes only if the first succeeded.
pipe_second(p) ==
  /\ At(p, "pipe_second")
  /\ Run(p, IF r[p].f0 = 0 THEN <<>> ELSE << <<"filealloc", "f1">> >>)
  /\ UNCHANGED <<table, inodes, pipes, log, r, calls, load>>

\* kalloc() and the fields of the pipe and of both files.
pipealloc(p) ==
  LET f0 == r[p].f0
      f1 == r[p].f1
      free == {g \in Pages : pipes[g] = {}}
      g == CHOOSE g \in free : TRUE
      End(f, w) == [f EXCEPT !.type = "pipe", !.readable = ~w, !.writable = w, !.pipe = g] IN
  /\ At(p, "pipealloc")
  /\ IF f0 # 0 /\ f1 # 0 /\ free # {}
       THEN /\ pipes' = [pipes EXCEPT ![g] = {TRUE, FALSE}]
            /\ ftable' = [ftable EXCEPT ![f0] = End(@, FALSE), ![f1] = End(@, TRUE)]
            /\ Run(p, << <<"pipe_fds">> >>)
            /\ UNCHANGED r
       ELSE /\ Run(p, GiveUp(p))
            /\ r' = [r EXCEPT ![p].f0 = 0, ![p].f1 = 0]
            /\ UNCHANGED <<pipes, ftable>>
  /\ UNCHANGED <<ofile, alive, inodes, log, calls, load>>

\* Two descriptors and the copyout() of their numbers, which may fail.
pipe_fds(p, fault) ==
  LET fd0 == Lowest(FreeFDs(p))
      fd1 == Lowest(FreeFDs(p) \ {fd0}) IN
  /\ At(p, "pipe_fds")
  /\ r' = [r EXCEPT ![p].f0 = 0, ![p].f1 = 0]
  /\ IF Cardinality(FreeFDs(p)) >= 2 /\ ~fault
       THEN /\ ofile' = [ofile EXCEPT ![p][fd0] = r[p].f0, ![p][fd1] = r[p].f1]
            /\ Return(p)
       ELSE /\ Run(p, GiveUp(p)) /\ UNCHANGED ofile
  /\ UNCHANGED <<ftable, alive, inodes, pipes, log, calls, load>>

\* One descriptor is closed, by sys_close or by exit.
close(p) ==
  LET fd == Arg(p) IN
  /\ At(p, "close")
  /\ ofile' = [ofile EXCEPT ![p][fd] = 0]
  /\ Run(p, IF ofile[p][fd] = 0 THEN <<>> ELSE << <<"fileclose", ofile[p][fd]>> >>)
  /\ UNCHANGED <<ftable, alive, inodes, pipes, log, r, calls, load>>

exit(p) ==
  /\ At(p, "exit")
  /\ alive' = alive \ {p}
  /\ Return(p) /\ UNCHANGED <<ftable, ofile, inodes, pipes, log, r, calls, load>>
-----------------------------------------------------------------------------
(* fileread and filewrite of an inode.                                     *)

readi_(p) ==
  LET f == ftable[Arg(p)]
      rd == readi(fs, f.ip, f.off, r[p].n, r[p].ok) IN
  /\ At(p, "readi")
  /\ Update(p, rd)
  /\ r' = [r EXCEPT ![p].got = rd.got, ![p].tot = rd.tot]
  /\ Return(p) /\ UNCHANGED <<table, iref, ilk, pipes, inop, calls, load>>

\* The head of filewrite's loop: a transaction for as many cells as fit in one.
max_bug == ((MAXOPBLOCKS - 1 - 1) \div 2) * BSIZE
max == ((MAXOPBLOCKS - 1 - 1 - 2) \div 2) * BSIZE

\* The inode is locked before f->off is read, and until it is advanced.
Chunk_bug(f) ==
  << <<"begin_op">>, <<"ilock", ftable[f].ip>>, <<"writei", f>>, <<"iunlock", ftable[f].ip>>, <<"off", f>>,
     <<"end_op">>, <<"filewrite", f>> >>
Chunk(f) ==
  << <<"begin_op">>, <<"ilock", ftable[f].ip>>, <<"writei", f>>, <<"off", f>>, <<"iunlock", ftable[f].ip>>,
     <<"end_op">>, <<"filewrite", f>> >>

\* The part before was written in full, or the loop ends.
filewrite(p) ==
  LET more == r[p].tot = r[p].n1 /\ r[p].n > 0 IN
  /\ At(p, "filewrite")
  /\ r' = [r EXCEPT ![p].n1 = IF more THEN Min2(r[p].n, max) ELSE 0, ![p].tot = 0,
                    ![p].n = IF more THEN @ ELSE 0, ![p].ok = IF more THEN @ ELSE 0]
  /\ Run(p, IF more THEN Chunk(Arg(p)) ELSE <<>>)
  /\ UNCHANGED <<table, inodes, pipes, log, calls, load>>

writei_(p) ==
  LET f == ftable[Arg(p)]
      w == writei(fs, f.ip, f.off, r[p].n1, r[p].call.v, r[p].ok) IN
  /\ At(p, "writei")
  /\ Update(p, w)
  /\ r' = [r EXCEPT ![p].tot = w.tot,
                    ![p].n = IF w.tot = r[p].n1 THEN @ - w.tot ELSE @, ![p].ok = @ - Min2(@, r[p].n1)]
  /\ Return(p) /\ UNCHANGED <<table, iref, ilk, pipes, inop, calls, load>>

\* f->off += r, if r > 0
advance(p) ==
  /\ At(p, "off")
  /\ ftable' = [ftable EXCEPT ![Arg(p)].off = IF r[p].tot > 0 THEN @ + r[p].tot ELSE @]
  /\ Return(p) /\ UNCHANGED <<ofile, alive, inodes, pipes, log, r, calls, load>>
-----------------------------------------------------------------------------
(* The system calls.                                                       *)

\* dup, fork's filedup of every descriptor, and fstat, which only locks, are
\* here as a whole; a call on a descriptor that is not open returns at once.
Dup(p, c) ==
  LET f == ofile[p][c.fd] IN
  /\ c.op = "dup" /\ f # 0 /\ FreeFDs(p) # {}
  /\ ofile' = [ofile EXCEPT ![p][Lowest(FreeFDs(p))] = f]
  /\ ftable' = [ftable EXCEPT ![f] = filedup(@, 1)]
  /\ UNCHANGED <<alive, k, r>>

Fork(p, c) ==
  /\ c.op = "fork" /\ c.to \notin alive
  /\ alive' = alive \cup {c.to}
  /\ ofile' = [ofile EXCEPT ![c.to] = ofile[p]]
  /\ ftable' = [f \in Files |-> filedup(ftable[f], Cardinality({fd \in FDs : ofile[p][fd] = f}))]
  /\ UNCHANGED <<k, r>>

Start(p, c, todo) == /\ k' = [k EXCEPT ![p] = todo]
                     /\ r' = [r EXCEPT ![p] = [call |-> c, n |-> c.n, ok |-> c.ok] @@ Idle]
                     /\ UNCHANGED table

Open(p, c) == c.op = "open" /\
  Start(p, c, << <<"begin_op">>, <<"namei", c.i>>, <<"ilock", c.i>>, <<"open_type">> >>)

Pipe(p, c) == c.op = "pipe" /\
  Start(p, c, << <<"filealloc", "f0">>, <<"pipe_second">>, <<"pipealloc">> >>)

Close(p, c) == c.op = "close" /\ ofile[p][c.fd] # 0 /\ Start(p, c, << <<"close", c.fd>> >>)

Exit(p, c) == c.op = "exit" /\
  Start(p, c, [n \in 1 .. NOFILE + 1 |-> IF n <= NOFILE THEN <<"close", n - 1>> ELSE <<"exit">>])

Read(p, c) ==
  LET f == ofile[p][c.fd] IN
  /\ c.op = "read" /\ f # 0 /\ ftable[f].readable /\ ftable[f].type = "inode"
  /\ Start(p, c, << <<"ilock", ftable[f].ip>>, <<"readi", f>>, <<"off", f>>, <<"iunlock", ftable[f].ip>> >>)

Write(p, c) ==
  LET f == ofile[p][c.fd] IN
  /\ c.op = "write" /\ f # 0 /\ ftable[f].writable /\ ftable[f].type = "inode"
  /\ Start(p, c, << <<"filewrite", f>> >>)

Call(p, c) ==
  /\ p \in alive /\ k[p] = <<>> /\ calls[p] < load.max[p]
  /\ calls' = [calls EXCEPT ![p] = @ + 1]
  /\ Dup(p, c) \/ Fork(p, c) \/ Open(p, c) \/ Pipe(p, c) \/ Close(p, c) \/ Exit(p, c) \/ Read(p, c) \/ Write(p, c)
  /\ UNCHANGED <<inodes, pipes, log, load>>

Step(p) ==
  \/ begin_op(p) \/ end_op(p) \/ namei(p) \/ iput(p) \/ ilock(p) \/ iunlock(p)
  \/ filealloc(p) \/ fileclose(p) \/ pipeclose(p) \/ open_type(p) \/ open_fd(p) \/ pipe_second(p) \/ pipealloc(p)
  \/ \E fault \in BOOLEAN : pipe_fds(p, fault)
  \/ close(p) \/ exit(p) \/ readi_(p) \/ filewrite(p) \/ writei_(p) \/ advance(p)

\* A panic stops the machine.
Next == ~fs.failed /\ \E p \in Procs : Step(p) \/ \E c \in load.calls[p] : Call(p, c)

Spec == Init /\ [][Next]_vars
-----------------------------------------------------------------------------
(* Properties.                                                             *)

Holders(f) == {<<p, fd>> \in Procs \X FDs : ofile[p][fd] = f}
Locals(f) == {<<p, x>> \in Procs \X {"f0", "f1"} : r[p][x] = f}
Pending(e) == {<<p, j>> \in Procs \X (1 .. NOFILE + 4) : j \in DOMAIN k[p] /\ k[p][j] = e}
\* Files in use, but for those whose fields are not set yet.
InUse == {f \in Files : ftable[f].ref > 0 /\ \A px \in Locals(f) : At(px[1], "pipe_fds")}
Opened(i) == {f \in InUse : ftable[f].type = "inode" /\ ftable[f].ip = i}
Ends(g, w) == {f \in InUse : ftable[f].type = "pipe" /\ ftable[f].pipe = g /\ ftable[f].writable = w}

\* Nothing is lost or counted twice on any path, among them the failures of
\* open, of pipealloc after one file or the page, and of pipe's descriptors and
\* copyout: a file's ref is its descriptors and the calls that hold it, the
\* references to an inode are its open files, and a pipe's end is open while a
\* file is that end.
FilesCounted ==
  /\ \A f \in Files :
       ftable[f].ref = Cardinality(Holders(f)) + Cardinality(Locals(f)) + Cardinality(Pending(<<"fileclose", f>>))
  /\ \A i \in Inums : iref[i] = Cardinality(Opened(i)) + Cardinality(Pending(<<"iput", i>>))
                                + Cardinality({p \in Procs : r[p].i = i})
  /\ \A g \in Pages, w \in BOOLEAN :
       w \in pipes[g] <=> Ends(g, w) # {} \/ Pending(<<"pipeclose", g, w>>) # {}

\* The root of the image is short of a block: mkfs rounds its size up to the
\* next block even if the entries end with a block.
RootShort ==
  LET m == mkfs(load.image)
  IN  m.size[ROOTINO] > BSIZE * Cardinality(Direct(m, ROOTINO) \cup Listed(m, ROOTINO))

\* No panic: a block freed twice, bmap out of range, log_write outside a
\* transaction, filedup or fileclose of a file that is free, read or write of a
\* file without a type.  readi never has to allocate but in one place, the block
\* that the root of such an image is short of; it is not in an operation then,
\* and log_write panics if nobody else is.  When open gives a new entry back
\* within its transaction, fileclose finds FD_NONE and does not begin another,
\* whatever the entry was used for before.
NoPanic ==
  /\ fs.failed => RootShort /\ inop = {} /\ \E p \in Procs : At(p, "off") /\ ftable[Arg(p)].ip = ROOTINO
  /\ \A p \in Procs :
       /\ At(p, "begin_op") => p \notin inop
       /\ At(p, "end_op") \/ At(p, "iput") => p \in inop
       /\ At(p, "fileclose") => ftable[Arg(p)].ref > 0
       /\ \A fd \in FDs : ofile[p][fd] # 0 => ftable[ofile[p][fd]].type # "none"

\* Every block in use belongs to one inode, once, and every block below the size
\* is there, but for the one that mkfs leaves out of the root; also after writes
\* that ran out of space or of readable source between the indirect block and
\* its entry, and after truncation.
BlocksAccounted ==
  /\ \A i \in Inums :
       /\ Owned(fs, i) \subseteq fs.used \ load.used
       /\ Cardinality(Owned(fs, i)) = Cardinality({n \in 0 .. NDIRECT : fs.addrs[i][n] # 0})
                                      + Cardinality({<<b, c>> \in Indirect(fs, i) \X Cells : fs.data[b][c] # 0})
       /\ fs.size[i] <= BSIZE * Cardinality(Direct(fs, i) \cup Listed(fs, i)) + (IF T_DIR(i) /\ RootShort THEN BSIZE ELSE 0)
       /\ \A j \in Inums \ {i} : Owned(fs, i) \cap Owned(fs, j) = {}
  /\ fs.used = load.used \cup UNION {Owned(fs, i) : i \in Inums}

\* Files, inodes, pipes and blocks are counted right, so that nothing panics.
FileInv == NoPanic /\ FilesCounted /\ BlocksAccounted

\* "write a few blocks at a time to avoid exceeding the maximum log transaction
\* size": no operation logs more than MAXOPBLOCKS blocks, even if every block it
\* allocates has its bit in another block of the bitmap.
OpFits == \A p \in Procs : Cardinality(logged[p]) <= MAXOPBLOCKS

\* Read and write are those of a sequence of bytes with an offset, for files
\* shared by fork or opened twice, and however a write is split: two writers
\* through one open file do not write over each other.  A read into memory that
\* cannot be written leaves the offset where it was.
PendingOff(f) == {p \in Procs : At(p, "off") /\ Arg(p) = f /\ r[p].tot > 0}
RECURSIVE SumTot(_)
SumTot(S) == IF S = {} THEN 0 ELSE LET p == CHOOSE q \in S : TRUE IN r[p].tot + SumTot(S \ {p})
B == INSTANCE ByteFiles WITH
       content <- [i \in Inums |-> Contents(fs, i)],
       ip <- [f \in Files |-> ftable[f].ip],
       off <- [f \in Files |-> ftable[f].off + SumTot(PendingOff(f))],
       got <- [p \in Procs |-> r[p].got],
       Bytes <- 1 .. 2, Limit <- MAXFILE * BSIZE
IsFile == B!Spec
=============================================================================
