--------------------------------- MODULE Fs ---------------------------------
(***************************************************************************)
(* Inodes, directories and path names (kernel/fs.c) and the system calls   *)
(* on names (kernel/sysfile.c): open, close, link, unlink, mkdir, mknod,   *)
(* chdir, and exit's release of the current directory.                     *)
(*                                                                         *)
(* A process in a system call has a stack k[p] of what it still has to do; *)
(* an entry is <<function>> or <<function, argument>>.  Its pointers to    *)
(* inodes are the registers r[p]: locals of the C functions, p->cwd and    *)
(* one descriptor.  A critical section of itable.lock, or the work between *)
(* ilock() and iunlock() on one inode, is a step.  An inode's size,        *)
(* addrs[] and contents are the sequence of its directory entries; module  *)
(* File has them in detail.  The type of a device says whether its major   *)
(* number is one that open() accepts ("dev") or not ("nodev").             *)
(*                                                                         *)
(* The log gives what AtomicOps promises: dino is what calls read and      *)
(* write, durable what a reboot finds; they become equal when the last     *)
(* operation under way ends.  A crash may come at any time.                *)
(*                                                                         *)
(* The conditions of panics are guards, and PanicOnlyByDotDot says which   *)
(* a process may stand before.                                             *)
(***************************************************************************)
EXTENDS Integers, Sequences, FiniteSets

CONSTANTS Procs, NULL,
          NINODES,    \* inodes of the disk, sb.ninodes - 1
          NINODE,     \* entries of the inode table
          DPB,        \* directory entries of a block
          MaxCrashes, \* bound
          Workloads   \* trees and what is asked of them (see load)

ROOTINO == 1
Inums == 1 .. NINODES

ASSUME FsAssumption ==
  /\ NULL \notin Procs /\ IsFiniteSet(Procs)
  /\ NINODES \in Nat \ {0} /\ NINODE \in Nat /\ DPB \in Nat \ {0} /\ MaxCrashes \in Nat

VARIABLES dino, durable,         \* dinodes: as seen through the buffer cache, after a reboot
          ref, valid, lock, mem, \* the inode table: mem is the copy of the dinode
          inop,                  \* processes between begin_op and end_op
          k, r,                  \* processes: what is left to do; pointers to inodes and arguments
          calls, crashes,        \* counted to bound a behaviour
          leaked,                \* history: inodes the code is known to lose (see Accounted)
          load                   \* fixed for a behaviour: the first tree, the calls that
                                 \* each process may make and how many

disk == <<dino, durable, inop>>
itable == <<ref, valid, lock, mem>>
vars == <<dino, durable, ref, valid, lock, mem, inop, k, r, calls, crashes, leaked, load>>

Free == [type |-> "none", nlink |-> 0, ents |-> <<>>]
Regs == {"cwd", "file", "at", "from", "dp", "ip"}

\* No pointer but the current directory.
Idle == [cwd |-> ROOTINO, file |-> 0, at |-> 0, from |-> 0, dp |-> 0, ip |-> 0,
         path |-> <<>>, name |-> "", call |-> NULL]

\* iinit(), and every process in "/".
Booted == /\ ref' = [i \in Inums |-> IF i = ROOTINO THEN Cardinality(Procs) ELSE 0]
          /\ valid' = [i \in Inums |-> FALSE]
          /\ lock' = [i \in Inums |-> NULL]
          /\ mem' = [i \in Inums |-> Free]
          /\ inop' = {}
          /\ k' = [p \in Procs |-> <<>>]
          /\ r' = [p \in Procs |-> Idle]

Init == /\ load \in Workloads
        /\ durable = load.tree /\ dino = durable
        /\ ref = [i \in Inums |-> IF i = ROOTINO THEN Cardinality(Procs) ELSE 0]
        /\ valid = [i \in Inums |-> FALSE]
        /\ lock = [i \in Inums |-> NULL]
        /\ mem = [i \in Inums |-> Free]
        /\ inop = {}
        /\ k = [p \in Procs |-> <<>>]
        /\ r = [p \in Procs |-> Idle]
        /\ calls = [p \in Procs |-> 0] /\ crashes = 0 /\ leaked = {}
-----------------------------------------------------------------------------
(* The stack, and steps that several actions share.                        *)

At(p, f) == k[p] # <<>> /\ Head(k[p])[1] = f
Arg(p) == Head(k[p])[2]
Run(p, todo) == k' = [k EXCEPT ![p] = todo \o Tail(@)]
Return(p) == Run(p, <<>>)

ilock_(x) == <<"ilock", x>>
iunlockput(x) == << <<"iunlock", x>>, <<"iput", x>> >>
end_op_ == << <<"end_op">> >>

\* The pointer in register x moves to register y.
Move(p, x, y) == r' = [r EXCEPT ![p][y] = r[p][x], ![p][x] = 0]

\* iget(inum): an entry that nobody refers to is taken afresh.
NoPointers(i) == ref[i] = 0
CanGet(i) == ref[i] > 0 \/ Cardinality({j \in Inums : ref[j] > 0}) < NINODE
iget(i) == /\ ref' = [ref EXCEPT ![i] = @ + 1]
           /\ valid' = [valid EXCEPT ![i] = @ /\ ~NoPointers(i)]

\* iupdate(ip) after a change of the copy that p has locked.
iupdate(p, i, d) ==
  /\ p \in inop
  /\ mem' = [mem EXCEPT ![i] = d]
  /\ dino' = [dino EXCEPT ![i] = d]

\* Directories: dirlookup, the slot that dirlink writes, and whether writei
\* needs a block for it from balloc.
Positions(d, name) == {j \in 1 .. Len(d.ents) : d.ents[j].inum # 0 /\ d.ents[j].name = name}
dirlookup(d, name) == IF Positions(d, name) = {} THEN 0
                        ELSE d.ents[CHOOSE j \in Positions(d, name) : \A m \in Positions(d, name) : j <= m].inum
Holes(d) == {j \in 1 .. Len(d.ents) : d.ents[j].inum = 0}
Slot(d) == IF Holes(d) = {} THEN Len(d.ents) + 1 ELSE CHOOSE j \in Holes(d) : \A m \in Holes(d) : j <= m
Grows(d) == Holes(d) = {} /\ Len(d.ents) % DPB = 0
Linked(d, name, i) ==
  [d EXCEPT !.ents = [j \in 1 .. (IF Holes(d) = {} THEN Len(@) + 1 ELSE Len(@)) |->
                        IF j = Slot(d) THEN [name |-> name, inum |-> i] ELSE @[j]]]
Unlinked(d, name) ==
  [d EXCEPT !.ents = [j \in DOMAIN @ |-> IF j \in Positions(d, name) THEN [name |-> "", inum |-> 0] ELSE @[j]]]
isdirempty(d) == \A j \in 3 .. Len(d.ents) : d.ents[j].inum = 0
-----------------------------------------------------------------------------
(* The log, as AtomicOps has it.                                           *)

Committing == \E p \in Procs : At(p, "commit")

begin_op(p) ==
  /\ At(p, "begin_op") /\ ~Committing
  /\ inop' = inop \cup {p}
  /\ Return(p)
  /\ UNCHANGED <<dino, durable, itable, r, calls, crashes, leaked, load>>

end_op(p) ==
  /\ At(p, "end_op") /\ p \in inop
  /\ inop' = inop \ {p}
  /\ r' = [r EXCEPT ![p].path = <<>>, ![p].name = "", ![p].call = NULL]
  /\ Run(p, IF inop = {p} THEN << <<"commit">> >> ELSE <<>>)
  /\ UNCHANGED <<dino, durable, itable, calls, crashes, leaked, load>>

commit(p) ==
  /\ At(p, "commit")
  /\ durable' = dino
  /\ leaked' = {i \in leaked : dino[i].type # "none"}
  /\ Return(p)
  /\ UNCHANGED <<dino, inop, itable, r, calls, crashes, load>>

Crash ==
  /\ crashes < MaxCrashes
  /\ crashes' = crashes + 1
  /\ Booted
  /\ dino' = durable
  /\ leaked' = leaked \cup {i \in Inums : durable[i].type # "none" /\ durable[i].nlink = 0}
  /\ UNCHANGED <<durable, calls, load>>
-----------------------------------------------------------------------------
(* Inodes.                                                                 *)

\* ilock(ip): the sleep-lock, and the dinode if the entry does not have it.
ilock(p) ==
  LET i == r[p][Arg(p)] IN
  /\ At(p, "ilock") /\ ref[i] > 0 /\ lock[i] = NULL
  /\ lock' = [lock EXCEPT ![i] = p]
  /\ valid' = [valid EXCEPT ![i] = TRUE]
  /\ IF valid[i] THEN UNCHANGED mem ELSE dino[i].type # "none" /\ mem' = [mem EXCEPT ![i] = dino[i]]
  /\ Return(p)
  /\ UNCHANGED <<disk, ref, r, calls, crashes, leaked, load>>

iunlock(p) ==
  LET i == r[p][Arg(p)] IN
  /\ At(p, "iunlock") /\ lock[i] = p /\ ref[i] > 0
  /\ lock' = [lock EXCEPT ![i] = NULL]
  /\ Return(p)
  /\ UNCHANGED <<disk, ref, valid, mem, r, calls, crashes, leaked, load>>

\* iput(ip) tests, with itable.lock held, whether the inode must be freed.
LastPut_bug(i) == valid[i] /\ mem[i].nlink = 0
LastPut(i) == ref[i] = 1 /\ valid[i] /\ mem[i].nlink = 0

iput(p) ==
  LET i == r[p][Arg(p)] IN
  /\ At(p, "iput")
  /\ IF LastPut(i)
       THEN /\ lock[i] = NULL /\ lock' = [lock EXCEPT ![i] = p]
            /\ Run(p, << <<"iput_free", Arg(p)>> >>)
            /\ UNCHANGED <<ref, r>>
       ELSE /\ ref' = [ref EXCEPT ![i] = @ - 1]
            /\ r' = [r EXCEPT ![p][Arg(p)] = 0]
            /\ Return(p) /\ UNCHANGED lock
  /\ UNCHANGED <<disk, valid, mem, calls, crashes, leaked, load>>

\* itrunc(ip), ip->type = 0, iupdate(ip)
iput_free(p) ==
  /\ At(p, "iput_free")
  /\ iupdate(p, r[p][Arg(p)], Free)
  /\ Run(p, << <<"iput_unlock", Arg(p)>> >>)
  /\ UNCHANGED <<durable, inop, ref, valid, lock, r, calls, crashes, leaked, load>>

\* ip->valid = 0, releasesleep(&ip->lock)
Invalid_bug(i) == valid
Invalid(i) == [valid EXCEPT ![i] = FALSE]
iput_unlock(p) ==
  LET i == r[p][Arg(p)] IN
  /\ At(p, "iput_unlock")
  /\ valid' = Invalid(i)
  /\ lock' = [lock EXCEPT ![i] = NULL]
  /\ Run(p, << <<"iput_drop", Arg(p)>> >>)
  /\ UNCHANGED <<disk, ref, mem, r, calls, crashes, leaked, load>>

\* ip->ref--, with itable.lock held again.  Meanwhile ialloc() may have given
\* the inode to a create whose own iput() found two references: then nobody
\* frees it.
iput_drop(p) ==
  LET i == r[p][Arg(p)] IN
  /\ At(p, "iput_drop")
  /\ ref' = [ref EXCEPT ![i] = @ - 1]
  /\ r' = [r EXCEPT ![p][Arg(p)] = 0]
  /\ leaked' = IF LastPut(i) THEN leaked \cup {i} ELSE leaked
  /\ Return(p)
  /\ UNCHANGED <<disk, valid, lock, mem, calls, crashes, load>>
-----------------------------------------------------------------------------
(* namex(path, nameiparent): the result is register "at", 0 if there is    *)
(* none.                                                                   *)

\* The head of the loop, with path the elements that are left.
Walk(parent, path) ==
  IF path # <<>> THEN <<ilock_("at"), <<"step", parent>> >>
    ELSE IF parent THEN << <<"iput", "at">> >> ELSE <<>>

Absolute(path) == path # <<>> /\ Head(path) = "/"

namex(p) ==
  LET path == r[p].path
      i == IF Absolute(path) THEN ROOTINO ELSE r[p].cwd
      rest == IF Absolute(path) THEN Tail(path) ELSE path IN
  /\ At(p, "namex") /\ CanGet(i)
  /\ iget(i)
  /\ r' = [r EXCEPT ![p].at = i, ![p].path = rest]
  /\ Run(p, Walk(Arg(p), rest))
  /\ UNCHANGED <<disk, lock, mem, calls, crashes, leaked, load>>

\* One path element, copied to name by skipelem, with the directory locked.
step(p) ==
  LET d == mem[r[p].at]
      name == Head(r[p].path)
      rest == Tail(r[p].path)
      next == dirlookup(d, name) IN
  /\ At(p, "step")
  /\ \/ /\ d.type = "dir" /\ Arg(p) /\ rest = <<>>
        /\ r' = [r EXCEPT ![p].name = name, ![p].path = rest]
        /\ Run(p, << <<"iunlock", "at">> >>)
        /\ UNCHANGED <<ref, valid>>
     \/ /\ d.type # "dir" \/ (next = 0 /\ ~(Arg(p) /\ rest = <<>>))
        /\ Run(p, iunlockput("at"))
        /\ UNCHANGED <<ref, valid, r>>
     \/ /\ d.type = "dir" /\ next # 0 /\ ~(Arg(p) /\ rest = <<>>) /\ CanGet(next)
        /\ iget(next)
        /\ r' = [r EXCEPT ![p].from = r[p].at, ![p].at = next, ![p].name = name, ![p].path = rest]
        /\ Run(p, iunlockput("from") \o Walk(Arg(p), rest))
  /\ UNCHANGED <<disk, lock, mem, calls, crashes, leaked, load>>
-----------------------------------------------------------------------------
(* create(path, type): the result is register "ip", locked, or 0.          *)

\* nameiparent has returned.
create(p) ==
  /\ At(p, "create")
  /\ Move(p, "at", "dp")
  /\ Run(p, IF r[p].at = 0 THEN <<>> ELSE <<ilock_("dp"), <<"create_find">> >>)
  /\ UNCHANGED <<disk, itable, calls, crashes, leaked, load>>

create_find(p) ==
  LET i == dirlookup(mem[r[p].dp], r[p].name) IN
  /\ At(p, "create_find")
  /\ IF i # 0
       THEN /\ CanGet(i) /\ iget(i)
            /\ r' = [r EXCEPT ![p].ip = i]
            /\ Run(p, iunlockput("dp") \o <<ilock_("ip"), <<"create_exists">> >>)
       ELSE Run(p, << <<"ialloc", 1>> >>) /\ UNCHANGED <<ref, valid, r>>
  /\ UNCHANGED <<disk, lock, mem, calls, crashes, leaked, load>>

create_exists(p) ==
  /\ At(p, "create_exists")
  /\ Run(p, IF r[p].call.type = "file" /\ mem[r[p].ip].type \in {"file", "dev", "nodev"}
              THEN <<>> ELSE iunlockput("ip"))
  /\ UNCHANGED <<disk, itable, r, calls, crashes, leaked, load>>

\* ialloc(): inum by inum; the dinode is marked in its block and then found by
\* iget().
ialloc(p) ==
  LET i == Arg(p) IN
  /\ At(p, "ialloc")
  /\ \/ /\ i \notin Inums
        /\ Run(p, iunlockput("dp"))
        /\ UNCHANGED dino
     \/ /\ i \in Inums /\ dino[i].type # "none"
        /\ Run(p, << <<"ialloc", i + 1>> >>)
        /\ UNCHANGED dino
     \/ /\ i \in Inums /\ dino[i].type = "none" /\ p \in inop
        /\ dino' = [dino EXCEPT ![i] = [Free EXCEPT !.type = r[p].call.type]]
        /\ Run(p, << <<"ialloc_get", i>> >>)
  /\ UNCHANGED <<durable, inop, itable, r, calls, crashes, leaked, load>>

ialloc_get(p) ==
  /\ At(p, "ialloc_get") /\ CanGet(Arg(p))
  /\ iget(Arg(p))
  /\ r' = [r EXCEPT ![p].ip = Arg(p)]
  /\ Run(p, <<ilock_("ip"), <<"create_init">> >>)
  /\ UNCHANGED <<disk, lock, mem, calls, crashes, leaked, load>>

\* ip->nlink = 1, iupdate(ip)
create_init(p) ==
  /\ At(p, "create_init")
  /\ iupdate(p, r[p].ip, [mem[r[p].ip] EXCEPT !.nlink = 1])
  /\ Run(p, << <<IF r[p].call.type = "dir" THEN "create_dots" ELSE "create_link">> >>)
  /\ UNCHANGED <<durable, inop, ref, valid, lock, r, calls, crashes, leaked, load>>

\* dirlink(ip, ".") and dirlink(ip, ".."), of which the first needs a block
create_dots(p, space) ==
  LET i == r[p].ip IN
  /\ At(p, "create_dots")
  /\ IF space
       THEN /\ iupdate(p, i, Linked(Linked(mem[i], ".", i), "..", r[p].dp))
            /\ Run(p, << <<"create_link">> >>)
       ELSE Run(p, << <<"create_fail">> >>) /\ UNCHANGED <<dino, mem>>
  /\ UNCHANGED <<durable, inop, ref, valid, lock, r, calls, crashes, leaked, load>>

\* What an entry for i in a directory that was removed makes unreachable.
Strays(dp, i, type) ==
  IF mem[dp].nlink > 0 /\ dp \notin leaked THEN {} ELSE {i} \cup (IF type = "dir" THEN {dp} ELSE {})

\* dirlink(dp, name), and dp->nlink++ for the ".." of a directory
create_link(p, space) ==
  LET dp == r[p].dp
      d == Linked(mem[dp], r[p].name, r[p].ip) IN
  /\ At(p, "create_link")
  /\ \/ /\ space \/ ~Grows(mem[dp])
        /\ iupdate(p, dp, IF r[p].call.type = "dir" THEN [d EXCEPT !.nlink = @ + 1] ELSE d)
        /\ leaked' = leaked \cup Strays(dp, r[p].ip, r[p].call.type)
        /\ Run(p, iunlockput("dp"))
     \/ /\ ~space /\ Grows(mem[dp])
        /\ Run(p, << <<"create_fail">> >>) /\ UNCHANGED <<dino, mem, leaked>>
  /\ UNCHANGED <<durable, inop, ref, valid, lock, r, calls, crashes, load>>

create_fail(p) ==
  /\ At(p, "create_fail")
  /\ iupdate(p, r[p].ip, [mem[r[p].ip] EXCEPT !.nlink = 0])
  /\ Run(p, iunlockput("ip") \o iunlockput("dp"))
  /\ UNCHANGED <<durable, inop, ref, valid, lock, r, calls, crashes, leaked, load>>

\* sys_mkdir and sys_mknod after create()
mk_done(p) ==
  /\ At(p, "mk_done")
  /\ Run(p, (IF r[p].ip = 0 THEN <<>> ELSE iunlockput("ip")) \o end_op_)
  /\ UNCHANGED <<disk, itable, r, calls, crashes, leaked, load>>
-----------------------------------------------------------------------------
(* sys_open, sys_close, sys_chdir.                                         *)

\* namei has returned to sys_open, sys_chdir or sys_link, which ilock what it
\* found.
found(p) ==
  /\ At(p, "found")
  /\ Move(p, "at", "ip")
  /\ Run(p, IF r[p].at = 0 THEN end_op_ ELSE <<ilock_("ip"), Arg(p)>>)
  /\ UNCHANGED <<disk, itable, calls, crashes, leaked, load>>

\* A directory is opened only for reading.
open_check(p) ==
  /\ At(p, "open_check")
  /\ Run(p, IF mem[r[p].ip].type = "dir" /\ r[p].call.write
              THEN iunlockput("ip") \o end_op_ ELSE << <<"open_fd">> >>)
  /\ UNCHANGED <<disk, itable, r, calls, crashes, leaked, load>>

\* A device's major number is checked; filealloc() and fdalloc() fail when the
\* process has its descriptor.
open_fd(p) ==
  /\ At(p, "open_fd")
  /\ IF r[p].ip # 0 /\ r[p].file = 0 /\ mem[r[p].ip].type # "nodev"
       THEN Move(p, "ip", "file") /\ Run(p, << <<"iunlock", "file">> >> \o end_op_)
       ELSE Run(p, (IF r[p].ip = 0 THEN <<>> ELSE iunlockput("ip")) \o end_op_) /\ UNCHANGED r
  /\ UNCHANGED <<disk, itable, calls, crashes, leaked, load>>

chdir_check(p) ==
  /\ At(p, "chdir_check")
  /\ Run(p, IF mem[r[p].ip].type # "dir" THEN iunlockput("ip") \o end_op_
              ELSE << <<"iunlock", "ip">>, <<"iput", "cwd">> >> \o end_op_ \o << <<"chdir_set">> >>)
  /\ UNCHANGED <<disk, itable, r, calls, crashes, leaked, load>>

chdir_set(p) ==
  /\ At(p, "chdir_set")
  /\ Move(p, "ip", "cwd")
  /\ Return(p)
  /\ UNCHANGED <<disk, itable, calls, crashes, leaked, load>>
-----------------------------------------------------------------------------
(* sys_link.                                                               *)

\* The link is counted before there is an entry, and the file is unlocked for the
\* walk to the new name.
Parent_bug == << <<"namex", TRUE>>, <<"link_parent">> >>
Parent == << <<"iunlock", "ip">>, <<"namex", TRUE>>, <<"link_parent">> >>
link_inc(p) ==
  LET i == r[p].ip IN
  /\ At(p, "link_inc")
  /\ IF mem[i].type = "dir"
       THEN Run(p, iunlockput("ip") \o end_op_) /\ UNCHANGED <<dino, mem, r>>
       ELSE /\ iupdate(p, i, [mem[i] EXCEPT !.nlink = @ + 1])
            /\ r' = [r EXCEPT ![p].path = r[p].call.new]
            /\ Run(p, Parent)
  /\ UNCHANGED <<durable, inop, ref, valid, lock, calls, crashes, leaked, load>>

Undo_bug == iunlockput("ip") \o end_op_
Undo == << <<"link_undo">> >> \o iunlockput("ip") \o end_op_
bad == <<ilock_("ip")>> \o Undo

link_parent(p) ==
  /\ At(p, "link_parent")
  /\ Move(p, "at", "dp")
  /\ Run(p, IF r[p].at = 0 THEN bad ELSE <<ilock_("dp"), <<"link_entry">> >>)
  /\ UNCHANGED <<disk, itable, calls, crashes, leaked, load>>

\* dirlink(dp, name): a name that exists is looked up and put.
link_entry(p, space) ==
  LET dp == r[p].dp
      d == mem[dp]
      i == dirlookup(d, r[p].name) IN
  /\ At(p, "link_entry")
  /\ \/ /\ i # 0 /\ CanGet(i) /\ iget(i)
        /\ r' = [r EXCEPT ![p].from = i]
        /\ Run(p, << <<"iput", "from">> >> \o iunlockput("dp") \o bad)
        /\ UNCHANGED <<dino, mem, leaked>>
     \/ /\ i = 0 /\ Grows(d) /\ ~space
        /\ Run(p, iunlockput("dp") \o bad)
        /\ UNCHANGED <<dino, mem, leaked, ref, valid, r>>
     \/ /\ i = 0 /\ (space \/ ~Grows(d))
        /\ iupdate(p, dp, Linked(d, r[p].name, r[p].ip))
        /\ leaked' = leaked \cup Strays(dp, r[p].ip, "file")
        /\ Run(p, iunlockput("dp") \o << <<"iput", "ip">> >> \o end_op_)
        /\ UNCHANGED <<ref, valid, r>>
  /\ UNCHANGED <<durable, inop, lock, calls, crashes, load>>

link_undo(p) ==
  /\ At(p, "link_undo")
  /\ iupdate(p, r[p].ip, [mem[r[p].ip] EXCEPT !.nlink = @ - 1])
  /\ Return(p)
  /\ UNCHANGED <<durable, inop, ref, valid, lock, r, calls, crashes, leaked, load>>
-----------------------------------------------------------------------------
(* sys_unlink.                                                             *)

unlink(p) ==
  /\ At(p, "unlink")
  /\ Move(p, "at", "dp")
  /\ Run(p, IF r[p].at = 0 THEN end_op_ ELSE <<ilock_("dp"), <<"unlink_find">> >>)
  /\ UNCHANGED <<disk, itable, calls, crashes, leaked, load>>

unlink_find(p) ==
  LET i == dirlookup(mem[r[p].dp], r[p].name) IN
  /\ At(p, "unlink_find")
  /\ IF r[p].name \in {".", ".."} \/ i = 0
       THEN Run(p, iunlockput("dp") \o end_op_) /\ UNCHANGED <<ref, valid, r>>
       ELSE /\ CanGet(i) /\ iget(i)
            /\ r' = [r EXCEPT ![p].ip = i]
            /\ Run(p, <<ilock_("ip"), <<"unlink_entry">> >>)
  /\ UNCHANGED <<disk, lock, mem, calls, crashes, leaked, load>>

\* The entry goes, and with a directory the link of its ".."; dp is released
\* before ip's own link is.
Removable(d) == d.type # "dir" \/ isdirempty(d)
unlink_entry(p) ==
  LET dp == r[p].dp
      d == Unlinked(mem[dp], r[p].name)
      i == r[p].ip IN
  /\ At(p, "unlink_entry") /\ mem[i].nlink > 0
  /\ IF Removable(mem[i])
       THEN /\ iupdate(p, dp, IF mem[i].type = "dir" THEN [d EXCEPT !.nlink = @ - 1] ELSE d)
            /\ Run(p, iunlockput("dp") \o << <<"unlink_link">> >>)
       ELSE /\ Run(p, iunlockput("ip") \o iunlockput("dp") \o end_op_)
            /\ UNCHANGED <<dino, mem>>
  /\ UNCHANGED <<durable, inop, ref, valid, lock, r, calls, crashes, leaked, load>>

unlink_link(p) ==
  /\ At(p, "unlink_link")
  /\ iupdate(p, r[p].ip, [mem[r[p].ip] EXCEPT !.nlink = @ - 1])
  /\ Run(p, iunlockput("ip") \o end_op_)
  /\ UNCHANGED <<durable, inop, ref, valid, lock, r, calls, crashes, leaked, load>>
-----------------------------------------------------------------------------
(* The system calls.                                                       *)

\* What call c does after begin_op().
Program(c) ==
  CASE c.op = "open" /\ c.type = "file" -> << <<"namex", TRUE>>, <<"create">>, <<"open_fd">> >>
    [] c.op = "open" /\ c.type = "none" -> << <<"namex", FALSE>>, <<"found", <<"open_check">> >> >>
    [] c.op = "mk"     -> << <<"namex", TRUE>>, <<"create">>, <<"mk_done">> >>
    [] c.op = "link"   -> << <<"namex", FALSE>>, <<"found", <<"link_inc">> >> >>
    [] c.op = "unlink" -> << <<"namex", TRUE>>, <<"unlink">> >>
    [] c.op = "chdir"  -> << <<"namex", FALSE>>, <<"found", <<"chdir_check">> >> >>
    [] c.op = "close"  -> << <<"iput", "file">> >> \o end_op_
    [] c.op = "exit"   -> << <<"iput", "cwd">> >> \o end_op_

\* close, and exit after its closes, are for a process that has what they put.
Allowed(p, c) == /\ c.op = "close" => r[p].file # 0
                 /\ c.op = "exit" => r[p].file = 0

Call(p, c) ==
  /\ k[p] = <<>> /\ r[p].cwd # 0
  /\ calls[p] < load.max[p] /\ Allowed(p, c)
  /\ calls' = [calls EXCEPT ![p] = @ + 1]
  /\ r' = [r EXCEPT ![p].call = c, ![p].path = c.path]
  /\ k' = [k EXCEPT ![p] = << <<"begin_op">> >> \o Program(c)]
  /\ UNCHANGED <<disk, itable, crashes, leaked, load>>

Step(p) ==
  \/ begin_op(p) \/ end_op(p) \/ commit(p)
  \/ ilock(p) \/ iunlock(p) \/ iput(p) \/ iput_free(p) \/ iput_unlock(p) \/ iput_drop(p)
  \/ namex(p) \/ step(p)
  \/ create(p) \/ create_find(p) \/ create_exists(p) \/ ialloc(p) \/ ialloc_get(p)
  \/ create_init(p) \/ create_fail(p) \/ mk_done(p)
  \/ \E space \in BOOLEAN : create_dots(p, space) \/ create_link(p, space) \/ link_entry(p, space)
  \/ found(p) \/ open_check(p) \/ open_fd(p) \/ chdir_check(p) \/ chdir_set(p)
  \/ link_inc(p) \/ link_parent(p) \/ link_undo(p)
  \/ unlink(p) \/ unlink_find(p) \/ unlink_entry(p) \/ unlink_link(p)

Next == \/ \E p \in Procs : Step(p) \/ \E c \in load.calls[p] : Call(p, c)
        \/ Crash

Spec == Init /\ [][Next]_vars
-----------------------------------------------------------------------------
(* Properties.                                                             *)

Pointers(i) == {px \in Procs \X Regs : r[px[1]][px[2]] = i}

\* ip->ref is the number of pointers to the inode: current directories, open
\* files, and the locals of the calls under way, on every path through namex,
\* create, link, unlink, open and chdir, error paths included; and a call leaves
\* none of its own behind.
RefsCounted == /\ \A i \in Inums : ref[i] = Cardinality(Pointers(i))
               /\ \A p \in Procs : k[p] = <<>> => \A x \in Regs \ {"cwd", "file"} : r[p][x] = 0

\* "Must be called after every change to an ip->xxx field that lives on disk"
\* (iupdate): a copy of a dinode that ilock() would not read again is the
\* dinode, also when ialloc() reuses an inode whose last iput() has not ended.
CopiesFresh == \A i \in Inums : ref[i] > 0 /\ valid[i] /\ lock[i] = NULL => mem[i] = dino[i]

\* The inode table is in order: references counted, copies up to date.
ItableOK == RefsCounted /\ CopiesFresh

\* Before which panic p stands; acquiresleep() with itable.lock held is one
\* (sched() refuses to sleep).
Panics(p) ==
  \/ /\ At(p, "ilock")
     /\ LET i == r[p][Arg(p)] IN
        i = 0 \/ (i # 0 /\ (ref[i] < 1 \/ (lock[i] = NULL /\ ~valid[i] /\ dino[i].type = "none")))
  \/ At(p, "iunlock") /\ (r[p][Arg(p)] = 0 \/ (r[p][Arg(p)] # 0 /\ lock[r[p][Arg(p)]] # p))
  \/ At(p, "iput") /\ LastPut(r[p][Arg(p)]) /\ lock[r[p][Arg(p)]] # NULL
  \/ At(p, "unlink_entry") /\ mem[r[p].ip].nlink < 1
  \/ p \notin inop /\ (\E f \in {"iput", "iput_free", "end_op"} : At(p, f))

\* p is about to lock what ".." led it to, a freed inode that is the parent of no
\* directory with a name: an entry keeps the parents of the directories of the
\* tree, but a directory that was removed while in use still has its ".." and
\* does not keep its parent.
LostParent(p) ==
  /\ At(p, "ilock") /\ r[p].name = ".."
  /\ LET i == r[p][Arg(p)] IN
     /\ i # 0 /\ ref[i] > 0 /\ ~valid[i] /\ dino[i].type = "none"
     /\ \A j \in Inums : dino[j].type = "dir" /\ dino[j].nlink > 0 => dirlookup(dino[j], "..") # i

\* No call panics: "ilock: no type" for a name that was removed meanwhile,
\* "iunlock", "unlink: nlink < 1", an iput() outside a transaction; and, as
\* iput()'s comment says, its acquiresleep() does not block.  One panic is
\* there, and the only one: ".." of a removed directory whose parent is gone.
PanicOnlyByDotDot == \A p \in Procs : Panics(p) => LostParent(p)

\* Directories that can be reached from the root in n steps.
Children(t, i) == IF t[i].type = "dir" THEN {t[i].ents[j].inum : j \in DOMAIN t[i].ents} \ {0} ELSE {}
Reached(t) ==
  LET reach[n \in 0 .. NINODES] ==
        IF n = 0 THEN {ROOTINO} ELSE reach[n - 1] \cup UNION {Children(t, i) : i \in reach[n - 1]}
  IN  reach[NINODES]
Links(t, i) ==
  Cardinality({<<j, n>> \in Reached(t) \X (1 .. 6) :
    /\ t[j].type = "dir" /\ n \in DOMAIN t[j].ents
    /\ t[j].ents[n].inum = i /\ t[j].ents[n].name # "."})

\* After every operation and every reboot an inode's nlink is the number of
\* entries for it ("." apart) in the tree, so that none is freed while it has a
\* name and none keeps its blocks without one, however link's early count, its
\* undo, unlink's two steps and create's failures interleave.  Once the
\* operations have ended, an inode with no links is one that is still in use.
\* The inodes in leaked are apart: those that were in use without a name at a
\* crash, those that create and link put into a directory unlinked meanwhile,
\* and those of iput_drop.
Accounted ==
  \A i \in Inums \ leaked : durable[i].type # "none" =>
    /\ durable[i].nlink = Links(durable, i)
    /\ durable[i].nlink = 0 /\ inop = {} /\ ~Committing => ref[i] > 0

\* iput()'s comment: "If that was the last reference and the inode has no links
\* to it, free the inode (and its content) on disk."
UnlinkedFreed ==
  inop = {} /\ crashes = 0 =>
    \A i \in Inums : dino[i].type # "none" /\ dino[i].nlink = 0 => ref[i] > 0

\* For whom p waits: the holder of the lock it wants, or, in begin_op(), which
\* may be short of log space, all operations under way.
WaitsFor(p) == CASE At(p, "ilock") -> {lock[r[p][Arg(p)]]} \ {NULL}
                 [] At(p, "begin_op") -> inop
                 [] OTHER -> {}

\* No processes wait for each other: sys_unlink() takes two locks, parent before
\* child, create() a directory's and then that of an inode no one else can
\* name, namex() one at a time; and begin_op() is called with none.
NoWaitCycle ==
  \A S \in (SUBSET Procs) \ {{}} : \E p \in S : WaitsFor(p) \cap S = {}
=============================================================================
