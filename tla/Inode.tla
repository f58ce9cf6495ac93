------------------------------- MODULE Inode -------------------------------
(***************************************************************************)
(* Blocks and contents of inodes (kernel/fs.c: balloc, bfree, bmap,        *)
(* itrunc, readi, writei), as operators on a value fs that holds the disk: *)
(*   used     the bitmap, as the set of blocks marked in it                *)
(*   addrs    for each inode NDIRECT blocks and the indirect block, 0 none *)
(*   size     for each inode                                               *)
(*   data     the cells of each block: a cell holds a byte of a file or,   *)
(*            in an indirect block, a block number                         *)
(*   logged   the blocks log_write was called with                         *)
(*   failed   whether a panic ("freeing free block", "bmap: out of range", *)
(*            log_write outside a transaction) was met                     *)
(*   ret, tot, got   results: a block, a count, cells read                 *)
(* The caller holds the inode's lock, so that each operator is one step.   *)
(***************************************************************************)
EXTENDS Integers, Sequences, FiniteSets

CONSTANTS NINODES, NBLOCKS, \* inodes, and blocks for data: 1 .. NBLOCKS
          BSIZE,            \* cells of a block
          NDIRECT,          \* direct blocks of an inode
          BPB,              \* bits of a bitmap block
          UINT              \* 2^32, the range of uint

ASSUME InodeAssumption == {NINODES, NBLOCKS, BSIZE, NDIRECT, BPB, UINT} \subseteq Nat \ {0}

Inums == 1 .. NINODES
Blocks == 1 .. NBLOCKS
Cells == 0 .. BSIZE - 1
NINDIRECT == BSIZE
MAXFILE == NDIRECT + NINDIRECT

Zeroes == [c \in Cells |-> 0]
In(off) == off % BSIZE
Min2(a, b) == IF a < b THEN a ELSE b

BBLOCK(b) == <<"bitmap", b \div BPB>>
IBLOCK(i) == <<"inode", i>>
DBLOCK(b) == <<"data", b>>

\* balloc: the first free block, marked and zeroed; ret is 0 if there is none.
Zeroed_bug(data, b) == data
Zeroed(data, b) == [data EXCEPT ![b] = Zeroes]
Take(fs, b) == [fs EXCEPT !.used = @ \cup {b}, !.data = Zeroed(@, b), !.logged = @ \cup {BBLOCK(b), DBLOCK(b)}, !.ret = b]
First(S) == CHOOSE x \in S : \A y \in S : x <= y
balloc(fs) == IF Blocks \subseteq fs.used THEN [fs EXCEPT !.ret = 0] ELSE Take(fs, First(Blocks \ fs.used))

bfree(fs, b) == [fs EXCEPT !.used = @ \ {b}, !.logged = @ \cup {BBLOCK(b)}, !.failed = @ \/ b \notin fs.used]

\* bmap(ip, bn): the block of the inode's nth block, allocated if there is none:
\* first the entry n of addrs, then, for an indirect block, the entry n in it.
SetAddr(fs, i, n) == [fs EXCEPT !.addrs[i][n] = fs.ret]
Addr(fs, i, n) == IF fs.addrs[i][n] # 0 THEN [fs EXCEPT !.ret = fs.addrs[i][n]] ELSE SetAddr(balloc(fs), i, n)
SetEntry(fs, b, n) ==
  IF fs.ret = 0 THEN fs ELSE [fs EXCEPT !.data[b][n] = fs.ret, !.logged = @ \cup {DBLOCK(b)}]
Entry(fs, b, n) ==
  IF b = 0 THEN fs
    ELSE IF fs.data[b][n] # 0 THEN [fs EXCEPT !.ret = fs.data[b][n]] ELSE SetEntry(balloc(fs), b, n)
Indir(fs, n) == Entry(fs, fs.ret, n)
bmap(fs, i, bn) ==
  IF bn < NDIRECT THEN Addr(fs, i, bn)
    ELSE IF bn - NDIRECT < NINDIRECT THEN Indir(Addr(fs, i, NDIRECT), bn - NDIRECT)
    ELSE [fs EXCEPT !.failed = TRUE, !.ret = 0]

iupdate(fs, i) == [fs EXCEPT !.logged = @ \cup {IBLOCK(i)}]

\* The blocks of inode i: those of its data, and the indirect block.
Direct(fs, i) == {fs.addrs[i][n] : n \in 0 .. NDIRECT - 1} \ {0}
Indirect(fs, i) == {fs.addrs[i][NDIRECT]} \ {0}
Listed(fs, i) == (UNION {{fs.data[b][c] : c \in Cells} : b \in Indirect(fs, i)}) \ {0}

RECURSIVE FreeAll(_, _)
FreeAll(fs, bs) == IF bs = {} THEN fs ELSE FreeAll(bfree(fs, First(bs)), bs \ {First(bs)})

\* itrunc(ip)
Owned(fs, i) == Direct(fs, i) \cup Listed(fs, i) \cup Indirect(fs, i)
Emptied(fs, i) == [fs EXCEPT !.addrs[i] = [n \in 0 .. NDIRECT |-> 0], !.size[i] = 0]
itrunc(fs, i) == iupdate(Emptied(FreeAll(fs, Owned(fs, i)), i), i)

\* How many of n cells from off on are in off's block.
Part(off, n) == Min2(n, BSIZE - In(off))

\* off + n < off, for numbers of type uint
Wraps(off, n) == (off + n) % UINT < off

\* readi(ip, dst, off, n): the cells up to the size, block by block, in got, if
\* the first ok cells of dst can be written: either_copyout() fills those and
\* fails after them, and tot is -1.
RECURSIVE ReadFrom(_, _, _, _, _), ReadBlock(_, _, _, _, _)
ReadFrom(fs, i, off, n, ok) == IF n = 0 THEN fs ELSE ReadBlock(bmap(fs, i, off \div BSIZE), i, off, n, ok)
either_copyout(fs, off, n) ==
  [fs EXCEPT !.got = @ \o [c \in 1 .. n |-> fs.data[fs.ret][In(off) + c - 1]], !.tot = @ + n]
ReadBlock(fs, i, off, n, ok) ==
  IF fs.ret = 0 THEN fs
    ELSE IF ok < Part(off, n) THEN [either_copyout(fs, off, ok) EXCEPT !.tot = -1]
    ELSE ReadFrom(either_copyout(fs, off, Part(off, n)), i, off + Part(off, n), n - Part(off, n), ok - Part(off, n))
readi(fs, i, off, n, ok) ==
  IF off > fs.size[i] \/ Wraps(off, n) THEN fs ELSE ReadFrom(fs, i, off, Min2(n, fs.size[i] - off), ok)

\* writei(ip, src, off, n) with every cell of src equal to v, of which the first
\* ok can be read: either_copyin copies those and fails after them, and the
\* block it failed in is not logged.  tot is -1 if the range is refused.
RECURSIVE WriteFrom(_, _, _, _, _, _), WriteBlock(_, _, _, _, _, _)
WriteFrom(fs, i, off, n, v, ok) ==
  IF n = 0 THEN fs ELSE WriteBlock(bmap(fs, i, off \div BSIZE), i, off, n, v, ok)
either_copyin(fs, off, n, v) ==
  [fs EXCEPT !.data[fs.ret] = [c \in Cells |-> IF c \in In(off) .. In(off) + n - 1 THEN v ELSE @[c]]]
Logged(fs, n) == [fs EXCEPT !.logged = @ \cup {DBLOCK(fs.ret)}, !.tot = @ + n]
WriteBlock(fs, i, off, n, v, ok) ==
  IF fs.ret = 0 THEN fs
    ELSE IF ok < Part(off, n) THEN either_copyin(fs, off, ok, v)
    ELSE WriteFrom(Logged(either_copyin(fs, off, Part(off, n), v), Part(off, n)),
                   i, off + Part(off, n), n - Part(off, n), v, ok - Part(off, n))

Grown(size, end) == IF end > size THEN end ELSE size
Extend(fs, i, off) == iupdate([fs EXCEPT !.size[i] = Grown(@, off + fs.tot)], i)
writei(fs, i, off, n, v, ok) ==
  IF off > fs.size[i] \/ Wraps(off, n) \/ off + n > MAXFILE * BSIZE THEN [fs EXCEPT !.tot = -1]
    ELSE Extend(WriteFrom(fs, i, off, n, v, ok), i, off)

\* The contents of inode i, as a reader would see them; a block that is not
\* there reads as zeroes.
Contents(fs, i) ==
  LET list == fs.addrs[i][NDIRECT]
      block(bn) == IF bn < NDIRECT THEN fs.addrs[i][bn] ELSE IF list = 0 THEN 0 ELSE fs.data[list][bn - NDIRECT]
  IN  [c \in 1 .. fs.size[i] |->
         IF block((c - 1) \div BSIZE) = 0 THEN 0 ELSE fs.data[block((c - 1) \div BSIZE)][(c - 1) % BSIZE]]
=============================================================================
