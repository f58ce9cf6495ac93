-------------------------------- MODULE Mkfs --------------------------------
(***************************************************************************)
(* The image that mkfs/mkfs.c builds: a root directory and files, blocks   *)
(* given out in order, and a bitmap written at the end.  A directory entry *)
(* is a cell that holds the inode number; blocks count from the first that *)
(* mkfs can give out (nmeta).                                              *)
(***************************************************************************)
EXTENDS Inode, TLC

ROOTINO == 1

\* Block n of addrs, or entry n of the indirect block that was just found; a
\* block is taken when there is none.
NextBlock(m) == [m EXCEPT !.ret = m.freeblock, !.freeblock = @ + 1]
SetAddrs(m, i, n) == [m EXCEPT !.addrs[i][n] = m.ret]
Addrs(m, i, n) == IF m.addrs[i][n] # 0 THEN [m EXCEPT !.ret = m.addrs[i][n]] ELSE SetAddrs(NextBlock(m), i, n)
SetIndirect(m, b, n) == [m EXCEPT !.data[b][n] = m.ret]
IndirectAt(m, n) == IF m.data[m.ret][n] # 0 THEN [m EXCEPT !.ret = m.data[m.ret][n]]
                      ELSE SetIndirect(NextBlock(m), m.ret, n)
FileBlock(m, i, fbn) == IF fbn < NDIRECT THEN Addrs(m, i, fbn) ELSE IndirectAt(Addrs(m, i, NDIRECT), fbn - NDIRECT)

\* iappend(inum, xp, n), with every cell of xp equal to v
bcopy(m, i, n, v) ==
  [m EXCEPT !.data[m.ret] = [c \in Cells |-> IF c \in In(m.size[i]) .. In(m.size[i]) + n - 1 THEN v ELSE @[c]],
            !.size[i] = @ + n]
RECURSIVE iappend(_, _, _, _)
iappend(m, i, n, v) ==
  IF n = 0 THEN m
    ELSE LET n1 == Part(m.size[i], n) IN
         iappend(bcopy(FileBlock(m, i, m.size[i] \div BSIZE), i, n1, v), i, n - n1, v)

\* main(): ".", "..", an entry and the contents of each file, the root's size
\* rounded up, and balloc(freeblock)
ialloc(m) == [m EXCEPT !.freeinode = @ + 1]
AddFile(m, n) ==
  LET inum == m.freeinode IN iappend(iappend(ialloc(m), ROOTINO, 1, inum), inum, n, inum)
RECURSIVE AddFiles(_, _)
AddFiles(m, files) == IF files = <<>> THEN m ELSE AddFiles(AddFile(m, Head(files)), Tail(files))
RoundUp(off) == (off \div BSIZE + 1) * BSIZE
Fixed(m) == [m EXCEPT !.size[ROOTINO] = RoundUp(@)]
balloc_mkfs(freeblock) == 1 .. freeblock - 1

Blank == [used |-> {}, addrs |-> [i \in Inums |-> [n \in 0 .. NDIRECT |-> 0]], size |-> [i \in Inums |-> 0],
          data |-> [b \in Blocks |-> Zeroes], logged |-> {}, failed |-> FALSE, ret |-> 0, tot |-> 0, got |-> <<>>]
ImageOf(m) == [x \in DOMAIN Blank |-> CASE x = "used" -> balloc_mkfs(m.freeblock) [] x = "ret" -> 0 [] OTHER -> m[x]]

\* The image with files of these lengths, in order.
mkfs(files) ==
  ImageOf(Fixed(AddFiles(iappend(ialloc([freeblock |-> 1, freeinode |-> 1] @@ Blank), ROOTINO, 2, ROOTINO), files)))
=============================================================================
