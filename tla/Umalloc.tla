------------------------------ MODULE Umalloc ------------------------------
(***************************************************************************)
(* malloc() and free() of user programs (user/umalloc.c): the circular     *)
(* list of free blocks in order of address, with the header of a block in  *)
(* front of it.  Addresses count headers; the static header base lies      *)
(* below the heap, at address 0.  Other code of the program may call       *)
(* sbrk(), which leaves holes in the heap.                                 *)
(***************************************************************************)
EXTENDS Integers, FiniteSets

CONSTANTS NBYTES,      \* arguments of malloc()
          HEADER,      \* sizeof(Header)
          CORE,        \* 4096, the least that morecore() asks for
          TOP          \* where sbrk() fails

ASSUME UmallocAssumption == HEADER \in Nat \ {0} /\ CORE \in Nat /\ TOP \in Nat /\ NBYTES \subseteq Nat

VARIABLES h,           \* ptr and size by address, freep (-1 for null), brk
          got,         \* history: what the program asked for, by address
          holes        \* history: units that other calls of sbrk() took

mvars == <<h, got, holes>>
base == 0

MallocInit == /\ h = [ptr |-> [a \in 0..TOP |-> 0], size |-> [a \in 0..TOP |-> 0], freep |-> -1, brk |-> 1]
              /\ got = [a \in {} |-> 0] /\ holes = {}
-----------------------------------------------------------------------------
\* The place in the list for a block at bp: p with p < bp < p->ptr, or the last
\* block when bp lies beyond the ends.
Between(m, p, bp) == \/ bp > p /\ bp < m.ptr[p]
                     \/ p >= m.ptr[p] /\ (bp > p \/ bp < m.ptr[p])
RECURSIVE Place(_, _, _)
Place(m, p, bp) == IF Between(m, p, bp) THEN p ELSE Place(m, m.ptr[p], bp)

\* The two joins of free(): with the block above, then with the block below.
Above(m, p, bp) == IF bp + m.size[bp] = m.ptr[p]
                     THEN [m EXCEPT !.size[bp] = @ + m.size[m.ptr[p]], !.ptr[bp] = m.ptr[m.ptr[p]]]
                     ELSE [m EXCEPT !.ptr[bp] = m.ptr[p]]
Below_bug(m, p, bp) == [m EXCEPT !.ptr[p] = bp]
Below(m, p, bp) == IF p + m.size[p] = bp
                     THEN [m EXCEPT !.size[p] = @ + m.size[bp], !.ptr[p] = m.ptr[bp]]
                     ELSE [m EXCEPT !.ptr[p] = bp]
Joined(m, p, bp) == [Below(Above(m, p, bp), p, bp) EXCEPT !.freep = p]
Freed(m, bp) == Joined(m, Place(m, m.freep, bp), bp)

\* morecore(nu), when sbrk() succeeds.
Units(nu) == IF nu < CORE THEN CORE ELSE nu
Grown(m, nu) == Freed([m EXCEPT !.size[m.brk] = Units(nu), !.brk = @ + Units(nu)], m.brk)

\* malloc(): an entry that is large enough is cut off the list or gives its tail.
Cut(m, prev, p, n) == IF m.size[p] = n
                        THEN [m EXCEPT !.ptr[prev] = m.ptr[p], !.freep = prev]
                        ELSE [m EXCEPT !.size[p] = @ - n, !.size[p + m.size[p] - n] = n, !.freep = prev]
RECURSIVE Search(_, _, _, _)
Search(m, prev, p, n) ==
  IF m.size[p] >= n THEN [m |-> Cut(m, prev, p, n), at |-> p + m.size[p] - n]
  ELSE IF p # m.freep THEN Search(m, p, m.ptr[p], n)
  ELSE IF m.brk + Units(n) > TOP THEN [m |-> m, at |-> -1]
  ELSE LET g == Grown(m, n) IN Search(g, g.freep, g.ptr[g.freep], n)

nunits(nbytes) == (nbytes + HEADER - 1) \div HEADER + 1
Started(m) == IF m.freep = -1 THEN [m EXCEPT !.ptr[base] = base, !.size[base] = 0, !.freep = base] ELSE m

\* Headers inside a block, and ptr of a block in use, are never read again; they are
\* reset, which merges states.
RECURSIVE Chain(_, _)
Chain(m, S) == LET T == S \cup {m.ptr[a] : a \in S} IN IF T = S THEN S ELSE Chain(m, T)
Tidy(m, used) == LET list == Chain(m, {m.freep})
                 IN [m EXCEPT !.ptr = [a \in 0..TOP |-> IF a \in list THEN @[a] ELSE 0],
                              !.size = [a \in 0..TOP |-> IF a \in list \cup used THEN @[a] ELSE 0]]

malloc(nbytes) ==
  LET m == Started(h)
      s == Search(m, m.freep, m.ptr[m.freep], nunits(nbytes))
  IN /\ got' = IF s.at = -1 THEN got ELSE [a \in DOMAIN got \cup {s.at} |-> IF a = s.at THEN nbytes ELSE got[a]]
     /\ h' = Tidy(s.m, DOMAIN got')
     /\ UNCHANGED holes

free(bp) == /\ got' = [a \in DOMAIN got \ {bp} |-> got[a]]
            /\ h' = Tidy(Freed(h, bp), DOMAIN got')
            /\ UNCHANGED holes

sbrk == /\ h.brk < TOP /\ holes = {}
        /\ h' = [h EXCEPT !.brk = @ + 1] /\ holes' = {h.brk} /\ UNCHANGED got

MallocNext == \/ \E nbytes \in NBYTES : malloc(nbytes)
              \/ \E bp \in DOMAIN got : free(bp)
              \/ sbrk
-----------------------------------------------------------------------------
\* The free blocks, from freep on.
FreeBlocks == IF h.freep = -1 THEN {} ELSE Chain(h, {h.freep}) \ {base}
Block(a) == a .. a + h.size[a] - 1

\* After any sequence of calls the heap is exactly the free blocks, the blocks in use
\* and the holes, none overlapping; the list is in order of address and has no two
\* blocks that touch; and a block in use has room for what was asked.
HeapOK ==
  LET used == DOMAIN got
      all == used \cup FreeBlocks
  IN /\ used \cap FreeBlocks = {} /\ \A a, b \in all : a # b => Block(a) \cap Block(b) = {}
     /\ (UNION {Block(a) : a \in all}) \cup holes = 1 .. h.brk - 1
     /\ \A a \in used : (h.size[a] - 1) * HEADER >= got[a] /\ Block(a) \cap holes = {}
     /\ \A a \in FreeBlocks : h.ptr[a] > a \/ h.ptr[a] = base
     /\ \A a, b \in FreeBlocks : a + h.size[a] # b
=============================================================================
