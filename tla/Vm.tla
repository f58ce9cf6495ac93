-------------------------------- MODULE Vm --------------------------------
(***************************************************************************)
(* User memory: the page and superpage allocators of kernel/kalloc.c, the  *)
(* three-level page tables of kernel/vm.c, and their callers growproc,     *)
(* fork and freeproc (kernel/proc.c) and exec (kernel/exec.c).             *)
(*                                                                         *)
(* Virtual addresses are page numbers, sizes are in bytes (PGSIZE of them  *)
(* to a page).  A page-table page has SP entries instead of 512.  The PTE  *)
(* that walk() meets at a level for page n is pt[t][<<level, PX(level,n)>>]*)
(* and <<3, 0>> stands for the pointer to the root page.  Each turn of the *)
(* loops of uvmalloc, uvmunmap and uvmcopy is one step, because other      *)
(* processes allocate and free in between; k[p] holds the loop's locals.   *)
(*                                                                         *)
(* A panic stops the processor that meets it: the conditions of panics are *)
(* guards, and PanicOnlyAfterShrink says when a process stands before one. *)
(***************************************************************************)
EXTENDS Integers, Sequences

CONSTANTS Procs, Initproc,  \* process slots; the one that never exits
          Tabs,             \* bound: page tables
          KPages, Supers,   \* page frames of kmem, superpages of supermem
          NULL, Trampoline, \* no frame; the frame of the trampoline code
          SP,               \* entries of a page-table page, pages of a superpage
          NROOT,            \* entries of the root page in use
          PGSIZE, USERSTACK,
          MaxSize,          \* bound: size of a process, in bytes
          Workloads         \* memories and what is asked of them (see load)

VARIABLES free,     \* the frames on kmem.freelist
          super,    \* the superpages in supermem.superpages[0 .. nfree-1]
          data,     \* what a frame holds
          pt,       \* page tables
          pc, k,    \* per process: place in the kernel, and its locals there
          cur, sz,  \* p->pagetable, p->sz
          tf,       \* p->trapframe
          load      \* fixed for a behaviour: the page frames and superpages of
                    \* the machine, the arguments of sbrk(), a bound on sizes,
                    \* the executables (sequences of segments), and the pages
                    \* that user code stores to and copyout() is called for

vars == <<free, super, data, pt, pc, k, cur, sz, tf, load>>

Frames == KPages \cup (Supers \X (0 .. SP - 1))
SUPERPGSIZE == SP * PGSIZE
TRAMPOLINE == NROOT * SP * SP - 1
TRAPFRAME  == TRAMPOLINE - 1

\* PX(level, va), with the indexes of the levels above in front of it.
PX(level, n) == IF level = 0 THEN n ELSE IF level = 1 THEN n \div SP ELSE n \div (SP * SP)

\* PGROUNDUP(s), as a number of pages.
PGROUNDUP(s) == (s + PGSIZE - 1) \div PGSIZE

\* An image of s bytes, with its guard page and stack, is within w's bound.
Fits(w, s) == (PGROUNDUP(s) + USERSTACK + 1) * PGSIZE <= w.max

\* The segments of executables: p_vaddr, p_memsz and p_filesz of the program
\* headers, and what flags2perm() makes of p_flags.
Segments == [vaddr : Nat, memsz : Nat, filesz : Nat, perm : SUBSET {"W", "X"}]

ASSUME VmAssumption ==
  /\ Initproc \in Procs
  /\ SP \in Nat /\ NROOT \in Nat /\ PGSIZE \in Nat \ {0} /\ USERSTACK \in Nat
  /\ NROOT >= 2 /\ USERSTACK + 1 < SP
  /\ MaxSize \in Nat /\ MaxSize <= (NROOT - 1) * SP * SP * PGSIZE
  /\ NULL \notin KPages \cup (Supers \X Int) \cup Tabs \cup Procs
  /\ Trampoline \notin KPages \cup (Supers \X Int)
  /\ KPages \cap (Supers \X Int) = {}

\* The workloads stay within the bounds.
ASSUME WorkloadAssumption ==
  \A w \in Workloads :
    /\ w.pages \subseteq KPages /\ w.supers \subseteq Supers /\ w.deltas \subseteq Int
    /\ w.max \in PGSIZE .. MaxSize
    /\ \A prog \in w.programs : /\ prog \in Seq(Segments) /\ Fits(w, 0)
                                /\ \A i \in 1 .. Len(prog) : Fits(w, prog[i].vaddr * PGSIZE + prog[i].memsz)

\* The locations of the PTEs that a process of at most MaxSize bytes can use.
Locs == {<<3, 0>>} \cup {<<level, PX(level, n)>> :
           level \in 0 .. 2, n \in (0 .. PGROUNDUP(MaxSize) - 1) \cup {TRAMPOLINE, TRAPFRAME}}

Zero == [pa |-> NULL, flags |-> {}]
PTE(pa, perm) == [pa |-> pa, flags |-> perm \cup {"V"}]
Valid(e) == "V" \in e.flags
PTE_LEAF(e) == e.flags \cap {"R", "W", "X"} # {}

Idle == [t |-> NULL, a |-> 0, lo |-> 0, end |-> 0, perm |-> {}, call |-> "",
         child |-> NULL, segs |-> <<>>, brk |-> 0]

\* kmem.freelist after n more calls of kalloc(), and the i-th frame that they
\* return.  Which frame is on top is something that no property can tell.
Pick(S) == CHOOSE f \in S : TRUE
Left(n) ==
  LET Pop(S) == IF S = {} THEN {} ELSE S \ {Pick(S)}
  IN  IF n = 0 THEN free ELSE IF n = 1 THEN Pop(free) ELSE IF n = 2 THEN Pop(Pop(free))
      ELSE IF n = 3 THEN Pop(Pop(Pop(free))) ELSE Pop(Pop(Pop(Pop(free))))
Fresh(i) == Pick(Left(i - 1))

\* n calls of kalloc() succeed.
Enough(n) == n = 0 \/ Left(n - 1) # {}

kalloc(n) == Enough(n) /\ free' = Left(n)

\* superalloc(): the superpage that it returns, and the pool without it.
\* (Definitions named ..._bug are faulty variants of the definition after
\* them; they show that the properties below can fail.)
Top == CHOOSE s \in super : TRUE

Popped_bug == super

Popped == super \ {Top}
-----------------------------------------------------------------------------
\* walk(pagetable, va, 0): where the PTE of page n is, <<>> for none.
walk(t, n) ==
  LET l1 == <<1, PX(1, n)>>
  IN  IF ~Valid(pt[t][<<2, PX(2, n)>>]) \/ ~Valid(pt[t][l1]) THEN <<>>
      ELSE IF PTE_LEAF(pt[t][l1]) THEN l1 ELSE <<0, n>>

\* superwalk(pagetable, va, 0) finds a superpage at page n.
SuperLeaf(t, n) ==
  /\ n % SP = 0
  /\ Valid(pt[t][<<2, PX(2, n)>>])
  /\ {"V", "R"} \subseteq pt[t][<<1, PX(1, n)>>].flags

\* The page-table pages that walk(pagetable, va, 1) has to allocate for n.
Missing(t, n) ==
  LET l2 == <<2, PX(2, n)>>
      l1 == <<1, PX(1, n)>>
  IN  IF ~Valid(pt[t][l2]) THEN <<l2, l1>> ELSE IF ~Valid(pt[t][l1]) THEN <<l1>> ELSE <<>>

\* The same for superwalk(pagetable, va, 1).
SuperMissing(t, n) == IF Valid(pt[t][<<2, PX(2, n)>>]) THEN <<>> ELSE << <<2, PX(2, n)>> >>

\* pt[t] with page-table pages at the locations miss[1 .. m], made of the
\* frames that kalloc() returns after skipping some.
WithTables(t, miss, m, skip) ==
  [l \in Locs |-> IF \E i \in 1 .. m : miss[i] = l
                    THEN PTE(Fresh(skip + CHOOSE i \in 1 .. m : miss[i] = l), {})
                    ELSE pt[t][l]]

\* walkaddr(): the frame of user page n.  In a superpage it is the first one,
\* whatever n is.
walkaddr(t, n) ==
  LET l == walk(t, n)
  IN  IF l # <<>> /\ {"V", "U"} \subseteq pt[t][l].flags THEN pt[t][l].pa ELSE NULL

\* The frame that the hardware finds for page n.
MMU(t, n) ==
  LET l == walk(t, n)
  IN  IF l = <<>> \/ ~Valid(pt[t][l]) THEN NULL
      ELSE IF l[1] = 1 THEN <<pt[t][l].pa[1], n % SP>> ELSE pt[t][l].pa

\* mappages() panics: the page is mapped already.
Remap(t, n) == walk(t, n) # <<>> /\ Valid(pt[t][walk(t, n)])

\* supermappages() panics: the level-1 PTE is in use.
SuperRemap(t, n) == Valid(pt[t][<<2, PX(2, n)>>]) /\ Valid(pt[t][<<1, PX(1, n)>>])

\* kalloc() of a page with contents d and mappages() of it at page n.
mappages(t, n, perm, d) ==
  LET miss == Missing(t, n)
  IN  /\ kalloc(1 + Len(miss))
      /\ ~Remap(t, n)
      /\ pt' = [pt EXCEPT ![t] = [WithTables(t, miss, Len(miss), 1) EXCEPT ![<<0, n>>] = PTE(Fresh(1), perm)]]
      /\ data' = [data EXCEPT ![Fresh(1)] = d]
      /\ UNCHANGED super

\* The same when kalloc() or walk() runs out of memory: the page is given
\* back, a page-table page that walk() did get stays in the table.
nomappages(t, n) ==
  LET miss == Missing(t, n)
      got  == IF Enough(2) THEN 1 ELSE 0
  IN  /\ ~Enough(1 + Len(miss))
      /\ pt' = [pt EXCEPT ![t] = WithTables(t, miss, got, 1)]
      /\ free' = free \ {Fresh(1 + i) : i \in 1 .. got}
      /\ UNCHANGED <<super, data>>

\* superalloc() and supermappages() of a superpage with contents d[0 .. SP-1].
supermappages(t, n, perm, d) ==
  LET miss == SuperMissing(t, n)
  IN  /\ super # {} /\ kalloc(Len(miss))
      /\ ~SuperRemap(t, n)
      /\ pt' = [pt EXCEPT ![t] = [WithTables(t, miss, Len(miss), 0) EXCEPT ![<<1, PX(1, n)>>] = PTE(<<Top, 0>>, perm)]]
      /\ super' = Popped
      /\ data' = [f \in Frames |-> IF f \in {Top} \X (0 .. SP - 1) THEN d[f[2]] ELSE data[f]]

\* The same when superalloc() or superwalk() fails: superfree(mem) undoes it.
nosupermappages(t, n) ==
  /\ super = {} \/ ~Enough(Len(SuperMissing(t, n)))
  /\ UNCHANGED <<free, super, data, pt>>

kfree(F) == /\ free' = free \cup F
            /\ data' = [f \in Frames |-> IF f \in F THEN "junk" ELSE data[f]]

Enter(p, place, locals) ==
  pc' = [pc EXCEPT ![p] = place] /\ k' = [k EXCEPT ![p] = locals] /\ UNCHANGED load
Return(p) == Enter(p, "user", Idle)
-----------------------------------------------------------------------------
\* uvmalloc(pagetable, old, new, xperm), entered with the caller's locals c.
uvmalloc(p, c, old, new, perm, call) ==
  Enter(p, "alloc", [c EXCEPT !.a = PGROUNDUP(old), !.lo = PGROUNDUP(old), !.end = new,
                              !.perm = perm, !.call = call])

Growing(p) == pc[p] = "alloc" /\ k[p].a * PGSIZE < k[p].end

\* uvmalloc() takes its superpage branch.
SuperFits(p) == k[p].a % SP = 0 /\ k[p].end - k[p].a * PGSIZE >= SUPERPGSIZE

Step(p, n) == k' = [k EXCEPT ![p].a = @ + n] /\ UNCHANGED <<pc, load>>

Rollback_bug(p) == Enter(p, "unmap", [k[p] EXCEPT !.a = k[p].lo, !.end = k[p].a - 1])

\* uvmdealloc(pagetable, a, oldsz) where uvmalloc() fails.
Rollback(p) == Enter(p, "unmap", [k[p] EXCEPT !.a = k[p].lo, !.end = k[p].a])

uvmalloc_super(p) ==
  /\ Growing(p) /\ SuperFits(p)
  /\ \/ /\ supermappages(k[p].t, k[p].a, {"R", "W", "U"} \cup k[p].perm, [j \in 0 .. SP - 1 |-> "zero"])
        /\ Step(p, SP)
     \/ nosupermappages(k[p].t, k[p].a) /\ Rollback(p)
  /\ UNCHANGED <<cur, sz, tf>>

uvmalloc_page(p) ==
  /\ Growing(p) /\ ~SuperFits(p)
  /\ \/ mappages(k[p].t, k[p].a, {"R", "U"} \cup k[p].perm, "zero") /\ Step(p, 1)
     \/ nomappages(k[p].t, k[p].a) /\ Rollback(p)
  /\ UNCHANGED <<cur, sz, tf>>

Allocated(p, call) == pc[p] = "alloc" /\ k[p].a * PGSIZE >= k[p].end /\ k[p].call = call
-----------------------------------------------------------------------------
\* uvmunmap(pagetable, va, npages, 1)
uvmunmap(p, c, from, to, call) == Enter(p, "unmap", [c EXCEPT !.a = from, !.end = to, !.call = call])

\* *pte = 0
Cleared(t, l) == [pt EXCEPT ![t][l] = Zero]

Unmapping(p) == pc[p] = "unmap" /\ k[p].a < k[p].end

\* superfree(): pa must be a superpage of the pool.
uvmunmap_super(p) ==
  LET l == <<1, PX(1, k[p].a)>>
      s == pt[k[p].t][l].pa[1]
  IN  /\ Unmapping(p) /\ SuperLeaf(k[p].t, k[p].a)
      /\ pt[k[p].t][l].pa \in Supers \X {0}
      /\ pt' = Cleared(k[p].t, l)
      /\ super' = super \cup {s}
      /\ data' = [f \in Frames |-> IF f \in {s} \X (0 .. SP - 1) THEN "junk" ELSE data[f]]
      /\ Step(p, SP)
      /\ UNCHANGED <<free, cur, sz, tf>>

\* The PTE that walk() finds for page n can be freed and cleared.
Unmappable(t, n) == walk(t, n) # <<>> /\ Valid(pt[t][walk(t, n)]) /\ PTE_LEAF(pt[t][walk(t, n)])

\* For a page inside a superpage walk() finds the superpage's own PTE.
uvmunmap_page(p) ==
  LET l == walk(k[p].t, k[p].a)
  IN  /\ Unmapping(p) /\ ~SuperLeaf(k[p].t, k[p].a)
      /\ Unmappable(k[p].t, k[p].a)
      /\ kfree({pt[k[p].t][l].pa})
      /\ pt' = Cleared(k[p].t, l)
      /\ Step(p, 1)
      /\ UNCHANGED <<super, cur, sz, tf>>

Unmapped(p, calls) == pc[p] = "unmap" /\ k[p].a >= k[p].end /\ k[p].call \in calls

\* The mappings that proc_freepagetable() removes without freeing a frame.
Shared == {<<0, TRAMPOLINE>>, <<0, TRAPFRAME>>}

\* freewalk() panics: a leaf is left.
LeafLeft(t) == \E l \in Locs \ Shared : Valid(pt[t][l]) /\ PTE_LEAF(pt[t][l])

\* The end of proc_freepagetable(): freewalk() and the frames F freed with it.
freewalk(t, F) ==
  /\ ~LeafLeft(t)
  /\ kfree(F \cup {pt[t][l].pa : l \in {m \in Locs \ Shared : Valid(pt[t][m])}})
  /\ pt' = [pt EXCEPT ![t] = [l \in Locs |-> Zero]]
-----------------------------------------------------------------------------
NoWrap(p, n) == sz[p] + n >= 0

\* growproc(n) up to its loop.  A size below zero wraps around to a large
\* one, and uvmdealloc() then does nothing.
growproc(p, n) ==
  /\ pc[p] = "user"
  /\ \/ /\ n > 0 /\ sz[p] + n <= load.max
        /\ uvmalloc(p, [Idle EXCEPT !.t = cur[p]], sz[p], sz[p] + n, {"W"}, "grow")
     \/ /\ n < 0 /\ NoWrap(p, n)
        /\ uvmunmap(p, [Idle EXCEPT !.t = cur[p], !.brk = sz[p] + n],
                    PGROUNDUP(sz[p] + n), PGROUNDUP(sz[p]), "shrink")
  /\ UNCHANGED <<free, super, data, pt, cur, sz, tf>>

growproc_done(p) ==
  /\ \/ Allocated(p, "grow") /\ sz' = [sz EXCEPT ![p] = k[p].end]
     \/ Unmapped(p, {"shrink"}) /\ sz' = [sz EXCEPT ![p] = k[p].brk]
     \/ Unmapped(p, {"grow"}) /\ UNCHANGED sz
  /\ Return(p)
  /\ UNCHANGED <<free, super, data, pt, cur, tf>>

\* proc_pagetable(): a table of the next three frames after skipping some,
\* with the trampoline and the trapframe mapped.
proc_pagetable(skip, frame) ==
  [l \in Locs |-> CASE l = <<3, 0>> -> PTE(Fresh(skip + 1), {})
                    [] l = <<2, PX(2, TRAMPOLINE)>> -> PTE(Fresh(skip + 2), {})
                    [] l = <<1, PX(1, TRAMPOLINE)>> -> PTE(Fresh(skip + 3), {})
                    [] l = <<0, TRAMPOLINE>> -> PTE(Trampoline, {"R", "X"})
                    [] l = <<0, TRAPFRAME>>  -> PTE(frame, {"R", "W"})
                    [] OTHER -> Zero]

Unused(t) == ~Valid(pt[t][<<3, 0>>])

\* The name of a new page table; like a frame's, it is of no account.
NewTable == CHOOSE t \in Tabs : Unused(t)

\* allocproc() of c with table t.  Short of four frames it gives back what it
\* got and fork() fails.
allocproc(c, t) ==
  /\ pc[c] = "unused" /\ \E u \in Tabs : Unused(u)
  /\ kalloc(4)
  /\ tf' = [tf EXCEPT ![c] = Fresh(1)]
  /\ cur' = [cur EXCEPT ![c] = t]
  /\ pt' = [pt EXCEPT ![t] = proc_pagetable(1, Fresh(1))]

\* userinit(): the first process.
userinit ==
  /\ allocproc(Initproc, NewTable)
  /\ Enter(Initproc, "first", [Idle EXCEPT !.t = NewTable])
  /\ UNCHANGED <<super, data, sz>>

\* uvmfirst(), called by userinit().
uvmfirst(p) ==
  /\ pc[p] = "first"
  /\ mappages(k[p].t, 0, {"R", "W", "X", "U"}, "file")
  /\ sz' = [sz EXCEPT ![p] = PGSIZE]
  /\ Return(p)
  /\ UNCHANGED <<cur, tf>>

\* fork() up to the loop of uvmcopy().
fork(p, c) ==
  /\ pc[p] = "user"
  /\ allocproc(c, NewTable)
  /\ pc' = [pc EXCEPT ![p] = "copy", ![c] = "embryo"]
  /\ k' = [k EXCEPT ![p] = [Idle EXCEPT !.t = NewTable, !.child = c]]
  /\ UNCHANGED <<super, data, sz, load>>

Copying(p) == pc[p] = "copy" /\ k[p].a * PGSIZE < sz[p]

\* uvmcopy()'s err: what has been copied is unmapped again.
CopyFails(p) == uvmunmap(p, k[p], 0, k[p].a, "copy")

Copied_bug(f) == "zero"

\* memmove(mem, pa, ...) of a frame
Copied(f) == data[f]

uvmcopy_super(p) ==
  LET e == pt[cur[p]][<<1, PX(1, k[p].a)>>]
  IN  /\ Copying(p) /\ SuperLeaf(cur[p], k[p].a)
      /\ \/ /\ supermappages(k[p].t, k[p].a, e.flags, [j \in 0 .. SP - 1 |-> Copied(<<e.pa[1], j>>)])
            /\ Step(p, SP)
         \/ nosupermappages(k[p].t, k[p].a) /\ CopyFails(p)
      /\ UNCHANGED <<cur, sz, tf>>

uvmcopy_page(p) ==
  LET l == walk(cur[p], k[p].a)
  IN  /\ Copying(p) /\ ~SuperLeaf(cur[p], k[p].a)
      /\ l # <<>> /\ Valid(pt[cur[p]][l])
      /\ \/ /\ mappages(k[p].t, k[p].a, pt[cur[p]][l].flags, Copied(pt[cur[p]][l].pa))
            /\ Step(p, 1)
         \/ nomappages(k[p].t, k[p].a) /\ CopyFails(p)
      /\ UNCHANGED <<cur, sz, tf>>

\* fork() after uvmcopy(): the child can run.
fork_done(p) ==
  /\ pc[p] = "copy" /\ k[p].a * PGSIZE >= sz[p]
  /\ sz' = [sz EXCEPT ![k[p].child] = sz[p]]
  /\ pc' = [pc EXCEPT ![p] = "user", ![k[p].child] = "user"]
  /\ k' = [k EXCEPT ![p] = Idle]
  /\ UNCHANGED <<free, super, data, pt, cur, tf, load>>

\* fork() after a failure of uvmcopy(): freeproc() of the child, whose size
\* is still zero.
fork_failed(p) ==
  LET c == k[p].child
  IN  /\ Unmapped(p, {"copy"})
      /\ freewalk(k[p].t, {tf[c]})
      /\ tf' = [tf EXCEPT ![c] = NULL] /\ cur' = [cur EXCEPT ![c] = NULL]
      /\ pc' = [pc EXCEPT ![p] = "user", ![c] = "unused"]
      /\ k' = [k EXCEPT ![p] = Idle]
      /\ UNCHANGED <<super, sz, load>>

Trapframe_bug(p) == {}

Trapframe(p) == {tf[p]}

\* p is a zombie and wait() calls freeproc(p): up to the loop of uvmunmap().
freeproc(p) ==
  /\ pc[p] = "user" /\ p # Initproc
  /\ kfree(Trapframe(p))
  /\ tf' = [tf EXCEPT ![p] = NULL]
  /\ uvmunmap(p, [Idle EXCEPT !.t = cur[p]], 0, PGROUNDUP(sz[p]), "free")
  /\ UNCHANGED <<super, pt, cur, sz>>

freeproc_done(p) ==
  /\ Unmapped(p, {"free"})
  /\ freewalk(k[p].t, {})
  /\ cur' = [cur EXCEPT ![p] = NULL] /\ sz' = [sz EXCEPT ![p] = 0]
  /\ Enter(p, "unused", Idle)
  /\ UNCHANGED <<super, tf>>
-----------------------------------------------------------------------------
\* exec() up to its loop over the program headers.
exec(p, prog) ==
  /\ pc[p] = "user" /\ \E u \in Tabs : Unused(u)
  /\ kalloc(3)
  /\ pt' = [pt EXCEPT ![NewTable] = proc_pagetable(0, tf[p])]
  /\ Enter(p, "exec", [Idle EXCEPT !.t = NewTable, !.segs = prog])
  /\ UNCHANGED <<super, data, cur, sz, tf>>

\* The uvmalloc() of the next segment, or of the guard page and the stack.
exec_alloc(p) ==
  LET brk == k[p].brk
      seg == Head(k[p].segs)
      top == seg.vaddr * PGSIZE + seg.memsz
  IN  /\ pc[p] = "exec"
      /\ IF k[p].segs # <<>>
           THEN uvmalloc(p, k[p], brk, IF top < brk THEN brk ELSE top, seg.perm, "seg")
           ELSE uvmalloc(p, k[p], brk, (PGROUNDUP(brk) + USERSTACK + 1) * PGSIZE, {"W"}, "stack")
      /\ UNCHANGED <<free, super, data, pt, cur, sz, tf>>

FilePages(seg) == seg.vaddr .. seg.vaddr + PGROUNDUP(seg.filesz) - 1

\* uvmalloc() returned a size (exec() takes 0 for an error) and loadseg() puts
\* the file's pages where walkaddr() says.
loadseg(p) ==
  LET seg  == Head(k[p].segs)
      into == {walkaddr(k[p].t, n) : n \in FilePages(seg)}
  IN  /\ Allocated(p, "seg") /\ k[p].end # 0
      /\ NULL \notin into
      /\ data' = [f \in Frames |-> IF f \in into THEN "file" ELSE data[f]]
      /\ Enter(p, "exec", [k[p] EXCEPT !.brk = k[p].end, !.segs = Tail(@)])
      /\ UNCHANGED <<free, super, pt, cur, sz, tf>>

\* proc_freepagetable(pagetable, size) in exec()
exec_free(p, t, size) == uvmunmap(p, [Idle EXCEPT !.t = t], 0, PGROUNDUP(size), "exec")

\* The stack is there: uvmclear() its guard page, copyout() the arguments to
\* its top, commit to the new image and free the old one.
exec_commit(p) ==
  LET t == k[p].t
      guard == walk(t, PGROUNDUP(k[p].end) - (USERSTACK + 1))
  IN  /\ Allocated(p, "stack")
      /\ guard # <<>>
      /\ pt' = [pt EXCEPT ![t][guard].flags = @ \ {"U"}]
      /\ data' = [data EXCEPT ![walkaddr(t, PGROUNDUP(k[p].end) - 1)] = "user"]
      /\ cur' = [cur EXCEPT ![p] = t]
      /\ sz' = [sz EXCEPT ![p] = k[p].end]
      /\ exec_free(p, cur[p], sz[p])
      /\ UNCHANGED <<free, super, tf>>

\* exec()'s bad: a program header that cannot be read or is refused, out of
\* memory in uvmalloc(), an error reading the file, or arguments that do not
\* fit.
exec_bad(p) ==
  /\ \/ pc[p] = "exec" /\ k[p].segs # <<>> /\ exec_free(p, k[p].t, k[p].brk)
     \/ Unmapped(p, {"seg", "stack"}) /\ exec_free(p, k[p].t, k[p].brk)
     \/ (Allocated(p, "seg") \/ Allocated(p, "stack")) /\ exec_free(p, k[p].t, k[p].end)
  /\ UNCHANGED <<free, super, data, pt, cur, sz, tf>>

exec_done(p) ==
  /\ Unmapped(p, {"exec"})
  /\ freewalk(k[p].t, {})
  /\ Return(p)
  /\ UNCHANGED <<super, cur, sz, tf>>
-----------------------------------------------------------------------------
\* User code stores to page n.
store(p, n) ==
  /\ pc[p] = "user" /\ n \in load.stores
  /\ MMU(cur[p], n) # NULL /\ {"U", "W"} \subseteq pt[cur[p]][walk(cur[p], n)].flags
  /\ data' = [data EXCEPT ![MMU(cur[p], n)] = "user"]
  /\ UNCHANGED <<free, super, pt, pc, k, cur, sz, tf, load>>

\* copyout() to page n, in a system call such as read().
copyout(p, n) ==
  /\ pc[p] = "user" /\ n \in load.copies
  /\ walk(cur[p], n) # <<>> /\ "W" \in pt[cur[p]][walk(cur[p], n)].flags
  /\ walkaddr(cur[p], n) # NULL
  /\ data' = [data EXCEPT ![walkaddr(cur[p], n)] = "user"]
  /\ UNCHANGED <<free, super, pt, pc, k, cur, sz, tf, load>>
-----------------------------------------------------------------------------
\* kinit() and superinit(): all memory is free, no process exists.
Init == /\ load \in Workloads
        /\ free = load.pages /\ super = load.supers
        /\ data = [f \in Frames |-> "junk"]
        /\ pt = [t \in Tabs |-> [l \in Locs |-> Zero]]
        /\ pc = [p \in Procs |-> "unused"]
        /\ k = [p \in Procs |-> Idle]
        /\ cur = [p \in Procs |-> NULL]
        /\ sz = [p \in Procs |-> 0]
        /\ tf = [p \in Procs |-> NULL]

Next == \/ userinit
        \/ \E p \in Procs :
             \/ uvmfirst(p)
             \/ \E n \in load.deltas : growproc(p, n)
             \/ growproc_done(p)
             \/ uvmalloc_super(p) \/ uvmalloc_page(p)
             \/ uvmunmap_super(p) \/ uvmunmap_page(p)
             \/ \E c \in Procs : fork(p, c)
             \/ uvmcopy_super(p) \/ uvmcopy_page(p) \/ fork_done(p) \/ fork_failed(p)
             \/ freeproc(p) \/ freeproc_done(p)
             \/ \E prog \in load.programs : exec(p, prog)
             \/ exec_alloc(p) \/ loadseg(p) \/ exec_commit(p) \/ exec_bad(p) \/ exec_done(p)
             \/ \E n \in load.stores : store(p, n)
             \/ \E n \in load.copies : copyout(p, n)

Spec == Init /\ [][Next]_vars
-----------------------------------------------------------------------------
Flags == {"V", "R", "W", "X", "U"}

TypeOK ==
  /\ free \subseteq Frames /\ super \subseteq Supers
  /\ data \in [Frames -> {"junk", "zero", "file", "user"}]
  /\ pt \in [Tabs -> [Locs -> [pa : Frames \cup {NULL, Trampoline}, flags : SUBSET Flags]]]
  /\ pc \in [Procs -> {"unused", "embryo", "first", "user", "alloc", "unmap", "copy", "exec"}]
  /\ cur \in [Procs -> Tabs \cup {NULL}]
  /\ sz \in [Procs -> 0 .. load.max]
  /\ tf \in [Procs -> Frames \cup {NULL}]

\* The frames that the PTE at location l of table t owns: the page-table page
\* or page it points to, all of a superpage, none for what is Shared.
Owned(t, l) ==
  LET e == pt[t][l]
  IN  IF ~Valid(e) \/ l \in Shared THEN {}
      ELSE IF l[1] = 1 /\ PTE_LEAF(e) THEN {e.pa[1]} \X (0 .. SP - 1)
      ELSE {e.pa}

\* No frame of memory has two uses.  Whatever processes grow, shrink, fork,
\* fail and exit at once, a frame is free, or in the superpage pool, or one
\* trapframe, or belongs to one PTE of one page table.
Exclusive ==
  LET Uses == (UNION {{x} \X Owned(x[1], x[2]) : x \in Tabs \X Locs})
                \cup {<<p, tf[p]>> : p \in {q \in Procs : tf[q] # NULL}}
      Pool == super \X (0 .. SP - 1)
  IN  /\ \A u, v \in Uses : u[2] = v[2] => u = v
      /\ \A u \in Uses : u[2] \notin free \cup Pool
      /\ free \cap Pool = {}

\* The frames that kmem has, or gave out one by one.
Singles == free \cup {tf[p] : p \in {q \in Procs : tf[q] # NULL}}
             \cup {pt[x[1]][x[2]].pa : x \in {y \in Tabs \X (Locs \ Shared) :
                                               y[2][1] # 1 \/ ~PTE_LEAF(pt[y[1]][y[2]])}}

\* The superpages that a shrink has split: a shrink that ends inside one makes
\* uvmunmap() give the first frame of it to kfree() and clear the PTE of all.
Split == {s \in load.supers : <<s, 0>> \in Singles}

\* No frame is lost: each is free, in the pool, a trapframe or in a table, on
\* every path of failure of uvmalloc(), uvmcopy() and exec() and after exit.
\* The only frames that are lost are the others of a superpage that a shrink
\* has split.
NoLeak ==
  load.pages \cup (load.supers \X (0 .. SP - 1)) =
    free \cup (super \X (0 .. SP - 1)) \cup {tf[p] : p \in {q \in Procs : tf[q] # NULL}}
      \cup (UNION {Owned(t, l) : t \in Tabs, l \in Locs})
      \cup (Split \X (1 .. SP - 1))

\* A table is freed with its process and never before: the tables in use are
\* the ones of processes and the one that an exec() or fork() is filling or
\* taking down.
TablesMatchProcs ==
  \A t \in Tabs : ~Unused(t) <=> \E p \in Procs : cur[p] = t \/ (pc[p] # "user" /\ k[p].t = t)

\* Memory is in order: types, tables that belong to processes, frames with one
\* use each.
VmInv == TypeOK /\ TablesMatchProcs /\ Exclusive

\* p stands before a panic of vm.c, exec.c or kalloc.c: "remap" in
\* supermappages() and in mappages(); "walk", "not mapped" and "not a leaf" in
\* uvmunmap(), and superfree() of no superpage; "pte should exist" in
\* uvmcopy(); "leaf" in freewalk(); "address should exist" in loadseg().
RemapPanics(p) == Growing(p) /\ SuperFits(p) /\ super # {} /\ SuperRemap(k[p].t, k[p].a)

Panics(p) ==
  \/ RemapPanics(p)
  \/ Growing(p) /\ ~SuperFits(p) /\ free # {} /\ Remap(k[p].t, k[p].a)
  \/ Unmapping(p) /\ IF SuperLeaf(k[p].t, k[p].a) THEN pt[k[p].t][<<1, PX(1, k[p].a)>>].pa \notin Supers \X {0}
                                                  ELSE ~Unmappable(k[p].t, k[p].a)
  \/ Copying(p) /\ MMU(cur[p], k[p].a) = NULL
  \/ Unmapped(p, {"copy", "free", "exec"}) /\ LeafLeft(k[p].t)
  \/ Allocated(p, "seg") /\ \E n \in 0 .. PGROUNDUP(k[p].end) - 1 : walkaddr(k[p].t, n) = NULL

\* The level-1 PTE of page n points to a page-table page with no valid PTE.
EmptyTable(t, n) ==
  LET e == pt[t][<<1, PX(1, n)>>]
  IN  /\ Valid(e) /\ ~PTE_LEAF(e)
      /\ \A m \in 0 .. SP - 1 : <<0, n + m>> \in Locs => ~Valid(pt[t][<<0, n + m>>])

\* Only sbrk() calls of two kinds bring a process before a panic.  It grows
\* over a superpage where an earlier sbrk() or a failed one left its
\* page-table page behind, which uvmunmap() does not free and supermappages()
\* takes for a mapping; or a shrink has ended inside a superpage.  All other
\* calls, at whatever point they run out of memory, and whatever the others
\* do, never get there.
PanicOnlyAfterShrink ==
  \A p \in Procs : Panics(p) => (RemapPanics(p) /\ EmptyTable(k[p].t, k[p].a)) \/ Split # {}

\* vm.c:145: walkaddr() is to "Look up a virtual address, return the physical
\* address": the frame that the hardware uses for it.
WalkaddrIsPhysical ==
  \A p \in Procs : pc[p] = "user" =>
    \A n \in 0 .. PGROUNDUP(sz[p]) - 1 : walkaddr(cur[p], n) \in {NULL, MMU(cur[p], n)}
-----------------------------------------------------------------------------
(* Refinement of AddressSpaces.                                             *)

\* The size that page table cur[p] is good for: while sbrk() shrinks, the new
\* one.
Visible(p) == IF pc[p] = "unmap" /\ k[p].call = "shrink" THEN k[p].brk ELSE sz[p]

Exists(p) == /\ pc[p] \notin {"unused", "embryo", "first"}
             /\ ~(pc[p] = "unmap" /\ k[p].call = "free")

Memory == [p \in Procs |->
             IF Exists(p)
               THEN [n \in 0 .. PGROUNDUP(Visible(p)) - 1 |->
                       IF MMU(cur[p], n) = NULL THEN "fault" ELSE data[MMU(cur[p], n)]]
               ELSE NULL]

\* The size of a program's segments, of its image, and what a page of it holds:
\* the file, zeroes (also below a segment and in the guard page) and in the
\* last page the arguments.
Breaks(prog) == {prog[i].vaddr * PGSIZE + prog[i].memsz : i \in 1 .. Len(prog)}
ImageSize(prog) == PGROUNDUP(CHOOSE b \in Breaks(prog) : \A c \in Breaks(prog) : c <= b) + USERSTACK + 1
Image(prog) ==
  [n \in 0 .. ImageSize(prog) - 1 |->
     IF n = ImageSize(prog) - 1 THEN "user"
     ELSE IF \E i \in 1 .. Len(prog) : n \in prog[i].vaddr .. prog[i].vaddr + PGROUNDUP(prog[i].filesz) - 1
       THEN "file" ELSE "zero"]

Abs == INSTANCE AddressSpaces WITH
         mem <- Memory, None <- NULL, Pages <- 0 .. PGROUNDUP(MaxSize), Group <- SP,
         Images <- {Image(prog) : prog \in UNION {w.programs : w \in Workloads}}

\* Through the hardware's translation every process sees a memory of its own:
\* zeroed when it grows, kept when it shrinks, copied by fork(), replaced by
\* exec(), unchanged by calls that fail half-way and by other processes.  What
\* a shrink that ends inside a superpage destroys is the process's own.
Isolated == Abs!Spec
=============================================================================
