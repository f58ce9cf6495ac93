-------------------------------- MODULE MCVm -------------------------------
(* User memory on small instances.                                          *)
EXTENDS Vm

CONSTANTS Pages14, Pages18, Pages20  \* memories of 14, 18 and 20 pages
CONSTANT Supers1                     \* a pool of one superpage

\* sbrk() by pages only, too few of them for two processes.
Paging == [pages |-> Pages14, supers |-> {}, deltas |-> {3, -2}, max |-> 8,
           programs |-> {}, stores |-> {1}, copies |-> {1}]

\* exec() of a page of text, then data with a bss; and of an empty segment.
Executing == [pages |-> Pages20, supers |-> {}, deltas |-> {}, max |-> 10,
              programs |-> {<< [vaddr |-> 0, memsz |-> 2, filesz |-> 2, perm |-> {"X"}],
                               [vaddr |-> 1, memsz |-> 3, filesz |-> 1, perm |-> {"W"}] >>,
                            << [vaddr |-> 0, memsz |-> 0, filesz |-> 0, perm |-> {}] >>},
              stores |-> {1}, copies |-> {}]

\* sbrk() over a superpage, or by too little for one; stores to the superpage.
Superpages == [pages |-> Pages18, supers |-> Supers, deltas |-> {3, 10}, max |-> 15,
               programs |-> {}, stores |-> {4}, copies |-> {}]

\* One superpage for everybody, and shrinks: back from pages where a superpage
\* would fit, and into a superpage.
Shrinking == [Superpages EXCEPT !.supers = Supers1, !.deltas = {6, 10, -3}, !.max = 12, !.stores = {}]

All == {Paging, Executing, Superpages, Shrinking}

\* The same with copyout() to a page inside the superpage.
CopyingOut == {[Superpages EXCEPT !.copies = {4}]}
=============================================================================
