------------------------------- MODULE Memory -------------------------------
(***************************************************************************)
(* Who owns the physical pages (kernel/kalloc.c, vm.c, exec.c and the      *)
(* parts of proc.c that make and free processes, as in ass1): page tables  *)
(* are trees of pages, every operation allocates page by page, and every   *)
(* allocation may find the free list empty.                                *)
(*                                                                         *)
(* A page is not told from another: free counts the free list.  A page     *)
(* table is the set of its lower table pages (a level and an index) and of *)
(* the virtual pages that are mapped.  A system call is one step: another  *)
(* process could only take or give back pages meanwhile, which is to say   *)
(* that the call could start with fewer or more of them free.              *)
(***************************************************************************)
EXTENDS Naturals, FiniteSets, Folds

CONSTANTS NPROC,
          NFRAMES,  (* pages between end and PHYSTOP                         *)
          FAN,      (* entries of a table page                               *)
          MAXPAGE,  (* virtual pages                                         *)
          MaxSize   (* bound: pages of user memory                           *)

MemoryConstants ==
  /\ NPROC \in Nat \ {0} /\ NFRAMES \in Nat /\ FAN \in Nat \ {0, 1}
  /\ MAXPAGE \in Nat /\ MaxSize + 2 <= MAXPAGE

VARIABLES
  free,      \* how many pages kmem.freelist has
  procs,     \* the processes: state, trapframe, page table, p->sz in pages
  pipes,     \* how many pages are pipes
  panicked

memVars == <<free, procs, pipes, panicked>>

Slots == 1..NPROC
TRAMPOLINE == MAXPAGE - 1
TRAPFRAME == MAXPAGE - 2

(* A page table, with the free list it allocates from; ok: no allocation   *)
(* failed; panic: the kernel stopped.                                      *)
Mem(pt, n) == [root |-> pt.root, nodes |-> pt.nodes, pages |-> pt.pages, free |-> n, ok |-> TRUE, panic |-> FALSE]
NoTable == [root |-> FALSE, nodes |-> {}, pages |-> {}]
Table(m) == [root |-> m.root, nodes |-> m.nodes, pages |-> m.pages]
Unused == [state |-> "UNUSED", tf |-> FALSE, pt |-> NoTable, sz |-> 0]

Pages(pt) == Cardinality(pt.nodes) + Cardinality(pt.pages \ {TRAMPOLINE, TRAPFRAME})
             + (IF pt.root THEN 1 ELSE 0)
Owned(p) == Pages(p.pt) + (IF p.tf THEN 1 ELSE 0)
-----------------------------------------------------------------------------
(* walk with alloc: the table pages on the way to v that are missing, from *)
(* the top; what was allocated before one is refused stays.                *)
Path(v) == <<<<1, v \div (FAN * FAN)>>, <<0, v \div FAN>>>>
TablePage(w, node) ==
  IF ~w.ok \/ node \in w.nodes THEN w
  ELSE IF w.free = 0 THEN [w EXCEPT !.ok = FALSE]
  ELSE [w EXCEPT !.nodes = @ \cup {node}, !.free = @ - 1]
Walk(m, v) == TablePage(TablePage(m, Path(v)[1]), Path(v)[2])

Mapped(m, v) ==
  LET w == Walk(m, v) IN
  IF ~w.ok THEN w
  ELSE IF v \in w.pages THEN [w EXCEPT !.panic = TRUE]
  ELSE [w EXCEPT !.pages = @ \cup {v}]

(* uvmunmap of the pages from a up to b: they must be mapped.              *)
Unmap(m, a, b, doFree) ==
  LET vs == {v \in a..MAXPAGE : v < b} IN
  [m EXCEPT !.panic = @ \/ ~(vs \subseteq m.pages),
            !.pages = @ \ vs,
            !.free = IF doFree THEN @ + Cardinality(vs \cap m.pages) ELSE @]

(* A page of user memory: kalloc, mappages, and kfree if that fails.       *)
\* Variant: the page is kept when its table page is refused.
NewPageLeaks(m, v) ==
  IF ~m.ok THEN m
  ELSE IF m.free = 0 THEN [m EXCEPT !.ok = FALSE]
  ELSE Mapped([m EXCEPT !.free = @ - 1], v)

NewPage(m, v) ==
  IF ~m.ok THEN m
  ELSE IF m.free = 0 THEN [m EXCEPT !.ok = FALSE]
  ELSE LET w == Mapped([m EXCEPT !.free = @ - 1], v) IN
       IF w.ok THEN w ELSE [w EXCEPT !.free = @ + 1]

NewPages(m, a, b) ==
  LET upto[v \in a..b] == IF v = a THEN m ELSE NewPage(upto[v - 1], v - 1) IN upto[b]

Got(m, a, b) == Cardinality({v \in m.pages : a <= v /\ v < b})

(* uvmalloc and uvmcopy give back the pages they got.                      *)
Uvmalloc(m, a, b) ==
  LET g == NewPages(m, a, b) IN
  IF g.ok THEN g ELSE Unmap(g, a, a + Got(g, a, b), TRUE)

(* proc_pagetable *)
ProcPagetable(n) ==
  LET r == [Mem(NoTable, n) EXCEPT !.root = n > 0, !.free = IF n > 0 THEN n - 1 ELSE 0, !.ok = n > 0]
      t == IF r.ok THEN Mapped(r, TRAMPOLINE) ELSE r
  IN IF t.ok THEN Mapped(t, TRAPFRAME) ELSE t

(* uvmfree: the user memory by its size, then the table pages, which must  *)
(* have no leaf left.                                                      *)
Uvmfree(m, sz) ==
  LET u == Unmap(m, 0, sz, TRUE) IN
  [u EXCEPT !.panic = @ \/ u.pages # {}, !.nodes = {}, !.root = FALSE, !.pages = {},
            !.free = @ + Cardinality(u.nodes) + 1]

FreePagetable(m, sz) == Uvmfree(Unmap(m, TRAPFRAME, TRAMPOLINE + 1, FALSE), sz)

(* proc_pagetable's own way back: what is mapped is not freed by sz.       *)
FailedPagetable(m) ==
  IF m.root THEN Uvmfree(Unmap(m, TRAMPOLINE, TRAMPOLINE + Got(m, TRAMPOLINE, TRAMPOLINE + 1), FALSE), 0) ELSE m
-----------------------------------------------------------------------------
(* userinit: allocproc and one page. *)
FirstTable == NewPage(ProcPagetable(NFRAMES - 1), 0)

Init ==
  /\ procs = [s \in Slots |-> IF s = 1 THEN [state |-> "LIVE", tf |-> TRUE, pt |-> Table(FirstTable), sz |-> 1]
                                        ELSE Unused]
  /\ free = FirstTable.free
  /\ pipes = 0 /\ panicked = FALSE

Becomes(s, p, m) ==
  /\ procs' = [procs EXCEPT ![s] = p]
  /\ free' = m.free /\ panicked' = m.panic
  /\ UNCHANGED pipes

Live(s) == procs[s].state = "LIVE" /\ ~panicked

(* growproc *)
Sbrk(s, n) ==
  LET p == procs[s]
      m == IF n > p.sz THEN Uvmalloc(Mem(p.pt, free), p.sz, n) ELSE Unmap(Mem(p.pt, free), n, p.sz, TRUE)
  IN /\ Live(s)
     /\ Becomes(s, [p EXCEPT !.pt = Table(m), !.sz = IF m.ok THEN n ELSE @], m)

(* fork: allocproc (trapframe, page table) and uvmcopy; freeproc when one  *)
(* of them fails, before np->sz is set.                                    *)
Fork(s, c) ==
  LET p == procs[s]
      t == ProcPagetable(free - 1)
      m == Uvmalloc(t, 0, p.sz)
      f == IF t.ok THEN FreePagetable(m, 0) ELSE FailedPagetable(t)
  IN /\ Live(s) /\ procs[c].state = "UNUSED" /\ \A d \in Slots : d < c => procs[d].state # "UNUSED"
     /\ IF free = 0 THEN Becomes(c, Unused, Mem(NoTable, free))
        ELSE IF t.ok /\ m.ok
        THEN Becomes(c, [state |-> "LIVE", tf |-> TRUE, pt |-> Table(m), sz |-> p.sz], m)
        ELSE Becomes(c, Unused, [f EXCEPT !.free = @ + 1])

(* exec: a new page table with the n pages of the program, then two for    *)
(* guard and stack.  It gives up when memory is short, when the file is    *)
(* not right (stop: loaded), or when the arguments do not fit (stop:       *)
(* stacked); sz is what has been added so far.                             *)
Exec(s, n, stop) ==
  LET p == procs[s]
      t == ProcPagetable(free)
      a == Uvmalloc(t, 0, n)
      b == Uvmalloc(a, n, n + 2)
      bad(m, sz) == LET f == FreePagetable(m, sz) IN Becomes(s, p, f)
      old == FreePagetable(Mem(p.pt, b.free), p.sz)
  IN /\ Live(s)
     /\ IF ~t.ok THEN Becomes(s, p, FailedPagetable(t))
        ELSE IF ~a.ok THEN bad(a, 0)
        ELSE IF stop = "loaded" THEN bad(a, n)
        ELSE IF ~b.ok THEN bad(b, n)
        ELSE IF stop = "stacked" THEN bad(b, n + 2)
        ELSE Becomes(s, [p EXCEPT !.pt = Table(b), !.sz = n + 2], old)

Exit(s) ==
  /\ Live(s) /\ s # 1
  /\ procs' = [procs EXCEPT ![s].state = "ZOMBIE"]
  /\ UNCHANGED <<free, pipes, panicked>>

(* wait: freeproc *)
Reap(s) ==
  LET m == FreePagetable(Mem(procs[s].pt, free), procs[s].sz) IN
  /\ procs[s].state = "ZOMBIE" /\ ~panicked
  /\ Becomes(s, Unused, [m EXCEPT !.free = @ + 1])

(* pipealloc, and pipeclose of the second end. *)
PipeOpen == free > 0 /\ ~panicked /\ free' = free - 1 /\ pipes' = pipes + 1 /\ UNCHANGED <<procs, panicked>>
PipeFree == pipes > 0 /\ ~panicked /\ free' = free + 1 /\ pipes' = pipes - 1 /\ UNCHANGED <<procs, panicked>>

Next ==
  \/ \E s \in Slots :
       \/ (\E n \in 0..MaxSize : Sbrk(s, n)) \/ Exit(s) \/ Reap(s)
       \/ (\E c \in Slots : Fork(s, c))
       \/ \E n \in 1..(MaxSize - 2), stop \in {"loaded", "stacked", "not"} : Exec(s, n, stop)
  \/ PipeOpen \/ PipeFree

Spec == Init /\ [][Next]_memVars
-----------------------------------------------------------------------------
(* p->sz says exactly what is mapped, and a table page is there for every   *)
(* page that is: what a failed call leaves behind is what it found.         *)
SizeIsMapped ==
  \A s \in Slots : LET p == procs[s] IN
    IF p.state = "UNUSED" THEN p = Unused
    ELSE /\ p.tf /\ p.pt.root
         /\ p.pt.pages = {v \in 0..MAXPAGE : v < p.sz} \cup {TRAMPOLINE, TRAPFRAME}
         /\ \A v \in p.pt.pages : {Path(v)[1], Path(v)[2]} \subseteq p.pt.nodes

(* Whatever fails, and at whichever page: no page is lost or freed twice,   *)
(* no panic of vm.c ("remap", "not mapped", "freewalk: leaf") is met, and   *)
(* the page tables are right.                                               *)
FramesConserved ==
  /\ free + pipes + MapThenFoldSet(+, 0, LAMBDA s : Owned(procs[s]), LAMBDA S : CHOOSE s \in S : TRUE, Slots)
       = NFRAMES
  /\ ~panicked /\ SizeIsMapped
=============================================================================
