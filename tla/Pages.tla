------------------------------- MODULE Pages -------------------------------
(***************************************************************************)
(* Page allocation of kernel/memory.c as functions of the state m of the   *)
(* memory pools, a record                                                  *)
(*   used   the page frames whose bit is set in a pool's bitmap            *)
(*   vaddr  vaddr[s]: the virtual pages whose bit is set, for the kernel   *)
(*          (kernel_vaddr) and for every process (userprog_vaddr)          *)
(*   pte    pte[s][g]: the frame page g is mapped to, or NULL              *)
(*   pde    pde[p]: the frame of p's page table, or NULL                   *)
(*   panic  an ASSERT or PANIC was met                                     *)
(*   full   it was that of bitmap_scan(), that a bit is clear              *)
(* Frames below UserStart are the kernel pool's, the others the user       *)
(* pool's.  The user pages of a process share one page table here.         *)
(***************************************************************************)
EXTENDS Naturals, FiniteSets, Ranks

CONSTANTS
  Proc,        \* the processes there can be
  kernel,      \* the kernel's part of every address space
  NULL,
  UserStart,   \* the number of frames, and of pages, of the kernel
  NFrame,      \* the number of all frames
  NPage        \* bound: pages of a user address space

ASSUME PagesAssumption ==
  /\ kernel \notin Proc
  /\ UserStart \in Nat /\ NFrame \in Nat /\ UserStart <= NFrame
  /\ NPage \in Nat
  /\ NULL \notin Nat

Frame == 0..NFrame - 1
Space == Proc \cup {kernel}
PageOf(s) == IF s = kernel THEN 0..UserStart - 1 ELSE 0..NPage - 1
PoolOf(s) == IF s = kernel THEN 0..UserStart - 1 ELSE UserStart..NFrame - 1

Free(m, s) == PoolOf(s) \ m.used

\* mem_pool_init(): nothing is allocated.
mem_pool_init ==
  [used |-> {}, vaddr |-> [s \in Space |-> {}],
   pte |-> [s \in Space |-> [g \in PageOf(s) |-> NULL]],
   pde |-> [p \in Proc |-> NULL], panic |-> FALSE, full |-> FALSE]

PANIC(m) == [m EXCEPT !.panic = TRUE]
FULL(m) == [m EXCEPT !.panic = TRUE, !.full = TRUE]

-----------------------------------------------------------------------------
\* bitmap_scan() in a virtual bitmap: the first cnt consecutive clear bits.
FitsAt(m, s, cnt, i) == i..i + cnt - 1 \subseteq PageOf(s) \ m.vaddr[s]
HasRoom(m, s, cnt) == \E i \in PageOf(s) : FitsAt(m, s, cnt, i)
\* There are clear bits, but not cnt in a row: it returns -1 and the caller NULL.
Refused(m, s, cnt) == PageOf(s) \ m.vaddr[s] # {} /\ ~HasRoom(m, s, cnt)
vaddr_get(m, s, cnt) ==
  CHOOSE i \in PageOf(s) :
    FitsAt(m, s, cnt, i) /\ \A j \in PageOf(s) : FitsAt(m, s, cnt, j) => i <= j

Run(start, cnt) == start..start + cnt - 1

\* page_table_add(), first part: a page table is made when there is none.
add_pde(m, s) ==
  IF s = kernel \/ m.pde[s] # NULL THEN m
  ELSE IF Free(m, kernel) = {} THEN FULL(m)
  ELSE [m EXCEPT !.pde[s] = Nth(Free(m, kernel), 0),
                 !.used = @ \cup {Nth(Free(m, kernel), 0)}]

\* palloc() and page_table_add() for each of a set of pages, lowest first: each
\* gets the lowest free frame of the pool.  bitmap_scan() asserts that there
\* is one, page_table_add() that the page is not mapped.
palloc_add(m, s, pages) ==
  LET n == add_pde(m, s)
      free == Free(n, s)
      frame == [g \in pages |-> Nth(free, Rank(pages, g))]
  IN  IF \E g \in pages : n.pte[s][g] # NULL THEN PANIC(n)
      ELSE IF Cardinality(free) < Cardinality(pages) THEN FULL(n)
      ELSE [n EXCEPT !.used = @ \cup {frame[g] : g \in pages},
                     !.pte[s] = [g \in PageOf(s) |->
                                   IF g \in pages THEN frame[g] ELSE n.pte[s][g]]]

\* malloc_page(): cnt virtual pages, each with a frame, of one that is not
\* Refused.  bitmap_scan() asserts that a bit is clear.
malloc_page(m, s, cnt) ==
  LET pages == Run(vaddr_get(m, s, cnt), cnt)
  IN  IF HasRoom(m, s, cnt) THEN palloc_add([m EXCEPT !.vaddr[s] = @ \cup pages], s, pages)
      ELSE FULL(m)

\* mfree_page(): frames, page table entries and virtual pages are given back;
\* a page that is not mapped fails the ASSERT on the frame's address.
mfree_page(m, s, start, cnt) ==
  LET pages == Run(start, cnt)
  IN  IF \E g \in pages : g \notin PageOf(s) \/ m.pte[s][g] = NULL THEN PANIC(m)
      ELSE [m EXCEPT !.used = @ \ {m.pte[s][g] : g \in pages},
                     !.pte[s] = [g \in PageOf(s) |->
                                   IF g \in pages THEN NULL ELSE m.pte[s][g]],
                     !.vaddr[s] = @ \ pages]

\* Mutant: the frame of the page table is forgotten.
free_user_space_keeps_pde(m, p) ==
  [m EXCEPT !.used = @ \ {m.pte[p][g] : g \in PageOf(p)},
            !.pte[p] = [g \in PageOf(p) |-> NULL],
            !.pde[p] = NULL,
            !.vaddr[p] = {}]

\* release_prog_resource(): free_a_phy_page() for every mapped frame and for
\* the page table.  The tables are never used again.
free_user_space(m, p) ==
  [m EXCEPT !.used = @ \ ({m.pte[p][g] : g \in PageOf(p)} \cup {m.pde[p]}),
            !.pte[p] = [g \in PageOf(p) |-> NULL],
            !.pde[p] = NULL,
            !.vaddr[p] = {}]
=============================================================================
