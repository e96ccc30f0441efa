-------------------------------- MODULE Heap --------------------------------
(***************************************************************************)
(* The memory of user processes: malloc() and free() with the arenas and   *)
(* free lists of kernel/memory.c, sys_fork(), which copies the address     *)
(* space (userprog/fork.c), sys_execv(), which loads a program over it     *)
(* (userprog/exec.c), sys_exit() and the reaping of the pcb.               *)
(*                                                                         *)
(* All of them are system calls that run with interrupts off and do not    *)
(* block here, so each is one step.  A free list is a doubly linked list:  *)
(* its head and tail are in the pcb, in kernel memory, its elements in the *)
(* free blocks themselves, in the user pages.  A pointer to a block is     *)
(* followed in the address space of whoever runs, and pages are copied     *)
(* with the pointers in them, so the links are modelled.                   *)
(*                                                                         *)
(* One size of blocks is modelled (of the seven), with Blocks of them in   *)
(* an arena.  What a program writes into its blocks is left out: a block   *)
(* in use holds the zeros of memset().                                     *)
(*                                                                         *)
(* A program is loaded where the heap begins, and neither the pages nor    *)
(* the free lists of the process are reset.  A process that loses blocks   *)
(* it still uses in this way is "overwritten", and nothing is said of it   *)
(* but that it can exit.                                                   *)
(***************************************************************************)
EXTENDS Pages, Integers, Sequences

CONSTANTS
  First,          \* init, the first process, which never exits and never loads a program
  Blocks,         \* blocks_per_arena
  LargeSizes,     \* the sizes, in pages, of allocations of more than 1024 bytes
  ProgramSizes,   \* the sizes, in pages, of the segments of programs
  BtmpLen,        \* bytes of a process's virtual bitmap
  PgSize,         \* bytes of a page, to the scale of BtmpLen
  MaxExit,        \* bound: calls of exit()
  MaxFail         \* bound: calls of fork() that fail

ASSUME HeapAssumption ==
  /\ First \in Proc
  /\ Blocks \in Nat \ {0} /\ LargeSizes \subseteq Nat \ {0}
  /\ ProgramSizes \subseteq 1..NPage - 1
  /\ BtmpLen \in Nat \ {0} /\ PgSize \in 1..BtmpLen
  /\ MaxExit \in Nat /\ MaxFail \in Nat

VARIABLES
  m,       \* the pools, address spaces and page tables of module Pages
  mem,     \* mem[f]: what the kernel reads and writes in user frame f
  list,    \* list[p]: head.next and tail.prev of the free list in p's pcb
  kobj,    \* kobj[p]: the kernel pages of p's pcb, bitmap and page directory
  state,   \* state[p]: "none", "live", "overwritten" or "zombie"
  held,    \* held[p]: the pointers p got from malloc() and did not free
  gone,    \* history: those that p's program before execv() had not freed
  astray,  \* history: a block of an arena that was inherited has been freed
  exits,   \* history: the number of exits
  failed   \* history: the number of forks that failed

vars == <<m, mem, list, kobj, state, held, gone, astray, exits, failed>>

\* Nodes of a free list: block i of the arena in page g is <<g, i>>; the head
\* and the tail of the list in the pcb at kernel page k are <<-1, k>> and
\* <<-2, k>>; <<-3, 0>> is a null pointer.
HEAD(k) == <<-1, k>>
TAIL(k) == <<-2, k>>
NIL == <<-3, 0>>

\* An arena: its desc (the pcb the descriptor is in), the count of free blocks,
\* or of pages, and the links in its blocks.
Zero ==
  [desc |-> NULL, cnt |-> 0, large |-> FALSE,
   link |-> [i \in 0..Blocks - 1 |-> [prev |-> NIL, next |-> NIL]]]

UserFrame == PoolOf(First)

\* The model follows the machine to its stop, or to an astray free().
Up == ~m.panic /\ ~astray
Alive(p) == Up /\ state[p] = "live"

\* DIV_ROUND_UP() when the bitmap is allocated, / when it is freed.
BitmapPages == (BtmpLen + PgSize - 1) \div PgSize
FreedPages == BtmpLen \div PgSize

Pcb(p) == kobj[p].pcb

-----------------------------------------------------------------------------
\* lib/kernel/list.c on a state h of frames and list ends, the address space
\* of p being active.  Following a pointer to where nothing is mapped, or to a
\* pcb that is gone, is a page fault, and its handler stops the machine.
Owners(k) == {q \in Proc : state[q] # "none" /\ Pcb(q) = k}
Mapped(s, p, n) == n[1] >= 0 /\ n[1] < NPage /\ s.pte[p][n[1]] # NULL
At(s, p, n) == s.pte[p][n[1]]

next(h, s, p, n) ==
  CASE n[1] = -1 /\ Owners(n[2]) # {} -> h.list[CHOOSE q \in Owners(n[2]) : TRUE].head
    [] Mapped(s, p, n) -> h.mem[At(s, p, n)].link[n[2]].next
    [] OTHER -> NIL

prev(h, s, p, n) ==
  CASE n[1] = -2 /\ Owners(n[2]) # {} -> h.list[CHOOSE q \in Owners(n[2]) : TRUE].tail
    [] Mapped(s, p, n) -> h.mem[At(s, p, n)].link[n[2]].prev
    [] OTHER -> NIL

set_next(h, s, p, n, v) ==
  CASE n[1] = -1 /\ Owners(n[2]) # {} ->
         [h EXCEPT !.list[CHOOSE q \in Owners(n[2]) : TRUE].head = v]
    [] Mapped(s, p, n) -> [h EXCEPT !.mem[At(s, p, n)].link[n[2]].next = v]
    [] OTHER -> [h EXCEPT !.panic = TRUE]

set_prev(h, s, p, n, v) ==
  CASE n[1] = -2 /\ Owners(n[2]) # {} ->
         [h EXCEPT !.list[CHOOSE q \in Owners(n[2]) : TRUE].tail = v]
    [] Mapped(s, p, n) -> [h EXCEPT !.mem[At(s, p, n)].link[n[2]].prev = v]
    [] OTHER -> [h EXCEPT !.panic = TRUE]

list_append(h, s, p, k, n) ==
  LET before == prev(h, s, p, TAIL(k))
      h1 == set_next(h, s, p, before, n)
      h2 == set_prev(h1, s, p, n, before)
      h3 == set_next(h2, s, p, n, TAIL(k))
  IN  set_prev(h3, s, p, TAIL(k), n)

list_remove(h, s, p, n) ==
  LET before == prev(h, s, p, n)
      after == next(h, s, p, n)
  IN  set_next(set_prev(h, s, p, after, before), s, p, before, after)

\* elem_find(): the nodes from the head on, at most as many as there can be.
Walk(h, s, p, k) ==
  LET path[i \in 0..NPage * Blocks] ==
        IF i = 0 THEN <<next(h, s, p, HEAD(k))>>
        ELSE LET seen == path[i - 1]
                 last == seen[Len(seen)]
             IN  IF last \in {TAIL(k), NIL} THEN seen
                 ELSE Append(seen, next(h, s, p, last))
      nodes == path[NPage * Blocks]
  IN  {nodes[i] : i \in 1..Len(nodes)} \ {TAIL(k)}
elem_find(h, s, p, k, n) == n \in Walk(h, s, p, k)

-----------------------------------------------------------------------------
\* block_desc_init(): an empty free list in the pcb at page k.
block_desc_init(k) == [head |-> TAIL(k), tail |-> HEAD(k)]

\* Where the first process's kernel pages are, and what stands for no process.
FirstPages == [pcb |-> 0, bitmap |-> 1, pgdir |-> 1 + BitmapPages]

\* The first process has run start_process(): page 0 stands for its stack.
Init ==
  LET m1 == malloc_page(mem_pool_init, kernel, 1)
      m2 == malloc_page(m1, kernel, BitmapPages)
      m3 == malloc_page(m2, kernel, 1)
  IN  /\ m = malloc_page(m3, First, 1)
      /\ kobj = [p \in Proc |-> FirstPages]
      /\ mem = [f \in UserFrame |-> Zero]
      /\ list = [p \in Proc |-> block_desc_init(0)]
      /\ state = [p \in Proc |-> IF p = First THEN "live" ELSE "none"]
      /\ held = [p \in Proc |-> {}] /\ gone = [p \in Proc |-> {}]
      /\ astray = FALSE /\ exits = 0 /\ failed = 0

\* sys_malloc() of more than 1024 bytes: whole pages with an arena in front.
sys_malloc_large(p, cnt) ==
  /\ Alive(p) /\ ~Refused(m, p, cnt)
  /\ m' = malloc_page(m, p, cnt)
  /\ LET g == vaddr_get(m, p, cnt)
     IN  IF m'.panic THEN UNCHANGED <<mem, held>>
         ELSE /\ mem' = [mem EXCEPT ![m'.pte[p][g]] = [Zero EXCEPT !.cnt = cnt, !.large = TRUE]]
              /\ held' = [held EXCEPT ![p] = @ \cup {<<g, 0>>}]
  /\ UNCHANGED <<list, kobj, state, gone, astray, exits, failed>>

\* ASSERT that a block of a new arena is not in the free list; append it.
add_block(h, s, p, k, n) ==
  IF elem_find(h, s, p, k, n) THEN [h EXCEPT !.panic = TRUE]
  ELSE list_append(h, s, p, k, n)

\* A new arena in page g: its blocks are appended to the free list.
new_arena(h, s, p, g) ==
  LET k == Pcb(p)
      h0 == [h EXCEPT !.mem[s.pte[p][g]] = [Zero EXCEPT !.desc = k, !.cnt = Blocks]]
      put[i \in 0..Blocks] == IF i = 0 THEN h0
                              ELSE add_block(put[i - 1], s, p, k, <<g, i - 1>>)
  IN  put[Blocks]

\* list_pop(), memset() of the block, and one block less in its arena.
take_block(h, s, p, n) ==
  [list_remove(h, s, p, n)
     EXCEPT !.mem[At(s, p, n)].link[n[2]] = [prev |-> NIL, next |-> NIL],
            !.mem[At(s, p, n)].cnt = @ - 1]

\* sys_malloc() of at most 1024 bytes: a block of the free list, of a new arena
\* if it is empty.
sys_malloc_block(p) ==
  /\ Alive(p)
  /\ LET h == [mem |-> mem, list |-> list, panic |-> FALSE]
         empty == list[p].head = TAIL(Pcb(p))
         s == IF empty THEN malloc_page(m, p, 1) ELSE m
         h1 == IF empty THEN new_arena(h, s, p, vaddr_get(m, p, 1)) ELSE h
         n == next(h1, s, p, HEAD(Pcb(p)))
         h2 == take_block(h1, s, p, n)
     IN  IF s.panic \/ ~Mapped(s, p, n) \/ h2.panic
         THEN m' = PANIC(s) /\ UNCHANGED <<mem, list, held>>
         ELSE /\ m' = s /\ mem' = h2.mem /\ list' = h2.list
              /\ held' = [held EXCEPT ![p] = @ \cup {n}]
  /\ UNCHANGED <<kobj, state, gone, astray, exits, failed>>

\* The frames' contents do not matter once the frames are free.
Wipe(contents, s) == [f \in UserFrame |-> IF f \in s.used THEN contents[f] ELSE Zero]

-----------------------------------------------------------------------------
\* Mutant: the blocks of an arena that is given back stay in the free list.
unlink_arena_keeps(h, s, p, k, g) == h

\* Mutant: a block is taken out before the ASSERT looks for it.
unlink_arena_swapped(h, s, p, k, g) ==
  LET out[i \in 0..Blocks] ==
        IF i = 0 THEN h
        ELSE LET rest == list_remove(out[i - 1], s, p, <<g, i - 1>>)
             IN  IF elem_find(rest, s, p, k, <<g, i - 1>>) THEN rest
                 ELSE [rest EXCEPT !.panic = TRUE]
  IN  out[Blocks]

\* All blocks of the arena in page g are free: ASSERT that each is in the free
\* list and take it out.
unlink_arena(h, s, p, k, g) ==
  LET out[i \in 0..Blocks] ==
        IF i = 0 THEN h
        ELSE LET rest == out[i - 1]
             IN  IF elem_find(rest, s, p, k, <<g, i - 1>>)
                 THEN list_remove(rest, s, p, <<g, i - 1>>)
                 ELSE [rest EXCEPT !.panic = TRUE]
  IN  out[Blocks]

\* sys_free() of a block: back to the free list of the arena's descriptor; an
\* arena with all blocks free is given back.
free_block(p, n) ==
  LET a == mem[At(m, p, n)]
      h1 == list_append([mem |-> mem, list |-> list, panic |-> FALSE], m, p, a.desc, n)
      h2 == [h1 EXCEPT !.mem[At(m, p, n)].cnt = @ + 1]
      whole == h2.mem[At(m, p, n)].cnt = Blocks
      h3 == IF whole THEN unlink_arena(h2, m, p, a.desc, n[1]) ELSE h2
      s == IF whole THEN mfree_page(m, p, n[1], 1) ELSE m
  IN  IF h3.panic THEN m' = PANIC(m) /\ UNCHANGED <<mem, list>>
      ELSE m' = s /\ mem' = Wipe(h3.mem, s) /\ list' = h3.list

\* An arena that was inherited from the parent still has the descriptor in the
\* parent's pcb, and the list that begins there has its elements in another
\* address space.  Where that pcb is gone, kernel memory of some other use is
\* written, or a page fault stops the machine.
sys_free(p, n) ==
  /\ Alive(p)
  /\ n \in held[p]
  /\ LET a == mem[At(m, p, n)] IN
     /\ IF a.large
        THEN /\ m' = mfree_page(m, p, n[1], a.cnt)
             /\ mem' = Wipe(mem, m')
             /\ UNCHANGED list
        ELSE free_block(p, n)
     /\ astray' = (~a.large /\ a.desc # Pcb(p))
  /\ held' = [held EXCEPT ![p] = @ \ {n}]
  /\ UNCHANGED <<kobj, state, gone, exits, failed>>

\* What fork() takes first: a page for the pcb and the buffer page.
ForkPages(s) == malloc_page(malloc_page(s, kernel, 1), kernel, 1)
ForkFails == ~ForkPages(m).panic /\ Refused(ForkPages(m), kernel, BitmapPages)

\* sys_fork(): pcb, buffer page, bitmap and page directory from the kernel
\* pool, then a frame for every page of the parent with a copy of what is in
\* it, and the buffer page is given back.  The child's free lists are empty.
sys_fork(p, c) ==
  /\ Alive(p)
  /\ state[c] = "none" /\ ~ForkFails
  /\ LET m1 == malloc_page(m, kernel, 1)
         m2 == ForkPages(m)
         m3 == malloc_page(m2, kernel, BitmapPages)
         m4 == malloc_page(m3, kernel, 1)
         m5 == palloc_add([m4 EXCEPT !.vaddr[c] = m.vaddr[p]], c, m.vaddr[p])
         pcb == vaddr_get(m, kernel, 1)
     IN  IF m5.panic THEN m' = m5 /\ UNCHANGED <<mem, list, kobj, state, held>>
         ELSE /\ m' = mfree_page(m5, kernel, vaddr_get(m1, kernel, 1), 1)
              /\ kobj' = [kobj EXCEPT ![c] = [pcb    |-> pcb,
                                              bitmap |-> vaddr_get(m2, kernel, BitmapPages),
                                              pgdir  |-> vaddr_get(m3, kernel, 1)]]
              /\ list' = [list EXCEPT ![c] = block_desc_init(pcb)]
              /\ mem' = [f \in UserFrame |->
                           IF \E g \in m.vaddr[p] : m5.pte[c][g] = f
                           THEN mem[m.pte[p][CHOOSE g \in m.vaddr[p] : m5.pte[c][g] = f]]
                           ELSE mem[f]]
              /\ state' = [state EXCEPT ![c] = "live"]
              /\ held' = [held EXCEPT ![c] = held[p]]
  /\ UNCHANGED <<gone, astray, exits, failed>>

\* There are kernel pages, but not as many in a row as the bitmap has: fork() returns -1
\* and gives neither the page of the pcb nor the buffer page back.
sys_fork_fails(p) ==
  /\ Alive(p)
  /\ ForkFails
  /\ failed < MaxFail
  /\ m' = ForkPages(m)
  /\ failed' = failed + 1
  /\ UNCHANGED <<mem, list, kobj, state, held, gone, astray, exits>>

Program(n) == 1..n
FreeNodes(p) == Walk([mem |-> mem, list |-> list, panic |-> FALSE], m, p, Pcb(p))

\* Mutant: the page is mapped and not marked, as fork() does it.
segment_load_unmarked(p, n) == palloc_add(m, p, Program(n) \ m.vaddr[p])

\* segment_load(): a page for each of the segments' that has none; the bytes
\* of the program take the place of what was in the others.
segment_load(p, n) ==
  LET new == Program(n) \ m.vaddr[p]
  IN  palloc_add([m EXCEPT !.vaddr[p] = @ \cup new], p, new)

\* sys_execv() of a program of n pages; if load() fails after that it returns
\* to the program that called it.
sys_execv(p, n, fails) ==
  LET s == segment_load(p, n)
      over == {b \in FreeNodes(p) \cup held[p] : b[1] \in Program(n)}
      used == IF fails THEN over ELSE over \cap FreeNodes(p)
  IN  /\ Alive(p) /\ p # First
      /\ m' = s
      /\ mem' = [f \in UserFrame |-> IF \E g \in Program(n) : s.pte[p][g] = f THEN Zero ELSE mem[f]]
      /\ state' = [state EXCEPT ![p] = IF used = {} THEN "live" ELSE "overwritten"]
      /\ held' = IF fails THEN held ELSE [held EXCEPT ![p] = {}]
      /\ gone' = [gone EXCEPT ![p] = (IF fails THEN @ ELSE @ \cup held[p]) \ over]
      /\ UNCHANGED <<list, kobj, astray, exits, failed>>

\* sys_exit(): release_prog_resource(), then the process hangs.
sys_exit(p) ==
  /\ Up
  /\ state[p] \in {"live", "overwritten"}
  /\ p # First
  /\ exits < MaxExit
  /\ m' = mfree_page(free_user_space(m, p), kernel, kobj[p].bitmap, FreedPages)
  /\ mem' = Wipe(mem, m')
  /\ state' = [state EXCEPT ![p] = "zombie"]
  /\ held' = [held EXCEPT ![p] = {}] /\ gone' = [gone EXCEPT ![p] = {}]
  /\ exits' = exits + 1
  /\ UNCHANGED <<list, kobj, astray, failed>>

\* The parent's sys_wait(): thread_exit() gives the page directory and the pcb
\* back.  What was in it no longer matters.
thread_exit(p) ==
  /\ Up
  /\ state[p] = "zombie"
  /\ m' = mfree_page(mfree_page(m, kernel, kobj[p].pgdir, 1), kernel, Pcb(p), 1)
  /\ state' = [state EXCEPT ![p] = "none"]
  /\ list' = [list EXCEPT ![p] = block_desc_init(0)]
  /\ kobj' = [kobj EXCEPT ![p] = FirstPages]
  /\ UNCHANGED <<mem, held, gone, astray, exits, failed>>

Next ==
  \E p \in Proc :
    \/ sys_malloc_block(p)
    \/ \E cnt \in LargeSizes : sys_malloc_large(p, cnt)
    \/ \E n \in held[p] : sys_free(p, n)
    \/ \E c \in Proc : sys_fork(p, c)
    \/ sys_fork_fails(p)
    \/ \E n \in ProgramSizes, fails \in BOOLEAN : sys_execv(p, n, fails)
    \/ sys_exit(p) \/ thread_exit(p)

Spec == Init /\ [][Next]_vars

-----------------------------------------------------------------------------
Node == {HEAD(k) : k \in PageOf(kernel)} \cup {TAIL(k) : k \in PageOf(kernel)}
          \cup {NIL} \cup {<<g, i>> : g \in 0..NPage - 1, i \in 0..Blocks - 1}

\* The types of the memory manager's state.
TypeOK ==
  /\ m.used \subseteq Frame /\ m.panic \in BOOLEAN /\ m.full \in BOOLEAN /\ astray \in BOOLEAN
  /\ \A s \in Space : m.vaddr[s] \subseteq PageOf(s)
                        /\ m.pte[s] \in [PageOf(s) -> Frame \cup {NULL}]
  /\ m.pde \in [Proc -> Frame \cup {NULL}]
  /\ \A f \in UserFrame :
       /\ mem[f].cnt \in IF mem[f].large THEN LargeSizes ELSE 0..Blocks
       /\ mem[f].desc \in PageOf(kernel) \cup {NULL}
       /\ mem[f].link \in [0..Blocks - 1 -> [prev : Node, next : Node]]
  /\ list \in [Proc -> [head : Node, tail : Node]]
  /\ state \in [Proc -> {"none", "live", "overwritten", "zombie"}]
  /\ exits \in 0..MaxExit /\ failed \in 0..MaxFail

\* No ASSERT of memory.c fires and no null or dangling pointer of a free list is
\* followed, but by the free() of an inherited block: every block of an arena
\* that is given back is found in the free list ("ASSERT(elem_find(...))"), and
\* what is given back was mapped.  Otherwise the machine stops only because
\* bitmap_scan() finds no clear bit.
NoPanic == m.panic => m.full \/ astray

\* The bitmap of virtual pages and the page table agree, for the kernel and
\* for every process: what page_table_add() and mfree_page() assert.
PagesExact ==
  \A s \in Space : m.vaddr[s] = {g \in PageOf(s) : m.pte[s][g] # NULL}

\* While the machine runs, a frame is mapped at most once, in one address space,
\* and the user pool's bitmap marks exactly the frames that are mapped: none is
\* lost by fork(), free() or exit(), and none is handed out twice.
FramesExact ==
  LET mapped == UNION {{<<s, g>> : g \in {h \in PageOf(s) : m.pte[s][h] # NULL}} : s \in Space}
      frames == {m.pte[x[1]][x[2]] : x \in mapped}
  IN  ~m.panic => /\ PagesExact
                  /\ Cardinality(frames) = Cardinality(mapped)
                  /\ m.used \cap UserFrame = frames \cap UserFrame

\* The arenas of process p, by page; those it inherited have another desc.
Arenas(p) == {g \in m.vaddr[p] : mem[m.pte[p][g]].desc = Pcb(p)}

\* As long as no inherited block is freed, a process's free list holds exactly
\* the blocks of its own arenas that the program does not hold, nor one before
\* it, and an arena's count is the number of its free blocks: no block is lost
\* or handed out twice, whatever the order of malloc(), free(), fork() and execv().
FreeListExact ==
  \A p \in Proc : Alive(p) =>
    /\ FreeNodes(p) = {<<g, i>> : g \in Arenas(p), i \in 0..Blocks - 1}
                         \ (held[p] \cup gone[p])
    /\ \A g \in Arenas(p) :
         mem[m.pte[p][g]].cnt = Cardinality({n \in FreeNodes(p) : n[1] = g})

\* The kernel pages of a process: after exit() the pcb and the page directory.
KernelPages(p) ==
  CASE state[p] \in {"live", "overwritten"} ->
         {Pcb(p), kobj[p].pgdir} \cup Run(kobj[p].bitmap, BitmapPages)
    [] state[p] = "zombie" -> {Pcb(p), kobj[p].pgdir}
    [] OTHER -> {}

\* While the machine runs, the kernel pages of a process stay marked as long as it
\* needs them and are no other process's, whatever exit(), wait() and a fork()
\* that fails give back; and the kernel's frames are those of the marked pages
\* and of the page tables.
KernelAccounted ==
  LET tables == {m.pde[p] : p \in Proc} \ {NULL}
  IN  ~m.panic => /\ \A p \in Proc : KernelPages(p) \subseteq m.vaddr[kernel]
                  /\ \A p, q \in Proc : p # q => KernelPages(p) \cap KernelPages(q) = {}
                  /\ m.used \cap PoolOf(kernel) = {m.pte[kernel][g] : g \in m.vaddr[kernel]} \cup tables

\* wait_exit.c:13-16 and 54, said of release_prog_resource(): the memory of the
\* process's bitmap is given back.  No kernel page is then marked but those of
\* the processes there are.
KernelReclaimed == ~m.panic => m.vaddr[kernel] = UNION {KernelPages(p) : p \in Proc}

\* memory.c:586, the ASSERT: a block of an arena all of whose blocks are free is
\* in the free list, also when a child gives back what it inherited.
ArenaIsListed == m.panic => m.full
=============================================================================
