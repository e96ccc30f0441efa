--------------------------- MODULE AllocationProofs ---------------------------
(***************************************************************************)
(* What is allocated has one use and is accounted for: the page frames and *)
(* kernel pages of module Heap, and the blocks of the disk of module       *)
(* FileBlocks, whose files hold what was written to them.  Both are taken  *)
(* lowest first, with Nth and Rank of module Ranks; RankFacts, NthFacts    *)
(* and SortedFacts show that these number a set in order, each element     *)
(* once.                                                                   *)
(*                                                                         *)
(* Memory.  Until an ASSERT or PANIC stops the machine no frame is lost or *)
(* shared, and every process has the kernel pages that it needs:           *)
(* FramesExact and KernelAccounted, for every number of processes, frames  *)
(* and pages, every size of program and allocation, and every bitmap.  The *)
(* allocator is a set of functions of the pools, so the proof is one lemma *)
(* per function and one per system call.  Good says of the pools M what    *)
(* the calls rely on: a frame has one use and is marked if and only if it  *)
(* has one, and the bitmaps of virtual pages agree with the page tables.   *)
(* Each of malloc_page(), mfree_page() and free_user_space() preserves it, *)
(* with no other condition than that it does not panic: the arenas, the    *)
(* free lists and what a program holds play no part, and no invariant      *)
(* about them is needed.  HeapInv adds that who does not run has no pages, *)
(* and where the kernel's pages of a process are: exit() gives back        *)
(* FreedPages of its bitmap, and these must not be its pcb's or another    *)
(* process's.  It also counts the pages that exit() and a fork() that      *)
(* fails lose.                                                             *)
(*                                                                         *)
(* Files.  BlocksExact, ReadsBack and NoAssertWithinLimits of module       *)
(* FileBlocks, for every number of files and blocks, every block size,     *)
(* every number of direct blocks and any number of losses of power.        *)
(* FilesInv adds what file_write() relies on: a file has the blocks for    *)
(* its size, or was never written (Shaped).  It may have more in the       *)
(* indirect table, of a write() that the power interrupted after the table *)
(* was written: the next one writes over these addresses, so they are      *)
(* lost, not shared.  BlocksOnce, that no block has two uses and all are   *)
(* marked, survives a loss of power; NoneLost, that nothing else is        *)
(* marked, does not.                                                       *)
(*                                                                         *)
(* A write() is a sequence of writes to the disk.  WriteFacts reduces it   *)
(* to the blocks g that it takes and two relations of the disk before and  *)
(* after, Done when all of the sequence is on the disk and Cut when a part *)
(* is: the bitmap is written first, the inode last, and in between only    *)
(* blocks that the write() took, that are the table, or that lie behind    *)
(* the end of the file.  DoneSound and CutSound show that both lead to     *)
(* disks on which FilesInv holds; that Cut does is why the order of the    *)
(* writes in file_write() matters.                                         *)
(***************************************************************************)
EXTENDS Heap, FileBlocks, FiniteSetTheorems, WellFoundedInduction, SequenceTheorems, TLAPS

-----------------------------------------------------------------------------
\* A set of numbers that is not empty has a least one.
LEMMA LeastOf ==
  ASSUME NEW S \in SUBSET Nat, S # {}
  PROVE  \E x \in S : \A y \in S : x <= y
<1> DEFINE R == OpToRel(<, Nat)
<1>1. IsWellFoundedOn(R, Nat)
  BY NatLessThanWellFounded, Zenon
<1>2. \A x, y \in Nat : <<y, x>> \in R <=> y < x
  BY DEF OpToRel
<1> HIDE DEF R
<1>3. \E x \in S : \A y \in S : ~(<<y, x>> \in R)
  BY <1>1, WFMin
<1>4. \E x \in S : \A y \in S : ~(y < x)
  BY <1>2, <1>3, Zenon
<1> QED BY <1>4

\* Rank() numbers the elements of a set in order.
LEMMA RankFacts ==
  ASSUME NEW S \in SUBSET Int, IsFiniteSet(S), NEW x \in S
  PROVE  /\ Rank(S, x) \in 0..Cardinality(S) - 1
         /\ \A y \in S : Rank(S, y) = Rank(S, x) => y = x
<1> DEFINE below(y) == {z \in S : z < y}
<1>1. \A y : IsFiniteSet(below(y)) /\ Cardinality(below(y)) \in Nat
  <2> SUFFICES ASSUME NEW y PROVE IsFiniteSet(below(y)) /\ Cardinality(below(y)) \in Nat
    OBVIOUS
  <2>1. below(y) \in SUBSET S
    OBVIOUS
  <2> QED BY <2>1, FS_Subset, FS_CardinalityType
<1>2. Cardinality(S) \in Nat
  BY FS_CardinalityType
<1>3. ASSUME NEW T \in SUBSET S, NEW y \in T
      PROVE  Cardinality(below(y)) < Cardinality(T) \/ ~(below(y) \subseteq T)
  <2> SUFFICES ASSUME below(y) \subseteq T PROVE Cardinality(below(y)) < Cardinality(T)
    OBVIOUS
  <2>1. IsFiniteSet(T) /\ Cardinality(T) \in Nat
    BY FS_Subset, FS_CardinalityType
  <2>2. y \notin below(y) /\ below(y) # T
    OBVIOUS
  <2>3. Cardinality(below(y)) <= Cardinality(T) /\ (Cardinality(T) = Cardinality(below(y)) => T = below(y))
    BY <2>1, FS_Subset
  <2> QED BY <1>1, <2>1, <2>2, <2>3
<1>4. Cardinality(below(x)) < Cardinality(S)
  BY <1>3
<1>5. ASSUME NEW y \in S, NEW z \in S, y < z PROVE Cardinality(below(y)) < Cardinality(below(z))
  <2>1. below(z) \in SUBSET S /\ y \in below(z)
    BY <1>5
  <2>2. below(y) \subseteq below(z)
    <3>1. ASSUME NEW v \in S, v < y PROVE v < z
      <4>1. v \in Int /\ y \in Int /\ z \in Int
        OBVIOUS
      <4> QED BY <1>5, <3>1, <4>1
    <3> QED BY <3>1
  <2> QED BY <1>3, <2>1, <2>2
<1>6. ASSUME NEW y \in S, Rank(S, y) = Rank(S, x) PROVE y = x
  <2>1. ~(Cardinality(below(y)) < Cardinality(below(x))) /\ ~(Cardinality(below(x)) < Cardinality(below(y)))
    BY <1>1, <1>6 DEF Rank
  <2>2. ~(y < x) /\ ~(x < y)
    BY <1>5, <2>1
  <2> QED BY <2>2
<1>7. Rank(S, x) \in 0..Cardinality(S) - 1
  BY <1>1, <1>2, <1>4 DEF Rank
<1> QED BY <1>6, <1>7

\* Nth() gives the element of a rank: of the numbers with more than i elements
\* of the set below them, the least is that element's successor.
LEMMA NthFacts ==
  ASSUME NEW lo \in Int, NEW hi \in Int, NEW S \in SUBSET (lo..hi), NEW i \in Nat, i < Cardinality(S)
  PROVE  Nth(S, i) \in S /\ Rank(S, Nth(S, i)) = i
<1> DEFINE below(n) == {z \in S : z < lo + n}
           U == {n \in Nat : Cardinality(below(n)) > i}
<1>1. IsFiniteSet(S) /\ S \subseteq Int
  <2>1. IsFiniteSet(lo..hi)
    BY FS_Interval
  <2>2. IsFiniteSet(S)
    BY <2>1, FS_Subset
  <2> QED BY <2>2
<1>2. \A n : IsFiniteSet(below(n)) /\ Cardinality(below(n)) \in Nat
  <2> SUFFICES ASSUME NEW n PROVE IsFiniteSet(below(n)) /\ Cardinality(below(n)) \in Nat
    OBVIOUS
  <2>1. below(n) \in SUBSET S
    OBVIOUS
  <2> QED BY <1>1, <2>1, FS_Subset, FS_CardinalityType
<1>3. PICK n \in U : \A k \in U : n <= k
  <2>1. S # {}
    <3>1. Cardinality({}) = 0
      BY FS_EmptySet
    <3> QED BY <3>1
  <2>4. hi + 1 - lo \in Nat
    <3>1. PICK z \in S : TRUE
      BY <2>1
    <3>2. z \in Int /\ lo <= z /\ z <= hi
      OBVIOUS
    <3> QED BY <3>2
  <2>2. below(hi + 1 - lo) = S
    <3>1. \A z \in S : z < lo + (hi + 1 - lo)
      OBVIOUS
    <3> QED BY <3>1
  <2>3. U # {}
    BY <2>4, <2>2
  <2> QED BY <2>3, LeastOf
<1>4. n # 0
  <2>1. below(0) = {}
    <3>1. \A z \in S : ~(z < lo + 0)
      OBVIOUS
    <3> QED BY <3>1
  <2>2. Cardinality({}) = 0
    BY FS_EmptySet
  <2>3. 0 \notin U
    BY <2>1, <2>2
  <2> QED BY <1>3, <2>3
<1> DEFINE x == lo + (n - 1)
<1>5. n - 1 \in Nat /\ Cardinality(below(n - 1)) <= i
  <2>1. n - 1 \in Nat
    BY <1>3, <1>4
  <2>2. n - 1 \notin U
    <3> HIDE DEF U
    <3>1. n \in Nat
      BY <1>3 DEF U
    <3> QED BY <1>3, <2>1, <3>1
  <2>3. ~(Cardinality(below(n - 1)) > i)
    <3> HIDE DEF below
    <3> QED BY <2>1, <2>2
  <2> HIDE DEF below
  <2> QED BY <1>2, <2>1, <2>3
<1>6. \A z \in S : z < lo + n <=> z < x \/ z = x
  BY <1>1, <1>5
<1>7. x \in S
  <2> SUFFICES ASSUME x \notin S PROVE FALSE
    OBVIOUS
  <2>1. below(n) = below(n - 1)
    BY <1>6
  <2> QED BY <1>2, <1>3, <1>5, <2>1
<1>8. Rank(S, x) = i
  <2>1. x \notin below(n - 1)
    BY <1>5
  <2>2. below(n) = below(n - 1) \cup {x}
    BY <1>6, <1>7
  <2>3. Cardinality(below(n)) = Cardinality(below(n - 1)) + 1
    <3> HIDE DEF below, x
    <3> QED BY <1>2, <2>1, <2>2, FS_AddElement
  <2>4. Cardinality(below(n)) > i
    BY <1>3
  <2>5. Cardinality(below(n - 1)) = i
    <3> HIDE DEF below
    <3> QED BY <1>2, <1>5, <2>3, <2>4
  <2> QED BY <2>5 DEF Rank
<1>9. \E y \in S : Rank(S, y) = i
  BY <1>7, <1>8
<1> QED BY <1>9 DEF Nth

\* Sorted() has each element once.
LEMMA SortedFacts ==
  ASSUME NEW lo \in Int, NEW hi \in Int, NEW S \in SUBSET (lo..hi)
  PROVE  /\ IsFiniteSet(S) /\ Cardinality(S) \in Nat
         /\ Sorted(S) \in Seq(S) /\ Len(Sorted(S)) = Cardinality(S)
         /\ \A i, j \in 1..Cardinality(S) : Sorted(S)[i] = Sorted(S)[j] => i = j
<1>1. IsFiniteSet(S) /\ S \in SUBSET Int
  <2>1. IsFiniteSet(lo..hi)
    BY FS_Interval
  <2>2. IsFiniteSet(S)
    BY <2>1, FS_Subset
  <2> QED BY <2>2
<1>2. Cardinality(S) \in Nat
  BY <1>1, FS_CardinalityType
<1>3. ASSUME NEW i \in 1..Cardinality(S) PROVE Nth(S, i - 1) \in S /\ Rank(S, Nth(S, i - 1)) = i - 1
  <2>1. i - 1 \in Nat /\ i - 1 < Cardinality(S)
    BY <1>2
  <2> QED BY <2>1, NthFacts
<1>4. Sorted(S) \in Seq(S) /\ Len(Sorted(S)) = Cardinality(S)
  BY <1>2, <1>3 DEF Sorted
<1>5. \A i \in 1..Cardinality(S) : Sorted(S)[i] = Nth(S, i - 1)
  BY DEF Sorted
<1>6. ASSUME NEW i \in 1..Cardinality(S), NEW j \in 1..Cardinality(S), Sorted(S)[i] = Sorted(S)[j]
      PROVE  i = j
  <2>1. i - 1 = j - 1
    BY <1>3, <1>5, <1>6
  <2> QED BY <1>2, <2>1
<1> QED BY <1>1, <1>2, <1>4, <1>6

\* x is an element of s.
Occurs(x, s) == \E i \in 1..Len(s) : s[i] = x

\* Sorted() leaves no element out.
LEMMA SortedOnto ==
  ASSUME NEW lo \in Int, NEW hi \in Int, NEW S \in SUBSET (lo..hi), NEW x \in S
  PROVE  Occurs(x, Sorted(S))
<1>1. IsFiniteSet(S) /\ S \in SUBSET Int /\ Cardinality(S) \in Nat /\ Len(Sorted(S)) = Cardinality(S)
  <2>1. IsFiniteSet(S) /\ Cardinality(S) \in Nat /\ Len(Sorted(S)) = Cardinality(S)
    BY SortedFacts
  <2> QED BY <2>1
<1>2. Rank(S, x) \in 0..Cardinality(S) - 1 /\ \A y \in S : Rank(S, y) = Rank(S, x) => y = x
  BY <1>1, RankFacts
<1> DEFINE i == Rank(S, x) + 1
<1>3. i \in 1..Cardinality(S) /\ i - 1 = Rank(S, x) /\ i - 1 \in Nat /\ i - 1 < Cardinality(S)
  BY <1>1, <1>2
<1> HIDE DEF i
<1>4. Nth(S, i - 1) \in S /\ Rank(S, Nth(S, i - 1)) = i - 1
  BY <1>3, NthFacts
<1>5. Sorted(S)[i] = Nth(S, i - 1)
  BY <1>3 DEF Sorted
<1>6. i \in 1..Len(Sorted(S)) /\ Sorted(S)[i] = x
  BY <1>1, <1>2, <1>3, <1>4, <1>5
<1> QED BY <1>6 DEF Occurs

\* The last one is the greatest.
LEMMA SortedLast ==
  ASSUME NEW lo \in Int, NEW hi \in Int, NEW S \in SUBSET (lo..hi), NEW u \in S, \A x \in S : x <= u
  PROVE  Sorted(S)[Cardinality(S)] = u
<1> DEFINE below(n) == {y \in S : y < n}
           n == Cardinality(S)
<1>1. IsFiniteSet(S) /\ Cardinality(S) \in Nat /\ S \in SUBSET Int
  <2>1. IsFiniteSet(S) /\ Cardinality(S) \in Nat
    BY SortedFacts
  <2> QED BY <2>1
<1>2. below(u) = S \ {u} /\ IsFiniteSet(S \ {u})
  <2>1. \A y \in S : y < u <=> y # u
    <3>1. ASSUME NEW y \in S PROVE y < u <=> y # u
      <4>1. y \in Int /\ u \in Int /\ y <= u
        BY <1>1
      <4> QED BY <4>1
    <3> QED BY <3>1
  <2>2. below(u) = S \ {u}
    BY <2>1
  <2> QED BY <1>1, <2>2, FS_Subset
<1>3. n = Cardinality(S \ {u}) + 1 /\ Cardinality(S \ {u}) \in Nat
  <2>1. S = (S \ {u}) \cup {u} /\ u \notin S \ {u}
    OBVIOUS
  <2> QED BY <1>2, <2>1, FS_AddElement, FS_CardinalityType
<1>4. Rank(S, u) = n - 1
  BY <1>2, <1>3 DEF Rank
<1>5. n - 1 \in Nat /\ n - 1 < Cardinality(S) /\ n \in 1..Cardinality(S)
  BY <1>3
<1>6. Nth(S, n - 1) \in S /\ Rank(S, Nth(S, n - 1)) = n - 1
  BY <1>5, NthFacts
<1>7. Nth(S, n - 1) = u
  <2>1. \A y \in S : Rank(S, y) = Rank(S, u) => y = u
    BY <1>1, RankFacts
  <2> QED BY <1>4, <1>6, <2>1
<1> QED BY <1>5, <1>7 DEF Sorted

-----------------------------------------------------------------------------
\* The page tables that an address space can have.
PTable(s) == [PageOf(s) -> PoolOf(s) \cup {NULL}]
PTables == UNION {PTable(s) : s \in Space}

\* The types of the pools, after a panic too.
Pools(M) ==
  /\ M \in [used : SUBSET Frame, vaddr : [Space -> SUBSET Nat],
            pte : [Space -> PTables], pde : [Proc -> PoolOf(kernel) \cup {NULL}],
            panic : BOOLEAN, full : BOOLEAN]
  /\ \A s \in Space : M.vaddr[s] \subseteq PageOf(s) /\ M.pte[s] \in PTable(s)

\* The pages that are mapped.
Maps(M, s) == {g \in PageOf(s) : M.pte[s][g] # NULL}

\* A frame has one use: it is a page's, in one address space, or a page table's.
OneUse(M) ==
  /\ \A s, t \in Space : \A g \in PageOf(s), h \in PageOf(t) :
       M.pte[s][g] # NULL /\ M.pte[s][g] = M.pte[t][h] => s = t /\ g = h
  /\ \A p, q \in Proc : M.pde[p] # NULL /\ M.pde[p] = M.pde[q] => p = q
  /\ \A p \in Proc, g \in PageOf(kernel) : M.pde[p] # NULL => M.pde[p] # M.pte[kernel][g]

HasUse(M, f) ==
  (\E s \in Space : \E g \in PageOf(s) : M.pte[s][g] = f) \/ (\E p \in Proc : M.pde[p] = f)

\* The frames are used once, and the bitmaps mark those that are used.
Sound(M) == OneUse(M) /\ \A f \in Frame : f \in M.used <=> HasUse(M, f)

\* Between two operations the bitmap of virtual pages agrees with the page table.
Good(M) == Sound(M) /\ \A s \in Space : M.vaddr[s] = Maps(M, s)

-----------------------------------------------------------------------------
\* Frames and pages are finitely many numbers, and NULL is none of them.
LEMMA FrameFacts ==
  /\ IsFiniteSet(Frame) /\ Frame \subseteq Nat
  /\ \A s \in Space : /\ PoolOf(s) \subseteq Frame /\ NULL \notin PoolOf(s)
                      /\ PageOf(s) \subseteq Nat /\ IsFiniteSet(PageOf(s))
  /\ \A p \in Proc : p # kernel /\ p \in Space /\ PoolOf(p) \cap PoolOf(kernel) = {}
  /\ kernel \in Space
<1>1. IsFiniteSet(0..NFrame - 1) /\ IsFiniteSet(0..UserStart - 1) /\ IsFiniteSet(0..NPage - 1)
  BY FS_Interval, PagesAssumption
<1> QED BY <1>1, PagesAssumption DEF Frame, PoolOf, PageOf, Space

\* The same of a set of frames.
LEMMA NthFrame ==
  ASSUME NEW S \in SUBSET Frame, NEW i \in Nat, i < Cardinality(S)
  PROVE  Nth(S, i) \in S /\ Rank(S, Nth(S, i)) = i
<1>1. 0 \in Int /\ NFrame - 1 \in Int /\ S \in SUBSET (0..NFrame - 1)
  BY PagesAssumption DEF Frame
<1> QED BY <1>1, NthFacts

-----------------------------------------------------------------------------
\* A panic stays, and the pools keep their types.
LEMMA PanicFacts ==
  ASSUME NEW M, Pools(M)
  PROVE  /\ Pools(PANIC(M)) /\ PANIC(M).panic /\ PANIC(M).vaddr = M.vaddr /\ PANIC(M).pte = M.pte
         /\ Pools(FULL(M)) /\ FULL(M).panic /\ FULL(M).vaddr = M.vaddr /\ FULL(M).pte = M.pte
BY DEF PANIC, FULL, Pools

\* A page table is made from a frame that is free.
LEMMA AddPdeFacts ==
  ASSUME NEW M, Pools(M), NEW s \in Space
  PROVE  LET r == add_pde(M, s)
         IN  /\ Pools(r) /\ r.vaddr = M.vaddr /\ r.pte = M.pte
             /\ ~r.panic => ~M.panic /\ (Sound(M) => Sound(r))
<1> DEFINE r == add_pde(M, s)
           T == Nth(Free(M, kernel), 0)
<1>1. CASE s = kernel \/ M.pde[s] # NULL
  BY <1>1 DEF add_pde
<1>2. CASE s # kernel /\ M.pde[s] = NULL /\ Free(M, kernel) = {}
  <2>1. r = FULL(M)
    BY <1>2 DEF add_pde
  <2> QED BY <2>1, PanicFacts
<1>3. CASE s # kernel /\ M.pde[s] = NULL /\ Free(M, kernel) # {}
  <2>1. Free(M, kernel) \in SUBSET Frame /\ IsFiniteSet(Free(M, kernel))
    BY FrameFacts, FS_Subset DEF Free
  <2>2. Cardinality(Free(M, kernel)) > 0
    BY <1>3, <2>1, FS_EmptySet, FS_CardinalityType
  <2>3. T \in PoolOf(kernel) /\ T \notin M.used /\ T \in Frame /\ T # NULL
    BY <2>1, <2>2, NthFrame, FrameFacts DEF Free
  <2> HIDE DEF T
  <2>4. r = [M EXCEPT !.pde[s] = T, !.used = @ \cup {T}]
    BY <1>3 DEF add_pde, T
  <2>5. s \in Proc
    BY <1>3 DEF Space
  <2>6. /\ r.used = M.used \cup {T} /\ r.pde = [M.pde EXCEPT ![s] = T]
        /\ r.vaddr = M.vaddr /\ r.pte = M.pte /\ r.panic = M.panic
    BY <2>4 DEF Pools
  <2>7. Pools(r)
    <3>1. [M.pde EXCEPT ![s] = T] \in [Proc -> PoolOf(kernel) \cup {NULL}]
      BY <2>3, <2>5 DEF Pools
    <3>2. M.used \cup {T} \in SUBSET Frame
      BY <2>3 DEF Pools
    <3> QED BY <2>4, <2>6, <3>1, <3>2 DEF Pools
  <2>8. ASSUME Sound(M) PROVE Sound(r)
    <3>1. M.pde \in [Proc -> PoolOf(kernel) \cup {NULL}] /\ r.pde[s] = T
          /\ \A p \in Proc : p # s => r.pde[p] = M.pde[p]
      BY <2>5, <2>6 DEF Pools
    <3>2. ~HasUse(M, T)
      BY <2>3, <2>8 DEF Sound
    <3>3. OneUse(r)
      BY <2>3, <2>5, <2>6, <2>8, <3>1, <3>2, FrameFacts DEF Sound, OneUse, HasUse
    <3>4. ASSUME NEW f \in Frame PROVE HasUse(r, f) <=> HasUse(M, f) \/ f = T
      <4>1. f # NULL
        BY PagesAssumption DEF Frame
      <4> QED BY <1>3, <2>5, <2>6, <3>1, <4>1 DEF HasUse
    <3> QED BY <2>6, <2>8, <3>3, <3>4 DEF Sound
  <2> QED BY <2>6, <2>7, <2>8
<1> QED BY <1>1, <1>2, <1>3

\* What is mapped is a frame of the right pool and is marked.
LEMMA UsedFacts ==
  ASSUME NEW M, Pools(M), Sound(M)
  PROVE  /\ \A t \in Space : \A h \in PageOf(t) :
              M.pte[t][h] # NULL => M.pte[t][h] \in M.used /\ M.pte[t][h] \in PoolOf(t)
         /\ \A p \in Proc : M.pde[p] # NULL => M.pde[p] \in M.used /\ M.pde[p] \in PoolOf(kernel)
<1>1. ASSUME NEW t \in Space, NEW h \in PageOf(t), M.pte[t][h] # NULL
      PROVE  M.pte[t][h] \in M.used /\ M.pte[t][h] \in PoolOf(t)
  <2>1. M.pte[t][h] \in PoolOf(t)
    BY <1>1 DEF Pools, PTable
  <2>2. M.pte[t][h] \in Frame
    BY <2>1, FrameFacts
  <2>3. HasUse(M, M.pte[t][h])
    BY DEF HasUse
  <2> QED BY <2>1, <2>2, <2>3 DEF Sound
<1>2. ASSUME NEW p \in Proc, M.pde[p] # NULL PROVE M.pde[p] \in M.used /\ M.pde[p] \in PoolOf(kernel)
  <2>1. M.pde[p] \in PoolOf(kernel)
    BY <1>2 DEF Pools
  <2>2. M.pde[p] \in Frame
    BY <2>1, FrameFacts
  <2>3. HasUse(M, M.pde[p])
    BY DEF HasUse
  <2> QED BY <2>1, <2>2, <2>3 DEF Sound
<1> QED BY <1>1, <1>2

\* Pages get free frames, each its own.
Given(M, r, s, pages, frame) ==
  /\ \A g \in pages : frame[g] \in PoolOf(s) /\ frame[g] \notin M.used /\ M.pte[s][g] = NULL
  /\ \A g, h \in pages : frame[g] = frame[h] => g = h
  /\ r.pde = M.pde /\ r.used = M.used \cup {frame[g] : g \in pages}
  /\ \A t \in Space : t # s => r.pte[t] = M.pte[t]
  /\ \A g \in PageOf(s) : r.pte[s][g] = IF g \in pages THEN frame[g] ELSE M.pte[s][g]

\* Then each frame still has one use, and those that have one are marked.
LEMMA GivenFacts ==
  ASSUME NEW M, Pools(M), NEW r, Pools(r), NEW s \in Space, NEW pages \in SUBSET PageOf(s),
         NEW frame, Given(M, r, s, pages, frame), Sound(M)
  PROVE  Sound(r)
<1>1. \A g \in pages : frame[g] # NULL /\ frame[g] \in Frame
  BY FrameFacts DEF Given
<1>2. ASSUME NEW t \in Space, NEW u \in Space, NEW g \in PageOf(t), NEW h \in PageOf(u),
             r.pte[t][g] # NULL, r.pte[t][g] = r.pte[u][h]
      PROVE  t = u /\ g = h
  <2>1. CASE (t = s /\ g \in pages) /\ (u = s /\ h \in pages)
    BY <1>2, <2>1 DEF Given
  <2>2. CASE (t = s /\ g \in pages) /\ ~(u = s /\ h \in pages)
    <3>1. r.pte[t][g] \notin M.used /\ r.pte[u][h] = M.pte[u][h]
      BY <2>2 DEF Given
    <3> QED BY <1>2, <3>1, UsedFacts
  <2>3. CASE ~(t = s /\ g \in pages) /\ (u = s /\ h \in pages)
    <3>1. r.pte[u][h] \notin M.used /\ r.pte[t][g] = M.pte[t][g]
      BY <2>3 DEF Given
    <3> QED BY <1>2, <3>1, UsedFacts
  <2>4. CASE ~(t = s /\ g \in pages) /\ ~(u = s /\ h \in pages)
    <3>1. r.pte[u][h] = M.pte[u][h] /\ r.pte[t][g] = M.pte[t][g]
      BY <2>4 DEF Given
    <3> QED BY <1>2, <3>1 DEF Sound, OneUse
  <2> QED BY <2>1, <2>2, <2>3, <2>4
<1>3. ASSUME NEW p \in Proc, NEW g \in PageOf(kernel), r.pde[p] # NULL
      PROVE  r.pde[p] # r.pte[kernel][g]
  <2>1. M.pde[p] # NULL /\ r.pde[p] = M.pde[p] /\ M.pde[p] \in M.used
    BY <1>3, UsedFacts DEF Given
  <2>2. CASE s = kernel /\ g \in pages
    BY <2>1, <2>2 DEF Given
  <2>3. CASE ~(s = kernel /\ g \in pages)
    <3>1. r.pte[kernel][g] = M.pte[kernel][g]
      BY <2>3, FrameFacts DEF Given
    <3> QED BY <2>1, <3>1 DEF Sound, OneUse
  <2> QED BY <2>2, <2>3
<1>4. OneUse(r)
  <2>1. \A p, q \in Proc : r.pde[p] # NULL /\ r.pde[p] = r.pde[q] => p = q
    BY DEF Sound, OneUse, Given
  <2> QED BY <1>2, <1>3, <2>1 DEF OneUse
<1>5. ASSUME NEW f \in Frame PROVE HasUse(r, f) <=> HasUse(M, f) \/ \E g \in pages : frame[g] = f
  <2>0. f # NULL
    BY PagesAssumption DEF Frame
  <2>1. (\E t \in Space : \E g \in PageOf(t) : r.pte[t][g] = f)
          <=> (\E t \in Space : \E g \in PageOf(t) : M.pte[t][g] = f) \/ \E g \in pages : frame[g] = f
    BY <2>0 DEF Given
  <2> QED BY <2>1 DEF Given, HasUse
<1>6. \A f \in Frame : f \in r.used <=> f \in M.used \/ \E g \in pages : frame[g] = f
  BY DEF Given
<1> QED BY <1>4, <1>5, <1>6 DEF Sound

\* palloc_add() maps the pages it is given, and no others.
LEMMA PallocFacts ==
  ASSUME NEW M, Pools(M), NEW s \in Space, NEW pages \in SUBSET PageOf(s)
  PROVE  LET r == palloc_add(M, s, pages)
         IN  /\ Pools(r) /\ r.vaddr = M.vaddr
             /\ ~r.panic => /\ ~M.panic /\ (Sound(M) => Sound(r))
                            /\ \A t \in Space : Maps(r, t) = IF t = s THEN Maps(M, s) \cup pages
                                                             ELSE Maps(M, t)
<1> DEFINE r == palloc_add(M, s, pages)
           n == add_pde(M, s)
           free == Free(n, s)
           frame == [g \in pages |-> Nth(free, Rank(pages, g))]
           table == [g \in PageOf(s) |-> IF g \in pages THEN frame[g] ELSE n.pte[s][g]]
<1>1. /\ Pools(n) /\ n.vaddr = M.vaddr /\ n.pte = M.pte
      /\ ~n.panic => ~M.panic /\ (Sound(M) => Sound(n))
  BY AddPdeFacts
<1> HIDE DEF n
<1>2. CASE Cardinality(free) < Cardinality(pages) \/ \E g \in pages : n.pte[s][g] # NULL
  <2>1. r = PANIC(n) \/ r = FULL(n)
    BY <1>2 DEF palloc_add, n
  <2> QED BY <1>1, <2>1, PanicFacts
<1>3. CASE ~(Cardinality(free) < Cardinality(pages) \/ \E g \in pages : n.pte[s][g] # NULL)
  <2>1. r = [n EXCEPT !.used = @ \cup {frame[g] : g \in pages}, !.pte[s] = table]
    BY <1>3 DEF palloc_add, n
  <2>2. IsFiniteSet(pages) /\ pages \subseteq Nat /\ Cardinality(pages) \in Nat
    BY FrameFacts, FS_Subset, FS_CardinalityType
  <2>3. free \in SUBSET Frame /\ free \subseteq PoolOf(s) /\ free \cap n.used = {}
    BY FrameFacts DEF Free
  <2>4. Cardinality(free) \in Nat
    BY <2>3, FrameFacts, FS_Subset, FS_CardinalityType
  <2> HIDE DEF free
  <2>5. ASSUME NEW g \in pages
        PROVE  frame[g] \in free /\ Rank(free, frame[g]) = Rank(pages, g)
    <3>1. Rank(pages, g) \in 0..Cardinality(pages) - 1
      BY <2>2, RankFacts
    <3>2. Rank(pages, g) \in Nat /\ Rank(pages, g) < Cardinality(free)
      BY <1>3, <2>2, <2>4, <3>1
    <3> QED BY <2>3, <3>2, NthFrame
  <2>6. \A g, h \in pages : frame[g] = frame[h] => g = h
    BY <2>2, <2>5, RankFacts
  <2>7. \A g \in pages : frame[g] \in PoolOf(s) /\ frame[g] \notin n.used /\ frame[g] # NULL
    BY <2>3, <2>5, FrameFacts
  <2> HIDE DEF frame
  <2>8. table \in PTable(s)
    <3>1. n.pte[s] \in PTable(s)
      BY <1>1 DEF Pools
    <3> QED BY <2>7, <3>1 DEF PTable
  <2>9. {frame[g] : g \in pages} \subseteq Frame
    BY <2>7, FrameFacts
  <2>10. \A g \in PageOf(s) : table[g] = IF g \in pages THEN frame[g] ELSE n.pte[s][g]
    OBVIOUS
  <2> HIDE DEF table
  <2>11. /\ r.used = n.used \cup {frame[g] : g \in pages} /\ r.pte = [n.pte EXCEPT ![s] = table]
         /\ r.vaddr = n.vaddr /\ r.pde = n.pde /\ r.panic = n.panic /\ r.full = n.full
    BY <1>1, <2>1 DEF Pools
  <2>12. /\ r.pte \in [Space -> PTables] /\ r.pte[s] = table
         /\ \A t \in Space : t # s => r.pte[t] = n.pte[t]
    BY <1>1, <2>8, <2>11 DEF Pools, PTables
  <2>13. Pools(r)
    <3>1. r.used \in SUBSET Frame
      BY <1>1, <2>9, <2>11 DEF Pools
    <3>2. r = [used |-> r.used, vaddr |-> r.vaddr, pte |-> r.pte, pde |-> r.pde,
               panic |-> r.panic, full |-> r.full]
      BY <1>1, <2>1, <2>11 DEF Pools
    <3> QED BY <1>1, <2>8, <2>11, <2>12, <3>1, <3>2 DEF Pools
  <2>14. Given(n, r, s, pages, frame)
    BY <1>3, <2>6, <2>7, <2>10, <2>11, <2>12 DEF Given
  <2>15. ASSUME NEW t \in Space
         PROVE  Maps(r, t) = IF t = s THEN Maps(M, s) \cup pages ELSE Maps(M, t)
    BY <1>1, <2>7, <2>10, <2>12 DEF Maps
  <2> QED BY <1>1, <2>11, <2>13, <2>14, <2>15, GivenFacts
<1> QED BY <1>2, <1>3

\* vaddr_get() finds the first run of pages that is long enough.
LEMMA VaddrFacts ==
  ASSUME NEW M, NEW s \in Space, NEW cnt, HasRoom(M, s, cnt)
  PROVE  /\ vaddr_get(M, s, cnt) \in PageOf(s) /\ FitsAt(M, s, cnt, vaddr_get(M, s, cnt))
         /\ \A j \in PageOf(s) : FitsAt(M, s, cnt, j) => vaddr_get(M, s, cnt) <= j
<1> DEFINE fits == {i \in PageOf(s) : FitsAt(M, s, cnt, i)}
<1>1. fits \in SUBSET Nat /\ fits # {}
  BY FrameFacts DEF HasRoom
<1>2. \E i \in fits : \A j \in fits : i <= j
  BY <1>1, LeastOf
<1>3. \E i \in PageOf(s) : FitsAt(M, s, cnt, i) /\ \A j \in PageOf(s) : FitsAt(M, s, cnt, j) => i <= j
  BY <1>2
<1> QED BY <1>3 DEF vaddr_get

\* Pages of s are marked in the bitmap, and unmarked.
Marks(M, r, s, pages) == r.vaddr = [M.vaddr EXCEPT ![s] = M.vaddr[s] \cup pages]
Unmarks(M, r, s, pages) == r.vaddr = [M.vaddr EXCEPT ![s] = M.vaddr[s] \ pages]

\* Pages are marked in the bitmap, and then mapped.
LEMMA MarkedFacts ==
  ASSUME NEW M, Pools(M), NEW s \in Space, NEW pages \in SUBSET PageOf(s)
  PROVE  LET r == palloc_add([M EXCEPT !.vaddr[s] = M.vaddr[s] \cup pages], s, pages)
         IN  /\ Pools(r) /\ Marks(M, r, s, pages)
             /\ ~r.panic => ~M.panic /\ (Good(M) => Good(r))
<1> DEFINE n == [M EXCEPT !.vaddr[s] = M.vaddr[s] \cup pages]
           r == palloc_add(n, s, pages)
<1>1. /\ n.vaddr = [M.vaddr EXCEPT ![s] = M.vaddr[s] \cup pages]
      /\ n.used = M.used /\ n.pte = M.pte /\ n.pde = M.pde
      /\ n.panic = M.panic /\ n.full = M.full
  BY DEF Pools
<1>2. /\ n.vaddr \in [Space -> SUBSET Nat] /\ n.vaddr[s] = M.vaddr[s] \cup pages
      /\ \A t \in Space : t # s => n.vaddr[t] = M.vaddr[t]
  BY <1>1, FrameFacts DEF Pools
<1>3. Pools(n)
  <2>1. M = [used |-> M.used, vaddr |-> M.vaddr, pte |-> M.pte, pde |-> M.pde,
             panic |-> M.panic, full |-> M.full]
    BY DEF Pools
  <2>2. n = [used |-> n.used, vaddr |-> n.vaddr, pte |-> n.pte, pde |-> n.pde,
             panic |-> n.panic, full |-> n.full]
    BY <1>1, <2>1
  <2>3. \A t \in Space : n.vaddr[t] \subseteq PageOf(t) /\ n.pte[t] \in PTable(t)
    BY <1>1, <1>2 DEF Pools
  <2> HIDE DEF n
  <2> QED BY <1>1, <1>2, <2>2, <2>3 DEF Pools
<1>4. Sound(M) => Sound(n)
  BY <1>1 DEF Sound, OneUse, HasUse
<1>5. \A t \in Space : Maps(n, t) = Maps(M, t)
  BY <1>1 DEF Maps
<1> HIDE DEF n
<1>6. /\ Pools(r) /\ r.vaddr = n.vaddr
      /\ ~r.panic => /\ ~n.panic /\ (Sound(n) => Sound(r))
                     /\ \A t \in Space : Maps(r, t) = IF t = s THEN Maps(n, s) \cup pages ELSE Maps(n, t)
  BY <1>3, PallocFacts
<1> HIDE DEF r
<1>7. ASSUME ~r.panic, Good(M) PROVE Good(r)
  <2>1. \A t \in Space : r.vaddr[t] = Maps(r, t)
    BY <1>2, <1>5, <1>6, <1>7 DEF Good
  <2> QED BY <1>4, <1>6, <1>7, <2>1 DEF Good
<1> QED BY <1>1, <1>6, <1>7 DEF r, n, Marks

\* The pages that malloc_page() takes.
New(M, s, cnt) == Run(vaddr_get(M, s, cnt), cnt)

\* malloc_page() takes pages that were free.
LEMMA MallocFacts ==
  ASSUME NEW M, Pools(M), NEW s \in Space, NEW cnt
  PROVE  LET r == malloc_page(M, s, cnt)
         IN  /\ Pools(r) /\ \A t \in Space : t # s => r.vaddr[t] = M.vaddr[t]
             /\ ~r.panic => /\ ~M.panic /\ HasRoom(M, s, cnt) /\ (Good(M) => Good(r))
                            /\ vaddr_get(M, s, cnt) \in PageOf(s)
                            /\ New(M, s, cnt) \subseteq PageOf(s)
                            /\ New(M, s, cnt) \cap M.vaddr[s] = {}
                            /\ Marks(M, r, s, New(M, s, cnt))
<1> DEFINE r == malloc_page(M, s, cnt)
           pages == New(M, s, cnt)
<1>1. CASE ~HasRoom(M, s, cnt)
  <2>1. r = FULL(M)
    BY <1>1 DEF malloc_page
  <2> QED BY <2>1, PanicFacts
<1>2. CASE HasRoom(M, s, cnt)
  <2>1. r = palloc_add([M EXCEPT !.vaddr[s] = M.vaddr[s] \cup pages], s, pages)
    BY <1>2 DEF malloc_page, New
  <2>2. vaddr_get(M, s, cnt) \in PageOf(s) /\ pages \subseteq PageOf(s) \ M.vaddr[s]
    BY <1>2, VaddrFacts DEF FitsAt, New, Run
  <2> HIDE DEF pages
  <2>3. /\ Pools(r) /\ Marks(M, r, s, pages)
        /\ ~r.panic => ~M.panic /\ (Good(M) => Good(r))
    BY <2>1, <2>2, MarkedFacts
  <2> HIDE DEF r
  <2>4. \A t \in Space : t # s => r.vaddr[t] = M.vaddr[t]
    BY <2>3 DEF Marks, Pools
  <2> QED BY <1>2, <2>2, <2>3, <2>4 DEF pages, r
<1> QED BY <1>1, <1>2

\* Pages of s are no longer mapped.
Taken(M, r, s, pages) ==
  /\ \A t \in Space : t # s => r.pte[t] = M.pte[t]
  /\ \A g \in PageOf(s) : r.pte[s][g] = IF g \in pages THEN NULL ELSE M.pte[s][g]

\* What is still used has one use.
LEMMA TakenUse ==
  ASSUME NEW M, NEW r, NEW s \in Space, NEW pages, Taken(M, r, s, pages), OneUse(M),
         \A p \in Proc : r.pde[p] = M.pde[p] \/ r.pde[p] = NULL
  PROVE  OneUse(r)
<1>1. \A t \in Space : \A g \in PageOf(t) : r.pte[t][g] = M.pte[t][g] \/ r.pte[t][g] = NULL
  BY DEF Taken
<1>2. ASSUME NEW p \in Proc, NEW g \in PageOf(kernel), r.pde[p] # NULL
      PROVE  r.pde[p] # r.pte[kernel][g]
  BY <1>1, <1>2, FrameFacts DEF OneUse
<1>3. ASSUME NEW t \in Space, NEW u \in Space, NEW g \in PageOf(t), NEW h \in PageOf(u),
             r.pte[t][g] # NULL, r.pte[t][g] = r.pte[u][h]
      PROVE  t = u /\ g = h
  <2>1. r.pte[t][g] = M.pte[t][g] /\ r.pte[u][h] = M.pte[u][h]
    BY <1>1, <1>3
  <2>2. M.pte[t][g] # NULL /\ M.pte[t][g] = M.pte[u][h]
    BY <1>3, <2>1
  <2> QED BY <2>2 DEF OneUse
<1>4. \A p, q \in Proc : r.pde[p] # NULL /\ r.pde[p] = r.pde[q] => p = q
  BY DEF OneUse
<1> QED BY <1>2, <1>3, <1>4 DEF OneUse

\* mfree_page() gives back pages that were mapped.
LEMMA MfreeFacts ==
  ASSUME NEW M, Pools(M), NEW s \in Space, NEW start, NEW cnt
  PROVE  LET r == mfree_page(M, s, start, cnt)
         IN  /\ Pools(r)
             /\ ~r.panic => /\ ~M.panic /\ (Good(M) => Good(r) /\ Run(start, cnt) \subseteq M.vaddr[s])
                            /\ Unmarks(M, r, s, Run(start, cnt))
<1> DEFINE r == mfree_page(M, s, start, cnt)
           pages == Run(start, cnt)
           table == [g \in PageOf(s) |-> IF g \in pages THEN NULL ELSE M.pte[s][g]]
<1>1. CASE \E g \in pages : g \notin PageOf(s) \/ M.pte[s][g] = NULL
  <2>1. r = PANIC(M)
    BY <1>1 DEF mfree_page
  <2> QED BY <2>1, PanicFacts
<1>2. CASE \A g \in pages : g \in PageOf(s) /\ M.pte[s][g] # NULL
  <2>1. r = [M EXCEPT !.used = @ \ {M.pte[s][g] : g \in pages}, !.pte[s] = table, !.vaddr[s] = @ \ pages]
    BY <1>2 DEF mfree_page
  <2> HIDE DEF pages
  <2>2. table \in PTable(s)
    BY DEF Pools, PTable
  <2>3. \A g \in PageOf(s) : table[g] = IF g \in pages THEN NULL ELSE M.pte[s][g]
    OBVIOUS
  <2> HIDE DEF table
  <2>4. /\ r.used = M.used \ {M.pte[s][g] : g \in pages} /\ r.pte = [M.pte EXCEPT ![s] = table]
        /\ r.vaddr = [M.vaddr EXCEPT ![s] = @ \ pages] /\ r.pde = M.pde
        /\ r.panic = M.panic /\ r.full = M.full
    BY <2>1 DEF Pools
  <2>5. /\ r.pte \in [Space -> PTables] /\ r.pte[s] = table
        /\ \A t \in Space : t # s => r.pte[t] = M.pte[t]
    BY <2>2, <2>4 DEF Pools, PTables
  <2>6. /\ r.vaddr \in [Space -> SUBSET Nat] /\ r.vaddr[s] = M.vaddr[s] \ pages
        /\ \A t \in Space : t # s => r.vaddr[t] = M.vaddr[t]
    BY <2>4 DEF Pools
  <2>7. Pools(r)
    <3>1. r = [used |-> r.used, vaddr |-> r.vaddr, pte |-> r.pte, pde |-> r.pde,
               panic |-> r.panic, full |-> r.full]
      BY <2>1, <2>4 DEF Pools
    <3>2. r.used \in SUBSET Frame
      BY <2>4 DEF Pools
    <3>3. \A t \in Space : r.vaddr[t] \subseteq PageOf(t) /\ r.pte[t] \in PTable(t)
      BY <2>2, <2>5, <2>6 DEF Pools
    <3> HIDE DEF r
    <3> QED BY <2>4, <2>5, <2>6, <3>1, <3>2, <3>3 DEF Pools
  <2> HIDE DEF r
  <2>8. Taken(M, r, s, pages)
    BY <2>3, <2>5 DEF Taken
  <2>9. ASSUME Good(M) PROVE Good(r) /\ pages \subseteq M.vaddr[s]
    <3>1. OneUse(r)
      BY <2>4, <2>8, <2>9, TakenUse DEF Good, Sound
    <3>2. ASSUME NEW f \in Frame PROVE f \in r.used <=> HasUse(r, f)
      <4>1. f # NULL
        BY PagesAssumption DEF Frame
      <4>2. f \in M.used <=> HasUse(M, f)
        BY <2>9 DEF Good, Sound
      <4>3. CASE \E g \in pages : M.pte[s][g] = f
        <5>1. PICK g \in pages : M.pte[s][g] = f
          BY <4>3
        <5>2. g \in PageOf(s)
          BY <1>2
        <5>3. \A t \in Space : \A h \in PageOf(t) : M.pte[t][h] = f => t = s /\ h = g
          BY <2>9, <4>1, <5>1, <5>2 DEF Good, Sound, OneUse
        <5>4. \A t \in Space : \A h \in PageOf(t) : r.pte[t][h] # f
          BY <4>1, <5>1, <5>3, <2>8 DEF Taken
        <5>5. \A p \in Proc : r.pde[p] # f
          <6>1. f \in PoolOf(s)
            BY <4>1, <5>1, <5>2 DEF Pools, PTable
          <6>2. ASSUME NEW p \in Proc, M.pde[p] = f PROVE FALSE
            <7>1. f \in PoolOf(kernel)
              BY <4>1, <6>2 DEF Pools
            <7>2. s = kernel
              BY <6>1, <7>1, FrameFacts DEF Space
            <7> QED BY <2>9, <4>1, <5>1, <5>2, <6>2, <7>2 DEF Good, Sound, OneUse
          <6> QED BY <2>4, <6>2
        <5> QED BY <2>4, <4>3, <5>4, <5>5 DEF HasUse
      <4>4. CASE ~\E g \in pages : M.pte[s][g] = f
        <5>1. HasUse(r, f) <=> HasUse(M, f)
          <6>1. (\E t \in Space : \E h \in PageOf(t) : r.pte[t][h] = f)
                  <=> \E t \in Space : \E h \in PageOf(t) : M.pte[t][h] = f
            BY <2>8, <4>1, <4>4 DEF Taken
          <6> QED BY <2>4, <6>1 DEF HasUse
        <5> QED BY <2>4, <4>2, <4>4, <5>1
      <4> QED BY <4>3, <4>4
    <3>3. \A t \in Space : r.vaddr[t] = Maps(r, t)
      BY <2>6, <2>8, <2>9 DEF Good, Maps, Taken
    <3>4. pages \subseteq M.vaddr[s]
      BY <1>2, <2>9 DEF Good, Maps
    <3> QED BY <3>1, <3>2, <3>3, <3>4 DEF Good, Sound
  <2> QED BY <2>4, <2>7, <2>9 DEF r, pages, Unmarks
<1> QED BY <1>1, <1>2

\* free_user_space() leaves no page of a process, and its page table is free.
LEMMA FreeUserFacts ==
  ASSUME NEW M, Pools(M), NEW p \in Proc
  PROVE  LET r == free_user_space(M, p)
         IN  /\ Pools(r) /\ r.panic = M.panic /\ r.vaddr = [M.vaddr EXCEPT ![p] = {}]
             /\ Good(M) => Good(r)
<1> DEFINE r == free_user_space(M, p)
           table == [g \in PageOf(p) |-> NULL]
           freed == {M.pte[p][g] : g \in PageOf(p)} \cup {M.pde[p]}
<1>1. r = [M EXCEPT !.used = @ \ freed, !.pte[p] = table, !.pde[p] = NULL, !.vaddr[p] = {}]
  BY DEF free_user_space
<1>2. p \in Space /\ p # kernel
  BY FrameFacts
<1>3. table \in PTable(p) /\ \A g \in PageOf(p) : table[g] = NULL
  BY DEF PTable
<1> HIDE DEF table
<1>4. \A f : f \in freed <=> (\E g \in PageOf(p) : M.pte[p][g] = f) \/ M.pde[p] = f
  OBVIOUS
<1> HIDE DEF freed
<1>5. /\ r.used = M.used \ freed /\ r.pte = [M.pte EXCEPT ![p] = table]
      /\ r.vaddr = [M.vaddr EXCEPT ![p] = {}] /\ r.pde = [M.pde EXCEPT ![p] = NULL]
      /\ r.panic = M.panic /\ r.full = M.full
  BY <1>1 DEF Pools
<1>6. /\ r.pte \in [Space -> PTables] /\ r.pte[p] = table
      /\ \A t \in Space : t # p => r.pte[t] = M.pte[t]
  BY <1>2, <1>3, <1>5 DEF Pools, PTables
<1>7. /\ r.vaddr \in [Space -> SUBSET Nat] /\ r.vaddr[p] = {}
      /\ \A t \in Space : t # p => r.vaddr[t] = M.vaddr[t]
  BY <1>2, <1>5 DEF Pools
<1>8. /\ r.pde \in [Proc -> PoolOf(kernel) \cup {NULL}] /\ r.pde[p] = NULL
      /\ \A q \in Proc : q # p => r.pde[q] = M.pde[q]
  BY <1>5 DEF Pools
<1>9. Pools(r)
  <2>1. r = [used |-> r.used, vaddr |-> r.vaddr, pte |-> r.pte, pde |-> r.pde,
             panic |-> r.panic, full |-> r.full]
    BY <1>1, <1>5 DEF Pools
  <2>2. r.used \in SUBSET Frame /\ r.panic \in BOOLEAN /\ r.full \in BOOLEAN
    BY <1>5 DEF Pools
  <2>3. \A t \in Space : r.vaddr[t] \subseteq PageOf(t) /\ r.pte[t] \in PTable(t)
    BY <1>3, <1>6, <1>7 DEF Pools
  <2> HIDE DEF r
  <2> QED BY <1>6, <1>7, <1>8, <2>1, <2>2, <2>3 DEF Pools
<1> HIDE DEF r
<1>10. Taken(M, r, p, PageOf(p))
  BY <1>3, <1>6 DEF Taken
<1>11. ASSUME Good(M) PROVE Good(r)
  <2>1. OneUse(r)
    BY <1>2, <1>8, <1>10, <1>11, TakenUse DEF Good, Sound
  <2>2. ASSUME NEW f \in Frame PROVE f \in r.used <=> HasUse(r, f)
    <3>1. f # NULL
      BY PagesAssumption DEF Frame
    <3>2. f \in M.used <=> HasUse(M, f)
      BY <1>11 DEF Good, Sound
    <3>3. CASE f \in freed
      <4>1. \A t \in Space : \A h \in PageOf(t) : r.pte[t][h] # f
        <5> SUFFICES ASSUME NEW t \in Space, NEW h \in PageOf(t), r.pte[t][h] = f PROVE FALSE
          OBVIOUS
        <5>1. t # p /\ M.pte[t][h] = f
          BY <1>3, <1>6, <3>1
        <5>2. M.pde[p] = f
          BY <1>2, <1>4, <1>11, <3>1, <3>3, <5>1 DEF Good, Sound, OneUse
        <5>3. f \in PoolOf(kernel) /\ f \in PoolOf(t)
          BY <3>1, <5>1, <5>2 DEF Pools, PTable
        <5>4. t = kernel
          BY <5>3, FrameFacts DEF Space
        <5> QED BY <1>11, <3>1, <5>1, <5>2, <5>4 DEF Good, Sound, OneUse
      <4>2. \A q \in Proc : r.pde[q] # f
        <5> SUFFICES ASSUME NEW q \in Proc, r.pde[q] = f PROVE FALSE
          OBVIOUS
        <5>1. q # p /\ M.pde[q] = f
          BY <1>8, <3>1
        <5>2. M.pde[p] # f
          BY <1>11, <3>1, <5>1 DEF Good, Sound, OneUse
        <5>3. PICK g \in PageOf(p) : M.pte[p][g] = f
          BY <1>4, <3>3, <5>2
        <5> QED BY <1>2, <3>1, <5>1, <5>3, FrameFacts DEF Pools, PTable
      <4> QED BY <1>5, <3>3, <4>1, <4>2 DEF HasUse
    <3>4. CASE f \notin freed
      <4>1. (\E t \in Space : \E h \in PageOf(t) : r.pte[t][h] = f)
              <=> \E t \in Space : \E h \in PageOf(t) : M.pte[t][h] = f
        BY <1>3, <1>4, <1>6, <3>1, <3>4
      <4>2. (\E q \in Proc : r.pde[q] = f) <=> \E q \in Proc : M.pde[q] = f
        BY <1>4, <1>8, <3>1, <3>4
      <4> QED BY <1>5, <3>2, <3>4, <4>1, <4>2 DEF HasUse
    <3> QED BY <3>3, <3>4
  <2>3. \A t \in Space : r.vaddr[t] = Maps(r, t)
    BY <1>3, <1>6, <1>7, <1>11 DEF Good, Maps
  <2>4. Sound(r)
    BY <2>1, <2>2 DEF Sound
  <2> QED BY <2>3, <2>4 DEF Good
<1> QED BY <1>5, <1>9, <1>11 DEF r

-----------------------------------------------------------------------------
\* The kernel pool marks the frames of its pages and of the page tables.
LEMMA KernelFrames ==
  ASSUME NEW M, Pools(M), Good(M)
  PROVE  M.used \cap PoolOf(kernel)
           = {M.pte[kernel][g] : g \in M.vaddr[kernel]} \cup ({M.pde[p] : p \in Proc} \ {NULL})
<1>1. ASSUME NEW f \in PoolOf(kernel)
      PROVE  f \in M.used <=> \/ \E g \in M.vaddr[kernel] : M.pte[kernel][g] = f
                              \/ \E p \in Proc : M.pde[p] = f
  <2>1. f \in Frame /\ f # NULL
    BY FrameFacts
  <2>2. f \in M.used <=> HasUse(M, f)
    BY <2>1 DEF Good, Sound
  <2>3. ASSUME NEW s \in Space, NEW g \in PageOf(s), M.pte[s][g] = f PROVE s = kernel
    <3>1. f \in PoolOf(s)
      BY <2>1, <2>3 DEF Pools, PTable
    <3> QED BY <3>1, FrameFacts DEF Space
  <2>4. (\E g \in PageOf(kernel) : M.pte[kernel][g] = f) <=> \E g \in M.vaddr[kernel] : M.pte[kernel][g] = f
    BY <2>1, FrameFacts DEF Good, Maps
  <2> QED BY <2>2, <2>3, <2>4, FrameFacts DEF HasUse
<1>2. ASSUME NEW g \in M.vaddr[kernel] PROVE M.pte[kernel][g] \in PoolOf(kernel)
  BY FrameFacts DEF Good, Maps, Pools, PTable
<1>3. ASSUME NEW p \in Proc, M.pde[p] # NULL PROVE M.pde[p] \in PoolOf(kernel)
  BY <1>3 DEF Pools
<1>4. \A p \in Proc : M.pde[p] \in PoolOf(kernel) => M.pde[p] # NULL
  BY FrameFacts
<1> QED BY <1>1, <1>2, <1>3, <1>4

\* FramesExact: the frames that are mapped are as many as the pages, because
\* what maps a frame to its page is a bijection.
LEMMA FramesFacts ==
  ASSUME Pools(m), Good(m)
  PROVE  FramesExact
<1> DEFINE mapped == UNION {{<<s, g>> : g \in {h \in PageOf(s) : m.pte[s][h] # NULL}} : s \in Space}
           frames == {m.pte[x[1]][x[2]] : x \in mapped}
           first == [f \in frames |-> CHOOSE x \in mapped : m.pte[x[1]][x[2]] = f]
<1>1. \A x : x \in mapped <=> \E s \in Space : \E g \in PageOf(s) : x = <<s, g>> /\ m.pte[s][g] # NULL
  OBVIOUS
<1> HIDE DEF mapped
<1>2. \A x, y \in mapped : m.pte[x[1]][x[2]] = m.pte[y[1]][y[2]] => x = y
  BY <1>1 DEF Good, Sound, OneUse
<1>3. \A x \in mapped : m.pte[x[1]][x[2]] \in Frame
  <2> SUFFICES ASSUME NEW s \in Space, NEW g \in PageOf(s), m.pte[s][g] # NULL
               PROVE  m.pte[s][g] \in Frame
    BY <1>1
  <2> QED BY FrameFacts DEF Pools, PTable
<1>4. frames \subseteq Frame /\ IsFiniteSet(frames)
  <2>1. frames \subseteq Frame
    BY <1>3
  <2> QED BY <2>1, FrameFacts, FS_Subset
<1>5. \A f \in frames : first[f] \in mapped /\ m.pte[first[f][1]][first[f][2]] = f
  OBVIOUS
<1>6. first \in [frames -> mapped]
  BY <1>5
<1>7. \A x \in mapped : first[m.pte[x[1]][x[2]]] = x
  BY <1>2, <1>5
<1>8. first \in Bijection(frames, mapped)
  <2>1. \A x \in mapped : \E f \in frames : first[f] = x
    <3>1. \A x \in mapped : m.pte[x[1]][x[2]] \in frames
      OBVIOUS
    <3> HIDE DEF frames, first
    <3> QED BY <1>7, <3>1
  <2> HIDE DEF first, frames
  <2>2. \A f, g \in frames : first[f] = first[g] => f = g
    BY <1>5
  <2> QED BY <1>6, <2>1, <2>2 DEF Bijection, Injection, Surjection, IsInjective
<1>9. Cardinality(frames) = Cardinality(mapped)
  BY <1>4, <1>8, FS_Bijection DEF ExistsBijection
<1>10. m.used \cap UserFrame = frames \cap UserFrame
  <2> SUFFICES ASSUME NEW f \in UserFrame PROVE f \in m.used <=> f \in frames
    OBVIOUS
  <2>1. f \in Frame /\ f # NULL /\ f \notin PoolOf(kernel)
    BY FrameFacts, HeapAssumption DEF UserFrame
  <2>2. f \in m.used <=> HasUse(m, f)
    BY <2>1 DEF Good, Sound
  <2>3. \A p \in Proc : m.pde[p] # f
    BY <2>1 DEF Pools
  <2>4. f \in frames <=> \E s \in Space : \E g \in PageOf(s) : m.pte[s][g] = f
    <3>1. f \in frames <=> \E x \in mapped : m.pte[x[1]][x[2]] = f
      OBVIOUS
    <3>2. (\E x \in mapped : m.pte[x[1]][x[2]] = f)
            <=> \E s \in Space : \E g \in PageOf(s) : m.pte[s][g] # NULL /\ m.pte[s][g] = f
      <4>1. ASSUME NEW s \in Space, NEW g \in PageOf(s), m.pte[s][g] # NULL, m.pte[s][g] = f
            PROVE  \E x \in mapped : m.pte[x[1]][x[2]] = f
        <5>1. <<s, g>> \in mapped /\ <<s, g>>[1] = s /\ <<s, g>>[2] = g
          BY <1>1, <4>1
        <5> QED BY <4>1, <5>1
      <4>2. ASSUME NEW x \in mapped, m.pte[x[1]][x[2]] = f
            PROVE  \E s \in Space : \E g \in PageOf(s) : m.pte[s][g] # NULL /\ m.pte[s][g] = f
        <5>1. PICK s \in Space : \E g \in PageOf(s) : x = <<s, g>> /\ m.pte[s][g] # NULL
          BY <1>1
        <5> QED BY <4>2, <5>1
      <4> QED BY <4>1, <4>2
    <3> QED BY <2>1, <3>1, <3>2
  <2> QED BY <2>2, <2>3, <2>4 DEF HasUse
<1>11. PagesExact
  BY DEF PagesExact, Good, Maps
<1> QED BY <1>9, <1>10, <1>11 DEF FramesExact, mapped, frames

-----------------------------------------------------------------------------
\* A process that runs has an address space; a zombie has only kernel pages.
Runs(st) == st \in {"live", "overwritten"}

\* Who does not run has no pages, and a bitmap's pages are not used otherwise.
SpacesInv(vaddr, st, k) ==
  \A p \in Proc :
    /\ ~Runs(st[p]) => vaddr[p] = {}
    /\ Runs(st[p]) => k[p].pcb \notin Run(k[p].bitmap, BitmapPages)
                        /\ k[p].pgdir \notin Run(k[p].bitmap, BitmapPages)

\* The kernel's pages of a process, those of all, and how they are among the
\* marked pages V: lost of these are nobody's, which is what KernelReclaimed
\* denies.
ObjPages(st, k) ==
  IF Runs(st) THEN {k.pcb, k.pgdir} \cup Run(k.bitmap, BitmapPages)
  ELSE IF st = "zombie" THEN {k.pcb, k.pgdir} ELSE {}
Owned(st, k) == UNION {ObjPages(st[p], k[p]) : p \in Proc}
PagesAccounted(V, st, k, lost) ==
  /\ \A p \in Proc : ObjPages(st[p], k[p]) \subseteq V
  /\ \A p, q \in Proc : p # q => ObjPages(st[p], k[p]) \cap ObjPages(st[q], k[q]) = {}
  /\ Cardinality(V \ Owned(st, k)) = lost

\* The types of what processes keep, and of the counters.
HistoryType ==
  /\ state \in [Proc -> {"none", "live", "overwritten", "zombie"}]
  /\ kobj \in [Proc -> [pcb : Nat, bitmap : Nat, pgdir : Nat]]
  /\ exits \in Nat /\ failed \in Nat

\* The invariant.
HeapInv ==
  ~m.panic =>
    /\ Pools(m) /\ Good(m) /\ HistoryType /\ SpacesInv(m.vaddr, state, kobj)
    /\ PagesAccounted(m.vaddr[kernel], state, kobj,
                      exits * (BitmapPages - FreedPages) + 2 * failed)

\* KernelAccounted follows.
LEMMA AccountedFacts ==
  ASSUME HeapInv, ~m.panic
  PROVE  KernelAccounted
<1>1. \A p \in Proc : KernelPages(p) = ObjPages(state[p], kobj[p])
  BY DEF KernelPages, ObjPages, Runs, Pcb
<1>2. \A p \in Proc : KernelPages(p) \subseteq m.vaddr[kernel]
  BY <1>1 DEF HeapInv, PagesAccounted
<1>3. m.used \cap PoolOf(kernel)
        = {m.pte[kernel][g] : g \in m.vaddr[kernel]} \cup ({m.pde[p] : p \in Proc} \ {NULL})
  BY KernelFrames DEF HeapInv
<1>4. \A p, q \in Proc : p # q => KernelPages(p) \cap KernelPages(q) = {}
  BY <1>1 DEF HeapInv, PagesAccounted
<1> QED BY <1>2, <1>3, <1>4 DEF KernelAccounted

\* A bitmap has at least the pages that exit() frees.
LEMMA BitmapFacts ==
  /\ BitmapPages \in Nat /\ BitmapPages >= 1
  /\ FreedPages \in Nat /\ FreedPages <= BitmapPages
<1>1. BtmpLen \in Nat /\ PgSize \in Nat /\ PgSize >= 1 /\ BtmpLen >= PgSize
  BY HeapAssumption
<1>2. ASSUME NEW L \in Nat, NEW P \in Nat, P >= 1, L >= P
      PROVE  /\ (L + P - 1) \div P \in Nat /\ L \div P \in Nat
             /\ L \div P >= 1 /\ L \div P <= (L + P - 1) \div P
  BY <1>2
<1>3. /\ BitmapPages \in Nat /\ FreedPages \in Nat
      /\ FreedPages >= 1 /\ FreedPages <= BitmapPages
  BY <1>1, <1>2 DEF BitmapPages, FreedPages
<1> QED BY <1>3

-----------------------------------------------------------------------------
\* The kernel's pages are the first k, and there are no others.
HasFirst(M, k) == M.vaddr[kernel] = 0..k - 1 /\ \A p \in Proc : M.vaddr[p] = {}

\* malloc_page() then takes the page numbered k and those after it.
LEMMA NextPages ==
  ASSUME NEW M, Pools(M), NEW k \in Nat, HasFirst(M, k),
         NEW cnt \in Nat, cnt >= 1, ~malloc_page(M, kernel, cnt).panic
  PROVE  LET r == malloc_page(M, kernel, cnt)
         IN  /\ ~M.panic /\ Pools(r) /\ (Good(M) => Good(r))
             /\ HasFirst(r, k + cnt)
<1> DEFINE r == malloc_page(M, kernel, cnt)
           j == vaddr_get(M, kernel, cnt)
<1>1. kernel \in Space /\ PageOf(kernel) = 0..UserStart - 1 /\ UserStart \in Nat
  BY FrameFacts, PagesAssumption DEF PageOf
<1>2. /\ ~M.panic /\ Pools(r) /\ (Good(M) => Good(r)) /\ HasRoom(M, kernel, cnt)
      /\ Marks(M, r, kernel, New(M, kernel, cnt))
  BY <1>1, MallocFacts
<1>3. /\ j \in PageOf(kernel) /\ FitsAt(M, kernel, cnt, j)
      /\ \A i \in PageOf(kernel) : FitsAt(M, kernel, cnt, i) => j <= i
  BY <1>1, <1>2, VaddrFacts
<1> HIDE DEF j
<1>4. j \in Nat /\ j + cnt - 1 <= UserStart - 1 /\ j >= k
  <2>1. j \in j..j + cnt - 1 /\ j + cnt - 1 \in j..j + cnt - 1
    BY <1>1, <1>3
  <2>2. j \notin 0..k - 1 /\ j + cnt - 1 \in 0..UserStart - 1
    BY <1>1, <1>3, <2>1 DEF FitsAt, HasFirst
  <2> QED BY <1>1, <1>3, <2>2 DEF HasFirst
<1>5. k \in PageOf(kernel) /\ FitsAt(M, kernel, cnt, k)
  <2>1. \A i \in k..k + cnt - 1 : i \in 0..UserStart - 1 /\ i \notin 0..k - 1
    BY <1>1, <1>4
  <2> QED BY <1>1, <1>4, <2>1 DEF FitsAt, HasFirst
<1>6. j = k
  BY <1>3, <1>4, <1>5
<1>7. 0..k - 1 \cup Run(k, cnt) = 0..k + cnt - 1
  BY DEF Run
<1>8. New(M, kernel, cnt) = Run(k, cnt)
  BY <1>6 DEF New, j
<1>9. /\ r.vaddr[kernel] = M.vaddr[kernel] \cup New(M, kernel, cnt)
      /\ \A p \in Proc : r.vaddr[p] = M.vaddr[p]
  BY <1>1, <1>2, FrameFacts DEF Pools, Marks
<1> HIDE DEF r
<1>10. HasFirst(r, k + cnt)
  <2>1. M.vaddr[kernel] = 0..k - 1 /\ \A p \in Proc : M.vaddr[p] = {}
    BY DEF HasFirst
  <2> QED BY <1>7, <1>8, <1>9, <2>1 DEF HasFirst
<1> QED BY <1>2, <1>10 DEF r

\* The pools before the first allocation.
LEMMA PoolsStart == Pools(mem_pool_init) /\ Good(mem_pool_init)
<1> DEFINE M == mem_pool_init
<1>1. /\ M.used = {} /\ M.vaddr = [s \in Space |-> {}] /\ M.pde = [p \in Proc |-> NULL]
      /\ M.pte = [s \in Space |-> [g \in PageOf(s) |-> NULL]]
      /\ M.panic = FALSE /\ M.full = FALSE
  BY DEF mem_pool_init
<1>2. M = [used |-> M.used, vaddr |-> M.vaddr, pte |-> M.pte, pde |-> M.pde,
           panic |-> M.panic, full |-> M.full]
  BY DEF mem_pool_init
<1> HIDE DEF M
<1>3. \A s \in Space : M.pte[s] \in PTable(s) /\ \A g \in PageOf(s) : M.pte[s][g] = NULL
  BY <1>1 DEF PTable
<1>4. M.pte \in [Space -> PTables]
  BY <1>1, <1>3 DEF PTables
<1>5. Pools(M)
  BY <1>1, <1>2, <1>3, <1>4 DEF Pools
<1>6. Sound(M)
  <2>1. \A f \in Frame : f # NULL
    BY PagesAssumption DEF Frame
  <2> QED BY <1>1, <1>3, <2>1 DEF Sound, OneUse, HasUse
<1>7. \A s \in Space : M.vaddr[s] = Maps(M, s)
  BY <1>1, <1>3 DEF Maps
<1> QED BY <1>5, <1>6, <1>7 DEF M, Good

\* The first process has the kernel's first pages.
LEMMA HeapStarts == Init => HeapInv
<1> SUFFICES ASSUME Init, ~m.panic
             PROVE  /\ Pools(m) /\ Good(m) /\ HistoryType /\ SpacesInv(m.vaddr, state, kobj)
                    /\ PagesAccounted(m.vaddr[kernel], state, kobj,
                                      exits * (BitmapPages - FreedPages) + 2 * failed)
  BY DEF HeapInv
<1> DEFINE m1 == malloc_page(mem_pool_init, kernel, 1)
           m2 == malloc_page(m1, kernel, BitmapPages)
           m3 == malloc_page(m2, kernel, 1)
<1>1. /\ m = malloc_page(m3, First, 1) /\ kobj = [p \in Proc |-> FirstPages]
      /\ state = [p \in Proc |-> IF p = First THEN "live" ELSE "none"]
      /\ exits = 0 /\ failed = 0
  BY DEF Init
<1>2. Pools(m1) /\ Pools(m2) /\ Pools(m3)
  BY PoolsStart, MallocFacts, FrameFacts
<1> HIDE DEF m3
<1>3. First \in Proc /\ First \in Space /\ First # kernel /\ kernel \in Space
  BY HeapAssumption, FrameFacts
<1>4. /\ Pools(m) /\ ~m3.panic /\ (Good(m3) => Good(m))
      /\ Marks(m3, m, First, New(m3, First, 1))
  BY <1>1, <1>2, <1>3, MallocFacts
<1>5. m.vaddr[kernel] = m3.vaddr[kernel] /\ \A p \in Proc : p # First => m.vaddr[p] = m3.vaddr[p]
  BY <1>2, <1>3, <1>4, FrameFacts DEF Pools, Marks
<1>6. ~m2.panic /\ ~m1.panic
  <2>1. ~m2.panic
    BY <1>2, <1>3, <1>4, MallocFacts DEF m3
  <2> HIDE DEF m2
  <2>2. ~m1.panic
    BY <1>2, <1>3, <2>1, MallocFacts DEF m2
  <2> QED BY <2>1, <2>2
<1> HIDE DEF m1, m2
<1>7. Good(m1) /\ HasFirst(m1, 1)
  <2>1. HasFirst(mem_pool_init, 0)
    BY <1>3, FrameFacts DEF mem_pool_init, HasFirst
  <2>2. ~malloc_page(mem_pool_init, kernel, 1).panic
    BY <1>6 DEF m1
  <2>3. Good(m1) /\ HasFirst(m1, 0 + 1)
    BY <2>1, <2>2, PoolsStart, NextPages DEF m1
  <2> QED BY <2>3
<1>8. Good(m2) /\ HasFirst(m2, 1 + BitmapPages)
  BY <1>2, <1>6, <1>7, NextPages, BitmapFacts DEF m2
<1>9. /\ Good(m3) /\ m3.vaddr[kernel] = 0..1 + BitmapPages
      /\ \A p \in Proc : m3.vaddr[p] = {}
  <2>1. 1 + BitmapPages \in Nat /\ 1 + BitmapPages + 1 - 1 = 1 + BitmapPages
    BY BitmapFacts
  <2>2. Good(m3) /\ HasFirst(m3, 1 + BitmapPages + 1)
    BY <1>2, <1>4, <1>8, <2>1, NextPages DEF m3
  <2> QED BY <2>1, <2>2 DEF HasFirst
<1>10. HistoryType
  BY <1>1, <1>3, BitmapFacts DEF HistoryType, FirstPages
<1>11. SpacesInv(m.vaddr, state, kobj)
  <2>1. 0 \notin Run(1, BitmapPages) /\ 1 + BitmapPages \notin Run(1, BitmapPages)
    BY BitmapFacts DEF Run
  <2> QED BY <1>1, <1>5, <1>9, <2>1 DEF SpacesInv, Runs, FirstPages
<1>12. /\ ObjPages(state[First], kobj[First]) = 0..1 + BitmapPages
       /\ \A p \in Proc : p # First => ObjPages(state[p], kobj[p]) = {}
  <2>1. {0, 1 + BitmapPages} \cup Run(1, BitmapPages) = 0..1 + BitmapPages
    BY BitmapFacts DEF Run
  <2> QED BY <1>1, <1>3, <2>1 DEF ObjPages, Runs, FirstPages
<1>13. PagesAccounted(m.vaddr[kernel], state, kobj, exits * (BitmapPages - FreedPages) + 2 * failed)
  <2>1. m.vaddr[kernel] \ Owned(state, kobj) = {}
    BY <1>3, <1>5, <1>9, <1>12 DEF Owned
  <2>2. Cardinality(m.vaddr[kernel] \ Owned(state, kobj)) = 0
    BY <2>1, FS_EmptySet
  <2>3. exits * (BitmapPages - FreedPages) + 2 * failed = 0
    BY <1>1, BitmapFacts
  <2> QED BY <1>1, <1>5, <1>9, <1>12, <2>2, <2>3 DEF PagesAccounted
<1> QED BY <1>4, <1>9, <1>10, <1>11, <1>13

-----------------------------------------------------------------------------
\* A step of p in its own pages.
OwnPages(p) ==
  /\ m'.vaddr[kernel] = m.vaddr[kernel]
  /\ \A q \in Proc : q # p => m'.vaddr[q] = m.vaddr[q]

\* Such a step preserves the invariant if it leaves the pools good.
LEMMA OwnStep ==
  ASSUME HeapInv, ~m.panic, NEW p \in Proc, Runs(state[p]),
         Pools(m'), Good(m'), OwnPages(p), NEW v \in {"live", "overwritten"},
         state' = state \/ state' = [state EXCEPT ![p] = v],
         UNCHANGED <<kobj, exits, failed>>
  PROVE  HeapInv'
<1> DEFINE lost == exits * (BitmapPages - FreedPages) + 2 * failed
           V == m.vaddr[kernel]
<1>1. /\ Pools(m) /\ Good(m) /\ HistoryType /\ SpacesInv(m.vaddr, state, kobj)
      /\ PagesAccounted(V, state, kobj, lost)
  BY DEF HeapInv
<1>2. HistoryType'
  BY <1>1 DEF HistoryType
<1>3. ASSUME NEW q \in Proc
      PROVE  /\ ObjPages(state'[q], kobj[q]) = ObjPages(state[q], kobj[q])
             /\ Runs(state'[q]) <=> Runs(state[q])
             /\ q # p => m'.vaddr[q] = m.vaddr[q]
  <2>1. q # p => state'[q] = state[q]
    BY <1>1 DEF HistoryType
  <2>2. Runs(state'[p])
    BY <1>1 DEF HistoryType, Runs
  <2> QED BY <2>1, <2>2 DEF ObjPages, OwnPages
<1>4. SpacesInv(m'.vaddr, state', kobj)
  BY <1>1, <1>3 DEF SpacesInv
<1>5. Owned(state', kobj) = Owned(state, kobj)
  BY <1>3 DEF Owned
<1>6. PagesAccounted(V, state', kobj, lost)
  <2> HIDE DEF V, lost
  <2> QED BY <1>1, <1>3, <1>5 DEF PagesAccounted
<1> QED BY <1>2, <1>4, <1>6 DEF HeapInv, OwnPages

\* malloc() takes pages of the process's own.
LEMMA MallocStep ==
  ASSUME HeapInv, ~m.panic, NEW p \in Proc, Runs(state[p]), NEW cnt, m' = malloc_page(m, p, cnt),
         ~m'.panic
  PROVE  Pools(m') /\ Good(m') /\ OwnPages(p)
<1>1. Pools(m) /\ Good(m) /\ p \in Space /\ p # kernel /\ kernel \in Space
  BY FrameFacts DEF HeapInv
<1>2. Pools(m') /\ Good(m') /\ Marks(m, m', p, New(m, p, cnt))
  BY <1>1, MallocFacts
<1>3. m'.vaddr[kernel] = m.vaddr[kernel] /\ \A q \in Proc : q # p => m'.vaddr[q] = m.vaddr[q]
  BY <1>1, <1>2, FrameFacts DEF Pools, Marks
<1> QED BY <1>2, <1>3 DEF OwnPages

\* A malloc() of pages preserves the invariant.
LEMMA MallocLargeHeap ==
  ASSUME HeapInv, NEW p \in Proc, NEW cnt \in LargeSizes, sys_malloc_large(p, cnt)
  PROVE  HeapInv'
<1>1. ~m.panic /\ Runs(state[p]) /\ m' = malloc_page(m, p, cnt) /\ UNCHANGED <<state, kobj, exits, failed>>
  BY DEF sys_malloc_large, Alive, Up, Runs
<1>2. CASE m'.panic
  BY <1>2 DEF HeapInv
<1>3. CASE ~m'.panic
  BY <1>1, <1>3, MallocStep, OwnStep
<1> QED BY <1>2, <1>3

\* So does one of a block, from a new arena or not.
LEMMA MallocBlockHeap ==
  ASSUME HeapInv, NEW p \in Proc, sys_malloc_block(p)
  PROVE  HeapInv'
<1> DEFINE empty == list[p].head = TAIL(Pcb(p))
           s == IF empty THEN malloc_page(m, p, 1) ELSE m
<1>1. /\ ~m.panic /\ Runs(state[p]) /\ (m' = PANIC(s) \/ m' = s)
      /\ UNCHANGED <<state, kobj, exits, failed>>
  BY DEF sys_malloc_block, Alive, Up, Runs
<1>2. Pools(m) /\ Good(m) /\ p \in Space
  BY <1>1, FrameFacts DEF HeapInv
<1>3. Pools(s)
  BY <1>2, MallocFacts
<1>4. CASE m'.panic
  BY <1>4 DEF HeapInv
<1>5. CASE ~m'.panic
  <2>1. m' = s
    BY <1>1, <1>3, <1>5, PanicFacts
  <2>2. CASE empty
    <3>1. m' = malloc_page(m, p, 1)
      BY <2>1, <2>2
    <3>2. Pools(m') /\ Good(m') /\ OwnPages(p)
      BY <1>1, <1>5, <3>1, MallocStep
    <3> QED BY <1>1, <3>2, OwnStep
  <2>3. CASE ~empty
    <3>1. m' = m
      BY <2>1, <2>3
    <3>2. Pools(m') /\ Good(m') /\ OwnPages(p)
      BY <1>2, <3>1 DEF OwnPages
    <3> QED BY <1>1, <3>2, OwnStep
  <2> QED BY <2>2, <2>3
<1> QED BY <1>4, <1>5

\* free() gives back at most pages of the process's own.
LEMMA FreeHeap ==
  ASSUME HeapInv, NEW p \in Proc, NEW n \in held[p], sys_free(p, n)
  PROVE  HeapInv'
<1>1. /\ ~m.panic /\ Runs(state[p]) /\ UNCHANGED <<state, kobj, exits, failed>>
      /\ \/ m' = PANIC(m) \/ m' = m
         \/ \E start, cnt : m' = mfree_page(m, p, start, cnt)
  BY DEF sys_free, free_block, Alive, Up, Runs
<1>2. Pools(m) /\ Good(m) /\ p \in Space /\ p # kernel /\ kernel \in Space
  BY <1>1, FrameFacts DEF HeapInv
<1>3. CASE m'.panic
  BY <1>3 DEF HeapInv
<1>4. CASE m' = m
  BY <1>1, <1>2, <1>4, OwnStep DEF OwnPages
<1>5. ASSUME ~m'.panic, NEW start, NEW cnt, m' = mfree_page(m, p, start, cnt) PROVE HeapInv'
  <2>1. Pools(m') /\ Good(m') /\ Unmarks(m, m', p, Run(start, cnt))
    BY <1>2, <1>5, MfreeFacts
  <2>2. OwnPages(p)
    BY <1>2, <2>1, FrameFacts DEF OwnPages, Pools, Unmarks
  <2> QED BY <1>1, <2>1, <2>2, OwnStep
<1> QED BY <1>1, <1>2, <1>3, <1>4, <1>5, PanicFacts

\* execv() takes the pages of the segments that have none.
LEMMA ExecvHeap ==
  ASSUME HeapInv, NEW p \in Proc, NEW n \in ProgramSizes, NEW fails \in BOOLEAN, sys_execv(p, n, fails)
  PROVE  HeapInv'
<1> DEFINE new == Program(n) \ m.vaddr[p]
<1>1. /\ ~m.panic /\ Runs(state[p]) /\ UNCHANGED <<kobj, exits, failed>>
      /\ m' = palloc_add([m EXCEPT !.vaddr[p] = m.vaddr[p] \cup new], p, new)
      /\ \E v \in {"live", "overwritten"} : state' = [state EXCEPT ![p] = v]
  BY DEF sys_execv, segment_load, Alive, Up, Runs
<1>2. Pools(m) /\ Good(m) /\ p \in Space /\ p # kernel /\ kernel \in Space
  BY <1>1, FrameFacts DEF HeapInv
<1>3. new \in SUBSET PageOf(p)
  <2>1. n \in 1..NPage - 1 /\ NPage \in Nat
    BY HeapAssumption, PagesAssumption
  <2>2. 1..n \subseteq 0..NPage - 1
    BY <2>1
  <2> QED BY <1>2, <2>2 DEF Program, PageOf
<1> HIDE DEF new
<1>4. CASE m'.panic
  BY <1>4 DEF HeapInv
<1>5. CASE ~m'.panic
  <2>1. Pools(m') /\ Good(m') /\ Marks(m, m', p, new)
    BY <1>1, <1>2, <1>3, <1>5, MarkedFacts
  <2>2. OwnPages(p)
    BY <1>2, <2>1, FrameFacts DEF OwnPages, Pools, Marks
  <2> QED BY <1>1, <2>1, <2>2, OwnStep
<1> QED BY <1>4, <1>5

-----------------------------------------------------------------------------
\* The kernel's pages of p change, those of no other process do, and X are lost.
Change(V, st, k, W, st2, k2, p, X) ==
  LET A == ObjPages(st[p], k[p])
      B == ObjPages(st2[p], k2[p])
  IN  /\ \A q \in Proc : q # p => st2[q] = st[q] /\ k2[q] = k[q]
      /\ B \cap (V \ A) = {} /\ X \cap (V \ A) = {} /\ X \cap B = {}
      /\ W = (V \ A) \cup B \cup X
      /\ IsFiniteSet(V) /\ IsFiniteSet(X)

\* What is lost is then as much as before, and X.
LEMMA ChangeFacts ==
  ASSUME NEW V, NEW st, NEW k, NEW lost, PagesAccounted(V, st, k, lost),
         NEW p \in Proc, NEW st2, NEW k2, NEW X, NEW W, Change(V, st, k, W, st2, k2, p, X)
  PROVE  PagesAccounted(W, st2, k2, lost + Cardinality(X))
<1> DEFINE A == ObjPages(st[p], k[p])
           B == ObjPages(st2[p], k2[p])
<1>0. /\ \A q \in Proc : q # p => st2[q] = st[q] /\ k2[q] = k[q]
      /\ B \cap (V \ A) = {} /\ X \cap (V \ A) = {} /\ X \cap B = {}
      /\ W = (V \ A) \cup B \cup X
      /\ IsFiniteSet(V) /\ IsFiniteSet(X)
  BY DEF Change
<1> DEFINE O == UNION {ObjPages(st[q], k[q]) : q \in Proc \ {p}}
<1>1. A \subseteq V /\ O \subseteq V \ A
  BY DEF PagesAccounted
<1>2. \A q \in Proc : q # p => ObjPages(st2[q], k2[q]) = ObjPages(st[q], k[q])
  BY <1>0
<1>3. Owned(st, k) = A \cup O
  BY DEF Owned
<1>4. Owned(st2, k2) = B \cup O
  BY <1>2 DEF Owned
<1>5. \A q \in Proc : q # p => ObjPages(st[q], k[q]) \subseteq O
  OBVIOUS
<1>6. \A q \in Proc : ObjPages(st2[q], k2[q]) \subseteq IF q = p THEN B ELSE O
  BY <1>2, <1>5
<1>7. ASSUME NEW q \in Proc, NEW r \in Proc, q # r
      PROVE  ObjPages(st2[q], k2[q]) \cap ObjPages(st2[r], k2[r]) = {}
  <2>1. CASE q # p /\ r # p
    BY <1>2, <1>7, <2>1 DEF PagesAccounted
  <2> HIDE DEF A, B, O
  <2>2. CASE q = p \/ r = p
    BY <1>0, <1>1, <1>6, <1>7, <2>2
  <2> QED BY <2>1, <2>2
<1> HIDE DEF A, B, O
<1> DEFINE Y == V \ Owned(st, k)
<1>8. W \ Owned(st2, k2) = Y \cup X /\ Y \cap X = {}
  BY <1>0, <1>1, <1>3, <1>4
<1>9. IsFiniteSet(Y) /\ Cardinality(Y) = lost
  BY <1>0, FS_Subset DEF PagesAccounted
<1> HIDE DEF Y
<1>10. Cardinality(W \ Owned(st2, k2)) = lost + Cardinality(X)
  <2>1. Cardinality(Y \cup X) = Cardinality(Y) + Cardinality(X) - Cardinality(Y \cap X)
    BY <1>0, <1>9, FS_Union
  <2>2. Cardinality(Y \cap X) = 0 /\ Cardinality(Y) \in Nat /\ Cardinality(X) \in Nat
    BY <1>0, <1>8, <1>9, FS_EmptySet, FS_CardinalityType
  <2> QED BY <1>8, <1>9, <2>1, <2>2
<1>11. \A q \in Proc : ObjPages(st2[q], k2[q]) \subseteq W
  BY <1>0, <1>1, <1>6
<1> QED BY <1>7, <1>10, <1>11 DEF PagesAccounted

\* Pages N of the kernel are taken, or given back.
Takes(M, r, N) ==
  /\ r.vaddr[kernel] = M.vaddr[kernel] \cup N /\ N \cap M.vaddr[kernel] = {}
  /\ \A q \in Proc : r.vaddr[q] = M.vaddr[q]
Gives(M, r, N) ==
  /\ r.vaddr[kernel] = M.vaddr[kernel] \ N
  /\ \A q \in Proc : r.vaddr[q] = M.vaddr[q]

\* malloc_page() in the kernel's part, of any number of pages.
LEMMA KernelMalloc ==
  ASSUME NEW M, Pools(M), NEW cnt, ~malloc_page(M, kernel, cnt).panic
  PROVE  /\ ~M.panic /\ (Good(M) => Good(malloc_page(M, kernel, cnt)))
         /\ Takes(M, malloc_page(M, kernel, cnt), New(M, kernel, cnt))
         /\ vaddr_get(M, kernel, cnt) \in Nat
<1> DEFINE r == malloc_page(M, kernel, cnt)
<1>1. kernel \in Space /\ PageOf(kernel) \subseteq Nat
  BY FrameFacts
<1>2. /\ ~M.panic /\ (Good(M) => Good(r)) /\ vaddr_get(M, kernel, cnt) \in PageOf(kernel)
      /\ New(M, kernel, cnt) \cap M.vaddr[kernel] = {} /\ Marks(M, r, kernel, New(M, kernel, cnt))
  BY <1>1, MallocFacts
<1> HIDE DEF r
<1>3. Takes(M, r, New(M, kernel, cnt))
  BY <1>1, <1>2, FrameFacts DEF Takes, Marks, Pools
<1> QED BY <1>1, <1>2, <1>3 DEF r

\* The same for one page.
LEMMA KernelMallocOne ==
  ASSUME NEW M, Pools(M), ~malloc_page(M, kernel, 1).panic
  PROVE  /\ ~M.panic /\ (Good(M) => Good(malloc_page(M, kernel, 1)))
         /\ Takes(M, malloc_page(M, kernel, 1), {vaddr_get(M, kernel, 1)})
         /\ vaddr_get(M, kernel, 1) \in Nat
<1>1. vaddr_get(M, kernel, 1) \in Nat /\ Takes(M, malloc_page(M, kernel, 1), New(M, kernel, 1))
  BY KernelMalloc
<1>2. New(M, kernel, 1) = {vaddr_get(M, kernel, 1)}
  BY <1>1 DEF New, Run
<1> QED BY <1>1, <1>2, KernelMalloc

\* mfree_page() in the kernel's part, of any number of pages.
LEMMA KernelMfree ==
  ASSUME NEW M, Pools(M), NEW start, NEW cnt, ~mfree_page(M, kernel, start, cnt).panic
  PROVE  /\ ~M.panic /\ Gives(M, mfree_page(M, kernel, start, cnt), Run(start, cnt))
         /\ Good(M) => /\ Good(mfree_page(M, kernel, start, cnt))
                       /\ Run(start, cnt) \subseteq M.vaddr[kernel]
<1> DEFINE r == mfree_page(M, kernel, start, cnt)
<1>1. kernel \in Space
  BY FrameFacts
<1>2. /\ ~M.panic /\ (Good(M) => Good(r) /\ Run(start, cnt) \subseteq M.vaddr[kernel])
      /\ Unmarks(M, r, kernel, Run(start, cnt))
  BY <1>1, MfreeFacts
<1> HIDE DEF r
<1>3. Gives(M, r, Run(start, cnt))
  BY <1>1, <1>2, FrameFacts DEF Gives, Unmarks, Pools
<1> QED BY <1>2, <1>3 DEF r

\* The same for one page.
LEMMA KernelMfreeOne ==
  ASSUME NEW M, Pools(M), NEW x \in Nat, ~mfree_page(M, kernel, x, 1).panic
  PROVE  /\ ~M.panic /\ Gives(M, mfree_page(M, kernel, x, 1), {x})
         /\ Good(M) => Good(mfree_page(M, kernel, x, 1)) /\ x \in M.vaddr[kernel]
<1>1. Run(x, 1) = {x}
  BY DEF Run
<1> QED BY <1>1, KernelMfree

\* The kernel's pages are finitely many.
LEMMA KernelFinite ==
  ASSUME NEW M, Pools(M)
  PROVE  IsFiniteSet(M.vaddr[kernel]) /\ M.vaddr[kernel] \subseteq Nat
<1>1. M.vaddr[kernel] \subseteq PageOf(kernel)
  BY FrameFacts DEF Pools
<1> QED BY <1>1, FrameFacts, FS_Subset

\* The reaping of a zombie gives its page directory and its pcb back.
LEMMA ThreadExitHeap ==
  ASSUME HeapInv, NEW p \in Proc, thread_exit(p)
  PROVE  HeapInv'
<1> SUFFICES ASSUME ~m'.panic PROVE HeapInv'
  BY DEF HeapInv
<1> DEFINE m1 == mfree_page(m, kernel, kobj[p].pgdir, 1)
           lost == exits * (BitmapPages - FreedPages) + 2 * failed
           A == {kobj[p].pcb, kobj[p].pgdir}
           V == m.vaddr[kernel]
<1>1. /\ ~m.panic /\ state[p] = "zombie" /\ m' = mfree_page(m1, kernel, kobj[p].pcb, 1)
      /\ state' = [state EXCEPT ![p] = "none"] /\ kobj' = [kobj EXCEPT ![p] = FirstPages]
      /\ UNCHANGED <<exits, failed>>
  BY DEF thread_exit, Up, Pcb
<1>2. /\ Pools(m) /\ Good(m) /\ HistoryType /\ SpacesInv(m.vaddr, state, kobj)
      /\ PagesAccounted(V, state, kobj, lost)
  BY <1>1 DEF HeapInv
<1>3. kobj[p].pcb \in Nat /\ kobj[p].pgdir \in Nat /\ lost \in Nat
  BY <1>2, BitmapFacts DEF HistoryType
<1>4. Pools(m1) /\ Pools(m')
  BY <1>1, <1>2, MfreeFacts, FrameFacts
<1>5. Good(m') /\ Gives(m, m1, {kobj[p].pgdir}) /\ Gives(m1, m', {kobj[p].pcb})
  <2>1. ~m1.panic /\ (Good(m1) => Good(m')) /\ Gives(m1, m', {kobj[p].pcb})
    BY <1>1, <1>3, <1>4, KernelMfreeOne
  <2>2. Good(m1) /\ Gives(m, m1, {kobj[p].pgdir})
    BY <1>2, <1>3, <2>1, KernelMfreeOne
  <2> QED BY <2>1, <2>2
<1> HIDE DEF m1
<1>6. m'.vaddr[kernel] = V \ A /\ \A q \in Proc : m'.vaddr[q] = m.vaddr[q]
  BY <1>5 DEF Gives
<1>7. HistoryType'
  BY <1>1, <1>2, BitmapFacts DEF HistoryType, FirstPages
<1>8. /\ state'[p] = "none" /\ kobj'[p] = FirstPages
      /\ \A q \in Proc : q # p => state'[q] = state[q] /\ kobj'[q] = kobj[q]
  BY <1>1, <1>2 DEF HistoryType
<1>9. SpacesInv(m'.vaddr, state', kobj')
  BY <1>1, <1>2, <1>6, <1>8 DEF SpacesInv, Runs
<1>10. PagesAccounted(m'.vaddr[kernel], state', kobj', lost)
  <2>1. A = ObjPages(state[p], kobj[p]) /\ {} = ObjPages(state'[p], kobj'[p])
    BY <1>1, <1>8 DEF ObjPages, Runs
  <2>2. IsFiniteSet(V) /\ IsFiniteSet({}) /\ Cardinality({}) = 0
    BY <1>2, KernelFinite, FS_EmptySet
  <2>3. Change(V, state, kobj, m'.vaddr[kernel], state', kobj', p, {})
    <3> HIDE DEF A, V
    <3> QED BY <1>6, <1>8, <2>1, <2>2 DEF Change
  <2>4. PagesAccounted(m'.vaddr[kernel], state', kobj', lost + Cardinality({}))
    <3> HIDE DEF A, V, lost
    <3> QED BY <1>2, <2>3, ChangeFacts
  <2>5. lost + Cardinality({}) = lost
    BY <1>3, <2>2
  <2> QED BY <2>4, <2>5
<1> QED BY <1>1, <1>4, <1>5, <1>7, <1>9, <1>10 DEF HeapInv

\* What exit() loses of the bitmap.
LEMMA LostRun ==
  ASSUME NEW b \in Nat
  PROVE  /\ Run(b, FreedPages) \subseteq Run(b, BitmapPages)
         /\ IsFiniteSet(Run(b, BitmapPages) \ Run(b, FreedPages))
         /\ Cardinality(Run(b, BitmapPages) \ Run(b, FreedPages)) = BitmapPages - FreedPages
<1> DEFINE first == b + FreedPages
           last == b + BitmapPages - 1
<1>1. first \in Int /\ last \in Int
  BY BitmapFacts
<1>2. Run(b, BitmapPages) \ Run(b, FreedPages) = first..last
  BY BitmapFacts DEF Run
<1>3. IF first > last THEN BitmapPages - FreedPages = 0 ELSE last - first + 1 = BitmapPages - FreedPages
  BY BitmapFacts
<1> HIDE DEF first, last
<1>4. IsFiniteSet(first..last) /\ Cardinality(first..last) = BitmapPages - FreedPages
  BY <1>1, <1>3, FS_Interval
<1>5. Run(b, FreedPages) \subseteq Run(b, BitmapPages)
  BY BitmapFacts DEF Run
<1> QED BY <1>2, <1>4, <1>5

\* exit() gives the user pages and FreedPages of the bitmap back.
LEMMA ExitHeap ==
  ASSUME HeapInv, NEW p \in Proc, sys_exit(p)
  PROVE  HeapInv'
<1> SUFFICES ASSUME ~m'.panic PROVE HeapInv'
  BY DEF HeapInv
<1> DEFINE m1 == free_user_space(m, p)
           lost == exits * (BitmapPages - FreedPages) + 2 * failed
           b == kobj[p].bitmap
           freed == Run(b, FreedPages)
           X == Run(b, BitmapPages) \ freed
           V == m.vaddr[kernel]
<1>1. /\ ~m.panic /\ Runs(state[p]) /\ m' = mfree_page(m1, kernel, b, FreedPages)
      /\ state' = [state EXCEPT ![p] = "zombie"] /\ exits' = exits + 1
      /\ UNCHANGED <<kobj, failed>>
  BY DEF sys_exit, Up, Runs
<1>2. /\ Pools(m) /\ Good(m) /\ HistoryType /\ SpacesInv(m.vaddr, state, kobj)
      /\ PagesAccounted(V, state, kobj, lost)
  BY <1>1 DEF HeapInv
<1>3. b \in Nat /\ lost \in Nat /\ exits \in Nat /\ failed \in Nat
  BY <1>2, BitmapFacts DEF HistoryType
<1>4. Pools(m1) /\ Good(m1) /\ m1.vaddr = [m.vaddr EXCEPT ![p] = {}] /\ p \in Space /\ p # kernel
  BY <1>2, FreeUserFacts, FrameFacts
<1> HIDE DEF m1
<1>5. Pools(m') /\ Good(m') /\ Gives(m1, m', freed)
  BY <1>1, <1>4, MfreeFacts, KernelMfree, FrameFacts
<1>6. /\ m'.vaddr[kernel] = V \ freed /\ m'.vaddr[p] = {}
      /\ \A q \in Proc : q # p => m'.vaddr[q] = m.vaddr[q]
  <2>1. m1.vaddr[kernel] = V /\ m1.vaddr[p] = {} /\ \A q \in Proc : q # p => m1.vaddr[q] = m.vaddr[q]
    BY <1>2, <1>4, FrameFacts DEF Pools
  <2> QED BY <1>5, <2>1 DEF Gives
<1>7. HistoryType'
  BY <1>1, <1>2 DEF HistoryType
<1>8. state'[p] = "zombie" /\ \A q \in Proc : q # p => state'[q] = state[q]
  BY <1>1, <1>2 DEF HistoryType
<1>9. SpacesInv(m'.vaddr, state', kobj')
  BY <1>1, <1>2, <1>6, <1>8 DEF SpacesInv, Runs
<1>10. PagesAccounted(m'.vaddr[kernel], state', kobj', lost + Cardinality(X))
  <2> DEFINE B == {kobj[p].pcb, kobj[p].pgdir}
             R == Run(b, BitmapPages)
  <2>1. ObjPages(state[p], kobj[p]) = B \cup R /\ ObjPages(state'[p], kobj'[p]) = B
    BY <1>1, <1>8 DEF ObjPages, Runs
  <2>2. B \cap R = {}
    BY <1>1, <1>2 DEF SpacesInv
  <2>3. IsFiniteSet(V) /\ IsFiniteSet(X) /\ freed \subseteq R
    BY <1>2, <1>3, KernelFinite, LostRun
  <2>4. B \subseteq V /\ R \subseteq V
    BY <1>2, <2>1 DEF PagesAccounted
  <2> HIDE DEF B, R
  <2>5. X = R \ freed
    BY DEF R
  <2> HIDE DEF V, X, freed
  <2>6. Change(V, state, kobj, m'.vaddr[kernel], state', kobj', p, X)
    <3>1. V \ freed = (V \ (B \cup R)) \cup B \cup X
      BY <2>2, <2>3, <2>4, <2>5
    <3>2. B \cap (V \ (B \cup R)) = {} /\ X \cap (V \ (B \cup R)) = {} /\ X \cap B = {}
      BY <2>2, <2>5
    <3> QED BY <1>1, <1>6, <1>8, <2>1, <2>3, <3>1, <3>2 DEF Change
  <2> HIDE DEF lost
  <2> QED BY <1>2, <2>6, ChangeFacts
<1>11. lost + Cardinality(X) = exits' * (BitmapPages - FreedPages) + 2 * failed'
  <2> DEFINE d == BitmapPages - FreedPages
  <2>1. d \in Nat /\ Cardinality(X) = d
    <3>1. d \in Nat
      BY BitmapFacts
    <3>2. Cardinality(X) = d
      <4> HIDE DEF b
      <4> QED BY <1>3, LostRun
    <3> QED BY <3>1, <3>2
  <2> HIDE DEF d, X
  <2>2. (exits + 1) * d = exits * d + d /\ exits * d \in Nat
    BY <1>3, <2>1
  <2>3. lost = exits * d + 2 * failed
    BY DEF d
  <2> HIDE DEF lost
  <2>4. lost + Cardinality(X) = (exits + 1) * d + 2 * failed
    BY <1>3, <2>1, <2>2, <2>3
  <2> QED BY <1>1, <2>4 DEF d
<1> QED BY <1>5, <1>7, <1>9, <1>10, <1>11 DEF HeapInv

\* A fork() that fails loses the page of the pcb and the buffer page.
LEMMA ForkFailsHeap ==
  ASSUME HeapInv, NEW p \in Proc, sys_fork_fails(p)
  PROVE  HeapInv'
<1> SUFFICES ASSUME ~m'.panic PROVE HeapInv'
  BY DEF HeapInv
<1> DEFINE m1 == malloc_page(m, kernel, 1)
           lost == exits * (BitmapPages - FreedPages) + 2 * failed
           a == vaddr_get(m, kernel, 1)
           b == vaddr_get(m1, kernel, 1)
           V == m.vaddr[kernel]
<1>1. /\ ~m.panic /\ m' = malloc_page(m1, kernel, 1) /\ failed' = failed + 1
      /\ UNCHANGED <<state, kobj, exits>>
  BY DEF sys_fork_fails, ForkPages, Alive, Up
<1>2. /\ Pools(m) /\ Good(m) /\ HistoryType /\ SpacesInv(m.vaddr, state, kobj)
      /\ PagesAccounted(V, state, kobj, lost)
  BY <1>1 DEF HeapInv
<1>3. lost \in Nat /\ exits \in Nat /\ failed \in Nat
  BY <1>2, BitmapFacts DEF HistoryType
<1>4. Pools(m1) /\ Pools(m')
  BY <1>1, <1>2, MallocFacts, FrameFacts
<1> HIDE DEF m1
<1>5. ~m1.panic /\ Takes(m1, m', {b}) /\ (Good(m1) => Good(m'))
  BY <1>1, <1>4, KernelMallocOne
<1>6. Takes(m, m1, {a}) /\ Good(m1)
  BY <1>2, <1>5, KernelMallocOne DEF m1
<1> HIDE DEF a, b
<1>7. /\ a # b /\ a \notin V /\ b \notin V /\ m'.vaddr[kernel] = V \cup {a, b}
      /\ \A q \in Proc : m'.vaddr[q] = m.vaddr[q]
  BY <1>5, <1>6 DEF Takes
<1>8. HistoryType'
  BY <1>1, <1>2 DEF HistoryType
<1>9. SpacesInv(m'.vaddr, state', kobj')
  BY <1>1, <1>2, <1>7 DEF SpacesInv
<1>10. Cardinality({a, b}) = 2 /\ IsFiniteSet({a, b})
  <2>1. IsFiniteSet({a}) /\ Cardinality({a}) = 1 /\ {a, b} = {a} \cup {b}
    BY FS_Singleton
  <2>2. b \notin {a}
    BY <1>7
  <2>3. IsFiniteSet({a} \cup {b}) /\ Cardinality({a} \cup {b}) = 1 + 1
    BY <2>1, <2>2, FS_AddElement
  <2> QED BY <2>1, <2>3
<1>11. PagesAccounted(m'.vaddr[kernel], state', kobj', lost + Cardinality({a, b}))
  <2>1. IsFiniteSet(V) /\ ObjPages(state[p], kobj[p]) \subseteq V
    BY <1>2, KernelFinite DEF PagesAccounted
  <2> HIDE DEF V, lost
  <2>2. Change(V, state, kobj, m'.vaddr[kernel], state', kobj', p, {a, b})
    BY <1>1, <1>7, <1>10, <2>1 DEF Change
  <2> QED BY <1>2, <2>2, ChangeFacts
<1>12. lost + Cardinality({a, b}) = exits' * (BitmapPages - FreedPages) + 2 * failed'
  <2> DEFINE e == exits * (BitmapPages - FreedPages)
  <2>1. e \in Nat
    BY <1>3, BitmapFacts
  <2>2. lost = e + 2 * failed
    OBVIOUS
  <2> HIDE DEF e, lost
  <2>3. lost + Cardinality({a, b}) = e + 2 * (failed + 1)
    BY <1>3, <1>10, <2>1, <2>2
  <2> QED BY <1>1, <2>3 DEF e
<1> QED BY <1>4, <1>5, <1>6, <1>8, <1>9, <1>11, <1>12 DEF HeapInv

\* fork() takes pcb, bitmap and page directory, and gives its buffer page back.
LEMMA ForkHeap ==
  ASSUME HeapInv, NEW p \in Proc, NEW c \in Proc, sys_fork(p, c)
  PROVE  HeapInv'
<1> SUFFICES ASSUME ~m'.panic PROVE HeapInv'
  BY DEF HeapInv
<1> DEFINE m1 == malloc_page(m, kernel, 1)
           m2 == malloc_page(m1, kernel, 1)
           m3 == malloc_page(m2, kernel, BitmapPages)
           m4 == malloc_page(m3, kernel, 1)
           m5 == palloc_add([m4 EXCEPT !.vaddr[c] = m.vaddr[p]], c, m.vaddr[p])
           lost == exits * (BitmapPages - FreedPages) + 2 * failed
           a == vaddr_get(m, kernel, 1)
           b == vaddr_get(m1, kernel, 1)
           d == vaddr_get(m2, kernel, BitmapPages)
           e == vaddr_get(m3, kernel, 1)
           R == Run(d, BitmapPages)
           V == m.vaddr[kernel]
<1>0. /\ ~m.panic /\ Runs(state[p]) /\ state[c] = "none" /\ UNCHANGED <<exits, failed>>
      /\ \/ m5.panic /\ m' = m5
         \/ /\ m' = mfree_page(m5, kernel, b, 1)
            /\ kobj' = [kobj EXCEPT ![c] = [pcb |-> a, bitmap |-> d, pgdir |-> e]]
            /\ state' = [state EXCEPT ![c] = "live"]
  BY DEF sys_fork, ForkPages, Alive, Up, Runs
<1>1. /\ ~m.panic /\ Runs(state[p]) /\ state[c] = "none" /\ m' = mfree_page(m5, kernel, b, 1)
      /\ kobj' = [kobj EXCEPT ![c] = [pcb |-> a, bitmap |-> d, pgdir |-> e]]
      /\ state' = [state EXCEPT ![c] = "live"] /\ UNCHANGED <<exits, failed>>
  <2> HIDE DEF m5
  <2> QED BY <1>0
<1>2. /\ Pools(m) /\ Good(m) /\ HistoryType /\ SpacesInv(m.vaddr, state, kobj)
      /\ PagesAccounted(V, state, kobj, lost)
  BY <1>1 DEF HeapInv
<1>3. lost \in Nat /\ kernel \in Space /\ p \in Space /\ c \in Space /\ c # kernel /\ p # c
  BY <1>1, <1>2, BitmapFacts, FrameFacts DEF HistoryType, Runs
<1>4. /\ Pools(m1) /\ Pools(m2) /\ Pools(m3) /\ Pools(m4)
      /\ m4.vaddr[c] = m.vaddr[c]
  <2>1. Pools(m1) /\ m1.vaddr[c] = m.vaddr[c]
    BY <1>2, <1>3, MallocFacts
  <2> HIDE DEF m1
  <2>2. Pools(m2) /\ m2.vaddr[c] = m1.vaddr[c]
    BY <1>3, <2>1, MallocFacts
  <2> HIDE DEF m2
  <2>3. Pools(m3) /\ m3.vaddr[c] = m2.vaddr[c]
    BY <1>3, <2>2, MallocFacts
  <2> HIDE DEF m3
  <2>4. Pools(m4) /\ m4.vaddr[c] = m3.vaddr[c]
    BY <1>3, <2>3, MallocFacts
  <2> QED BY <2>1, <2>2, <2>3, <2>4
<1> HIDE DEF m1, m2, m3, m4
<1>5. m.vaddr[p] \in SUBSET PageOf(c) /\ m.vaddr[c] = {} /\ m4.vaddr[c] = {}
  BY <1>1, <1>2, <1>3, <1>4, FrameFacts DEF Pools, PageOf, SpacesInv, Runs
<1>6. /\ Pools(m5) /\ Marks(m4, m5, c, m.vaddr[p])
      /\ ~m5.panic => ~m4.panic /\ (Good(m4) => Good(m5))
  <2>1. m5 = palloc_add([m4 EXCEPT !.vaddr[c] = m4.vaddr[c] \cup m.vaddr[p]], c, m.vaddr[p])
    BY <1>5
  <2> HIDE DEF m5
  <2> QED BY <1>3, <1>4, <1>5, <2>1, MarkedFacts
<1> HIDE DEF m5
<1>7. Pools(m') /\ ~m5.panic
  BY <1>1, <1>3, <1>6, KernelMfree, MfreeFacts
<1>8. /\ ~m3.panic /\ (Good(m3) => Good(m4)) /\ Takes(m3, m4, {e}) /\ e \in Nat
  BY <1>4, <1>6, <1>7, KernelMallocOne DEF m4
<1>9. /\ ~m2.panic /\ (Good(m2) => Good(m3)) /\ Takes(m2, m3, R) /\ d \in Nat
  BY <1>4, <1>8, KernelMalloc DEF m3, New
<1>10. /\ ~m1.panic /\ (Good(m1) => Good(m2)) /\ Takes(m1, m2, {b}) /\ b \in Nat
  BY <1>4, <1>9, KernelMallocOne DEF m2
<1>11. Good(m1) /\ Takes(m, m1, {a}) /\ a \in Nat
  BY <1>2, <1>10, KernelMallocOne DEF m1
<1> HIDE DEF a, b, d, e
<1>12. Good(m') /\ Gives(m5, m', {b})
  BY <1>1, <1>6, <1>7, <1>8, <1>9, <1>10, <1>11, KernelMfreeOne
<1> HIDE DEF R
<1>13. /\ m5.vaddr[kernel] = m4.vaddr[kernel] /\ m5.vaddr[c] = m.vaddr[p]
       /\ \A q \in Proc : q # c => m5.vaddr[q] = m4.vaddr[q]
  BY <1>3, <1>4, <1>5, <1>6, FrameFacts DEF Marks, Pools
<1>14. /\ a \notin V /\ e \notin V /\ R \cap V = {} /\ b \notin V
       /\ a # b /\ a # e /\ b # e /\ a \notin R /\ b \notin R /\ e \notin R
  BY <1>8, <1>9, <1>10, <1>11 DEF Takes
<1>15. m'.vaddr[kernel] = V \cup {a, e} \cup R
  <2>1. m4.vaddr[kernel] = V \cup {a} \cup {b} \cup R \cup {e}
    BY <1>8, <1>9, <1>10, <1>11 DEF Takes
  <2>2. m'.vaddr[kernel] = m4.vaddr[kernel] \ {b}
    BY <1>12, <1>13 DEF Gives
  <2> HIDE DEF V
  <2> QED BY <1>14, <2>1, <2>2
<1>16. m'.vaddr[c] = m.vaddr[p] /\ \A q \in Proc : q # c => m'.vaddr[q] = m.vaddr[q]
  BY <1>8, <1>9, <1>10, <1>11, <1>12, <1>13 DEF Takes, Gives
<1>17. HistoryType'
  BY <1>1, <1>2, <1>8, <1>9, <1>11 DEF HistoryType
<1>18. /\ state'[c] = "live" /\ kobj'[c] = [pcb |-> a, bitmap |-> d, pgdir |-> e]
       /\ \A q \in Proc : q # c => state'[q] = state[q] /\ kobj'[q] = kobj[q]
  BY <1>1, <1>2 DEF HistoryType
<1>19. SpacesInv(m'.vaddr, state', kobj')
  <2>1. a \notin Run(d, BitmapPages) /\ e \notin Run(d, BitmapPages)
    BY <1>14 DEF R
  <2> QED BY <1>2, <1>16, <1>18, <2>1 DEF SpacesInv, Runs
<1>20. PagesAccounted(m'.vaddr[kernel], state', kobj', lost)
  <2>1. /\ ObjPages(state[c], kobj[c]) = {}
        /\ ObjPages(state'[c], kobj'[c]) = {a, e} \cup R
    BY <1>1, <1>18 DEF ObjPages, Runs, R
  <2>2. IsFiniteSet(V) /\ IsFiniteSet({}) /\ Cardinality({}) = 0
    BY <1>2, KernelFinite, FS_EmptySet
  <2> HIDE DEF V
  <2>3. ({a, e} \cup R) \cap V = {}
    BY <1>14
  <2>4. Change(V, state, kobj, m'.vaddr[kernel], state', kobj', c, {})
    BY <1>15, <1>18, <2>1, <2>2, <2>3 DEF Change
  <2> HIDE DEF lost
  <2>5. PagesAccounted(m'.vaddr[kernel], state', kobj', lost + Cardinality({}))
    BY <1>2, <2>4, ChangeFacts
  <2>6. lost + Cardinality({}) = lost
    BY <1>3, <2>2
  <2> QED BY <2>5, <2>6
<1> QED BY <1>1, <1>7, <1>12, <1>17, <1>19, <1>20 DEF HeapInv

-----------------------------------------------------------------------------
\* Every step preserves the invariant.
LEMMA HeapStep == HeapInv /\ [Next]_vars => HeapInv'
<1> SUFFICES ASSUME HeapInv, [Next]_vars PROVE HeapInv'
  OBVIOUS
<1>1. CASE UNCHANGED vars
  BY <1>1 DEF vars, HeapInv, HistoryType
<1>2. ASSUME NEW p \in Proc, sys_malloc_block(p) PROVE HeapInv'
  BY <1>2, MallocBlockHeap
<1>3. ASSUME NEW p \in Proc, NEW cnt \in LargeSizes, sys_malloc_large(p, cnt) PROVE HeapInv'
  BY <1>3, MallocLargeHeap
<1>4. ASSUME NEW p \in Proc, NEW n \in held[p], sys_free(p, n) PROVE HeapInv'
  BY <1>4, FreeHeap
<1>5. ASSUME NEW p \in Proc, NEW c \in Proc, sys_fork(p, c) PROVE HeapInv'
  BY <1>5, ForkHeap
<1>6. ASSUME NEW p \in Proc, sys_fork_fails(p) PROVE HeapInv'
  BY <1>6, ForkFailsHeap
<1>7. ASSUME NEW p \in Proc, NEW n \in ProgramSizes, NEW fails \in BOOLEAN, sys_execv(p, n, fails)
      PROVE  HeapInv'
  BY <1>7, ExecvHeap
<1>8. ASSUME NEW p \in Proc, sys_exit(p) PROVE HeapInv'
  BY <1>8, ExitHeap
<1>9. ASSUME NEW p \in Proc, thread_exit(p) PROVE HeapInv'
  BY <1>9, ThreadExitHeap
<1> QED BY <1>1, <1>2, <1>3, <1>4, <1>5, <1>6, <1>7, <1>8, <1>9 DEF Next

\* HeapInv is an invariant, until an ASSERT or PANIC stops the machine.
THEOREM HeapSound == Spec => []HeapInv
BY HeapStarts, HeapStep, PTL DEF Spec

\* As long as the machine runs, a frame has one page of one address space, the
\* bitmaps of virtual pages agree with the page tables, and the user pool marks
\* the frames that are mapped: none is lost or handed out twice.
THEOREM FramesNeverShared == Spec => []FramesExact
<1>1. HeapInv => FramesExact
  <2>1. HeapInv /\ ~m.panic => FramesExact
    BY FramesFacts DEF HeapInv
  <2>2. m.panic => FramesExact
    BY DEF FramesExact
  <2> QED BY <2>1, <2>2
<1> QED BY <1>1, HeapSound, PTL

\* As long as the machine runs, the kernel pages that a process needs are marked
\* and its own, whatever exit(), wait() and a fork() that fails give back, and
\* the kernel's frames are those of pages and page tables.
THEOREM KernelPagesAccounted == Spec => []KernelAccounted
<1>1. HeapInv => KernelAccounted
  <2>1. HeapInv /\ ~m.panic => KernelAccounted
    BY AccountedFacts
  <2>2. m.panic => KernelAccounted
    BY DEF KernelAccounted
  <2> QED BY <2>1, <2>2
<1> QED BY <1>1, HeapSound, PTL

-----------------------------------------------------------------------------
Disk == [bitmap : SUBSET Block, inodes : [File -> Inode], blocks : [0..NBlock - 1 -> [0..BlockSize - 1 -> Nat]]]

\* What is at slot i of file f.
AtSlot(d, f, i) == Address(d, d.inodes[f], i)

\* The slots that a file of a size needs.
Needs(size) == {i \in Slot : IF i = TABLE THEN UsedBlocks(size) > Direct ELSE i < UsedBlocks(size)}

\* A file that was never written has nothing; another has what it needs, and may have
\* more only in the table.
Blank(d, f) == d.inodes[f].size = 0 /\ \A i \in Slot : AtSlot(d, f, i) = 0
Shaped(d, f) ==
  /\ d.inodes[f].size < BlockSize * AllBlocks
  /\ \/ Blank(d, f)
     \/ \A i \in Slot : /\ i \in Needs(d.inodes[f].size) => AtSlot(d, f, i) # 0
                        /\ i \notin Needs(d.inodes[f].size) /\ i < Direct => AtSlot(d, f, i) = 0

\* The blocks of the files in e are used once, and marked.
BlocksOnce(d, e) ==
  /\ \A f \in e : Shaped(d, f)
  /\ \A f, g \in e : \A i, j \in Slot : AtSlot(d, f, i) = AtSlot(d, g, j) /\ AtSlot(d, f, i) # 0 => f = g /\ i = j
  /\ \A f \in e : \A i \in Slot : AtSlot(d, f, i) # 0 => AtSlot(d, f, i) \in d.bitmap

\* No block is lost: nothing else is marked or in a table.
NoneLost(d, e) ==
  /\ \A f \in e : \A i \in Slot : i \notin Needs(d.inodes[f].size) => AtSlot(d, f, i) = 0
  /\ \A b \in d.bitmap : \E f \in e : \E i \in Slot : AtSlot(d, f, i) = b

Holds(d, f, n) ==
  /\ d.inodes[f].size = n
  /\ \A o \in 0..n - 1 : d.blocks[AtSlot(d, f, o \div BlockSize)][o % BlockSize] = Byte(f, o)

FilesInv ==
  /\ disk \in Disk /\ bitmap = disk.bitmap
  /\ entry \in SUBSET File /\ opened \in SUBSET entry /\ inode \in [File -> Inode]
  /\ gen \in [File -> 0..MaxGen] /\ len \in [File -> Nat] /\ fd_pos \in [File -> Nat] /\ stops \in Nat
  /\ BlocksOnce(disk, entry)
  /\ stops = 0 => NoneLost(disk, entry)
  /\ \A f \in entry : Holds(disk, f, len[f])
  /\ \A f \in opened : /\ inode[f] = disk.inodes[f]
                       /\ fd_pos[f] <= len[f] \/ (len[f] = 0 /\ fd_pos[f] = Word - 1)


\* The slots that a write of count bytes gives a block.
NewSet(ino, count) ==
  LET has == UsedBlocks(ino.size)
      will == UsedBlocks(ino.size + count)
  IN  {i \in Slot : \/ i = 0 /\ ino.sectors[0] = 0
                    \/ i = TABLE /\ has <= Direct /\ will > Direct
                    \/ i \in has..will - 1}

\* g gives each of them a free block of its own.
Grants(d, f, count, g) ==
  /\ g \in [NewSet(d.inodes[f], count) -> Block \ d.bitmap]
  /\ \A i, j \in DOMAIN g : g[i] = g[j] => i = j

Writable(d, e, f, count, g) ==
  /\ d \in Disk /\ e \in SUBSET File /\ BlocksOnce(d, e) /\ f \in e /\ count \in Nat
  /\ UsedBlocks(d.inodes[f].size + count) <= AllBlocks
  /\ Grants(d, f, count, g)

\* The addresses of the file after the write, and the blocks then marked.
NewAt(d, f, g, i) == IF i \in DOMAIN g THEN g[i] ELSE AtSlot(d, f, i)
Marked(d, g) == d.bitmap \cup {g[i] : i \in DOMAIN g}

\* The slots of the blocks that are written, and what is written there.
Touched(d, f, count) ==
  LET size == d.inodes[f].size
      has == UsedBlocks(size)
      will == UsedBlocks(size + count)
  IN  {i \in Slot : \/ i = TABLE /\ will > Direct /\ will > has
                    \/ count # 0 /\ i \in size \div BlockSize..(size + count - 1) \div BlockSize}
Written(d, f, count, g, i) ==
  LET size == d.inodes[f].size
  IN  IF i = TABLE THEN [j \in 0..BlockSize - 1 |-> NewAt(d, f, g, Direct + j)]
      ELSE [j \in 0..BlockSize - 1 |->
              IF i * BlockSize + j \in size..size + count - 1 THEN Byte(f, i * BlockSize + j)
              ELSE IF i = size \div BlockSize THEN d.blocks[NewAt(d, f, g, i)][j] ELSE 0]

\* The disk x after some of the writes: the inode is the old one still, and blocks
\* are written when all of the bitmap is.
Cut(d, f, count, g, x) ==
  /\ x \in Disk /\ x.inodes = d.inodes /\ d.bitmap \subseteq x.bitmap
  /\ \A b \in 0..NBlock - 1 :
       \/ x.blocks[b] = d.blocks[b]
       \/ /\ x.bitmap = Marked(d, g)
          /\ \E i \in Touched(d, f, count) :
               b = NewAt(d, f, g, i) /\ x.blocks[b] = Written(d, f, count, g, i)

NewInode(d, f, count, g) ==
  [size |-> d.inodes[f].size + count,
   sectors |-> [i \in 0..Direct |-> NewAt(d, f, g, IF i = Direct THEN TABLE ELSE i)]]

\* The disk x after all of them.
Done(d, f, count, g, x) ==
  /\ x \in Disk /\ x.inodes = [d.inodes EXCEPT ![f] = NewInode(d, f, count, g)]
  /\ x.bitmap = Marked(d, g)
  /\ \A i \in Touched(d, f, count) : x.blocks[NewAt(d, f, g, i)] = Written(d, f, count, g, i)
  /\ \A b \in 0..NBlock - 1 :
       (\A i \in Touched(d, f, count) : b # NewAt(d, f, g, i)) => x.blocks[b] = d.blocks[b]

\* How many blocks of data are written.
Spans(size, count) ==
  IF count = 0 THEN 0 ELSE (size + count - 1) \div BlockSize - size \div BlockSize + 1

\* The slots that are touched, in order.
InOrder(d, f, count) ==
  LET size == d.inodes[f].size
  IN  (IF TABLE \in Touched(d, f, count) THEN <<TABLE>> ELSE <<>>)
        \o [b \in 1..Spans(size, count) |-> size \div BlockSize + b - 1]

\* The writes w, in their order: u of the bitmap, one for each slot of T, the inode.
Ordered(d, f, count, g, u, T, w) ==
  /\ u \in Nat /\ T \in Seq(Slot) /\ {T[i] : i \in 1..Len(T)} = Touched(d, f, count)
  /\ \A i, j \in 1..Len(T) : T[i] = T[j] => i = j
  /\ u = 0 => Marked(d, g) = d.bitmap
  /\ Len(w) = u + Len(T) + 1
  /\ \A n \in 1..u : \E b \in SUBSET Block :
       d.bitmap \subseteq b /\ (n = u => b = Marked(d, g)) /\ w[n] = bitmap_sync(b)
  /\ \A i \in 1..Len(T) : w[u + i] = ide_write(NewAt(d, f, g, T[i]), Written(d, f, count, g, T[i]))
  /\ w[u + Len(T) + 1] = inode_sync(f, NewInode(d, f, count, g))

\* The disk x after the first n of them.
Stage(d, f, count, g, u, T, n, x) ==
  /\ x \in Disk
  /\ x.inodes = IF n = u + Len(T) + 1 THEN [d.inodes EXCEPT ![f] = NewInode(d, f, count, g)] ELSE d.inodes
  /\ d.bitmap \subseteq x.bitmap /\ (n >= u => x.bitmap = Marked(d, g))
  /\ \A i \in 1..Len(T) :
       u + i <= n => x.blocks[NewAt(d, f, g, T[i])] = Written(d, f, count, g, T[i])
  /\ \A b \in 0..NBlock - 1 :
       (\A i \in 1..Len(T) : u + i <= n => b # NewAt(d, f, g, T[i])) => x.blocks[b] = d.blocks[b]

-----------------------------------------------------------------------------
\* Division, for a divisor that is not a number written in the text.
LEMMA DivFacts ==
  ASSUME NEW k \in Nat \ {0}, NEW n \in Nat
  PROVE  \E q \in Nat : \E r \in 0..k - 1 : n \div k = q /\ n % k = r /\ n = k * q + r
<1>1. n \div k \in Nat /\ n % k \in 0..k - 1
  OBVIOUS
<1> DEFINE q == n \div k
           r == n % k
<1>2. r = n - k * q
  OBVIOUS
<1>3. q \in Nat /\ r \in 0..k - 1
  BY <1>1
<1> HIDE DEF q, r
<1>4. k * q \in Int
  BY <1>3
<1>5. n = k * q + r
  BY <1>2, <1>3, <1>4
<1>6. n \div k = q /\ n % k = r
  BY DEF q, r
<1> QED BY <1>3, <1>5, <1>6

\* A number is one quotient and one remainder.
LEMMA DivUnique ==
  ASSUME NEW k \in Nat \ {0}, NEW q \in Nat, NEW r \in 0..k - 1
  PROVE  (k * q + r) \div k = q /\ (k * q + r) % k = r
OBVIOUS

\* Comparing quotients.
LEMMA DivLess ==
  ASSUME NEW k \in Nat \ {0}, NEW n \in Nat, NEW u \in Nat
  PROVE  n \div k < u <=> n < k * u
<1>1. PICK q \in Nat, r \in 0..k - 1 : n \div k = q /\ n = k * q + r
  BY DivFacts
<1>2. CASE q < u
  <2>1. k * (q + 1) <= k * u
    BY <1>2
  <2>2. k * (q + 1) = k * q + k
    OBVIOUS
  <2>3. k * q \in Nat /\ k * u \in Nat
    OBVIOUS
  <2> QED BY <1>1, <1>2, <2>1, <2>2, <2>3
<1>3. CASE u <= q
  <2>1. k * u <= k * q
    BY <1>3
  <2>2. k * q \in Nat /\ k * u \in Nat
    OBVIOUS
  <2> QED BY <1>1, <1>3, <2>1, <2>2
<1> QED BY <1>2, <1>3

\* A smaller number has no greater quotient.
LEMMA DivMonotonic ==
  ASSUME NEW k \in Nat \ {0}, NEW n \in Nat, NEW u \in Nat, n <= u
  PROVE  n \div k <= u \div k /\ u \div k \in Nat /\ n \div k \in Nat
<1>1. PICK q \in Nat, r \in 0..k - 1 : u \div k = q /\ u = k * q + r
  BY DivFacts
<1>2. PICK p \in Nat, t \in 0..k - 1 : n \div k = p /\ n = k * p + t
  BY DivFacts
<1>3. n < k * (q + 1)
  <2>1. k * (q + 1) = k * q + k /\ k * q \in Nat
    OBVIOUS
  <2> QED BY <1>1, <2>1
<1>4. p < q + 1
  BY <1>2, <1>3, DivLess
<1> QED BY <1>1, <1>2, <1>4

-----------------------------------------------------------------------------
\* r[n] is the disk after the first n writes of w.
Steps(d, w, r) ==
  /\ r[0] = d /\ After(d, w) = r[Len(w)]
  /\ \A n \in 1..Len(w) : r[n] = Apply(r[n - 1], w[n])

\* The disks after 0, 1, 2, ... of the writes of After() exist.
LEMMA AfterSteps ==
  ASSUME NEW d, NEW w, Len(w) \in Nat
  PROVE  \E r : Steps(d, w, r)
<1> DEFINE L == Len(w)
           Step(f, i) == IF i = 0 THEN d ELSE Apply(f[i - 1], w[i])
           Goes(f, n) == f = [i \in 0..n |-> Step(f, i)]
           Bad == {n \in Nat : ~\E f : Goes(f, n)}
<1>1. Bad = {}
  <2> SUFFICES ASSUME Bad # {} PROVE FALSE
    OBVIOUS
  <2>1. PICK n \in Bad : \A b \in Bad : n <= b
    BY LeastOf
  <2>2. n # 0
    <3>1. Goes([i \in 0..0 |-> d], 0)
      OBVIOUS
    <3> QED BY <2>1, <3>1
  <2>3. n \in Nat /\ n - 1 \in Nat /\ n - 1 \notin Bad
    <3>1. n \in Nat
      OBVIOUS
    <3> HIDE DEF Bad
    <3> QED BY <2>1, <2>2, <3>1
  <2>4. PICK f : Goes(f, n - 1)
    BY <2>3
  <2> DEFINE g == [i \in 0..n |-> Step(f, i)]
  <2>5. Goes(g, n)
    <3>1. \A i \in 0..n - 1 : g[i] = f[i]
      <4>1. ASSUME NEW i \in 0..n - 1 PROVE f[i] = Step(f, i) /\ i \in 0..n
        <5> HIDE DEF Step
        <5> QED BY <2>3, <2>4
      <4>2. \A i \in 0..n : g[i] = Step(f, i)
        OBVIOUS
      <4> QED BY <4>1, <4>2
    <3>2. \A i \in 0..n : Step(g, i) = Step(f, i)
      <4> SUFFICES ASSUME NEW i \in 0..n PROVE Step(g, i) = Step(f, i)
        OBVIOUS
      <4> HIDE DEF g
      <4>1. CASE i = 0
        BY <4>1
      <4>2. CASE i # 0
        <5>1. g[i - 1] = f[i - 1]
          BY <2>3, <3>1, <4>2
        <5> QED BY <4>2, <5>1
      <4> QED BY <4>1, <4>2
    <3> HIDE DEF Step
    <3> QED BY <3>2
  <2> QED BY <2>1, <2>5
<1> DEFINE disk_after[i \in 0..Len(w)] == IF i = 0 THEN d ELSE Apply(disk_after[i - 1], w[i])
<1>2. After(d, w) = disk_after[L]
  BY DEF After
<1>3. \E f : Goes(f, L)
  BY <1>1
<1>4. disk_after = [i \in 0..L |-> Step(disk_after, i)]
  BY <1>3
<1> HIDE DEF disk_after
<1>5. disk_after[0] = d /\ \A n \in 1..L : disk_after[n] = Apply(disk_after[n - 1], w[n])
  <2>1. \A n \in 0..L : disk_after[n] = Step(disk_after, n)
    <3> HIDE DEF Step
    <3> QED BY <1>4
  <2> QED BY <2>1
<1> QED BY <1>2, <1>5 DEF Steps

\* So it is in the last of a sequence of sets, each of which a write leads into.
LEMMA AfterIn ==
  ASSUME NEW d, NEW w, Len(w) \in Nat, NEW S, d \in S[0],
         \A n \in 1..Len(w) : \A x \in S[n - 1] : Apply(x, w[n]) \in S[n]
  PROVE  After(d, w) \in S[Len(w)]
<1>1. PICK r : /\ r[0] = d /\ After(d, w) = r[Len(w)]
               /\ \A n \in 1..Len(w) : r[n] = Apply(r[n - 1], w[n])
  BY AfterSteps DEF Steps
<1> DEFINE Bad == {n \in 0..Len(w) : r[n] \notin S[n]}
<1>2. Bad = {}
  <2> SUFFICES ASSUME Bad # {} PROVE FALSE
    OBVIOUS
  <2>1. PICK n \in Bad : \A b \in Bad : n <= b
    <3>1. Bad \in SUBSET Nat
      OBVIOUS
    <3> HIDE DEF Bad
    <3> QED BY <3>1, LeastOf
  <2>2. n \in 1..Len(w)
    <3>1. n \in 0..Len(w) /\ r[n] \notin S[n]
      OBVIOUS
    <3> QED BY <1>1, <3>1
  <2>3. n - 1 \in 0..Len(w) /\ n - 1 \notin Bad
    <3> HIDE DEF Bad
    <3> QED BY <2>1, <2>2
  <2>4. r[n - 1] \in S[n - 1]
    BY <2>3
  <2>5. r[n] \in S[n]
    BY <1>1, <2>2, <2>4
  <2> QED BY <2>1, <2>5
<1>3. Len(w) \in 0..Len(w)
  OBVIOUS
<1> QED BY <1>1, <1>2, <1>3

-----------------------------------------------------------------------------
\* The constants.
LEMMA SizeFacts ==
  /\ BlockSize \in Nat \ {0} /\ Direct \in Nat \ {0} /\ NBlock \in Nat \ {0}
  /\ AllBlocks \in Nat /\ Direct < AllBlocks /\ AllBlocks - Direct = BlockSize
  /\ BlockSize * AllBlocks \in Nat /\ BlockSize * Direct \in Nat
  /\ MaxCount \in Nat /\ Word \in Nat /\ Word > BlockSize * AllBlocks + MaxCount
  /\ TABLE = -1 /\ Slot = -1..AllBlocks - 1
BY FileBlocksAssumption DEF AllBlocks, TABLE, Slot

\* Those of them that say where the slots of a file are.
LEMMA SlotFacts ==
  /\ BlockSize \in Nat \ {0} /\ Direct \in Nat \ {0} /\ NBlock \in Nat \ {0}
  /\ AllBlocks \in Nat /\ Direct < AllBlocks /\ AllBlocks - Direct = BlockSize
  /\ TABLE = -1 /\ Slot = -1..AllBlocks - 1
BY SizeFacts

\* The number of blocks of a file.
LEMMA UsedBlocksFacts ==
  ASSUME NEW n \in Nat
  PROVE  /\ UsedBlocks(n) = n \div BlockSize + 1 /\ n \div BlockSize \in Nat
         /\ UsedBlocks(n) <= AllBlocks <=> n < BlockSize * AllBlocks
         /\ UsedBlocks(n) > Direct <=> ~(n < BlockSize * Direct)
         /\ \A u \in Nat : n <= u => UsedBlocks(n) <= UsedBlocks(u)
<1>1. UsedBlocks(n) = n \div BlockSize + 1
  BY DEF UsedBlocks
<1>2. /\ n \div BlockSize < AllBlocks <=> n < BlockSize * AllBlocks
      /\ n \div BlockSize < Direct <=> n < BlockSize * Direct
  BY SizeFacts, DivLess
<1>3. n \div BlockSize \in Nat
  BY SizeFacts, DivMonotonic
<1>4. ASSUME NEW u \in Nat, n <= u PROVE UsedBlocks(n) <= UsedBlocks(u)
  <2>1. n \div BlockSize <= u \div BlockSize /\ u \div BlockSize \in Nat
    BY <1>4, SizeFacts, DivMonotonic
  <2> QED BY <1>3, <2>1 DEF UsedBlocks
<1> HIDE DEF UsedBlocks
<1>5. UsedBlocks(n) <= AllBlocks <=> n < BlockSize * AllBlocks
  BY <1>1, <1>2, <1>3, SizeFacts
<1>6. UsedBlocks(n) > Direct <=> ~(n < BlockSize * Direct)
  BY <1>1, <1>2, <1>3, SizeFacts
<1> QED BY <1>1, <1>3, <1>4, <1>5, <1>6

\* The addresses of a file.
LEMMA AtFacts ==
  ASSUME NEW d \in Disk, NEW f \in File
  PROVE  /\ d.inodes[f] \in Inode /\ d.inodes[f].size \in Nat
         /\ AtSlot(d, f, TABLE) = d.inodes[f].sectors[Direct]
         /\ \A i \in 0..Direct - 1 : AtSlot(d, f, i) = d.inodes[f].sectors[i]
         /\ \A i \in 0..Direct : d.inodes[f].sectors[i] \in 0..NBlock - 1
         /\ \A i \in Direct..AllBlocks - 1 :
              AtSlot(d, f, i) = IF AtSlot(d, f, TABLE) # 0 THEN d.blocks[AtSlot(d, f, TABLE)][i - Direct] ELSE 0
         /\ \A i \in Slot : AtSlot(d, f, i) \in Nat
<1> DEFINE ino == d.inodes[f]
<1>1. ino \in Inode /\ ino.size \in Nat /\ \A i \in 0..Direct : ino.sectors[i] \in 0..NBlock - 1
  BY DEF Disk, Inode
<1>2. AtSlot(d, f, TABLE) = ino.sectors[Direct]
  BY SizeFacts DEF AtSlot, Address
<1>3. \A i \in 0..Direct - 1 : AtSlot(d, f, i) = ino.sectors[i]
  BY SizeFacts DEF AtSlot, Address
<1>4. \A i \in Direct..AllBlocks - 1 :
        AtSlot(d, f, i) = IF AtSlot(d, f, TABLE) # 0 THEN d.blocks[AtSlot(d, f, TABLE)][i - Direct] ELSE 0
  <2> SUFFICES ASSUME NEW i \in Direct..AllBlocks - 1
               PROVE  AtSlot(d, f, i) = IF AtSlot(d, f, TABLE) # 0 THEN d.blocks[AtSlot(d, f, TABLE)][i - Direct] ELSE 0
    OBVIOUS
  <2>1. i # TABLE /\ i \notin 0..Direct - 1
    BY SizeFacts
  <2>2. AtSlot(d, f, i) = IF HasTable(ino) THEN Table(d, ino)[i - Direct] ELSE 0
    BY <2>1 DEF AtSlot, Address
  <2> QED BY <1>2, <2>2 DEF HasTable, Table
<1>5. ASSUME NEW i \in Slot PROVE AtSlot(d, f, i) \in Nat
  <2>1. Direct \in 0..Direct
    BY SizeFacts
  <2>2. CASE i = TABLE
    BY <1>1, <1>2, <2>1, <2>2
  <2>3. CASE i \in 0..Direct - 1
    BY <1>1, <1>3, <2>3, SizeFacts
  <2>4. CASE i \in Direct..AllBlocks - 1
    <3>1. i - Direct \in 0..BlockSize - 1 /\ AtSlot(d, f, TABLE) \in 0..NBlock - 1
      BY <1>1, <1>2, <2>1, <2>4, SizeFacts
    <3>2. d.blocks[AtSlot(d, f, TABLE)][i - Direct] \in Nat
      BY <3>1 DEF Disk
    <3> QED BY <1>4, <2>4, <3>2
  <2> QED BY <2>2, <2>3, <2>4, SizeFacts
<1> QED BY <1>1, <1>2, <1>3, <1>4, <1>5

\* A byte of a file is in a block that the file has.
LEMMA ByteAt ==
  ASSUME NEW d \in Disk, NEW f \in File, Shaped(d, f), NEW o \in 0..d.inodes[f].size - 1
  PROVE  LET s == o \div BlockSize IN
         /\ s \in Slot /\ s \in Needs(d.inodes[f].size) /\ s \in Nat /\ s < AllBlocks /\ AtSlot(d, f, s) # 0
         /\ o % BlockSize \in 0..BlockSize - 1 /\ o = BlockSize * s + (o % BlockSize)
         /\ s <= d.inodes[f].size \div BlockSize
<1> DEFINE s == o \div BlockSize
           size == d.inodes[f].size
<1>1. size \in Nat /\ o \in Nat /\ o <= size /\ BlockSize \in Nat \ {0}
  BY AtFacts, SlotFacts
<1>2. PICK q \in Nat, r \in 0..BlockSize - 1 : o \div BlockSize = q /\ o % BlockSize = r /\ o = BlockSize * q + r
  BY <1>1, DivFacts
<1>3. s <= size \div BlockSize /\ size \div BlockSize \in Nat
  BY <1>1, DivMonotonic
<1>4. UsedBlocks(size) = size \div BlockSize + 1 /\ UsedBlocks(size) <= AllBlocks
  <2>1. size < BlockSize * AllBlocks
    BY DEF Shaped
  <2> QED BY <1>1, <2>1, UsedBlocksFacts
<1> HIDE DEF s, size
<1>5. s = q /\ s \in Nat /\ s < UsedBlocks(size) /\ s < AllBlocks
  BY <1>2, <1>3, <1>4, SlotFacts DEF s
<1>6. s \in Slot /\ s # TABLE
  BY <1>5, SlotFacts
<1>7. s \in Needs(size)
  BY <1>5, <1>6 DEF Needs
<1>8. AtSlot(d, f, s) # 0
  <2>1. ~Blank(d, f)
    BY <1>1 DEF Blank, size
  <2> QED BY <1>6, <1>7, <2>1 DEF Shaped, size
<1>9. o % BlockSize \in 0..BlockSize - 1 /\ o = BlockSize * s + (o % BlockSize)
  BY <1>2, <1>5
<1> QED BY <1>3, <1>5, <1>6, <1>7, <1>8, <1>9 DEF s, size

\* What a file has before a write and after it.
LEMMA GrantedFacts ==
  ASSUME NEW d, NEW e, NEW f, NEW count, NEW g, Writable(d, e, f, count, g)
  PROVE  LET size == d.inodes[f].size IN
         /\ size \in Nat /\ UsedBlocks(size) \in 1..UsedBlocks(size + count)
         /\ UsedBlocks(size + count) \in 1..AllBlocks
         /\ \A i \in DOMAIN g : i \in Slot /\ g[i] \in Block \ d.bitmap /\ (i < Direct => AtSlot(d, f, i) = 0)
         /\ \A i \in Slot : /\ NewAt(d, f, g, i) \in 0..NBlock - 1
                            /\ NewAt(d, f, g, i) # 0 => NewAt(d, f, g, i) \in Marked(d, g)
         /\ \A i, j \in Slot : NewAt(d, f, g, i) = NewAt(d, f, g, j) /\ NewAt(d, f, g, i) # 0 => i = j
         /\ \A h \in e \ {f} : \A i, j \in Slot : AtSlot(d, h, j) # 0 => AtSlot(d, h, j) # NewAt(d, f, g, i)
         /\ \A i \in Needs(size + count) : NewAt(d, f, g, i) # 0
         /\ \A i \in Slot \ Needs(size + count) : i < Direct => NewAt(d, f, g, i) = 0
         /\ Touched(d, f, count) \subseteq Needs(size + count)
<1> DEFINE size == d.inodes[f].size
           ino == d.inodes[f]
           has == UsedBlocks(size)
           will == UsedBlocks(size + count)
           Later(i) == NewAt(d, f, g, i)
<1>1. /\ d \in Disk /\ e \in SUBSET File /\ f \in e /\ f \in File /\ count \in Nat /\ will <= AllBlocks
      /\ Shaped(d, f)
      /\ \A i \in NewSet(ino, count) : g[i] \in Block \ d.bitmap
      /\ DOMAIN g = NewSet(ino, count)
      /\ \A i, j \in DOMAIN g : g[i] = g[j] => i = j
  BY DEF Writable, Grants, BlocksOnce
<1>2. size \in Nat /\ has \in 1..will /\ will \in 1..AllBlocks
  <2>1. size \in Nat /\ size + count \in Nat /\ size <= size + count
    BY <1>1, AtFacts
  <2>2. has \in Nat \ {0} /\ will \in Nat \ {0} /\ has <= will
    BY <2>1, UsedBlocksFacts
  <2> QED BY <1>1, <2>1, <2>2, SizeFacts
<1>3. \A i \in Slot : AtSlot(d, f, i) \in Nat
  BY <1>1, AtFacts
<1>4. \A h \in e : \A i \in Slot : AtSlot(d, h, i) # 0 => AtSlot(d, h, i) \in d.bitmap
  BY DEF Writable, BlocksOnce
<1>5. d.bitmap \in SUBSET Block /\ Block \subseteq 0..NBlock - 1 /\ 0 \notin Block
  BY <1>1, SizeFacts DEF Disk, Block
<1>6. \/ Blank(d, f)
      \/ \A i \in Slot : /\ i \in Needs(size) => AtSlot(d, f, i) # 0
                         /\ i \notin Needs(size) /\ i < Direct => AtSlot(d, f, i) = 0
  BY <1>1 DEF Shaped
<1>7. Blank(d, f) => has = 1
  <2> SUFFICES ASSUME Blank(d, f) PROVE has = 1
    OBVIOUS
  <2>1. size = 0 /\ BlockSize * 0 + 0 = 0 /\ 0 \in 0..BlockSize - 1
    BY SizeFacts DEF Blank
  <2>2. 0 \div BlockSize = 0
    BY <2>1, SizeFacts, DivUnique
  <2> QED BY <2>1, <2>2 DEF UsedBlocks
<1>8. /\ AtSlot(d, f, 0) = ino.sectors[0] /\ 0 \in Slot /\ TABLE \in Slot /\ TABLE = -1
      /\ Direct \in Nat /\ 0 < Direct /\ AllBlocks \in Nat
      /\ \A i \in Slot : i \in Int /\ -1 <= i /\ i < AllBlocks
  BY <1>1, AtFacts, SizeFacts
<1> HIDE DEF size, has, will
<1>9. /\ \A i : i \in NewSet(ino, count) <=>
             /\ i \in Slot
             /\ \/ i = 0 /\ ino.sectors[0] = 0
                \/ i = TABLE /\ has <= Direct /\ will > Direct
                \/ i \in has..will - 1
      /\ \A i : i \in Needs(size) <=> i \in Slot /\ IF i = TABLE THEN has > Direct ELSE i < has
      /\ \A i : i \in Needs(size + count) <=> i \in Slot /\ IF i = TABLE THEN will > Direct ELSE i < will
  BY DEF NewSet, Needs, size, has, will
<1>10. ASSUME NEW i \in DOMAIN g PROVE i \in Slot /\ g[i] \in Block \ d.bitmap /\ (i < Direct => AtSlot(d, f, i) = 0)
  <2>1. i \in Slot /\ g[i] \in Block \ d.bitmap
    BY <1>1, <1>9
  <2>2. CASE i = 0 /\ ino.sectors[0] = 0
    BY <1>8, <2>1, <2>2
  <2>3. CASE ~(i = 0 /\ ino.sectors[0] = 0)
    <3>1. i \notin Needs(size)
      BY <1>1, <1>2, <1>8, <1>9, <2>3
    <3> QED BY <1>6, <2>1, <3>1 DEF Blank
  <2> QED BY <2>1, <2>2, <2>3
<1>11. ASSUME NEW i \in Slot PROVE Later(i) \in 0..NBlock - 1 /\ (Later(i) # 0 => Later(i) \in Marked(d, g))
  <2>1. CASE i \in DOMAIN g
    BY <1>5, <1>10, <2>1 DEF NewAt, Marked
  <2>2. CASE i \notin DOMAIN g
    <3>1. 0 \in 0..NBlock - 1
      BY SizeFacts
    <3>2. AtSlot(d, f, i) # 0 => AtSlot(d, f, i) \in d.bitmap
      BY <1>1, <1>4
    <3> QED BY <1>5, <2>2, <3>1, <3>2 DEF NewAt, Marked
  <2> QED BY <2>1, <2>2
<1>12. ASSUME NEW i \in Slot, NEW j \in Slot, Later(i) = Later(j), Later(i) # 0 PROVE i = j
  <2>1. \A k, l \in Slot : AtSlot(d, f, k) = AtSlot(d, f, l) /\ AtSlot(d, f, k) # 0 => k = l
    BY <1>1 DEF Writable, BlocksOnce
  <2> QED BY <1>1, <1>4, <1>10, <1>12, <2>1 DEF NewAt
<1>13. ASSUME NEW h \in e \ {f}, NEW i \in Slot, NEW j \in Slot, AtSlot(d, h, j) # 0 PROVE AtSlot(d, h, j) # Later(i)
  <2>1. AtSlot(d, h, j) # AtSlot(d, f, i)
    BY <1>1, <1>13 DEF Writable, BlocksOnce
  <2>2. AtSlot(d, h, j) \in d.bitmap
    BY <1>4, <1>13
  <2> QED BY <1>10, <2>1, <2>2 DEF NewAt
<1>14. ASSUME NEW i \in Needs(size + count) PROVE Later(i) # 0
  <2>1. CASE i \in DOMAIN g
    BY <1>5, <1>10, <2>1 DEF NewAt
  <2>2. CASE i \notin DOMAIN g
    <3>1. i \in Needs(size)
      <4>1. i \in Slot /\ i \notin NewSet(ino, count)
        BY <1>1, <1>9, <2>2
      <4>2. CASE i = TABLE
        BY <1>2, <1>8, <1>9, <4>1, <4>2
      <4>3. CASE i # TABLE
        <5>1. i < will /\ i \notin has..will - 1 /\ i \in Int
          BY <1>8, <1>9, <4>1, <4>3
        <5>2. i < has
          BY <1>2, <5>1
        <5> QED BY <1>9, <4>1, <4>3, <5>2
      <4> QED BY <4>2, <4>3
    <3>2. ~Blank(d, f)
      <4> SUFFICES ASSUME Blank(d, f) PROVE FALSE
        OBVIOUS
      <4>1. has = 1 /\ ino.sectors[0] = 0
        BY <1>7, <1>8 DEF Blank
      <4>2. i # TABLE
        BY <1>8, <1>9, <3>1, <4>1
      <4>3. i = 0
        <5>1. i \in Slot /\ i < 1
          BY <1>9, <3>1, <4>1, <4>2
        <5> QED BY <1>8, <4>2, <5>1
      <4> QED BY <1>1, <1>8, <1>9, <2>2, <4>1, <4>3
    <3>3. AtSlot(d, f, i) # 0
      BY <1>6, <1>9, <3>1, <3>2
    <3> QED BY <2>2, <3>3 DEF NewAt
  <2> QED BY <2>1, <2>2
<1>15. ASSUME NEW i \in Slot \ Needs(size + count), i < Direct PROVE Later(i) = 0
  <2>1. i \notin DOMAIN g /\ i \notin Needs(size)
    BY <1>1, <1>2, <1>8, <1>9, <1>15
  <2>2. AtSlot(d, f, i) = 0
    BY <1>6, <1>15, <2>1 DEF Blank
  <2> QED BY <2>1, <2>2 DEF NewAt
<1>16. ASSUME NEW i \in Touched(d, f, count) PROVE i \in Needs(size + count)
  <2>1. /\ i \in Slot
        /\ \/ i = TABLE /\ will > Direct
           \/ count # 0 /\ i \in size \div BlockSize..(size + count - 1) \div BlockSize
    BY DEF Touched, size, has, will
  <2>2. CASE i = TABLE /\ will > Direct
    BY <1>9, <2>1, <2>2
  <2>3. CASE count # 0 /\ i \in size \div BlockSize..(size + count - 1) \div BlockSize
    <3>1. size + count - 1 \in Nat /\ size + count \in Nat /\ size + count - 1 <= size + count
      BY <1>1, <1>2, <2>3
    <3>2. /\ (size + count - 1) \div BlockSize <= (size + count) \div BlockSize
          /\ (size + count - 1) \div BlockSize \in Nat /\ (size + count) \div BlockSize \in Nat
      BY <3>1, SizeFacts, DivMonotonic
    <3>3. size \div BlockSize \in Nat /\ will = (size + count) \div BlockSize + 1
      BY <1>2, <3>1, UsedBlocksFacts DEF will
    <3>4. i >= 0 /\ i < will
      BY <2>3, <3>2, <3>3
    <3> QED BY <1>8, <1>9, <2>1, <3>4
  <2> QED BY <2>1, <2>2, <2>3
<1> QED
  BY <1>2, <1>10, <1>11, <1>12, <1>13, <1>14, <1>15, <1>16 DEF size, has, will

-----------------------------------------------------------------------------
\* The addresses on a disk on which not all of the writes are: another file's are
\* what they were, and so are this one's but for those in the table.
LEMMA CutAt ==
  ASSUME NEW d, NEW e, NEW f, NEW count, NEW g, NEW x, Writable(d, e, f, count, g), Cut(d, f, count, g, x)
  PROVE  /\ \A h \in e \ {f} : \A i \in Slot : AtSlot(x, h, i) = AtSlot(d, h, i)
         /\ \/ \A i \in Slot : AtSlot(x, f, i) = AtSlot(d, f, i)
            \/ /\ x.bitmap = Marked(d, g) /\ AtSlot(d, f, TABLE) # 0 /\ TABLE \notin DOMAIN g
               /\ \A i \in Slot : AtSlot(x, f, i) = IF i < Direct THEN AtSlot(d, f, i) ELSE NewAt(d, f, g, i)
<1>1. /\ d \in Disk /\ e \in SUBSET File /\ f \in e
      /\ x \in Disk /\ x.inodes = d.inodes
      /\ \A b \in 0..NBlock - 1 :
           x.blocks[b] = d.blocks[b] \/ (/\ x.bitmap = Marked(d, g)
                                        /\ \E i \in Touched(d, f, count) :
                                             b = NewAt(d, f, g, i) /\ x.blocks[b] = Written(d, f, count, g, i))
  BY DEF Cut, Writable
<1>2. ASSUME NEW h \in e
      PROVE  /\ AtSlot(d, h, TABLE) \in 0..NBlock - 1
             /\ \A i \in Slot : i < Direct => AtSlot(x, h, i) = AtSlot(d, h, i)
             /\ \A i \in Slot : ~(i < Direct) => AtSlot(x, h, i) = IF AtSlot(d, h, TABLE) # 0
                                                            THEN x.blocks[AtSlot(d, h, TABLE)][i - Direct] ELSE 0
             /\ \A i \in Slot : ~(i < Direct) => AtSlot(d, h, i) = IF AtSlot(d, h, TABLE) # 0
                                                            THEN d.blocks[AtSlot(d, h, TABLE)][i - Direct] ELSE 0
  <2>1. h \in File /\ Direct \in 0..Direct
    BY <1>1, SizeFacts
  <2>2. AtSlot(x, h, TABLE) = AtSlot(d, h, TABLE) /\ AtSlot(d, h, TABLE) \in 0..NBlock - 1
    BY <1>1, <2>1, AtFacts
  <2>3. \A i \in 0..Direct - 1 : AtSlot(x, h, i) = AtSlot(d, h, i)
    BY <1>1, <2>1, AtFacts
  <2>4. \A i \in Slot : /\ i < Direct => i = TABLE \/ i \in 0..Direct - 1
                       /\ ~(i < Direct) => i \in Direct..AllBlocks - 1
    BY SizeFacts
  <2>5. ASSUME NEW i \in Slot, i < Direct PROVE AtSlot(x, h, i) = AtSlot(d, h, i)
    <3>1. CASE i = TABLE
      BY <2>2, <3>1
    <3>2. CASE i # TABLE
      <4>1. i \in 0..Direct - 1
        BY <2>5, <3>2, SlotFacts
      <4> QED BY <2>3, <4>1
    <3> QED BY <3>1, <3>2
  <2>6. \A i \in Direct..AllBlocks - 1 :
          /\ AtSlot(x, h, i) = IF AtSlot(d, h, TABLE) # 0 THEN x.blocks[AtSlot(d, h, TABLE)][i - Direct] ELSE 0
          /\ AtSlot(d, h, i) = IF AtSlot(d, h, TABLE) # 0 THEN d.blocks[AtSlot(d, h, TABLE)][i - Direct] ELSE 0
    BY <1>1, <2>1, <2>2, AtFacts
  <2> QED BY <2>2, <2>4, <2>5, <2>6
<1>3. /\ TABLE \in Slot /\ TABLE < Direct
      /\ \A i \in Slot : ~(i < Direct) => i - Direct \in 0..BlockSize - 1 /\ Direct + (i - Direct) = i
  BY SizeFacts
<1>4. /\ \A i \in Touched(d, f, count) : i \in Slot
      /\ \A i \in Slot : /\ i \in DOMAIN g /\ i < Direct => AtSlot(d, f, i) = 0
                         /\ i \notin DOMAIN g => NewAt(d, f, g, i) = AtSlot(d, f, i)
      /\ \A i, j \in Slot : NewAt(d, f, g, i) = NewAt(d, f, g, j) /\ NewAt(d, f, g, i) # 0 => i = j
      /\ \A h \in e \ {f} : \A i, j \in Slot : AtSlot(d, h, j) # 0 => AtSlot(d, h, j) # NewAt(d, f, g, i)
  <2>1. \A i \in Touched(d, f, count) : i \in Slot
    BY DEF Touched
  <2>2. \A i \in Slot : i \notin DOMAIN g => NewAt(d, f, g, i) = AtSlot(d, f, i)
    BY DEF NewAt
  <2> QED BY <2>1, <2>2, GrantedFacts
<1>5. ASSUME NEW h \in e \ {f}, NEW i \in Slot PROVE AtSlot(x, h, i) = AtSlot(d, h, i)
  <2>1. CASE AtSlot(d, h, TABLE) # 0
    <3>1. x.blocks[AtSlot(d, h, TABLE)] = d.blocks[AtSlot(d, h, TABLE)]
      BY <1>1, <1>2, <1>3, <1>4, <2>1
    <3> QED BY <1>2, <2>1, <3>1
  <2>2. CASE AtSlot(d, h, TABLE) = 0
    BY <1>2, <2>2
  <2> QED BY <2>1, <2>2
<1> DEFINE T == AtSlot(d, f, TABLE)
<1>6. CASE T = 0 \/ x.blocks[T] = d.blocks[T]
  <2>1. \A i \in Slot : AtSlot(x, f, i) = AtSlot(d, f, i)
    BY <1>1, <1>2, <1>6
  <2> QED BY <1>5, <2>1
<1>7. CASE T # 0 /\ x.blocks[T] # d.blocks[T]
  <2>1. PICK i \in Touched(d, f, count) : T = NewAt(d, f, g, i) /\ x.blocks[T] = Written(d, f, count, g, i)
    BY <1>1, <1>2, <1>7
  <2>2. TABLE \notin DOMAIN g /\ NewAt(d, f, g, TABLE) = T
    BY <1>3, <1>4, <1>7
  <2>3. i = TABLE
    BY <1>3, <1>4, <1>7, <2>1, <2>2
  <2>4. x.blocks[T] = [j \in 0..BlockSize - 1 |-> NewAt(d, f, g, Direct + j)]
    BY <2>1, <2>3 DEF Written
  <2>5. \A k \in Slot : ~(k < Direct) => x.blocks[T][k - Direct] = NewAt(d, f, g, k)
    BY <1>3, <2>4
  <2>6. \A k \in Slot : AtSlot(x, f, k) = IF k < Direct THEN AtSlot(d, f, k) ELSE NewAt(d, f, g, k)
    BY <1>1, <1>2, <1>7, <2>5
  <2>7. x.bitmap = Marked(d, g)
    BY <1>1, <1>2, <1>7
  <2> QED BY <1>5, <1>7, <2>2, <2>6, <2>7
<1> QED BY <1>6, <1>7

\* It can be mounted: nothing has two uses, and what the write() found in the files
\* is in them.
LEMMA CutSound ==
  ASSUME NEW d, NEW e, NEW f, NEW count, NEW g, NEW x, Writable(d, e, f, count, g), Cut(d, f, count, g, x),
         \A h \in e : Holds(d, h, len[h])
  PROVE  BlocksOnce(x, e) /\ \A h \in e : Holds(x, h, len[h])
<1> DEFINE Later(i) == NewAt(d, f, g, i)
<1>1. /\ d \in Disk /\ e \in SUBSET File /\ f \in e
      /\ x \in Disk /\ x.inodes = d.inodes /\ d.bitmap \subseteq x.bitmap
      /\ \A b \in 0..NBlock - 1 :
           x.blocks[b] = d.blocks[b] \/ \E i \in Touched(d, f, count) :
                                             b = Later(i) /\ x.blocks[b] = Written(d, f, count, g, i)
      /\ \A h \in e : Shaped(d, h)
      /\ \A h, k \in e : \A i, j \in Slot : AtSlot(d, h, i) = AtSlot(d, k, j) /\ AtSlot(d, h, i) # 0 => h = k /\ i = j
      /\ \A h \in e : \A i \in Slot : AtSlot(d, h, i) # 0 => AtSlot(d, h, i) \in d.bitmap
  BY DEF Cut, Writable, BlocksOnce
<1>2. /\ \A i \in DOMAIN g : i \in Slot /\ g[i] \in Block \ d.bitmap /\ (i < Direct => AtSlot(d, f, i) = 0)
      /\ \A i \in Slot : Later(i) # 0 => Later(i) \in Marked(d, g)
      /\ \A i, j \in Slot : Later(i) = Later(j) /\ Later(i) # 0 => i = j
      /\ \A h \in e \ {f} : \A i, j \in Slot : AtSlot(d, h, j) # 0 => AtSlot(d, h, j) # Later(i)
      /\ Touched(d, f, count) \subseteq Slot
  <2>1. Touched(d, f, count) \subseteq Slot
    BY DEF Touched
  <2> QED BY <2>1, GrantedFacts
<1>3. 0 \notin Block
  BY DEF Block
<1>4. \A h \in e \ {f} : \A i \in Slot : AtSlot(x, h, i) = AtSlot(d, h, i)
  BY CutAt
<1>5. /\ \A i \in Slot : AtSlot(x, f, i) # 0 => AtSlot(x, f, i) \in x.bitmap
      /\ \A i, j \in Slot : AtSlot(x, f, i) = AtSlot(x, f, j) /\ AtSlot(x, f, i) # 0 => i = j
      /\ \A h \in e \ {f} : \A i, j \in Slot : AtSlot(x, f, i) # 0 => AtSlot(x, f, i) # AtSlot(d, h, j)
      /\ \A i \in Slot : AtSlot(d, f, i) # 0 => AtSlot(x, f, i) # 0
      /\ \A i \in Slot : i < Direct \/ i \notin DOMAIN g => AtSlot(x, f, i) = AtSlot(d, f, i)
      /\ (\A i \in Slot : AtSlot(d, f, i) = 0) => \A i \in Slot : AtSlot(x, f, i) = 0
  <2>1. CASE \A i \in Slot : AtSlot(x, f, i) = AtSlot(d, f, i)
    BY <1>1, <2>1
  <2>2. CASE /\ x.bitmap = Marked(d, g) /\ AtSlot(d, f, TABLE) # 0 /\ TABLE \notin DOMAIN g
             /\ \A i \in Slot : AtSlot(x, f, i) = IF i < Direct THEN AtSlot(d, f, i) ELSE Later(i)
    <3>1. \A i \in Slot : i \notin DOMAIN g => Later(i) = AtSlot(d, f, i)
      BY DEF NewAt
    <3>2. \A i \in DOMAIN g : Later(i) = g[i] /\ Later(i) # 0
      BY <1>2, <1>3 DEF NewAt
    <3>3. \A i \in Slot : AtSlot(d, f, i) # 0 => Later(i) # 0
      BY <3>1, <3>2
    <3>4. \A i \in Slot : i < Direct /\ AtSlot(d, f, i) # 0 => Later(i) = AtSlot(d, f, i)
      BY <1>2, <3>1
    <3>5. TABLE \in Slot
      BY SizeFacts
    <3> HIDE DEF Later
    <3>6. \A i \in Slot : AtSlot(x, f, i) # 0 => AtSlot(x, f, i) = Later(i)
      BY <2>2, <3>4
    <3>7. \A i \in Slot : AtSlot(x, f, i) # 0 => AtSlot(x, f, i) \in x.bitmap
      BY <1>2, <2>2, <3>6
    <3>8. \A i, j \in Slot : AtSlot(x, f, i) = AtSlot(x, f, j) /\ AtSlot(x, f, i) # 0 => i = j
      BY <1>2, <3>6
    <3>9. ASSUME NEW h \in e \ {f}, NEW i \in Slot, NEW j \in Slot, AtSlot(x, f, i) # 0
          PROVE  AtSlot(x, f, i) # AtSlot(d, h, j)
      BY <1>2, <3>6, <3>9
    <3>10. \A i \in Slot : i < Direct \/ i \notin DOMAIN g => AtSlot(x, f, i) = AtSlot(d, f, i)
      BY <2>2, <3>1
    <3> QED BY <2>2, <3>3, <3>5, <3>7, <3>8, <3>9, <3>10
  <2> QED BY <2>1, <2>2, CutAt
<1>6. BlocksOnce(x, e)
  <2>1. ASSUME NEW h \in e PROVE Shaped(x, h)
    <3>1. Shaped(d, h) /\ x.inodes[h] = d.inodes[h]
      BY <1>1
    <3>2. /\ \A i \in Slot : AtSlot(d, h, i) # 0 => AtSlot(x, h, i) # 0
          /\ \A i \in Slot : i < Direct => AtSlot(x, h, i) = AtSlot(d, h, i)
          /\ (\A i \in Slot : AtSlot(d, h, i) = 0) => \A i \in Slot : AtSlot(x, h, i) = 0
      BY <1>4, <1>5
    <3> QED BY <3>1, <3>2 DEF Shaped, Blank
  <2>2. ASSUME NEW h \in e, NEW k \in e, NEW i \in Slot, NEW j \in Slot,
               AtSlot(x, h, i) = AtSlot(x, k, j), AtSlot(x, h, i) # 0
        PROVE  h = k /\ i = j
    <3>1. CASE h = f /\ k = f
      BY <1>5, <2>2, <3>1
    <3>2. CASE h = f /\ k # f
      BY <1>4, <1>5, <2>2, <3>2
    <3>3. CASE h # f /\ k = f
      BY <1>4, <1>5, <2>2, <3>3
    <3>4. CASE h # f /\ k # f
      BY <1>1, <1>4, <2>2, <3>4
    <3> QED BY <3>1, <3>2, <3>3, <3>4
  <2>3. ASSUME NEW h \in e, NEW i \in Slot, AtSlot(x, h, i) # 0 PROVE AtSlot(x, h, i) \in x.bitmap
    BY <1>1, <1>4, <1>5, <2>3
  <2> QED BY <2>1, <2>2, <2>3 DEF BlocksOnce
<1>7. ASSUME NEW h \in e PROVE Holds(x, h, len[h])
  <2>1. /\ Holds(d, h, len[h]) /\ x.inodes[h] = d.inodes[h] /\ d.inodes[h].size = len[h] /\ len[h] \in Nat
        /\ Shaped(d, h) /\ h \in File
    BY <1>1, AtFacts DEF Holds
  <2>2. ASSUME NEW o \in 0..len[h] - 1
        PROVE  x.blocks[AtSlot(x, h, o \div BlockSize)][o % BlockSize] = Byte(h, o)
    <3> DEFINE s == o \div BlockSize
               b == AtSlot(d, h, s)
    <3>1. d.blocks[b][o % BlockSize] = Byte(h, o)
      BY <2>1 DEF Holds
    <3>0. /\ s \in Slot /\ s \in Nat /\ b # 0 /\ s <= len[h] \div BlockSize
          /\ o % BlockSize \in 0..BlockSize - 1 /\ o = BlockSize * s + (o % BlockSize)
      <4>1. o \in 0..d.inodes[h].size - 1
        BY <2>1
      <4> QED BY <1>1, <2>1, <4>1, ByteAt
    <3> HIDE DEF s
    <3>2. PICK r \in 0..BlockSize - 1 : o % BlockSize = r /\ o = BlockSize * s + r
      BY <3>0
    <3>3. /\ s \in Slot /\ s \in Nat /\ s # TABLE /\ s <= len[h] \div BlockSize
          /\ len[h] \div BlockSize \in Nat /\ UsedBlocks(len[h]) = len[h] \div BlockSize + 1
      <4>1. len[h] \div BlockSize \in Nat /\ UsedBlocks(len[h]) = len[h] \div BlockSize + 1
        BY <2>1, UsedBlocksFacts
      <4>2. s # TABLE
        BY <3>0, SlotFacts
      <4> QED BY <3>0, <4>1, <4>2
    <3>4. b # 0 /\ b \in 0..NBlock - 1
      <4>1. b \in d.bitmap
        BY <1>1, <3>0
      <4> QED BY <1>1, <3>0, <4>1, SlotFacts DEF Disk, Block
    <3>5. s < Direct \/ s \notin NewSet(d.inodes[f], count) \/ h # f
      <4> SUFFICES ASSUME h = f, s \in NewSet(d.inodes[f], count) PROVE s < Direct
        OBVIOUS
      <4>1. s \notin UsedBlocks(len[h])..UsedBlocks(d.inodes[f].size + count) - 1
        BY <3>2, <3>3
      <4>2. s = 0 \/ s = TABLE
        BY <2>1, <4>1 DEF NewSet
      <4> QED BY <4>2, SlotFacts
    <3>6. DOMAIN g = NewSet(d.inodes[f], count)
      BY DEF Writable, Grants
    <3>7. AtSlot(x, h, s) = b
      BY <1>4, <1>5, <3>3, <3>5, <3>6
    <3>8. x.blocks[b][r] = d.blocks[b][r]
      <4> SUFFICES ASSUME x.blocks[b] # d.blocks[b] PROVE x.blocks[b][r] = d.blocks[b][r]
        OBVIOUS
      <4>1. PICK i \in Touched(d, f, count) : b = Later(i) /\ x.blocks[b] = Written(d, f, count, g, i)
        BY <1>1, <3>4
      <4>2. h = f
        BY <1>2, <3>3, <3>4, <4>1
      <4>3. s \notin DOMAIN g
        BY <1>2, <3>4, <3>5, <3>6, <4>2
      <4>4. Later(s) = b
        BY <4>2, <4>3 DEF NewAt
      <4>5. i = s
        BY <1>2, <3>3, <3>4, <4>1, <4>4
      <4>6. s = len[h] \div BlockSize
        <5>1. s >= len[h] \div BlockSize
          BY <2>1, <3>2, <3>3, <4>1, <4>2, <4>5 DEF Touched
        <5> QED BY <3>2, <3>3, <5>1
      <4>7. s * BlockSize + r = o /\ o < len[h]
        <5>1. s * BlockSize = BlockSize * s /\ BlockSize * s \in Nat
          BY <3>3, SlotFacts
        <5> QED BY <2>1, <3>2, <5>1
      <4>8. x.blocks[b] = [j \in 0..BlockSize - 1 |->
              IF s * BlockSize + j \in len[h]..len[h] + count - 1 THEN Byte(f, s * BlockSize + j)
              ELSE IF s = len[h] \div BlockSize THEN d.blocks[Later(s)][j] ELSE 0]
        BY <2>1, <3>3, <4>1, <4>2, <4>5 DEF Written
      <4>9. s * BlockSize + r \notin len[h]..len[h] + count - 1
        BY <4>7, <2>1
      <4> QED BY <4>4, <4>6, <4>8, <4>9
    <3> QED BY <3>1, <3>2, <3>7, <3>8 DEF s
  <2> QED BY <2>1, <2>2 DEF Holds
<1> QED BY <1>6, <1>7

-----------------------------------------------------------------------------
\* What NewSet and Needs are, in terms of the numbers of blocks.
LEMMA SetFacts ==
  ASSUME NEW d, NEW e, NEW f, NEW count, NEW g, Writable(d, e, f, count, g)
  PROVE  LET size == d.inodes[f].size
             has == UsedBlocks(size)
             will == UsedBlocks(size + count)
         IN  /\ has \in 1..will /\ will \in 1..AllBlocks
             /\ \A i : i \in DOMAIN g <=> /\ i \in Slot
                                        /\ \/ i = 0 /\ d.inodes[f].sectors[0] = 0
                                           \/ i = TABLE /\ has <= Direct /\ will > Direct
                                           \/ i \in has..will - 1
             /\ \A i : i \in Needs(size) <=> i \in Slot /\ IF i = TABLE THEN has > Direct ELSE i < has
             /\ \A i : i \in Needs(size + count) <=> i \in Slot /\ IF i = TABLE THEN will > Direct ELSE i < will
             /\ TABLE \in Touched(d, f, count) <=> will > Direct /\ will > has
<1> DEFINE size == d.inodes[f].size
           has == UsedBlocks(size)
           will == UsedBlocks(size + count)
<1>1. has \in 1..will /\ will \in 1..AllBlocks
  BY GrantedFacts
<1>2. DOMAIN g = NewSet(d.inodes[f], count)
  BY DEF Writable, Grants
<1>3. size \div BlockSize \in Nat /\ TABLE \notin Nat /\ TABLE \in Slot
  <2>1. size \in Nat
    BY GrantedFacts
  <2>2. size \div BlockSize \in Nat
    BY <2>1, UsedBlocksFacts
  <2>3. TABLE \notin Nat /\ TABLE \in Slot
    BY SlotFacts
  <2> QED BY <2>2, <2>3
<1>4. TABLE \in Touched(d, f, count) <=> will > Direct /\ will > has
  <2>1. ASSUME TABLE \in size \div BlockSize..(size + count - 1) \div BlockSize PROVE FALSE
    BY <1>3, <2>1
  <2> QED BY <1>3, <2>1 DEF Touched
<1> QED BY <1>1, <1>2, <1>4 DEF NewSet, Needs

\* The addresses when all of the writes are on the disk.
LEMMA DoneAt ==
  ASSUME NEW d, NEW e, NEW f, NEW count, NEW g, NEW x, Writable(d, e, f, count, g), Done(d, f, count, g, x)
  PROVE  /\ \A h \in e \ {f} : \A i \in Slot : AtSlot(x, h, i) = AtSlot(d, h, i)
         /\ \A i \in Slot : AtSlot(x, f, i) = NewAt(d, f, g, i)
<1> DEFINE Later(i) == NewAt(d, f, g, i)
           has == UsedBlocks(d.inodes[f].size)
           will == UsedBlocks(d.inodes[f].size + count)
<1>1. /\ d \in Disk /\ e \in SUBSET File /\ f \in e /\ f \in File
      /\ x \in Disk /\ x.inodes = [d.inodes EXCEPT ![f] = NewInode(d, f, count, g)]
      /\ DOMAIN d.inodes = File
      /\ \A i \in Touched(d, f, count) : x.blocks[Later(i)] = Written(d, f, count, g, i)
      /\ \A b \in 0..NBlock - 1 :
           (\A i \in Touched(d, f, count) : b # Later(i)) => x.blocks[b] = d.blocks[b]
      /\ \A h \in e : \A i \in Slot : AtSlot(d, h, i) # 0 => AtSlot(d, h, i) \in d.bitmap
  BY DEF Done, Writable, BlocksOnce, Disk
<1>2. /\ \A i \in DOMAIN g : i \in Slot /\ g[i] # 0
      /\ \A i \in Slot : Later(i) \in 0..NBlock - 1
      /\ \A i, j \in Slot : Later(i) = Later(j) /\ Later(i) # 0 => i = j
      /\ \A h \in e \ {f} : \A i, j \in Slot : AtSlot(d, h, j) # 0 => AtSlot(d, h, j) # Later(i)
      /\ \A i \in Touched(d, f, count) : i \in Slot
  <2>1. \A i \in Touched(d, f, count) : i \in Slot
    BY DEF Touched
  <2>2. 0 \notin Block
    BY DEF Block
  <2> QED BY <2>1, <2>2, GrantedFacts
<1>3. ASSUME NEW h \in e \ {f}, NEW i \in Slot PROVE AtSlot(x, h, i) = AtSlot(d, h, i)
  <2>1. x.inodes[h] = d.inodes[h] /\ h \in File
    BY <1>1
  <2>2. AtSlot(x, h, TABLE) = AtSlot(d, h, TABLE) /\ AtSlot(d, h, TABLE) \in 0..NBlock - 1
    <3>1. Direct \in 0..Direct
      BY SlotFacts
    <3> QED BY <1>1, <2>1, <3>1, AtFacts
  <2>3. CASE i = TABLE
    BY <2>2, <2>3
  <2>4. CASE i \in 0..Direct - 1
    BY <1>1, <2>1, <2>4, AtFacts
  <2>5. CASE i \in Direct..AllBlocks - 1
    <3>1. /\ AtSlot(x, h, i) = IF AtSlot(d, h, TABLE) # 0 THEN x.blocks[AtSlot(d, h, TABLE)][i - Direct] ELSE 0
          /\ AtSlot(d, h, i) = IF AtSlot(d, h, TABLE) # 0 THEN d.blocks[AtSlot(d, h, TABLE)][i - Direct] ELSE 0
      BY <1>1, <2>1, <2>2, <2>5, AtFacts
    <3>2. AtSlot(d, h, TABLE) # 0 => x.blocks[AtSlot(d, h, TABLE)] = d.blocks[AtSlot(d, h, TABLE)]
      <4>1. TABLE \in Slot
        BY SlotFacts
      <4> QED BY <1>1, <1>2, <2>2, <4>1
    <3> QED BY <3>1, <3>2
  <2> QED BY <2>3, <2>4, <2>5, SlotFacts
<1>4. x.inodes[f] = NewInode(d, f, count, g)
  BY <1>1
<1>5. \A i \in 0..Direct : x.inodes[f].sectors[i] = Later(IF i = Direct THEN TABLE ELSE i)
  BY <1>4 DEF NewInode
<1>6. AtSlot(x, f, TABLE) = Later(TABLE)
  <2>1. Direct \in 0..Direct
    BY SlotFacts
  <2>2. AtSlot(x, f, TABLE) = x.inodes[f].sectors[Direct]
    BY <1>1, AtFacts
  <2> QED BY <1>5, <2>1, <2>2
<1>7. ASSUME NEW i \in 0..Direct - 1 PROVE AtSlot(x, f, i) = Later(i)
  <2>1. i \in 0..Direct /\ i # Direct
    BY SlotFacts
  <2>2. AtSlot(x, f, i) = x.inodes[f].sectors[i]
    BY <1>1, AtFacts
  <2> QED BY <1>5, <2>1, <2>2
<1>8. ASSUME NEW i \in Direct..AllBlocks - 1 PROVE AtSlot(x, f, i) = Later(i)
  <2> DEFINE T == Later(TABLE)
  <2>1. AtSlot(x, f, i) = IF T # 0 THEN x.blocks[T][i - Direct] ELSE 0
    BY <1>1, <1>6, AtFacts
  <2>2. AtSlot(d, f, i) = IF AtSlot(d, f, TABLE) # 0 THEN d.blocks[AtSlot(d, f, TABLE)][i - Direct] ELSE 0
    BY <1>1, AtFacts
  <2>3. /\ i \in Slot /\ TABLE \in Slot /\ i # TABLE /\ TABLE < Direct /\ i # 0 /\ i \in Int /\ Direct \in Int
        /\ i - Direct \in 0..BlockSize - 1 /\ Direct + (i - Direct) = i
    BY SlotFacts
  <2>4. /\ has \in Int /\ will \in Int /\ has <= will
        /\ i \in DOMAIN g <=> i \in has..will - 1
        /\ TABLE \in DOMAIN g <=> has <= Direct /\ will > Direct
        /\ T # 0 <=> will > Direct
        /\ TABLE \in Touched(d, f, count) <=> will > Direct /\ will > has
    <3>1. /\ has \in 1..will /\ will \in 1..AllBlocks
          /\ TABLE \in Touched(d, f, count) <=> will > Direct /\ will > has
      BY SetFacts
    <3>2. /\ i \in DOMAIN g <=> i \in has..will - 1
          /\ TABLE \in DOMAIN g <=> (has <= Direct /\ will > Direct) \/ TABLE \in has..will - 1
      BY <2>3, SetFacts, SlotFacts
    <3>3. TABLE \in Needs(d.inodes[f].size + count) <=> will > Direct
      BY <2>3, SetFacts
    <3>4. T # 0 <=> will > Direct
      BY <2>3, <3>3, GrantedFacts
    <3>5. TABLE \notin has..will - 1
      BY <3>1, SlotFacts
    <3> QED BY <3>1, <3>2, <3>4, <3>5, SlotFacts
  <2> HIDE DEF has, will
  <2>5. CASE T = 0
    <3>1. i \notin DOMAIN g /\ TABLE \notin DOMAIN g
      BY <2>3, <2>4, <2>5
    <3>2. AtSlot(d, f, TABLE) = 0
      BY <2>5, <3>1 DEF NewAt
    <3> QED BY <2>1, <2>2, <2>5, <3>1, <3>2 DEF NewAt
  <2>6. CASE T # 0 /\ TABLE \in Touched(d, f, count)
    <3>1. x.blocks[T] = [j \in 0..BlockSize - 1 |-> Later(Direct + j)]
      BY <1>1, <2>6 DEF Written
    <3> QED BY <2>1, <2>3, <2>6, <3>1
  <2>7. CASE T # 0 /\ TABLE \notin Touched(d, f, count)
    <3>1. i \notin DOMAIN g /\ TABLE \notin DOMAIN g
      <4>1. will = has /\ will > Direct
        BY <2>4, <2>7
      <4>2. i \notin has..will - 1
        BY <2>3, <2>4, <4>1
      <4>3. ~(has <= Direct)
        BY <2>3, <2>4, <4>1
      <4> QED BY <2>4, <4>2, <4>3
    <3>2. T = AtSlot(d, f, TABLE) /\ Later(i) = AtSlot(d, f, i)
      BY <3>1 DEF NewAt
    <3>3. \A k \in Touched(d, f, count) : T # Later(k)
      BY <1>2, <2>3, <2>7
    <3>4. x.blocks[T] = d.blocks[T]
      BY <1>1, <1>2, <2>3, <3>3
    <3> QED BY <2>1, <2>2, <3>2, <3>4
  <2> QED BY <2>5, <2>6, <2>7
<1> QED
  <2>1. \A i \in Slot : i = TABLE \/ i \in 0..Direct - 1 \/ i \in Direct..AllBlocks - 1
    BY SlotFacts
  <2> QED BY <1>3, <1>6, <1>7, <1>8, <2>1

\* The disk when all of the writes are on it: nothing is used twice or lost, and the
\* file holds the bytes of this write after those it held.
LEMMA DoneSound ==
  ASSUME NEW d, NEW e, NEW f, NEW count, NEW g, NEW x, Writable(d, e, f, count, g), Done(d, f, count, g, x),
         \A h \in e : Holds(d, h, len[h])
  PROVE  /\ BlocksOnce(x, e)
         /\ NoneLost(d, e) => NoneLost(x, e)
         /\ \A h \in e \ {f} : Holds(x, h, len[h])
         /\ Holds(x, f, len[f] + count)
<1> DEFINE Later(i) == NewAt(d, f, g, i)
           size == d.inodes[f].size
<1>1. /\ d \in Disk /\ e \in SUBSET File /\ f \in e /\ f \in File /\ count \in Nat
      /\ x \in Disk /\ x.inodes = [d.inodes EXCEPT ![f] = NewInode(d, f, count, g)]
      /\ DOMAIN d.inodes = File /\ x.bitmap = Marked(d, g)
      /\ \A i \in Touched(d, f, count) : x.blocks[Later(i)] = Written(d, f, count, g, i)
      /\ \A b \in 0..NBlock - 1 :
           (\A i \in Touched(d, f, count) : b # Later(i)) => x.blocks[b] = d.blocks[b]
      /\ \A h \in e : Shaped(d, h)
      /\ \A h, k \in e : \A i, j \in Slot : AtSlot(d, h, i) = AtSlot(d, k, j) /\ AtSlot(d, h, i) # 0 => h = k /\ i = j
      /\ \A h \in e : \A i \in Slot : AtSlot(d, h, i) # 0 => AtSlot(d, h, i) \in d.bitmap
      /\ d.bitmap \in SUBSET Block /\ Block \subseteq 0..NBlock - 1 /\ 0 \notin Block
      /\ UsedBlocks(size + count) <= AllBlocks
  <2>1. /\ d \in Disk /\ e \in SUBSET File /\ f \in e /\ f \in File /\ count \in Nat
        /\ UsedBlocks(size + count) <= AllBlocks /\ BlocksOnce(d, e)
    BY DEF Writable
  <2>2. DOMAIN d.inodes = File /\ d.bitmap \in SUBSET Block
    BY <2>1 DEF Disk
  <2>3. Block \subseteq 0..NBlock - 1 /\ 0 \notin Block
    BY SlotFacts DEF Block
  <2> QED BY <2>1, <2>2, <2>3 DEF Done, BlocksOnce
<1>2. /\ \A i \in DOMAIN g : i \in Slot /\ g[i] \in Block \ d.bitmap /\ (i < Direct => AtSlot(d, f, i) = 0)
      /\ \A i \in Slot : /\ Later(i) \in 0..NBlock - 1
                         /\ Later(i) # 0 => Later(i) \in Marked(d, g)
      /\ \A i, j \in Slot : Later(i) = Later(j) /\ Later(i) # 0 => i = j
      /\ \A h \in e \ {f} : \A i, j \in Slot : AtSlot(d, h, j) # 0 => AtSlot(d, h, j) # Later(i)
      /\ \A i \in Needs(size + count) : Later(i) # 0
      /\ \A i \in Slot \ Needs(size + count) : i < Direct => Later(i) = 0
      /\ Touched(d, f, count) \subseteq Slot
      /\ size \in Nat
  <2>1. Touched(d, f, count) \subseteq Slot
    BY DEF Touched
  <2> QED BY <2>1, GrantedFacts
<1>3. /\ \A h \in e \ {f} : \A i \in Slot : AtSlot(x, h, i) = AtSlot(d, h, i)
      /\ \A i \in Slot : AtSlot(x, f, i) = Later(i)
  BY DoneAt
<1>4. /\ x.inodes[f].size = size + count
      /\ \A h \in e \ {f} : x.inodes[h] = d.inodes[h]
  BY <1>1 DEF NewInode
<1>5. /\ \A i \in Slot : i \notin DOMAIN g => Later(i) = AtSlot(d, f, i)
      /\ \A i \in DOMAIN g : Later(i) = g[i]
  BY DEF NewAt
<1> HIDE DEF Later
<1>6. BlocksOnce(x, e)
  <2>1. ASSUME NEW h \in e \ {f} PROVE Shaped(x, h)
    <3>1. Shaped(d, h)
      BY <1>1
    <3> QED BY <1>3, <1>4, <3>1 DEF Shaped, Blank
  <2>2. Shaped(x, f)
    <3>1. size + count < BlockSize * AllBlocks
      <4>1. size + count \in Nat
        BY <1>1, <1>2
      <4> QED BY <1>1, <4>1, UsedBlocksFacts
    <3> QED BY <1>2, <1>3, <1>4, <3>1 DEF Shaped
  <2>3. ASSUME NEW h \in e, NEW k \in e, NEW i \in Slot, NEW j \in Slot,
               AtSlot(x, h, i) = AtSlot(x, k, j), AtSlot(x, h, i) # 0
        PROVE  h = k /\ i = j
    <3>1. CASE h = f /\ k = f
      BY <1>2, <1>3, <2>3, <3>1
    <3>2. CASE h = f /\ k # f
      BY <1>2, <1>3, <2>3, <3>2
    <3>3. CASE h # f /\ k = f
      BY <1>2, <1>3, <2>3, <3>3
    <3>4. CASE h # f /\ k # f
      BY <1>1, <1>3, <2>3, <3>4
    <3> QED BY <3>1, <3>2, <3>3, <3>4
  <2>4. ASSUME NEW h \in e, NEW i \in Slot, AtSlot(x, h, i) # 0 PROVE AtSlot(x, h, i) \in x.bitmap
    <3>1. CASE h = f
      BY <1>1, <1>2, <1>3, <2>4, <3>1
    <3>2. CASE h # f
      BY <1>1, <1>3, <2>4, <3>2 DEF Marked
    <3> QED BY <3>1, <3>2
  <2> QED BY <2>1, <2>2, <2>3, <2>4 DEF BlocksOnce
<1>7. ASSUME NoneLost(d, e) PROVE NoneLost(x, e)
  <2>1. ASSUME NEW h \in e \ {f}, NEW i \in Slot, i \notin Needs(x.inodes[h].size) PROVE AtSlot(x, h, i) = 0
    BY <1>3, <1>4, <1>7, <2>1 DEF NoneLost
  <2>2. \A i \in Slot : i \notin Needs(size) => AtSlot(d, f, i) = 0
    BY <1>1, <1>7 DEF NoneLost
  <2> DEFINE has == UsedBlocks(size)
             will == UsedBlocks(size + count)
  <2>3. /\ has \in 1..will /\ will \in 1..AllBlocks
        /\ \A i \in Slot : ~(i < Direct) /\ i \in DOMAIN g => i \in has..will - 1
        /\ \A i \in Slot : ~(i < Direct) => i # TABLE /\ i \in Int
        /\ \A i \in Slot : ~(i < Direct) => (i \in Needs(size) <=> i < has)
        /\ \A i \in Slot : ~(i < Direct) => (i \in Needs(size + count) <=> i < will)
    <3>1. \A i \in Slot : ~(i < Direct) => i # TABLE /\ i \in Int /\ i # 0
      BY SlotFacts
    <3>2. has \in 1..will /\ will \in 1..AllBlocks
      BY SetFacts
    <3>3. ASSUME NEW i \in Slot, ~(i < Direct), i \in DOMAIN g PROVE i \in has..will - 1
      BY <3>1, <3>3, SetFacts
    <3>4. ASSUME NEW i \in Slot, ~(i < Direct) PROVE i \in Needs(size) <=> i < has
      BY <3>1, <3>4, SetFacts
    <3>5. ASSUME NEW i \in Slot, ~(i < Direct) PROVE i \in Needs(size + count) <=> i < will
      BY <3>1, <3>5, SetFacts
    <3> QED BY <3>1, <3>2, <3>3, <3>4, <3>5
  <2> HIDE DEF has, will
  <2>4. ASSUME NEW i \in Slot, i \notin Needs(size + count) PROVE AtSlot(x, f, i) = 0
    <3>1. CASE i < Direct
      BY <1>2, <1>3, <2>4, <3>1
    <3>2. CASE ~(i < Direct)
      <4>1. i \in Int /\ ~(i < will) /\ ~(i < has) /\ i \notin DOMAIN g
        BY <2>3, <2>4, <3>2
      <4>2. i \notin Needs(size)
        BY <2>3, <3>2, <4>1
      <4> QED BY <1>3, <1>5, <2>2, <4>1, <4>2
    <3> QED BY <3>1, <3>2
  <2>5. ASSUME NEW b \in x.bitmap PROVE \E h \in e : \E i \in Slot : AtSlot(x, h, i) = b
    <3>1. CASE b \in d.bitmap
      <4>1. PICK h \in e, i \in Slot : AtSlot(d, h, i) = b
        BY <1>7, <3>1 DEF NoneLost
      <4>2. CASE h # f
        BY <1>3, <4>1, <4>2
      <4>3. CASE h = f
        <5>1. AtSlot(d, f, i) # 0
          BY <1>1, <3>1, <4>1, <4>3
        <5>2. i \notin DOMAIN g
          <6>1. CASE i < Direct
            BY <1>2, <5>1, <6>1
          <6>2. CASE ~(i < Direct)
            <7>1. i < has
              BY <2>2, <2>3, <5>1, <6>2
            <7> QED BY <2>3, <6>2, <7>1
          <6> QED BY <6>1, <6>2
        <5> QED BY <1>1, <1>3, <1>5, <4>1, <4>3, <5>2
      <4> QED BY <4>2, <4>3
    <3>2. CASE b \notin d.bitmap
      <4>1. PICK i \in DOMAIN g : b = g[i]
        BY <1>1, <3>2 DEF Marked
      <4> QED BY <1>1, <1>2, <1>3, <1>5, <4>1
    <3> QED BY <3>1, <3>2
  <2>6. ASSUME NEW h \in e, NEW i \in Slot, i \notin Needs(x.inodes[h].size) PROVE AtSlot(x, h, i) = 0
    BY <1>4, <2>1, <2>4, <2>6
  <2> QED BY <2>5, <2>6 DEF NoneLost
<1>8. ASSUME NEW h \in e \ {f} PROVE Holds(x, h, len[h])
  <2>1. /\ Holds(d, h, len[h]) /\ x.inodes[h] = d.inodes[h] /\ d.inodes[h].size = len[h] /\ len[h] \in Nat
        /\ Shaped(d, h) /\ h \in File
    BY <1>1, <1>4, AtFacts DEF Holds
  <2>2. ASSUME NEW o \in 0..len[h] - 1
        PROVE  x.blocks[AtSlot(x, h, o \div BlockSize)] = d.blocks[AtSlot(d, h, o \div BlockSize)]
    <3> DEFINE s == o \div BlockSize
               b == AtSlot(d, h, s)
    <3>1. s \in Slot /\ b # 0
      <4>1. o \in 0..d.inodes[h].size - 1
        BY <2>1
      <4> QED BY <1>1, <2>1, <4>1, ByteAt
    <3> HIDE DEF s
    <3>2. b \in 0..NBlock - 1
      BY <1>1, <3>1
    <3>3. \A i \in Touched(d, f, count) : b # Later(i)
      BY <1>2, <3>1
    <3> QED BY <1>1, <1>3, <3>1, <3>2, <3>3 DEF s
  <2> QED BY <2>1, <2>2 DEF Holds
<1>9. ASSUME NEW o \in 0..size + count - 1
      PROVE  x.blocks[AtSlot(x, f, o \div BlockSize)][o % BlockSize] = Byte(f, o)
  <2>1. /\ d.inodes[f].size = len[f] /\ len[f] = size /\ size \in Nat /\ o \in Nat
        /\ Shaped(d, f) /\ Shaped(x, f) /\ x.inodes[f].size = size + count
        /\ \A p \in 0..size - 1 : d.blocks[AtSlot(d, f, p \div BlockSize)][p % BlockSize] = Byte(f, p)
    BY <1>1, <1>2, <1>4, <1>6 DEF Holds, BlocksOnce
  <2>2. PICK s, r : s = o \div BlockSize /\ r = o % BlockSize
    OBVIOUS
  <2>3. /\ s \in Slot /\ s \in Nat /\ Later(s) # 0 /\ Later(s) \in 0..NBlock - 1
        /\ r \in 0..BlockSize - 1 /\ s * BlockSize + r = o
    <3>1. o \in 0..x.inodes[f].size - 1
      <4> HIDE DEF size
      <4> QED BY <1>1, <1>4, <2>1
    <3>2. s \in Slot /\ s \in Nat /\ AtSlot(x, f, s) # 0 /\ r \in 0..BlockSize - 1 /\ o = BlockSize * s + r
      BY <1>1, <2>1, <2>2, <3>1, ByteAt
    <3>3. BlockSize * s = s * BlockSize
      BY <3>2, SlotFacts
    <3> QED BY <1>2, <1>3, <3>2, <3>3
  <2>4. s \in Touched(d, f, count) =>
          x.blocks[Later(s)][r] = IF o \in size..size + count - 1 THEN Byte(f, o)
                                ELSE IF s = size \div BlockSize THEN d.blocks[Later(s)][r] ELSE 0
    <3>1. s # TABLE
      BY <2>3, SlotFacts
    <3> HIDE DEF size
    <3> SUFFICES ASSUME s \in Touched(d, f, count)
                 PROVE  Written(d, f, count, g, s)[r] = IF o \in size..size + count - 1 THEN Byte(f, o)
                                                       ELSE IF s = size \div BlockSize THEN d.blocks[Later(s)][r] ELSE 0
      BY <1>1
    <3>2. Written(d, f, count, g, s) = [j \in 0..BlockSize - 1 |->
            IF s * BlockSize + j \in size..size + count - 1 THEN Byte(f, s * BlockSize + j)
            ELSE IF s = size \div BlockSize THEN d.blocks[Later(s)][j] ELSE 0]
      BY <3>1 DEF Written, size, Later
    <3> QED BY <2>3, <3>2
  <2>5. CASE o < size
    <3>1. AtSlot(d, f, s) # 0 /\ s <= size \div BlockSize
      <4>1. o \in 0..d.inodes[f].size - 1
        BY <2>1, <2>5
      <4> QED BY <1>1, <2>1, <2>2, <4>1, ByteAt
    <3>2. s \notin DOMAIN g
      <4>1. CASE s < Direct
        BY <1>2, <3>1, <4>1
      <4>2. CASE ~(s < Direct)
        <5>1. s # 0 /\ s # TABLE
          BY <2>3, <4>2, SlotFacts
        <5>2. UsedBlocks(size) = size \div BlockSize + 1 /\ size \div BlockSize \in Nat
          BY <1>2, UsedBlocksFacts
        <5>3. s \notin UsedBlocks(size)..UsedBlocks(size + count) - 1
          BY <2>3, <3>1, <5>2
        <5> QED BY <5>1, <5>3, SetFacts
      <4> QED BY <4>1, <4>2
    <3>3. Later(s) = AtSlot(d, f, s)
      BY <1>5, <2>3, <3>2
    <3>4. d.blocks[Later(s)][r] = Byte(f, o)
      BY <2>1, <2>2, <2>5, <3>3
    <3>5. CASE s \in Touched(d, f, count)
      <4>1. s = size \div BlockSize
        <5>1. s >= size \div BlockSize
          <6>1. s # TABLE
            BY <2>3, SlotFacts
          <6>2. s \in size \div BlockSize..(size + count - 1) \div BlockSize
            BY <3>5, <6>1 DEF Touched
          <6> QED BY <6>2
        <5>2. size \div BlockSize \in Nat
          BY <1>2, UsedBlocksFacts
        <5> QED BY <2>3, <3>1, <5>1, <5>2
      <4>2. o \notin size..size + count - 1
        BY <2>1, <2>5
      <4> QED BY <1>3, <2>2, <2>3, <2>4, <3>4, <3>5, <4>1, <4>2
    <3>6. CASE s \notin Touched(d, f, count)
      <4>1. \A i \in Touched(d, f, count) : Later(s) # Later(i)
        BY <1>2, <2>3, <3>6
      <4> QED BY <1>1, <1>3, <2>2, <2>3, <3>4, <4>1
    <3> QED BY <3>5, <3>6
  <2>6. CASE ~(o < size)
    <3>1. count # 0 /\ o \in size..size + count - 1 /\ size + count - 1 \in Nat /\ o <= size + count - 1 /\ size <= o
      BY <1>1, <2>1, <2>6
    <3>2. size \div BlockSize <= s /\ s <= (size + count - 1) \div BlockSize
      BY <2>1, <2>2, <3>1, SlotFacts, DivMonotonic
    <3>3. size \div BlockSize \in Nat /\ (size + count - 1) \div BlockSize \in Nat
      BY <2>1, <3>1, SlotFacts, DivMonotonic
    <3>4. s \in Touched(d, f, count)
      BY <2>3, <3>1, <3>2, <3>3 DEF Touched
    <3> QED BY <1>3, <2>2, <2>3, <2>4, <3>1, <3>4
  <2> QED BY <2>1, <2>5, <2>6
<1>10. Holds(x, f, len[f] + count)
  <2>1. len[f] = size
    BY <1>1 DEF Holds
  <2> HIDE DEF size
  <2>2. x.inodes[f].size = len[f] + count
    BY <1>4, <2>1
  <2>3. \A o \in 0..len[f] + count - 1 : x.blocks[AtSlot(x, f, o \div BlockSize)][o % BlockSize] = Byte(f, o)
    BY <1>9, <2>1
  <2>4. (len[f] + count) - 1 = len[f] + count - 1
    BY <1>1, <1>2, <2>1 DEF size
  <2> QED BY <2>2, <2>3, <2>4 DEF Holds
<1> QED BY <1>6, <1>7, <1>8, <1>10

\* What gets a block, in order: the slots of NewSet, each once, the table never last.
SlotsSound(ino, count, slots) ==
  LET has == UsedBlocks(ino.size)
      will == UsedBlocks(ino.size + count)
  IN  /\ slots \in Seq(Slot) /\ {slots[i] : i \in 1..Len(slots)} = NewSet(ino, count)
      /\ \A i, j \in 1..Len(slots) : slots[i] = slots[j] => i = j
      /\ Len(slots) # 0 => slots[Len(slots)] # TABLE
      /\ Len(slots) = (IF ino.sectors[0] = 0 THEN 1 ELSE 0)
                        + (IF has <= Direct /\ will > Direct THEN 1 ELSE 0) + (will - has)

\* FirstSlot and NewSlots of file_write() are such a sequence if the file fits.
LEMMA SlotsFacts ==
  ASSUME NEW ino \in Inode, NEW count \in Nat, UsedBlocks(ino.size + count) <= AllBlocks
  PROVE  SlotsSound(ino, count, FirstSlot(ino) \o NewSlots(ino, count))
<1> DEFINE has == UsedBlocks(ino.size)
           will == UsedBlocks(ino.size + count)
           blank == ino.sectors[0] = 0
           tab == has <= Direct /\ will > Direct
           rest == [i \in 1..will - has |-> has + i - 1]
           a == IF blank THEN 1 ELSE 0
           b == IF tab THEN 1 ELSE 0
           slots == FirstSlot(ino) \o NewSlots(ino, count)
           At0(i) == IF i <= a THEN 0 ELSE IF i <= a + b THEN TABLE ELSE has + (i - a - b) - 1
<1>1. has \in Nat \ {0} /\ will \in Nat /\ has <= will /\ will <= AllBlocks
  <2>1. ino.size \in Nat /\ ino.size + count \in Nat /\ ino.size <= ino.size + count
    BY DEF Inode
  <2> QED BY <2>1, UsedBlocksFacts
<1> HIDE DEF has, will
<1>2. slots = (IF blank THEN <<0>> ELSE <<>>) \o ((IF tab THEN <<TABLE>> ELSE <<>>) \o rest)
  BY DEF FirstSlot, NewSlots, has, will
<1>3. rest \in Seq(Int) /\ Len(rest) = will - has /\ \A i \in 1..will - has : rest[i] = has + i - 1
  BY <1>1
<1>4. Len(slots) = a + b + (will - has) /\ slots \in Seq(Int) /\ \A i \in 1..Len(slots) : slots[i] = At0(i)
  <2> HIDE DEF rest, slots
  <2>1. TABLE \in Int
    BY SlotFacts
  <2>2. CASE blank /\ tab
    <3> DEFINE t == <<TABLE>> \o rest
    <3>1. t \in Seq(Int) /\ Len(t) = 1 + (will - has) /\ t[1] = TABLE
      BY <1>1, <1>3, <2>1
    <3>2. \A i \in 2..Len(t) : t[i] = has + (i - 1) - 1
      BY <1>1, <1>3, <2>1
    <3> HIDE DEF t
    <3>3. slots = <<0>> \o t
      BY <1>2, <2>2 DEF t
    <3>4. Len(slots) = 1 + Len(t) /\ slots \in Seq(Int) /\ slots[1] = 0 /\ \A i \in 2..Len(slots) : slots[i] = t[i - 1]
      BY <3>1, <3>3
    <3>5. Len(slots) = a + b + (will - has) /\ a = 1 /\ b = 1
      BY <1>1, <2>2, <3>1, <3>4
    <3>6. ASSUME NEW i \in 1..Len(slots) PROVE slots[i] = At0(i)
      <4>1. CASE i = 1
        BY <3>4, <3>5, <4>1
      <4>2. CASE i = 2
        BY <3>1, <3>4, <3>5, <4>2
      <4>3. CASE i > 2
        <5>1. slots[i] = has + ((i - 1) - 1) - 1
          BY <1>1, <3>1, <3>2, <3>4, <4>3
        <5>2. At0(i) = has + ((i - 1) - 1) - 1
          BY <3>5, <4>3
        <5> QED BY <5>1, <5>2
      <4> QED BY <3>5, <4>1, <4>2, <4>3
    <3> QED BY <3>4, <3>5, <3>6
  <2>3. CASE blank /\ ~tab
    <3>1. slots = <<0>> \o rest /\ a = 1 /\ b = 0
      BY <1>1, <1>2, <1>3, <2>1, <2>3
    <3>2. /\ Len(slots) = 1 + (will - has) /\ slots \in Seq(Int) /\ slots[1] = 0
          /\ \A i \in 2..Len(slots) : slots[i] = rest[i - 1]
      BY <1>1, <1>3, <2>1, <3>1
    <3>3. ASSUME NEW i \in 1..Len(slots) PROVE slots[i] = At0(i)
      <4>1. CASE i = 1
        BY <3>1, <3>2, <4>1
      <4>2. CASE i # 1
        <5>1. Len(slots) \in Nat /\ has \in Int
          BY <1>1, <3>2
        <5>2. i \in Int /\ i > 1 /\ i \in 2..Len(slots)
          BY <4>2, <5>1
        <5>3. i - 1 \in 1..will - has
          BY <1>1, <3>2, <5>2
        <5>4. slots[i] = has + (i - 1) - 1
          BY <1>3, <3>2, <5>2, <5>3
        <5>5. i > a /\ i > a + b /\ i - a - b = i - 1 /\ a \in Int /\ b \in Int
          BY <3>1, <5>2
        <5>6. ~(i <= a) /\ ~(i <= a + b)
          BY <5>2, <5>5
        <5>7. At0(i) = has + (i - a - b) - 1
          <6> HIDE DEF a, b
          <6> QED BY <5>6, Zenon
        <5> QED BY <5>4, <5>5, <5>7
      <4> QED BY <4>1, <4>2
    <3> QED BY <3>1, <3>2, <3>3
  <2>4. CASE ~blank /\ tab
    <3>1. slots = <<TABLE>> \o rest /\ a = 0 /\ b = 1
      BY <1>1, <1>2, <1>3, <2>1, <2>4
    <3>2. /\ Len(slots) = 1 + (will - has) /\ slots \in Seq(Int) /\ slots[1] = TABLE
          /\ \A i \in 2..Len(slots) : slots[i] = rest[i - 1]
      BY <1>1, <1>3, <2>1, <3>1
    <3>3. ASSUME NEW i \in 1..Len(slots) PROVE slots[i] = At0(i)
      <4>1. CASE i = 1
        BY <3>1, <3>2, <4>1
      <4>2. CASE i # 1
        <5>1. Len(slots) \in Nat /\ has \in Int
          BY <1>1, <3>2
        <5>2. i \in Int /\ i > 1 /\ i \in 2..Len(slots)
          BY <4>2, <5>1
        <5>3. i - 1 \in 1..will - has
          BY <1>1, <3>2, <5>2
        <5>4. slots[i] = has + (i - 1) - 1
          BY <1>3, <3>2, <5>2, <5>3
        <5>5. i > a /\ i > a + b /\ i - a - b = i - 1 /\ a \in Int /\ b \in Int
          BY <3>1, <5>2
        <5>6. ~(i <= a) /\ ~(i <= a + b)
          BY <5>2, <5>5
        <5>7. At0(i) = has + (i - a - b) - 1
          <6> HIDE DEF a, b
          <6> QED BY <5>6, Zenon
        <5> QED BY <5>4, <5>5, <5>7
      <4> QED BY <4>1, <4>2
    <3> QED BY <3>1, <3>2, <3>3
  <2>5. CASE ~blank /\ ~tab
    BY <1>1, <1>2, <1>3, <2>1, <2>5
  <2> QED BY <2>2, <2>3, <2>4, <2>5
<1>5. \A i : i \in NewSet(ino, count) <=> /\ i \in Slot
                                         /\ \/ i = 0 /\ blank
                                            \/ i = TABLE /\ tab
                                            \/ i \in has..will - 1
  BY DEF NewSet, has, will
<1>6. a \in 0..1 /\ b \in 0..1 /\ (a = 1 <=> blank) /\ (b = 1 <=> tab)
  OBVIOUS
<1>7. TABLE = -1 /\ Slot = -1..AllBlocks - 1 /\ AllBlocks \in Nat /\ Direct \in Nat /\ 0 < AllBlocks
  BY SlotFacts
<1> HIDE DEF a, b, slots, rest
<1>8. ASSUME NEW i \in 1..Len(slots) PROVE slots[i] \in NewSet(ino, count)
  <2>1. i \in Nat /\ i <= a + b + (will - has) /\ slots[i] = At0(i)
    BY <1>1, <1>4, <1>6
  <2> HIDE DEF blank, tab
  <2>2. CASE i <= a
    BY <1>5, <1>6, <1>7, <2>1, <2>2
  <2>3. CASE ~(i <= a) /\ i <= a + b
    BY <1>5, <1>6, <1>7, <2>1, <2>3
  <2>4. CASE ~(i <= a) /\ ~(i <= a + b)
    <3>1. slots[i] = has + (i - a - b) - 1
      BY <2>1, <2>4
    <3>2. slots[i] \in has..will - 1
      BY <1>1, <1>6, <2>1, <2>4, <3>1
    <3>3. slots[i] \in Slot
      BY <1>1, <1>7, <3>2
    <3> QED BY <1>5, <3>2, <3>3
  <2> QED BY <2>2, <2>3, <2>4
<1>9. ASSUME NEW s \in NewSet(ino, count) PROVE \E i \in 1..Len(slots) : slots[i] = s
  <2> HIDE DEF blank, tab
  <2>1. CASE s = 0 /\ blank
    <3>1. 1 \in 1..Len(slots) /\ a = 1
      BY <1>1, <1>4, <1>6, <2>1
    <3>2. slots[1] = 0
      BY <1>4, <3>1
    <3> QED BY <2>1, <3>1, <3>2
  <2>2. CASE s = TABLE /\ tab
    <3>1. a + 1 \in 1..Len(slots) /\ b = 1 /\ ~(a + 1 <= a) /\ a + 1 <= a + b
      BY <1>1, <1>4, <1>6, <2>2
    <3>2. slots[a + 1] = TABLE
      BY <1>4, <3>1
    <3> QED BY <2>2, <3>1, <3>2
  <2>3. CASE s \in has..will - 1
    <3> DEFINE i == s - has + 1 + a + b
    <3>1. i \in 1..Len(slots) /\ ~(i <= a) /\ ~(i <= a + b) /\ has + (i - a - b) - 1 = s
      BY <1>1, <1>4, <1>6, <2>3
    <3> HIDE DEF i
    <3>2. slots[i] = s
      BY <1>4, <3>1
    <3> QED BY <3>1, <3>2
  <2> QED BY <1>5, <2>1, <2>2, <2>3
<1>10. ASSUME NEW i \in 1..Len(slots), NEW j \in 1..Len(slots), slots[i] = slots[j] PROVE i = j
  <2>1. i \in Nat /\ j \in Nat /\ i >= 1 /\ j >= 1 /\ At0(i) = At0(j)
    BY <1>1, <1>4, <1>6, <1>10
  <2> QED BY <1>1, <1>6, <1>7, <2>1
<1>11. ASSUME Len(slots) # 0 PROVE slots[Len(slots)] # TABLE
  <2>1. Len(slots) \in 1..Len(slots) /\ Len(slots) \in Nat
    BY <1>1, <1>4, <1>6, <1>11
  <2>2. slots[Len(slots)] = At0(Len(slots))
    BY <1>4, <2>1
  <2>3. CASE Len(slots) <= a
    BY <1>7, <2>2, <2>3
  <2>4. CASE ~(Len(slots) <= a)
    <3>1. ~(Len(slots) <= a + b)
      <4>1. CASE b = 1
        <5>1. will - has >= 1
          BY <1>1, <1>6, <1>7, <4>1
        <5> QED BY <1>1, <1>4, <1>6, <5>1
      <4>2. CASE b = 0
        BY <1>6, <2>4, <4>2
      <4> QED BY <1>6, <4>1, <4>2
    <3> QED BY <1>1, <1>4, <1>6, <1>7, <2>1, <2>2, <2>4, <3>1
  <2> QED BY <2>3, <2>4
<1>12. slots \in Seq(Slot) /\ {slots[i] : i \in 1..Len(slots)} = NewSet(ino, count)
  <2>1. NewSet(ino, count) \in SUBSET Slot
    BY <1>5
  <2>2. \A i \in 1..Len(slots) : slots[i] \in Slot
    BY <1>8, <2>1
  <2>3. slots \in Seq(Slot)
    BY <1>4, <2>2
  <2> QED BY <1>8, <1>9, <2>3
<1> QED BY <1>4, <1>10, <1>11, <1>12 DEF slots, a, b, has, will, SlotsSound

\* A write to the disk.
LEMMA ApplyFacts ==
  ASSUME NEW x \in Disk
  PROVE  /\ \A b \in SUBSET Block :
              /\ Apply(x, bitmap_sync(b)) \in Disk /\ Apply(x, bitmap_sync(b)).bitmap = b
              /\ Apply(x, bitmap_sync(b)).inodes = x.inodes /\ Apply(x, bitmap_sync(b)).blocks = x.blocks
         /\ \A f \in File, ino \in Inode :
              /\ Apply(x, inode_sync(f, ino)) \in Disk /\ Apply(x, inode_sync(f, ino)).bitmap = x.bitmap
              /\ Apply(x, inode_sync(f, ino)).inodes = [x.inodes EXCEPT ![f] = ino]
              /\ Apply(x, inode_sync(f, ino)).blocks = x.blocks
         /\ \A at \in 0..NBlock - 1, buf \in [0..BlockSize - 1 -> Nat] :
              /\ Apply(x, ide_write(at, buf)) \in Disk /\ Apply(x, ide_write(at, buf)).bitmap = x.bitmap
              /\ Apply(x, ide_write(at, buf)).inodes = x.inodes
              /\ Apply(x, ide_write(at, buf)).blocks = [x.blocks EXCEPT ![at] = buf]
<1>1. x = [bitmap |-> x.bitmap, inodes |-> x.inodes, blocks |-> x.blocks]
      /\ x.inodes \in [File -> Inode] /\ x.blocks \in [0..NBlock - 1 -> [0..BlockSize - 1 -> Nat]]
      /\ x.bitmap \in SUBSET Block
  BY DEF Disk
<1>2. ASSUME NEW b \in SUBSET Block
      PROVE  Apply(x, bitmap_sync(b)) = [bitmap |-> b, inodes |-> x.inodes, blocks |-> x.blocks]
  BY <1>1 DEF Apply, bitmap_sync
<1>3. ASSUME NEW f \in File, NEW ino \in Inode
      PROVE  Apply(x, inode_sync(f, ino)) = [bitmap |-> x.bitmap, inodes |-> [x.inodes EXCEPT ![f] = ino], blocks |-> x.blocks]
  BY <1>1 DEF Apply, inode_sync
<1>4. ASSUME NEW at \in 0..NBlock - 1, NEW buf \in [0..BlockSize - 1 -> Nat]
      PROVE  Apply(x, ide_write(at, buf)) = [bitmap |-> x.bitmap, inodes |-> x.inodes, blocks |-> [x.blocks EXCEPT ![at] = buf]]
  BY <1>1 DEF Apply, ide_write
<1>5. \A b \in SUBSET Block : [bitmap |-> b, inodes |-> x.inodes, blocks |-> x.blocks] \in Disk
  BY <1>1 DEF Disk
<1>6. \A f \in File, ino \in Inode :
        [bitmap |-> x.bitmap, inodes |-> [x.inodes EXCEPT ![f] = ino], blocks |-> x.blocks] \in Disk
  BY <1>1 DEF Disk
<1>7. \A at \in 0..NBlock - 1, buf \in [0..BlockSize - 1 -> Nat] :
        [bitmap |-> x.bitmap, inodes |-> x.inodes, blocks |-> [x.blocks EXCEPT ![at] = buf]] \in Disk
  BY <1>1 DEF Disk
<1> QED BY <1>2, <1>3, <1>4, <1>5, <1>6, <1>7

\* What is written has its type.
LEMMA WrittenType ==
  ASSUME NEW d, NEW e, NEW f, NEW count, NEW g, Writable(d, e, f, count, g), gen \in [File -> Nat]
  PROVE  /\ NewInode(d, f, count, g) \in Inode /\ Marked(d, g) \in SUBSET Block
         /\ \A i \in Touched(d, f, count) : /\ NewAt(d, f, g, i) \in 0..NBlock - 1
                                           /\ Written(d, f, count, g, i) \in [0..BlockSize - 1 -> Nat]
<1>1. d \in Disk /\ f \in File /\ count \in Nat /\ d.inodes[f].size \in Nat
  BY AtFacts DEF Writable
<1>2. \A i \in Slot : NewAt(d, f, g, i) \in 0..NBlock - 1
  BY GrantedFacts
<1>3. NewInode(d, f, count, g) \in Inode
  <2>1. \A i \in 0..Direct : (IF i = Direct THEN TABLE ELSE i) \in Slot
    BY SlotFacts
  <2>2. \A i \in 0..Direct : NewAt(d, f, g, IF i = Direct THEN TABLE ELSE i) \in 0..NBlock - 1
    BY <1>2, <2>1
  <2>3. d.inodes[f].size + count \in Nat
    BY <1>1
  <2> QED BY <2>2, <2>3 DEF NewInode, Inode
<1>4. Marked(d, g) \in SUBSET Block
  <2>1. \A i \in DOMAIN g : g[i] \in Block
    BY GrantedFacts
  <2> QED BY <1>1, <2>1 DEF Marked, Disk
<1>5. ASSUME NEW i \in Touched(d, f, count) PROVE Written(d, f, count, g, i) \in [0..BlockSize - 1 -> Nat]
  <2>1. i \in Slot
    BY DEF Touched
  <2>2. CASE i = TABLE
    <3>1. \A j \in 0..BlockSize - 1 : Direct + j \in Slot
      BY SlotFacts
    <3>2. \A j \in 0..BlockSize - 1 : NewAt(d, f, g, Direct + j) \in Nat
      BY <1>2, <3>1
    <3> QED BY <2>2, <3>2 DEF Written
  <2>3. CASE i # TABLE
    <3>1. i \in Nat
      BY <2>1, <2>3, SlotFacts
    <3> DEFINE size == d.inodes[f].size
               val(j) == IF i * BlockSize + j \in size..size + count - 1 THEN Byte(f, i * BlockSize + j)
                         ELSE IF i = size \div BlockSize THEN d.blocks[NewAt(d, f, g, i)][j] ELSE 0
    <3>2. Written(d, f, count, g, i) = [j \in 0..BlockSize - 1 |-> val(j)]
      BY <2>3 DEF Written
    <3>3. ASSUME NEW j \in 0..BlockSize - 1 PROVE val(j) \in Nat
      <4>1. i * BlockSize + j \in Nat
        BY <3>1, SlotFacts
      <4>2. Byte(f, i * BlockSize + j) \in Nat
        <5>1. gen[f] \in Nat
          BY <1>1
        <5>2. gen[f] * 2 * BlockSize * AllBlocks \in Nat
          BY <5>1, SlotFacts
        <5> QED BY <4>1, <5>2 DEF Byte
      <4>3. d.blocks[NewAt(d, f, g, i)][j] \in Nat
        BY <1>1, <1>2, <2>1 DEF Disk
      <4> QED BY <4>2, <4>3
    <3> HIDE DEF val
    <3> QED BY <3>2, <3>3
  <2> QED BY <2>2, <2>3
<1> QED
  <2>1. \A i \in Touched(d, f, count) : i \in Slot
    BY DEF Touched
  <2> QED BY <1>2, <1>3, <1>4, <1>5, <2>1

\* Each write leads from one stage to the next.
LEMMA StageStep ==
  ASSUME NEW d, NEW e, NEW f, NEW count, NEW g, Writable(d, e, f, count, g), gen \in [File -> Nat],
         NEW u, NEW T, NEW w, Ordered(d, f, count, g, u, T, w),
         NEW n \in 1..Len(w), NEW x, Stage(d, f, count, g, u, T, n - 1, x)
  PROVE  Stage(d, f, count, g, u, T, n, Apply(x, w[n]))
<1> DEFINE Later(i) == NewAt(d, f, g, T[i])
           Buf(i) == Written(d, f, count, g, T[i])
           y == Apply(x, w[n])
           L == Len(T)
<1>1. /\ u \in Nat /\ L \in Nat /\ n \in 1..u + L + 1
      /\ \A i \in 1..L : T[i] \in Touched(d, f, count) /\ T[i] \in Slot
      /\ \A i, j \in 1..L : T[i] = T[j] => i = j
  BY DEF Ordered
<1>2. /\ x \in Disk /\ d.bitmap \subseteq x.bitmap /\ (n - 1 >= u => x.bitmap = Marked(d, g))
      /\ x.inodes = d.inodes
      /\ \A i \in 1..L : u + i <= n - 1 => x.blocks[Later(i)] = Buf(i)
      /\ \A b \in 0..NBlock - 1 :
           (\A i \in 1..L : u + i <= n - 1 => b # Later(i)) => x.blocks[b] = d.blocks[b]
  <2>1. n - 1 # u + L + 1
    BY <1>1
  <2> QED BY <2>1 DEF Stage
<1>3. /\ NewInode(d, f, count, g) \in Inode /\ Marked(d, g) \in SUBSET Block
      /\ \A i \in 1..L : Later(i) \in 0..NBlock - 1 /\ Buf(i) \in [0..BlockSize - 1 -> Nat]
  BY <1>1, WrittenType
<1>4. \A i, j \in 1..L : Later(i) = Later(j) => i = j
  <2>1. \A i \in 1..L : Later(i) # 0
    <3>1. \A s \in Touched(d, f, count) : NewAt(d, f, g, s) # 0
      BY GrantedFacts
    <3> QED BY <1>1, <3>1
  <2>2. \A s, t \in Slot : NewAt(d, f, g, s) = NewAt(d, f, g, t) /\ NewAt(d, f, g, s) # 0 => s = t
    BY GrantedFacts
  <2> QED BY <1>1, <2>1, <2>2
<1>5. f \in File
  BY DEF Writable
<1> SUFFICES /\ y \in Disk
             /\ y.inodes = IF n = u + L + 1 THEN [d.inodes EXCEPT ![f] = NewInode(d, f, count, g)] ELSE d.inodes
             /\ d.bitmap \subseteq y.bitmap /\ (n >= u => y.bitmap = Marked(d, g))
             /\ \A i \in 1..L : u + i <= n => y.blocks[Later(i)] = Buf(i)
             /\ \A b \in 0..NBlock - 1 :
                  (\A i \in 1..L : u + i <= n => b # Later(i)) => y.blocks[b] = d.blocks[b]
  BY DEF Stage
<1>6. CASE n <= u
  <2>1. PICK b \in SUBSET Block :
          d.bitmap \subseteq b /\ (n = u => b = Marked(d, g)) /\ w[n] = bitmap_sync(b)
    BY <1>1, <1>6 DEF Ordered
  <2>2. y \in Disk /\ y.bitmap = b /\ y.inodes = x.inodes /\ y.blocks = x.blocks
    BY <1>2, <2>1, ApplyFacts
  <2> HIDE DEF y, Later, Buf, L
  <2>3. /\ n # u + L + 1 /\ (n >= u => n = u)
        /\ \A i \in 1..L : ~(u + i <= n) /\ ~(u + i <= n - 1)
    BY <1>1, <1>6
  <2> QED BY <1>2, <2>1, <2>2, <2>3
<1>7. CASE n > u /\ n <= u + L
  <2> DEFINE k == n - u
  <2>1. k \in 1..L /\ n = u + k
    BY <1>1, <1>7
  <2>2. w[n] = ide_write(Later(k), Buf(k))
    BY <2>1 DEF Ordered
  <2> HIDE DEF k, Later, Buf, L
  <2>3. y \in Disk /\ y.bitmap = x.bitmap /\ y.inodes = x.inodes /\ y.blocks = [x.blocks EXCEPT ![Later(k)] = Buf(k)]
    BY <1>2, <1>3, <2>1, <2>2, ApplyFacts
  <2> HIDE DEF y
  <2>4. /\ n # u + L + 1 /\ n - 1 >= u
        /\ \A i \in 1..L : u + i <= n <=> u + i <= n - 1 \/ i = k
    BY <1>1, <1>7, <2>1
  <2>5. DOMAIN x.blocks = 0..NBlock - 1
    BY <1>2 DEF Disk
  <2>6. ASSUME NEW i \in 1..L, u + i <= n PROVE y.blocks[Later(i)] = Buf(i)
    <3>1. CASE i = k
      BY <1>3, <2>1, <2>3, <2>5, <3>1
    <3>2. CASE i # k
      <4>1. u + i <= n - 1 /\ Later(i) # Later(k) /\ Later(i) \in 0..NBlock - 1
        BY <1>3, <1>4, <2>1, <2>4, <2>6, <3>2
      <4> QED BY <1>2, <2>3, <2>5, <4>1
    <3> QED BY <3>1, <3>2
  <2>7. ASSUME NEW b \in 0..NBlock - 1, \A i \in 1..L : u + i <= n => b # Later(i)
        PROVE  y.blocks[b] = d.blocks[b]
    <3>1. b # Later(k) /\ \A i \in 1..L : u + i <= n - 1 => b # Later(i)
      BY <2>1, <2>4, <2>7
    <3> QED BY <1>2, <2>3, <2>5, <3>1
  <2> QED BY <1>2, <2>3, <2>4, <2>6, <2>7
<1>8. CASE n = u + L + 1
  <2>1. w[n] = inode_sync(f, NewInode(d, f, count, g))
    BY <1>8 DEF Ordered
  <2>2. /\ y \in Disk /\ y.bitmap = x.bitmap /\ y.blocks = x.blocks
        /\ y.inodes = [d.inodes EXCEPT ![f] = NewInode(d, f, count, g)]
    BY <1>2, <1>3, <1>5, <2>1, ApplyFacts
  <2> HIDE DEF y, Later, Buf, L
  <2>3. n - 1 >= u /\ \A i \in 1..L : u + i <= n /\ u + i <= n - 1
    BY <1>1, <1>8
  <2>4. \A i \in 1..L : u + i <= n => y.blocks[Later(i)] = Buf(i)
    BY <1>2, <2>2, <2>3
  <2>5. ASSUME NEW b \in 0..NBlock - 1, \A i \in 1..L : u + i <= n => b # Later(i)
        PROVE  y.blocks[b] = d.blocks[b]
    BY <1>2, <2>2, <2>3, <2>5
  <2>6. d.bitmap \subseteq y.bitmap /\ y.bitmap = Marked(d, g)
    BY <1>2, <2>2, <2>3
  <2> QED BY <1>8, <2>2, <2>4, <2>5, <2>6
<1>9. n <= u \/ (n > u /\ n <= u + L) \/ n = u + L + 1
  <2> HIDE DEF L
  <2> QED BY <1>1
<1> QED BY <1>6, <1>7, <1>8, <1>9

\* So what the whole of them leaves, and what a part.
LEMMA OrderedSound ==
  ASSUME NEW d, NEW e, NEW f, NEW count, NEW g, Writable(d, e, f, count, g), gen \in [File -> Nat],
         NEW u, NEW T, NEW w, w \in Seq({w[i] : i \in 1..Len(w)}), Ordered(d, f, count, g, u, T, w)
  PROVE  /\ Done(d, f, count, g, After(d, w))
         /\ \A n \in 1..Len(w) - 1 : Cut(d, f, count, g, After(d, SubSeq(w, 1, n)))
<1> DEFINE L == Len(w)
           S == [n \in 0..L |-> {x \in Disk : Stage(d, f, count, g, u, T, n, x)}]
<1>1. u \in Nat /\ Len(T) \in Nat /\ L = u + Len(T) + 1
  BY DEF Ordered
<1>2. d \in S[0]
  <2>1. d \in Disk
    BY DEF Writable
  <2>2. Stage(d, f, count, g, u, T, 0, d)
    <3>1. 0 # u + Len(T) + 1 /\ (0 >= u => u = 0) /\ \A i \in 1..Len(T) : ~(u + i <= 0)
      BY <1>1
    <3>2. u = 0 => Marked(d, g) = d.bitmap
      BY DEF Ordered
    <3> QED BY <2>1, <3>1, <3>2 DEF Stage
  <2>3. 0 \in 0..L
    BY <1>1
  <2> QED BY <2>1, <2>2, <2>3
<1>3. ASSUME NEW n \in 1..L, NEW x \in S[n - 1] PROVE Apply(x, w[n]) \in S[n]
  <2>1. n - 1 \in 0..L /\ n \in 0..L
    BY <1>1
  <2>2. Stage(d, f, count, g, u, T, n - 1, x)
    BY <2>1
  <2>3. Stage(d, f, count, g, u, T, n, Apply(x, w[n]))
    BY <2>2, StageStep
  <2>4. Apply(x, w[n]) \in Disk
    BY <2>3 DEF Stage
  <2> QED BY <2>1, <2>3, <2>4
<1>4. \A n \in 0..L : \A x \in S[n] : Stage(d, f, count, g, u, T, n, x)
  OBVIOUS
<1> HIDE DEF S
<1>5. After(d, w) \in S[Len(w)]
  <2>1. Len(w) \in Nat
    BY <1>1
  <2>2. \A n \in 1..Len(w) : \A x \in S[n - 1] : Apply(x, w[n]) \in S[n]
    BY <1>3
  <2> QED BY <1>2, <2>1, <2>2, AfterIn
<1>6. Done(d, f, count, g, After(d, w))
  <2> DEFINE x == After(d, w)
  <2>1. Stage(d, f, count, g, u, T, L, x) /\ L \in 0..L
    BY <1>1, <1>4, <1>5
  <2> HIDE DEF x, L
  <2>2. L = u + Len(T) + 1 /\ L >= u /\ \A i \in 1..Len(T) : u + i <= L
    BY <1>1
  <2>3. {T[i] : i \in 1..Len(T)} = Touched(d, f, count)
    BY DEF Ordered
  <2>4. /\ x \in Disk /\ x.inodes = [d.inodes EXCEPT ![f] = NewInode(d, f, count, g)] /\ x.bitmap = Marked(d, g)
        /\ \A i \in 1..Len(T) : x.blocks[NewAt(d, f, g, T[i])] = Written(d, f, count, g, T[i])
        /\ \A b \in 0..NBlock - 1 : (\A i \in 1..Len(T) : b # NewAt(d, f, g, T[i])) => x.blocks[b] = d.blocks[b]
    BY <2>1, <2>2 DEF Stage
  <2>5. \A i \in Touched(d, f, count) : x.blocks[NewAt(d, f, g, i)] = Written(d, f, count, g, i)
    BY <2>3, <2>4
  <2>6. ASSUME NEW b \in 0..NBlock - 1, \A i \in Touched(d, f, count) : b # NewAt(d, f, g, i)
        PROVE  x.blocks[b] = d.blocks[b]
    BY <2>3, <2>4, <2>6
  <2> QED BY <2>4, <2>5, <2>6 DEF Done, x
<1>7. ASSUME NEW n \in 1..L - 1 PROVE Cut(d, f, count, g, After(d, SubSeq(w, 1, n)))
  <2> DEFINE v == SubSeq(w, 1, n)
             x == After(d, v)
  <2>1. n \in Nat /\ n \in 1..L /\ n \in 0..L
    BY <1>1
  <2>2. Len(v) = n /\ \A i \in 1..n : v[i] = w[i] /\ i \in 1..L
    BY <1>1, <2>1
  <2> HIDE DEF v, L
  <2>3. \A i \in 1..Len(v) : \A z \in S[i - 1] : Apply(z, v[i]) \in S[i]
    BY <1>3, <2>2
  <2>4. x \in S[n]
    BY <1>2, <2>1, <2>2, <2>3, AfterIn
  <2>5. Stage(d, f, count, g, u, T, n, x)
    BY <1>4, <2>1, <2>4
  <2> HIDE DEF x
  <2>6. n # u + Len(T) + 1 /\ (~(n >= u) => \A i \in 1..Len(T) : ~(u + i <= n))
    BY <1>1 DEF L
  <2>7. x \in Disk /\ x.inodes = d.inodes /\ d.bitmap \subseteq x.bitmap
    BY <2>5, <2>6 DEF Stage
  <2>8. ASSUME NEW b \in 0..NBlock - 1
        PROVE  \/ x.blocks[b] = d.blocks[b]
               \/ /\ x.bitmap = Marked(d, g)
                  /\ \E i \in Touched(d, f, count) :
                       b = NewAt(d, f, g, i) /\ x.blocks[b] = Written(d, f, count, g, i)
    <3>1. CASE \A i \in 1..Len(T) : u + i <= n => b # NewAt(d, f, g, T[i])
      BY <2>5, <3>1 DEF Stage
    <3>2. CASE \E i \in 1..Len(T) : u + i <= n /\ b = NewAt(d, f, g, T[i])
      <4>1. PICK i \in 1..Len(T) : u + i <= n /\ b = NewAt(d, f, g, T[i])
        BY <3>2
      <4>2. T[i] \in Touched(d, f, count)
        BY DEF Ordered
      <4>3. x.bitmap = Marked(d, g) /\ x.blocks[b] = Written(d, f, count, g, T[i])
        BY <2>5, <2>6, <4>1 DEF Stage
      <4> QED BY <4>1, <4>2, <4>3
    <3> QED BY <3>1, <3>2
  <2> QED BY <2>7, <2>8 DEF Cut, x, v
<1> QED BY <1>6, <1>7

\* Writes of the bitmap alone.
LEMMA BitmapWrites ==
  ASSUME NEW d \in Disk, NEW w, Len(w) \in Nat, NEW kept, kept \subseteq d.bitmap,
         \A n \in 1..Len(w) : \E b \in SUBSET Block : kept \subseteq b /\ w[n] = bitmap_sync(b)
  PROVE  LET x == After(d, w) IN
         x \in Disk /\ x.inodes = d.inodes /\ x.blocks = d.blocks /\ kept \subseteq x.bitmap
<1> DEFINE X == {x \in Disk : x.inodes = d.inodes /\ x.blocks = d.blocks /\ kept \subseteq x.bitmap}
           S == [n \in 0..Len(w) |-> X]
<1>1. d \in S[0]
  OBVIOUS
<1>2. ASSUME NEW n \in 1..Len(w), NEW x \in S[n - 1] PROVE Apply(x, w[n]) \in S[n]
  <2>1. n - 1 \in 0..Len(w) /\ n \in 0..Len(w)
    OBVIOUS
  <2>2. x \in X
    BY <2>1
  <2>3. PICK b \in SUBSET Block : kept \subseteq b /\ w[n] = bitmap_sync(b)
    OBVIOUS
  <2>4. Apply(x, w[n]) \in X
    BY <2>2, <2>3, ApplyFacts
  <2> QED BY <2>1, <2>4
<1>3. \A x \in S[Len(w)] : x \in X
  OBVIOUS
<1> HIDE DEF S
<1>4. \A n \in 1..Len(w) : \A x \in S[n - 1] : Apply(x, w[n]) \in S[n]
  BY <1>2
<1>5. After(d, w) \in S[Len(w)]
  BY <1>1, <1>4, AfterIn
<1> QED BY <1>3, <1>5

\* Files whose inodes and blocks are as they were.
LEMMA SameFiles ==
  ASSUME NEW d \in Disk, NEW e \in SUBSET File, BlocksOnce(d, e),
         NEW x \in Disk, x.blocks = d.blocks, NEW k \in SUBSET e, \A h \in k : x.inodes[h] = d.inodes[h],
         \A h \in k : \A i \in Slot : AtSlot(d, h, i) # 0 => AtSlot(d, h, i) \in x.bitmap
  PROVE  /\ BlocksOnce(x, k)
         /\ \A h \in k : \A i \in Slot : AtSlot(x, h, i) = AtSlot(d, h, i)
         /\ \A h \in k : \A n : Holds(d, h, n) => Holds(x, h, n)
<1>1. \A h \in k : \A i : AtSlot(x, h, i) = AtSlot(d, h, i)
  BY DEF AtSlot, Address, HasTable, Table
<1>2. \A h \in k : Shaped(x, h)
  BY <1>1 DEF BlocksOnce, Shaped, Blank
<1>3. BlocksOnce(x, k)
  BY <1>1, <1>2 DEF BlocksOnce
<1>4. \A h \in k : \A n : Holds(d, h, n) => Holds(x, h, n)
  BY <1>1 DEF Holds
<1> QED BY <1>1, <1>3, <1>4

\* A concatenation of four sequences, the last of them one long.
Parts(w, a, b, c, z) ==
  /\ w \in Seq({w[i] : i \in 1..Len(w)}) /\ Len(w) = Len(a) + Len(b) + Len(c) + 1
  /\ \A i \in 1..Len(a) : w[i] = a[i]
  /\ \A i \in 1..Len(b) : w[Len(a) + i] = b[i]
  /\ \A i \in 1..Len(c) : w[Len(a) + Len(b) + i] = c[i]
  /\ w[Len(a) + Len(b) + Len(c) + 1] = z

\* \o puts the four parts at these places.
LEMMA FourParts ==
  ASSUME NEW K, NEW a \in Seq(K), NEW b \in Seq(K), NEW c \in Seq(K), NEW z \in K,
         NEW w, w = a \o b \o c \o <<z>>
  PROVE  Parts(w, a, b, c, z)
<1> DEFINE ab == a \o b
           abc == ab \o c
<1>1. /\ ab \in Seq(K) /\ Len(ab) = Len(a) + Len(b)
      /\ \A i \in 1..Len(a) : ab[i] = a[i]
      /\ \A i \in 1..Len(b) : ab[Len(a) + i] = b[i]
  OBVIOUS
<1> HIDE DEF ab
<1>2. /\ abc \in Seq(K) /\ Len(abc) = Len(ab) + Len(c)
      /\ \A i \in 1..Len(ab) : abc[i] = ab[i]
      /\ \A i \in 1..Len(c) : abc[Len(ab) + i] = c[i]
  <2>1. PICK u \in Seq(K) : u = ab
    BY <1>1
  <2>2. /\ u \o c \in Seq(K) /\ Len(u \o c) = Len(u) + Len(c)
        /\ \A i \in 1..Len(u) : (u \o c)[i] = u[i]
        /\ \A i \in 1..Len(c) : (u \o c)[Len(u) + i] = c[i]
    OBVIOUS
  <2> QED BY <2>1, <2>2
<1> HIDE DEF abc
<1>3. /\ w \in Seq(K) /\ Len(w) = Len(abc) + 1
      /\ \A i \in 1..Len(abc) : w[i] = abc[i]
      /\ w[Len(abc) + 1] = z
  <2>1. PICK u \in Seq(K) : u = abc
    BY <1>2
  <2>2. /\ u \o <<z>> \in Seq(K) /\ Len(u \o <<z>>) = Len(u) + 1
        /\ \A i \in 1..Len(u) : (u \o <<z>>)[i] = u[i]
        /\ (u \o <<z>>)[Len(u) + 1] = z
    OBVIOUS
  <2> QED BY <2>1, <2>2 DEF abc, ab
<1>4. Len(a) \in Nat /\ Len(b) \in Nat /\ Len(c) \in Nat
  OBVIOUS
<1>5. w \in Seq({w[i] : i \in 1..Len(w)})
  <2> DEFINE R == {w[i] : i \in 1..Len(w)}
  <2>1. \A i \in 1..Len(w) : w[i] \in R
    OBVIOUS
  <2>2. w = [i \in 1..Len(w) |-> w[i]] /\ Len(w) \in Nat
    BY <1>3
  <2> HIDE DEF R
  <2>3. [i \in 1..Len(w) |-> w[i]] \in Seq(R)
    BY <2>1, <2>2
  <2>4. w \in Seq(R)
    BY <2>2, <2>3
  <2> QED BY <2>4 DEF R
<1>6. \A i \in 1..Len(a) : w[i] = a[i]
  BY <1>1, <1>2, <1>3, <1>4
<1>7. ASSUME NEW i \in 1..Len(b) PROVE w[Len(a) + i] = b[i]
  <2>1. Len(a) + i \in 1..Len(ab) /\ Len(a) + i \in 1..Len(abc)
    BY <1>1, <1>2, <1>4
  <2> QED BY <1>1, <1>2, <1>3, <2>1
<1>8. ASSUME NEW i \in 1..Len(c) PROVE w[Len(a) + Len(b) + i] = c[i]
  <2>1. Len(ab) + i \in 1..Len(abc) /\ Len(a) + Len(b) + i = Len(ab) + i
    BY <1>1, <1>2, <1>4
  <2> QED BY <1>2, <1>3, <2>1
<1>9. Len(w) = Len(a) + Len(b) + Len(c) + 1 /\ w[Len(a) + Len(b) + Len(c) + 1] = z
  BY <1>1, <1>2, <1>3, <1>4
<1> QED BY <1>5, <1>6, <1>7, <1>8, <1>9 DEF Parts

\* The slots of the blocks that are written, in order.
LEMMA TouchedSeq ==
  ASSUME NEW d, NEW e, NEW f, NEW count, NEW g, Writable(d, e, f, count, g)
  PROVE  LET size == d.inodes[f].size
             first == size \div BlockSize
             blocks == Spans(size, count)
             T == InOrder(d, f, count)
         IN  /\ T \in Seq(Slot) /\ {T[i] : i \in 1..Len(T)} = Touched(d, f, count)
             /\ \A i, j \in 1..Len(T) : T[i] = T[j] => i = j
             /\ blocks \in Nat /\ first \in Nat
             /\ \A b \in 1..blocks : first + b - 1 \in Touched(d, f, count) /\ first + b - 1 # TABLE
             /\ Len(T) = (IF TABLE \in Touched(d, f, count) THEN 1 ELSE 0) + blocks
             /\ TABLE \in Touched(d, f, count) => T[1] = TABLE
             /\ \A b \in 1..blocks : T[(IF TABLE \in Touched(d, f, count) THEN 1 ELSE 0) + b] = first + b - 1
<1> DEFINE size == d.inodes[f].size
           first == size \div BlockSize
           last == (size + count - 1) \div BlockSize
           blocks == Spans(size, count)
           tab == TABLE \in Touched(d, f, count)
           a == IF tab THEN 1 ELSE 0
           rest == [b \in 1..blocks |-> first + b - 1]
           T == InOrder(d, f, count)
<1>1. /\ size \in Nat /\ count \in Nat /\ first \in Nat
      /\ count # 0 => last \in Nat /\ first <= last /\ last < AllBlocks
  <2>1. size \in Nat /\ count \in Nat /\ UsedBlocks(size + count) <= AllBlocks
    BY GrantedFacts DEF Writable
  <2>2. first \in Nat
    BY <2>1, UsedBlocksFacts
  <2>3. ASSUME count # 0 PROVE last \in Nat /\ first <= last /\ last < AllBlocks
    <3>1. size + count - 1 \in Nat /\ size <= size + count - 1 /\ size + count - 1 <= size + count /\ size + count \in Nat
      BY <2>1, <2>3
    <3>2. first <= last /\ last \in Nat
      BY <2>1, <3>1, SlotFacts, DivMonotonic
    <3>3. last <= (size + count) \div BlockSize /\ (size + count) \div BlockSize \in Nat
      BY <3>1, SlotFacts, DivMonotonic
    <3>4. UsedBlocks(size + count) = (size + count) \div BlockSize + 1
      BY <3>1, UsedBlocksFacts
    <3> QED BY <2>1, <3>2, <3>3, <3>4, SlotFacts
  <2> QED BY <2>1, <2>2, <2>3
<1>2. /\ \A i \in Touched(d, f, count) : i \in Slot /\ (i # TABLE => count # 0 /\ i \in first..last)
      /\ \A i \in Slot : count # 0 /\ i \in first..last => i \in Touched(d, f, count)
  BY DEF Touched
<1> HIDE DEF first, last, size, tab
<1>3. TABLE = -1 /\ Slot = -1..AllBlocks - 1 /\ AllBlocks \in Nat
  BY SlotFacts
<1>4. blocks \in Nat /\ (count # 0 => blocks = last - first + 1) /\ (count = 0 => blocks = 0)
  BY <1>1 DEF Spans, first, last
<1>5. \A b \in 1..blocks : first + b - 1 \in Touched(d, f, count) /\ first + b - 1 # TABLE
  BY <1>1, <1>2, <1>3, <1>4
<1>6. \A i \in Touched(d, f, count) : i = TABLE \/ \E b \in 1..blocks : i = first + b - 1
  <2> SUFFICES ASSUME NEW i \in Touched(d, f, count), i # TABLE PROVE i - first + 1 \in 1..blocks /\ i = first + (i - first + 1) - 1
    OBVIOUS
  <2> QED BY <1>1, <1>2, <1>4
<1> HIDE DEF blocks
<1>7. rest \in Seq(Int) /\ Len(rest) = blocks /\ \A b \in 1..blocks : rest[b] = first + b - 1
  BY <1>1, <1>4
<1> HIDE DEF rest
<1>8. a \in 0..1 /\ (a = 1 <=> tab)
  OBVIOUS
<1>9. /\ T \in Seq(Int) /\ Len(T) = a + blocks /\ (tab => T[1] = TABLE)
      /\ \A b \in 1..blocks : T[a + b] = first + b - 1
  <2>1. T = (IF tab THEN <<TABLE>> ELSE <<>>) \o rest
    BY DEF InOrder, rest, first, size, blocks, tab
  <2> HIDE DEF T
  <2> QED BY <1>3, <1>4, <1>7, <2>1
<1> HIDE DEF T, a
<1>10. ASSUME NEW i \in 1..Len(T) PROVE (i = 1 /\ tab /\ a = 1) \/ \E b \in 1..blocks : i = a + b
  <2>1. (i = 1 /\ tab /\ a = 1) \/ (i - a \in 1..blocks /\ i = a + (i - a))
    BY <1>4, <1>8, <1>9
  <2> QED BY <2>1
<1>11. \A i \in 1..Len(T) : T[i] \in Touched(d, f, count)
  BY <1>5, <1>9, <1>10 DEF tab
<1>12. {T[i] : i \in 1..Len(T)} = Touched(d, f, count)
  <2>1. ASSUME NEW s \in Touched(d, f, count) PROVE \E i \in 1..Len(T) : T[i] = s
    <3>1. CASE s = TABLE
      <4>1. tab /\ 1 \in 1..Len(T)
        BY <1>4, <1>8, <1>9, <3>1 DEF tab
      <4> QED BY <1>9, <3>1, <4>1
    <3>2. CASE s # TABLE
      <4>1. PICK b \in 1..blocks : s = first + b - 1
        BY <1>6, <3>2
      <4>2. a + b \in 1..Len(T)
        BY <1>4, <1>8, <1>9
      <4> QED BY <1>9, <4>1, <4>2
    <3> QED BY <3>1, <3>2
  <2> QED BY <1>11, <2>1
<1>13. ASSUME NEW i \in 1..Len(T), NEW j \in 1..Len(T), T[i] = T[j] PROVE i = j
  <2>1. ASSUME NEW b \in 1..blocks PROVE T[a + b] = first + b - 1 /\ T[a + b] # TABLE
    BY <1>5, <1>9
  <2>2. T[1] = TABLE \/ a # 1
    BY <1>8, <1>9
  <2>3. \/ i = 1 /\ j = 1
        \/ i = 1 /\ a = 1 /\ \E b \in 1..blocks : j = a + b
        \/ j = 1 /\ a = 1 /\ \E b \in 1..blocks : i = a + b
        \/ (\E b \in 1..blocks : i = a + b) /\ (\E b \in 1..blocks : j = a + b)
    BY <1>10
  <2>4. CASE (\E b \in 1..blocks : i = a + b) /\ (\E b \in 1..blocks : j = a + b)
    <3>1. PICK b \in 1..blocks, c \in 1..blocks : i = a + b /\ j = a + c
      BY <2>4
    <3>2. first + b - 1 = first + c - 1
      BY <1>13, <2>1, <3>1
    <3> QED BY <1>1, <3>1, <3>2
  <2>5. CASE i = 1 /\ a = 1 /\ \E b \in 1..blocks : j = a + b
    BY <1>13, <2>1, <2>2, <2>5
  <2>6. CASE j = 1 /\ a = 1 /\ \E b \in 1..blocks : i = a + b
    BY <1>13, <2>1, <2>2, <2>6
  <2> QED BY <2>3, <2>4, <2>5, <2>6
<1>14. T \in Seq(Slot)
  <2>1. \A i \in 1..Len(T) : T[i] \in Slot
    BY <1>2, <1>11
  <2> QED BY <1>9, <2>1
<1> QED BY <1>1, <1>4, <1>5, <1>9, <1>12, <1>13, <1>14 DEF T, a, rest, blocks, tab, first, last, size

\* The ASSERTs on the addresses hold.
LEMMA FitFacts ==
  ASSUME NEW d \in Disk, NEW f \in File, Shaped(d, f), NEW count \in Nat
  PROVE  /\ AddressesFit(d.inodes[f], count)
         /\ UsedBlocks(d.inodes[f].size) > Direct => AtSlot(d, f, TABLE) # 0
         /\ ~(UsedBlocks(d.inodes[f].size) > Direct) => AtSlot(d, f, TABLE) = 0
<1> DEFINE ino == d.inodes[f]
           has == UsedBlocks(ino.size)
           will == UsedBlocks(ino.size + count)
<1>1. /\ ino.size \in Nat /\ AtSlot(d, f, TABLE) = ino.sectors[Direct]
      /\ \A i \in 0..Direct - 1 : AtSlot(d, f, i) = ino.sectors[i]
  BY AtFacts
<1>2. has \in Nat \ {0} /\ will \in Nat \ {0}
  <2>1. ino.size + count \in Nat
    BY <1>1
  <2> QED BY <1>1, <2>1, UsedBlocksFacts
<1>3. Blank(d, f) => has = 1
  <2> SUFFICES ASSUME Blank(d, f) PROVE has = 1
    OBVIOUS
  <2>1. ino.size = 0 /\ BlockSize * 0 + 0 = 0 /\ 0 \in 0..BlockSize - 1
    BY SlotFacts DEF Blank
  <2>2. 0 \div BlockSize = 0
    BY <2>1, SlotFacts, DivUnique
  <2> QED BY <2>1, <2>2 DEF UsedBlocks
<1>4. \/ Blank(d, f)
      \/ \A i \in Slot : /\ i \in Needs(ino.size) => AtSlot(d, f, i) # 0
                         /\ i \notin Needs(ino.size) /\ i < Direct => AtSlot(d, f, i) = 0
  BY DEF Shaped
<1>5. \A i : i \in Needs(ino.size) <=> i \in Slot /\ IF i = TABLE THEN has > Direct ELSE i < has
  BY DEF Needs
<1>6. \A i \in Slot : Blank(d, f) => AtSlot(d, f, i) = 0
  BY DEF Blank
<1> HIDE DEF has, will
<1>7. TABLE \in Slot /\ TABLE < Direct /\ 1 <= Direct /\ Direct \in Nat
      /\ \A i \in 0..Direct - 1 : i \in Slot /\ i # TABLE /\ i < Direct /\ i \in Int
  BY SlotFacts
<1>8. has > Direct => AtSlot(d, f, TABLE) # 0
  BY <1>2, <1>3, <1>4, <1>5, <1>7
<1>9. ~(has > Direct) => AtSlot(d, f, TABLE) = 0
  BY <1>4, <1>5, <1>6, <1>7
<1>10. ~(has > Direct) => \A i \in has..will - 1 : i < Direct => ino.sectors[i] = 0
  <2> SUFFICES ASSUME NEW i \in has..will - 1, i < Direct PROVE ino.sectors[i] = 0
    OBVIOUS
  <2>1. i \in 0..Direct - 1 /\ ~(i < has)
    BY <1>2, <1>7
  <2>2. AtSlot(d, f, i) = 0
    BY <1>4, <1>5, <1>6, <1>7, <2>1
  <2> QED BY <1>1, <2>1, <2>2
<1>11. ~(has > Direct) => (has > 1 /\ has < will /\ will <= Direct => ino.sectors[has - 1] # 0)
  <2> SUFFICES ASSUME ~(has > Direct), has > 1 PROVE ino.sectors[has - 1] # 0
    OBVIOUS
  <2>1. has - 1 \in 0..Direct - 1 /\ has - 1 < has
    BY <1>2, <1>7
  <2>2. AtSlot(d, f, has - 1) # 0
    BY <1>3, <1>4, <1>5, <1>7, <2>1
  <2> QED BY <1>1, <2>1, <2>2
<1>12. AddressesFit(ino, count)
  BY <1>1, <1>8, <1>9, <1>10, <1>11 DEF AddressesFit, HasTable, has, will
<1> QED BY <1>8, <1>9, <1>12 DEF has

\* The write of the table, if there is one.
LEMMA TableFacts ==
  ASSUME NEW d, NEW e, NEW f, NEW count, NEW g, Writable(d, e, f, count, g)
  PROVE  TableWrite(d, d.inodes[f], NewInode(d, f, count, g), g, count) =
           IF TABLE \in Touched(d, f, count)
           THEN <<ide_write(NewAt(d, f, g, TABLE), Written(d, f, count, g, TABLE))>> ELSE <<>>
<1> DEFINE ino == d.inodes[f]
           has == UsedBlocks(ino.size)
           will == UsedBlocks(ino.size + count)
           old == IF has > Direct THEN Table(d, ino) ELSE Unwritten
           buf == [j \in 0..BlockSize - 1 |-> IF Direct + j \in DOMAIN g THEN g[Direct + j] ELSE old[j]]
<1>1. d \in Disk /\ f \in File /\ Shaped(d, f) /\ count \in Nat
  BY DEF Writable, BlocksOnce
<1>2. TABLE \in Touched(d, f, count) <=> will > Direct /\ will > has
  BY SetFacts
<1>3. NewInode(d, f, count, g).sectors[Direct] = NewAt(d, f, g, TABLE)
  <2>1. Direct \in 0..Direct
    BY SlotFacts
  <2> QED BY <2>1 DEF NewInode
<1>4. TableWrite(d, ino, NewInode(d, f, count, g), g, count) =
        IF will > Direct /\ will > has THEN <<ide_write(NewAt(d, f, g, TABLE), buf)>> ELSE <<>>
  BY <1>3 DEF TableWrite
<1>5. \A j \in 0..BlockSize - 1 : old[j] = AtSlot(d, f, Direct + j)
  <2> SUFFICES ASSUME NEW j \in 0..BlockSize - 1 PROVE old[j] = AtSlot(d, f, Direct + j)
    OBVIOUS
  <2>1. Direct + j \in Direct..AllBlocks - 1 /\ (Direct + j) - Direct = j
    BY SlotFacts
  <2>2. AtSlot(d, f, Direct + j) = IF AtSlot(d, f, TABLE) # 0 THEN d.blocks[AtSlot(d, f, TABLE)][j] ELSE 0
    BY <1>1, <2>1, AtFacts
  <2>3. Table(d, ino) = d.blocks[AtSlot(d, f, TABLE)]
    BY <1>1, AtFacts DEF Table
  <2>4. Unwritten[j] = 0
    BY DEF Unwritten
  <2> HIDE DEF has
  <2>5. (has > Direct => AtSlot(d, f, TABLE) # 0) /\ (~(has > Direct) => AtSlot(d, f, TABLE) = 0)
    BY <1>1, FitFacts DEF has
  <2> QED BY <2>2, <2>3, <2>4, <2>5
<1>6. buf = Written(d, f, count, g, TABLE)
  BY <1>5 DEF Written, NewAt
<1> HIDE DEF buf, has, will
<1> QED BY <1>2, <1>4, <1>6

\* The writes of the data.
LEMMA DataFacts ==
  ASSUME NEW d, NEW e, NEW f, NEW count, NEW g, Writable(d, e, f, count, g)
  PROVE  LET size == d.inodes[f].size
             first == size \div BlockSize
             blocks == Spans(size, count)
         IN  DataWrites(d, f, d.inodes[f], WriteMap(d, d.inodes[f], NewInode(d, f, count, g), g), count) =
               [b \in 1..blocks |-> ide_write(NewAt(d, f, g, first + b - 1), Written(d, f, count, g, first + b - 1))]
<1> DEFINE ino == d.inodes[f]
           size == ino.size
           first == size \div BlockSize
           blocks == Spans(size, count)
           all == WriteMap(d, ino, NewInode(d, f, count, g), g)
           buf(i) == [j \in 0..BlockSize - 1 |->
                        IF i * BlockSize + j \in size..size + count - 1 THEN Byte(f, i * BlockSize + j)
                        ELSE IF i = first THEN d.blocks[all[i]][j] ELSE 0]
<1>1. DataWrites(d, f, ino, all, count) = [b \in 1..blocks |-> ide_write(all[first + b - 1], buf(first + b - 1))]
  BY DEF DataWrites, Spans
<1>2. \A b \in 1..blocks : first + b - 1 \in Touched(d, f, count) /\ first + b - 1 # TABLE
  BY TouchedSeq
<1>3. ASSUME NEW i \in Touched(d, f, count), i # TABLE PROVE all[i] = NewAt(d, f, g, i)
  <2>1. i \in Slot /\ i \in Needs(size + count)
    BY GrantedFacts DEF Touched
  <2> DEFINE last == UsedBlocks(size) - 1
  <2>2. i \in 0..AllBlocks - 1
    BY <1>3, <2>1, SlotFacts
  <2>3. all[i] = IF i \in DOMAIN g THEN g[i]
                 ELSE IF i = last /\ last < Direct THEN NewInode(d, f, count, g).sectors[i]
                 ELSE IF i >= Direct /\ last >= Direct THEN Table(d, ino)[i - Direct]
                 ELSE 0
    BY <2>2 DEF WriteMap
  <2>0. last = UsedBlocks(size) - 1
    OBVIOUS
  <2> HIDE DEF last, all, ino
  <2>4. CASE i \in DOMAIN g
    BY <2>3, <2>4 DEF NewAt
  <2>5. CASE i \notin DOMAIN g
    <3>1. /\ d \in Disk /\ f \in File /\ Shaped(d, f) /\ count \in Nat /\ size \in Nat
      BY GrantedFacts DEF Writable, BlocksOnce, ino
    <3>2. first \in Nat /\ UsedBlocks(size) = first + 1 /\ last = first
      BY <2>0, <3>1, UsedBlocksFacts
    <3>3. i = first
      <4>1. i >= first
        BY <1>3 DEF Touched, ino
      <4>2. i < UsedBlocks(size + count) /\ i \notin UsedBlocks(size)..UsedBlocks(size + count) - 1
        BY <1>3, <2>1, <2>5, SetFacts DEF ino
      <4>3. UsedBlocks(size + count) \in Nat
        BY SetFacts DEF ino
      <4> HIDE DEF first
      <4> QED BY <2>2, <3>2, <4>1, <4>2, <4>3, SlotFacts
    <3> HIDE DEF first
    <3>4. NewAt(d, f, g, i) = AtSlot(d, f, i)
      BY <2>5 DEF NewAt
    <3>5. CASE i < Direct
      <4>1. i \in 0..Direct /\ i # Direct
        BY <2>2, <3>5, SlotFacts
      <4>2. NewInode(d, f, count, g).sectors[i] = NewAt(d, f, g, i)
        BY <4>1 DEF NewInode
      <4> QED BY <2>3, <2>5, <3>2, <3>3, <3>5, <4>2
    <3>6. CASE ~(i < Direct)
      <4>1. i \in Direct..AllBlocks - 1
        BY <2>2, <3>6, SlotFacts
      <4>2. UsedBlocks(size) > Direct
        BY <2>2, <3>2, <3>3, <3>6, SlotFacts
      <4>3. AtSlot(d, f, TABLE) # 0
        BY <3>1, <4>2, FitFacts DEF ino
      <4>4. AtSlot(d, f, i) = Table(d, ino)[i - Direct]
        BY <3>1, <4>1, <4>3, AtFacts DEF Table, ino
      <4>5. i >= Direct /\ last >= Direct /\ ~(last < Direct)
        BY <2>2, <3>2, <3>3, <3>6, SlotFacts
      <4> QED BY <2>3, <2>5, <3>4, <4>4, <4>5
    <3> QED BY <3>5, <3>6
  <2> QED BY <2>4, <2>5
<1>4. ASSUME NEW i \in Touched(d, f, count), i # TABLE PROVE buf(i) = Written(d, f, count, g, i)
  BY <1>3, <1>4 DEF Written
<1> HIDE DEF all, buf, blocks, first
<1>5. \A b \in 1..blocks : ide_write(all[first + b - 1], buf(first + b - 1)) =
                              ide_write(NewAt(d, f, g, first + b - 1), Written(d, f, count, g, first + b - 1))
  BY <1>2, <1>3, <1>4
<1>6. DataWrites(d, f, ino, all, count) =
        [b \in 1..blocks |-> ide_write(NewAt(d, f, g, first + b - 1), Written(d, f, count, g, first + b - 1))]
  BY <1>1, <1>5
<1> QED BY <1>6 DEF all, blocks, first

\* A write(): when it stops the machine and what is on the disk then; what it leaves
\* and what a part of it leaves if not.
LEMMA WriteFacts ==
  ASSUME FilesInv, NEW f \in opened, NEW count \in Nat
  PROVE  LET w == file_write(f, count)
             ino == inode[f]
             x == After(disk, w.writes)
         IN  /\ w.panic <=> \/ ~(UsedBlocks(ino.size + count) <= AllBlocks)
                            \/ Len(FirstSlot(ino) \o NewSlots(ino, count)) > Len(FreeBlocks(bitmap))
             /\ w.panic => /\ x \in Disk /\ x.inodes = disk.inodes /\ x.blocks = disk.blocks
                           /\ disk.bitmap \subseteq x.bitmap
             /\ ~w.panic => \E g : /\ Writable(disk, entry, f, count, g) /\ Done(disk, f, count, g, x)
                                   /\ w.inode = NewInode(disk, f, count, g) /\ w.bitmap = Marked(disk, g)
                                   /\ \A n \in 1..Len(w.writes) - 1 :
                                        Cut(disk, f, count, g, After(disk, SubSeq(w.writes, 1, n)))
<1> DEFINE ino == inode[f]
           fits == UsedBlocks(ino.size + count) <= AllBlocks
           slots == FirstSlot(ino) \o IF fits THEN NewSlots(ino, count) ELSE <<>>
           free == FreeBlocks(bitmap)
           got == IF Len(slots) <= Len(free) THEN Len(slots) ELSE Len(free)
           given == [s \in {slots[i] : i \in 1..got} |->
                       free[CHOOSE i \in 1..got : slots[i] = s]]
           new == [size |-> ino.size + count,
                   sectors |-> [i \in 0..Direct |->
                                  IF i < Direct /\ i \in DOMAIN given THEN given[i]
                                  ELSE IF i = Direct /\ TABLE \in DOMAIN given THEN given[TABLE]
                                  ELSE ino.sectors[i]]]
           marked(i) == bitmap \cup {free[j] : j \in 1..i}
           sset == {i \in 1..got : slots[i] # TABLE}
           synced == Sorted(sset)
           map == [i \in 1..Len(synced) |-> bitmap_sync(marked(synced[i]))]
           panic == ~fits \/ got < Len(slots) \/ ~AddressesFit(ino, count)
           table == TableWrite(disk, ino, new, given, count)
           data == DataWrites(disk, f, ino, WriteMap(disk, ino, new, given), count)
           writes == IF panic THEN map ELSE SyncOrder(f, map, table, data, new)
<1>1. file_write(f, count) = [panic |-> panic, inode |-> new, bitmap |-> marked(got), writes |-> writes]
  BY DEF file_write
<1> HIDE DEF ino, fits, slots, free, got, given, new, marked, sset, synced, map, panic, table, data, writes
<1>2. /\ disk \in Disk /\ f \in File /\ f \in entry /\ entry \in SUBSET File /\ bitmap = disk.bitmap
      /\ ino = disk.inodes[f] /\ ino \in Inode /\ BlocksOnce(disk, entry) /\ Shaped(disk, f)
      /\ disk.bitmap \in SUBSET Block /\ gen \in [File -> Nat]
  <2>1. gen \in [File -> Nat]
    <3>1. 0..MaxGen \subseteq Nat
      OBVIOUS
    <3> QED BY <3>1 DEF FilesInv
  <2>2. /\ disk \in Disk /\ f \in entry /\ entry \in SUBSET File /\ bitmap = disk.bitmap
        /\ ino = disk.inodes[f] /\ inode \in [File -> Inode] /\ BlocksOnce(disk, entry)
    BY DEF FilesInv, ino
  <2> QED BY <2>1, <2>2 DEF BlocksOnce, Disk, ino
<1>3. /\ free \in Seq(Block \ disk.bitmap) /\ Len(free) \in Nat
      /\ \A i, j \in 1..Len(free) : free[i] = free[j] => i = j
  <2>1. 1 \in Int /\ NBlock - 1 \in Int /\ Block \ bitmap \in SUBSET (1..NBlock - 1)
    BY SlotFacts DEF Block
  <2>2. Len(Sorted(Block \ bitmap)) = Cardinality(Block \ bitmap) /\ Sorted(Block \ bitmap) \in Seq(Block \ bitmap)
        /\ \A i, j \in 1..Cardinality(Block \ bitmap) : Sorted(Block \ bitmap)[i] = Sorted(Block \ bitmap)[j] => i = j
    BY <2>1, SortedFacts
  <2>3. free = Sorted(Block \ bitmap) /\ bitmap = disk.bitmap
    BY <1>2 DEF free, FreeBlocks
  <2>4. Cardinality(Block \ bitmap) \in Nat
    BY <2>1, SortedFacts
  <2> QED BY <2>2, <2>3, <2>4
<1>4. /\ slots \in Seq(Slot) /\ Len(slots) \in Nat
      /\ \A i, j \in 1..Len(slots) : slots[i] = slots[j] => i = j
      /\ fits => /\ slots = FirstSlot(ino) \o NewSlots(ino, count)
                 /\ {slots[i] : i \in 1..Len(slots)} = NewSet(ino, count)
                 /\ Len(slots) # 0 => slots[Len(slots)] # TABLE
  <2>1. CASE fits
    <3>1. slots = FirstSlot(ino) \o NewSlots(ino, count)
      BY <2>1 DEF slots
    <3>2. UsedBlocks(ino.size + count) <= AllBlocks
      BY <2>1 DEF fits
    <3>3. /\ slots \in Seq(Slot) /\ {slots[i] : i \in 1..Len(slots)} = NewSet(ino, count)
          /\ \A i, j \in 1..Len(slots) : slots[i] = slots[j] => i = j
          /\ Len(slots) # 0 => slots[Len(slots)] # TABLE
      <4>1. SlotsSound(ino, count, slots)
        BY <1>2, <3>1, <3>2, SlotsFacts
      <4> QED BY <4>1 DEF SlotsSound
    <3>4. Len(slots) \in Nat
      BY <3>3
    <3> QED BY <3>1, <3>3, <3>4
  <2>2. CASE ~fits
    <3>1. slots = FirstSlot(ino) \o <<>>
      BY <2>2 DEF slots
    <3>2. 0 \in Slot
      BY SlotFacts
    <3>3. slots \in Seq(Slot) /\ Len(slots) \in 0..1
      <4>1. CASE ino.sectors[0] = 0
        BY <3>1, <3>2, <4>1 DEF FirstSlot
      <4>2. CASE ino.sectors[0] # 0
        BY <3>1, <3>2, <4>2 DEF FirstSlot
      <4> QED BY <4>1, <4>2
    <3> QED BY <2>2, <3>3
  <2> QED BY <2>1, <2>2
<1>5. /\ got \in Nat /\ got <= Len(slots) /\ got <= Len(free)
      /\ got < Len(slots) <=> Len(slots) > Len(free)
  BY <1>3, <1>4 DEF got
<1>6. \A i \in 0..got : marked(i) \in SUBSET Block /\ disk.bitmap \subseteq marked(i)
  <2> SUFFICES ASSUME NEW i \in 0..got PROVE marked(i) \in SUBSET Block /\ disk.bitmap \subseteq marked(i)
    OBVIOUS
  <2>1. \A j \in 1..i : free[j] \in Block
    BY <1>3, <1>5
  <2> QED BY <1>2, <2>1 DEF marked
<1>7. /\ sset \in SUBSET (1..got) /\ Len(synced) \in Nat /\ Len(synced) = Cardinality(sset)
      /\ \A n \in 1..Len(synced) : synced[n] \in sset
      /\ map \in Seq({map[n] : n \in 1..Len(map)}) /\ Len(map) = Len(synced)
      /\ \A n \in 1..Len(map) : map[n] = bitmap_sync(marked(synced[n]))
  <2>1. sset \in SUBSET (1..got)
    BY DEF sset
  <2>2. 1 \in Int /\ got \in Int
    BY <1>5
  <2>3. Sorted(sset) \in Seq(sset) /\ Len(Sorted(sset)) = Cardinality(sset) /\ Cardinality(sset) \in Nat
    BY <2>1, <2>2, SortedFacts
  <2>4. Len(synced) \in Nat /\ Len(synced) = Cardinality(sset) /\ \A n \in 1..Len(synced) : synced[n] \in sset
    BY <2>3 DEF synced
  <2>5. /\ Len(map) = Len(synced) /\ map \in Seq({map[n] : n \in 1..Len(map)})
        /\ \A n \in 1..Len(map) : map[n] = bitmap_sync(marked(synced[n]))
    BY <2>4 DEF map
  <2> QED BY <2>1, <2>4, <2>5
<1>8. panic <=> \/ ~(UsedBlocks(ino.size + count) <= AllBlocks)
               \/ Len(FirstSlot(ino) \o NewSlots(ino, count)) > Len(free)
  <2>1. AddressesFit(ino, count)
    BY <1>2, FitFacts
  <2> QED BY <1>4, <1>5, <2>1 DEF panic, fits
<1>9. ASSUME panic
      PROVE  LET x == After(disk, writes) IN
             /\ x \in Disk /\ x.inodes = disk.inodes /\ x.blocks = disk.blocks
             /\ disk.bitmap \subseteq x.bitmap
  <2>1. writes = map
    BY <1>9 DEF writes
  <2>2. \A n \in 1..Len(map) : \E b \in SUBSET Block : disk.bitmap \subseteq b /\ map[n] = bitmap_sync(b)
    <3> SUFFICES ASSUME NEW n \in 1..Len(map)
                 PROVE  \E b \in SUBSET Block : disk.bitmap \subseteq b /\ map[n] = bitmap_sync(b)
      OBVIOUS
    <3>1. synced[n] \in 0..got
      <4>1. synced[n] \in 1..got
        BY <1>7
      <4> QED BY <1>5, <4>1
    <3> QED BY <1>6, <1>7, <3>1
  <2>3. Len(map) \in Nat
    BY <1>7
  <2> QED BY <1>2, <2>1, <2>2, <2>3, BitmapWrites
<1>10. ASSUME ~panic
       PROVE  /\ Writable(disk, entry, f, count, given) /\ Done(disk, f, count, given, After(disk, writes))
              /\ new = NewInode(disk, f, count, given) /\ marked(got) = Marked(disk, given)
              /\ \A n \in 1..Len(writes) - 1 :
                   Cut(disk, f, count, given, After(disk, SubSeq(writes, 1, n)))
  <2>1. /\ fits /\ got = Len(slots) /\ {slots[i] : i \in 1..got} = NewSet(ino, count)
        /\ writes = SyncOrder(f, map, table, data, new)
    BY <1>4, <1>5, <1>10 DEF panic, writes
  <2>2. /\ DOMAIN given = NewSet(ino, count)
        /\ \A i \in 1..got : slots[i] \in DOMAIN given /\ given[slots[i]] = free[i]
    <3>1. DOMAIN given = NewSet(ino, count)
      BY <2>1 DEF given
    <3>2. ASSUME NEW i \in 1..got PROVE slots[i] \in DOMAIN given /\ given[slots[i]] = free[i]
      <4>1. slots[i] \in {slots[j] : j \in 1..got}
        OBVIOUS
      <4>2. given[slots[i]] = free[CHOOSE j \in 1..got : slots[j] = slots[i]]
        BY <4>1 DEF given
      <4>3. \A j \in 1..got : slots[j] = slots[i] => j = i
        BY <1>4, <1>5, <2>1
      <4>4. (CHOOSE j \in 1..got : slots[j] = slots[i]) = i
        BY <4>3
      <4> QED BY <2>1, <3>1, <4>1, <4>2, <4>4
    <3> QED BY <3>1, <3>2
  <2>3. Writable(disk, entry, f, count, given)
    <3>1. \A s \in NewSet(ino, count) : \E i \in 1..got : s = slots[i] /\ given[s] = free[i]
      BY <2>1, <2>2
    <3>2. \A i \in 1..got : i \in 1..Len(free) /\ free[i] \in Block \ disk.bitmap
      BY <1>3, <1>5
    <3>3. given \in [NewSet(ino, count) -> Block \ disk.bitmap]
      <4>1. \A s \in NewSet(ino, count) : given[s] \in Block \ disk.bitmap
        BY <3>1, <3>2
      <4> QED BY <2>2, <4>1 DEF given
    <3>4. \A s, t \in DOMAIN given : given[s] = given[t] => s = t
      BY <1>3, <2>2, <3>1, <3>2
    <3> QED BY <1>2, <2>1, <3>3, <3>4 DEF Writable, Grants, fits
  <2>4. new = NewInode(disk, f, count, given)
    <3>1. \A i \in 0..Direct :
            (IF i < Direct /\ i \in DOMAIN given THEN given[i]
             ELSE IF i = Direct /\ TABLE \in DOMAIN given THEN given[TABLE]
             ELSE ino.sectors[i]) = NewAt(disk, f, given, IF i = Direct THEN TABLE ELSE i)
      <4> SUFFICES ASSUME NEW i \in 0..Direct
                   PROVE  (IF i < Direct /\ i \in DOMAIN given THEN given[i]
                           ELSE IF i = Direct /\ TABLE \in DOMAIN given THEN given[TABLE]
                           ELSE ino.sectors[i]) = NewAt(disk, f, given, IF i = Direct THEN TABLE ELSE i)
        OBVIOUS
      <4>1. CASE i = Direct
        <5>1. AtSlot(disk, f, TABLE) = ino.sectors[i] /\ ~(i < Direct)
          BY <1>2, <4>1, AtFacts, SlotFacts
        <5> QED BY <4>1, <5>1 DEF NewAt
      <4>2. CASE i # Direct
        <5>1. i \in 0..Direct - 1 /\ i < Direct
          BY <4>2, SlotFacts
        <5>2. AtSlot(disk, f, i) = ino.sectors[i]
          BY <1>2, <5>1, AtFacts
        <5> QED BY <4>2, <5>1, <5>2 DEF NewAt
      <4> QED BY <4>1, <4>2
    <3> QED BY <1>2, <3>1 DEF new, NewInode
  <2>5. marked(got) = Marked(disk, given)
    <3>1. {free[j] : j \in 1..got} = {given[s] : s \in DOMAIN given}
      BY <2>1, <2>2
    <3> QED BY <1>2, <3>1 DEF marked, Marked
  <2> DEFINE T == InOrder(disk, f, count)
  <2>6. Ordered(disk, f, count, given, Len(map), T, writes) /\ writes \in Seq({writes[i] : i \in 1..Len(writes)})
    <3> DEFINE tab == TABLE \in Touched(disk, f, count)
               a == IF tab THEN 1 ELSE 0
               size == disk.inodes[f].size
               blocks == Spans(size, count)
               first == size \div BlockSize
               W(s) == ide_write(NewAt(disk, f, given, s), Written(disk, f, count, given, s))
               z == inode_sync(f, NewInode(disk, f, count, given))
               K == {map[n] : n \in 1..Len(map)} \cup {W(s) : s \in Slot} \cup {z}
    <3>1. table = IF tab THEN <<W(TABLE)>> ELSE <<>>
      BY <1>2, <2>3, <2>4, TableFacts DEF table
    <3>2. data = [b \in 1..blocks |-> W(first + b - 1)]
      BY <1>2, <2>3, <2>4, DataFacts DEF data
    <3>3. writes = map \o table \o data \o <<z>>
      BY <2>1, <2>4 DEF SyncOrder
    <3>4. /\ T \in Seq(Slot) /\ {T[i] : i \in 1..Len(T)} = Touched(disk, f, count)
          /\ \A i, j \in 1..Len(T) : T[i] = T[j] => i = j
          /\ blocks \in Nat /\ first \in Nat
          /\ \A b \in 1..blocks : first + b - 1 \in Touched(disk, f, count)
          /\ Len(T) = a + blocks /\ (tab => T[1] = TABLE)
          /\ \A b \in 1..blocks : T[a + b] = first + b - 1
      BY <2>3, TouchedSeq
    <3>5. TABLE \in Slot /\ \A s \in Touched(disk, f, count) : s \in Slot
      BY SlotFacts DEF Touched
    <3> HIDE DEF T, blocks, first, size, tab, W, z
    <3>6. a \in 0..1 /\ (a = 1 <=> tab)
      OBVIOUS
    <3>7. map \in Seq(K) /\ z \in K /\ \A s \in Slot : W(s) \in K
      <4>1. \A n \in 1..Len(map) : map[n] \in K
        OBVIOUS
      <4>2. z \in K /\ \A s \in Slot : W(s) \in K
        OBVIOUS
      <4> HIDE DEF K
      <4>3. map \in Seq(K)
        BY <1>7, <4>1
      <4> QED BY <4>2, <4>3
    <3> HIDE DEF K
    <3>8. table \in Seq(K) /\ Len(table) = a /\ (tab => table[1] = W(TABLE))
      BY <3>1, <3>5, <3>7
    <3>9. data \in Seq(K) /\ Len(data) = blocks /\ \A b \in 1..blocks : data[b] = W(first + b - 1)
      <4>1. \A b \in 1..blocks : W(first + b - 1) \in K
        <5>1. \A b \in 1..blocks : first + b - 1 \in Slot
          BY <3>4, <3>5
        <5> QED BY <3>7, <5>1
      <4> QED BY <3>2, <3>4, <4>1
    <3> HIDE DEF a
    <3>10. /\ writes \in Seq({writes[i] : i \in 1..Len(writes)}) /\ Len(writes) = Len(map) + Len(table) + Len(data) + 1
           /\ \A i \in 1..Len(map) : writes[i] = map[i]
           /\ \A i \in 1..Len(table) : writes[Len(map) + i] = table[i]
           /\ \A i \in 1..Len(data) : writes[Len(map) + Len(table) + i] = data[i]
           /\ writes[Len(map) + Len(table) + Len(data) + 1] = z
      <4>1. Parts(writes, map, table, data, z)
        BY <3>3, <3>7, <3>8, <3>9, FourParts, Zenon
      <4> QED BY <4>1 DEF Parts
    <3>11. Len(map) \in Nat /\ Len(T) \in Nat
      BY <1>7, <3>4, <3>6
    <3>12. ASSUME NEW i \in 1..Len(T) PROVE writes[Len(map) + i] = W(T[i])
      <4>1. CASE i <= a
        <5>1. i = 1 /\ tab /\ i \in 1..Len(table)
          BY <3>6, <3>8, <3>11, <4>1
        <5> QED BY <3>4, <3>8, <3>10, <5>1
      <4>2. CASE ~(i <= a)
        <5>1. PICK b \in 1..blocks : i = a + b
          <6>1. i - a \in 1..blocks /\ i = a + (i - a)
            BY <3>4, <3>6, <3>11, <4>2
          <6> QED BY <6>1
        <5>2. writes[Len(map) + a + b] = data[b]
          BY <3>8, <3>9, <3>10, <5>1
        <5>3. Len(map) + a + b = Len(map) + i
          BY <3>6, <3>11, <5>1
        <5> QED BY <3>4, <3>9, <5>1, <5>2, <5>3
      <4> QED BY <4>1, <4>2
    <3>13. Len(writes) = Len(map) + Len(T) + 1 /\ writes[Len(map) + Len(T) + 1] = z
      <4>1. Len(map) + Len(table) + Len(data) + 1 = Len(map) + Len(T) + 1
        BY <3>4, <3>6, <3>8, <3>9, <3>11
      <4> QED BY <3>10, <4>1
    <3>14. got # 0 => got \in sset /\ synced[Cardinality(sset)] = got
      <4> SUFFICES ASSUME got # 0 PROVE got \in sset /\ synced[Cardinality(sset)] = got
        OBVIOUS
      <4>1. got \in sset
        BY <1>4, <1>5, <2>1 DEF sset
      <4>2. \A n \in sset : n <= got
        BY <1>5, <1>7
      <4>3. 1 \in Int /\ got \in Int /\ sset \in SUBSET (1..got)
        BY <1>5, <1>7
      <4>4. Sorted(sset)[Cardinality(sset)] = got
        BY <4>1, <4>2, <4>3, SortedLast
      <4> QED BY <4>1, <4>4 DEF synced
    <3>15. \A n \in 1..Len(map) : \E b \in SUBSET Block :
             disk.bitmap \subseteq b /\ (n = Len(map) => b = Marked(disk, given)) /\ writes[n] = bitmap_sync(b)
      <4> SUFFICES ASSUME NEW n \in 1..Len(map)
                   PROVE  \E b \in SUBSET Block :
             disk.bitmap \subseteq b /\ (n = Len(map) => b = Marked(disk, given)) /\ writes[n] = bitmap_sync(b)
        OBVIOUS
      <4>1. synced[n] \in 1..got
        BY <1>7
      <4>2. marked(synced[n]) \in SUBSET Block /\ disk.bitmap \subseteq marked(synced[n])
        BY <1>5, <1>6, <4>1
      <4>3. n = Len(map) => synced[n] = got
        BY <1>7, <3>14, <4>1
      <4> QED BY <1>7, <2>5, <3>10, <4>2, <4>3
    <3>16. Len(map) = 0 => Marked(disk, given) = disk.bitmap
      <4> SUFFICES ASSUME Len(map) = 0 PROVE Marked(disk, given) = disk.bitmap
        OBVIOUS
      <4>1. sset = {}
        <5>1. IsFiniteSet(sset) /\ Cardinality(sset) = 0
          <6>1. 1 \in Int /\ got \in Int /\ sset \in SUBSET (1..got)
            BY <1>5, <1>7
          <6> QED BY <1>7, <6>1, SortedFacts
        <5> QED BY <5>1, FS_EmptySet
      <4>2. got = 0
        BY <1>5, <3>14, <4>1
      <4>3. marked(0) = disk.bitmap
        BY <1>2 DEF marked
      <4> QED BY <2>5, <4>2, <4>3
    <3> QED BY <3>4, <3>10, <3>11, <3>12, <3>13, <3>15, <3>16 DEF Ordered, W, z
  <2> QED BY <1>2, <2>3, <2>4, <2>5, <2>6, OrderedSound
<1> QED
  <2>1. CASE panic
    BY <1>1, <1>2, <1>8, <1>9, <2>1 DEF free, ino
  <2>2. CASE ~panic
    BY <1>1, <1>2, <1>8, <1>10, <2>2 DEF free, ino
  <2> QED BY <2>1, <2>2

-----------------------------------------------------------------------------
\* The disk x after n of the l + 1 writes of a release.
Freed(d, f, kept, l, n, x) ==
  /\ x \in Disk /\ x.blocks = d.blocks /\ kept \subseteq x.bitmap
  /\ x.inodes = IF n = l + 1 THEN [d.inodes EXCEPT ![f] = Empty] ELSE d.inodes
  /\ n >= l => x.bitmap = kept

\* The release of a file's inode: the other files are untouched, whenever it stops,
\* and none of their blocks is freed.
LEMMA ReleaseFacts ==
  ASSUME FilesInv, NEW f \in entry
  PROVE  LET r == inode_release(f)
             x == After(disk, r.writes)
         IN  /\ x \in Disk /\ r.bitmap = x.bitmap
             /\ BlocksOnce(x, entry \ {f}) /\ \A h \in entry \ {f} : Holds(x, h, len[h])
             /\ \A h \in entry \ {f} : x.inodes[h] = disk.inodes[h]
             /\ NoneLost(disk, entry) => NoneLost(x, entry \ {f})
             /\ \A n \in 0..Len(r.writes) - 1 :
                  LET y == After(disk, SubSeq(r.writes, 1, n)) IN
                  /\ y \in Disk
                  /\ BlocksOnce(y, entry \ {f}) /\ \A h \in entry \ {f} : Holds(y, h, len[h])
<1> DEFINE ino == disk.inodes[f]
           has == {i \in Slot : Address(disk, ino, i) # 0}
           used == Sorted(has)
           freed == [i \in 1..Len(used) |-> Address(disk, ino, used[i])]
           left(i) == bitmap \ {freed[j] : j \in 1..i}
           map == [i \in 1..Len(freed) |-> bitmap_sync(left(i))]
           w == map \o <<inode_sync(f, Empty)>>
           L == Len(freed)
           k == entry \ {f}
           kept == {b \in disk.bitmap : \A i \in Slot : AtSlot(disk, f, i) # b}
<1>1. inode_release(f).bitmap = left(L) /\ inode_release(f).writes = w
  BY DEF inode_release, ReleaseSeq, AddressSeq, inode_open, inode_delete, inode_sync
<1>2. /\ disk \in Disk /\ f \in File /\ entry \in SUBSET File /\ bitmap = disk.bitmap /\ k \in SUBSET entry
      /\ BlocksOnce(disk, entry) /\ disk.bitmap \in SUBSET Block /\ 0 \notin Block
      /\ \A h \in entry : Holds(disk, h, len[h])
  BY DEF FilesInv, Disk, Block
<1> HIDE DEF ino, has, used, freed, left, map, w, L, k, kept
<1>3. /\ L \in Nat /\ {freed[j] : j \in 1..L} = {AtSlot(disk, f, i) : i \in Slot} \ {0}
  <2>1. PICK lo \in Int, hi \in Int : has \in SUBSET (lo..hi)
    BY SlotFacts DEF has
  <2>2. /\ Len(used) \in Nat /\ \A j \in 1..Len(used) : used[j] \in has
        /\ \A s \in has : \E j \in 1..Len(used) : used[j] = s
    <3>1. Sorted(has) \in Seq(has)
      BY <2>1, SortedFacts
    <3>2. ASSUME NEW s \in has PROVE Occurs(s, used)
      <4>1. Occurs(s, Sorted(has))
        BY <2>1, SortedOnto
      <4> QED BY <4>1 DEF used
    <3> QED BY <3>1, <3>2 DEF used, Occurs
  <2>3. L = Len(used) /\ \A j \in 1..L : freed[j] = Address(disk, ino, used[j])
    BY <2>2 DEF freed, L
  <2>4. \A s \in Slot : AtSlot(disk, f, s) = Address(disk, ino, s)
    BY DEF AtSlot, ino
  <2> QED BY <2>2, <2>3, <2>4 DEF has
<1>4. /\ left(L) = kept /\ \A i \in 1..L : left(i) \in SUBSET Block /\ kept \subseteq left(i)
      /\ (L = 0 => kept = disk.bitmap)
  <2>1. left(L) = kept
    BY <1>2, <1>3 DEF left, kept
  <2>2. ASSUME NEW i \in 1..L PROVE left(i) \in SUBSET Block /\ kept \subseteq left(i)
    <3>1. {freed[j] : j \in 1..i} \subseteq {freed[j] : j \in 1..L}
      BY <1>3
    <3> QED BY <1>2, <2>1, <3>1 DEF left
  <2>3. L = 0 => left(L) = bitmap
    BY DEF left
  <2> QED BY <1>2, <2>1, <2>2, <2>3
<1>5. /\ Len(w) = L + 1 /\ w \in Seq({w[i] : i \in 1..Len(w)})
      /\ \A i \in 1..L : w[i] = bitmap_sync(left(i))
      /\ w[L + 1] = inode_sync(f, Empty)
  <2>1. /\ Len(map) = L /\ \A i \in 1..L : map[i] = bitmap_sync(left(i))
        /\ map = [i \in 1..L |-> bitmap_sync(left(i))]
    BY <1>3 DEF map, L
  <2> DEFINE z == inode_sync(f, Empty)
             K == {bitmap_sync(left(i)) : i \in 1..L} \cup {z}
  <2>2. z \in K /\ \A i \in 1..L : bitmap_sync(left(i)) \in K
    OBVIOUS
  <2> HIDE DEF z, K
  <2>3. map \in Seq(K)
    BY <1>3, <2>1, <2>2
  <2>4. PICK u \in Seq(K) : u = map
    BY <2>3
  <2>5. /\ u \o <<z>> \in Seq(K) /\ Len(u \o <<z>>) = Len(u) + 1
        /\ \A i \in 1..Len(u) : (u \o <<z>>)[i] = u[i]
        /\ (u \o <<z>>)[Len(u) + 1] = z
    BY <2>2
  <2>6. /\ w \in Seq(K) /\ Len(w) = L + 1 /\ \A i \in 1..L : w[i] = map[i]
        /\ w[L + 1] = z
    BY <2>1, <2>4, <2>5 DEF w, z
  <2>7. w \in Seq({w[i] : i \in 1..Len(w)})
    <3> DEFINE R == {w[i] : i \in 1..Len(w)}
    <3>1. \A i \in 1..Len(w) : w[i] \in R
      OBVIOUS
    <3>2. w = [i \in 1..Len(w) |-> w[i]] /\ Len(w) \in Nat
      BY <2>6
    <3> HIDE DEF R
    <3>3. [i \in 1..Len(w) |-> w[i]] \in Seq(R)
      BY <3>1, <3>2
    <3>4. w \in Seq(R)
      BY <3>2, <3>3
    <3> QED BY <3>4 DEF R
  <2> QED BY <2>1, <2>6, <2>7 DEF z
<1> DEFINE Stg(n) == {x \in Disk : Freed(disk, f, kept, L, n, x)}
           S == [n \in 0..L + 1 |-> Stg(n)]
<1>6. disk \in S[0]
  <2>1. 0 # L + 1 /\ (0 >= L => L = 0) /\ 0 \in 0..L + 1
    BY <1>3
  <2>2. kept \subseteq disk.bitmap
    BY DEF kept
  <2>3. Freed(disk, f, kept, L, 0, disk)
    BY <1>2, <1>4, <2>1, <2>2 DEF Freed
  <2> QED BY <1>2, <2>1, <2>3
<1>7. Empty \in Inode
  <2>1. 0 \in Nat /\ 0 \in 0..NBlock - 1
    BY SlotFacts
  <2> QED BY <2>1 DEF Empty, Inode
<1>8. ASSUME NEW n \in 1..L + 1, NEW x \in S[n - 1] PROVE Apply(x, w[n]) \in S[n]
  <2>1. n - 1 \in 0..L + 1 /\ n \in 0..L + 1 /\ n - 1 # L + 1
    BY <1>3
  <2>2. /\ x \in Disk /\ x.blocks = disk.blocks /\ kept \subseteq x.bitmap /\ x.inodes = disk.inodes
        /\ n - 1 >= L => x.bitmap = kept
    <3>1. Freed(disk, f, kept, L, n - 1, x)
      BY <2>1
    <3> QED BY <2>1, <3>1 DEF Freed
  <2> SUFFICES Apply(x, w[n]) \in Disk /\ Freed(disk, f, kept, L, n, Apply(x, w[n]))
    BY <2>1
  <2>3. CASE n <= L
    <3>1. n \in 1..L /\ n # L + 1 /\ (n >= L => n = L)
      BY <1>3, <2>3
    <3> DEFINE y == Apply(x, w[n])
    <3>2. y \in Disk /\ y.bitmap = left(n) /\ y.inodes = x.inodes /\ y.blocks = x.blocks
      BY <1>4, <1>5, <2>2, <3>1, ApplyFacts
    <3> HIDE DEF y
    <3>3. kept \subseteq y.bitmap /\ (n >= L => y.bitmap = kept)
      BY <1>4, <3>1, <3>2
    <3>4. Freed(disk, f, kept, L, n, y)
      BY <2>2, <3>1, <3>2, <3>3 DEF Freed
    <3> QED BY <3>2, <3>4 DEF y
  <2>4. CASE n = L + 1
    <3> DEFINE y == Apply(x, w[n])
    <3>1. y \in Disk /\ y.bitmap = x.bitmap /\ y.inodes = [x.inodes EXCEPT ![f] = Empty] /\ y.blocks = x.blocks
      BY <1>2, <1>5, <1>7, <2>2, <2>4, ApplyFacts
    <3>2. x.bitmap = kept
      BY <1>3, <2>2, <2>4
    <3> HIDE DEF y
    <3>3. Freed(disk, f, kept, L, n, y)
      BY <2>2, <2>4, <3>1, <3>2 DEF Freed
    <3> QED BY <3>1, <3>3 DEF y
  <2>5. n <= L \/ n = L + 1
    BY <1>3
  <2> QED BY <2>3, <2>4, <2>5
<1>9. \A n \in 0..L + 1 : \A x \in S[n] : x \in Stg(n)
  OBVIOUS
<1>10. \A n \in 0..L + 1 : \A x \in Stg(n) :
         /\ x \in Disk /\ x.blocks = disk.blocks /\ kept \subseteq x.bitmap
         /\ \A h \in k : x.inodes[h] = disk.inodes[h]
  <2> SUFFICES ASSUME NEW n \in 0..L + 1, NEW x \in Stg(n)
               PROVE  /\ x \in Disk /\ x.blocks = disk.blocks /\ kept \subseteq x.bitmap
                      /\ \A h \in k : x.inodes[h] = disk.inodes[h]
    OBVIOUS
  <2>1. /\ x \in Disk /\ x.blocks = disk.blocks /\ kept \subseteq x.bitmap
        /\ x.inodes = [disk.inodes EXCEPT ![f] = Empty] \/ x.inodes = disk.inodes
    BY DEF Freed
  <2>2. DOMAIN disk.inodes = File /\ \A h \in k : h \in File /\ h # f
    BY <1>2 DEF Disk, k
  <2> QED BY <2>1, <2>2
<1>11. \A x \in Stg(L + 1) : x.bitmap = kept
  BY <1>3 DEF Freed
<1> HIDE DEF S, Stg
<1>12. ASSUME NEW x, x \in Disk, x.blocks = disk.blocks, kept \subseteq x.bitmap, \A h \in k : x.inodes[h] = disk.inodes[h]
       PROVE  /\ BlocksOnce(x, k) /\ \A h \in k : Holds(x, h, len[h])
              /\ \A h \in k : \A i \in Slot : AtSlot(x, h, i) = AtSlot(disk, h, i)
  <2>1. ASSUME NEW h \in k, NEW i \in Slot, AtSlot(disk, h, i) # 0 PROVE AtSlot(disk, h, i) \in x.bitmap
    <3>1. AtSlot(disk, h, i) \in disk.bitmap /\ \A j \in Slot : AtSlot(disk, f, j) # AtSlot(disk, h, i)
      BY <1>2, <2>1 DEF k, BlocksOnce
    <3> QED BY <1>12, <3>1 DEF kept
  <2> QED BY <1>2, <1>12, <2>1, SameFiles
<1>13. After(disk, w) \in Stg(L + 1)
  <2>1. Len(w) \in Nat /\ \A n \in 1..Len(w) : \A x \in S[n - 1] : Apply(x, w[n]) \in S[n]
    BY <1>3, <1>5, <1>8
  <2>2. After(disk, w) \in S[Len(w)]
    BY <1>6, <2>1, AfterIn
  <2>3. L + 1 \in 0..L + 1
    BY <1>3
  <2> QED BY <1>5, <1>9, <2>2, <2>3
<1>14. ASSUME NEW n \in 0..Len(w) - 1 PROVE After(disk, SubSeq(w, 1, n)) \in Stg(n) /\ n \in 0..L + 1
  <2> DEFINE v == SubSeq(w, 1, n)
  <2>1. n \in Nat /\ n <= Len(w) /\ n \in 0..L + 1
    BY <1>3, <1>5
  <2>2. Len(v) = n /\ \A i \in 1..n : v[i] = w[i] /\ i \in 1..L + 1
    BY <1>3, <1>5, <2>1
  <2> HIDE DEF v
  <2>3. \A i \in 1..Len(v) : \A z \in S[i - 1] : Apply(z, v[i]) \in S[i]
    BY <1>8, <2>2
  <2>4. After(disk, v) \in S[n]
    BY <1>6, <2>1, <2>2, <2>3, AfterIn
  <2> QED BY <1>9, <2>1, <2>4 DEF v
<1>15. ASSUME NoneLost(disk, entry), NEW x, x \in Stg(L + 1) PROVE NoneLost(x, k)
  <2>1. L + 1 \in 0..L + 1
    BY <1>3
  <2>2. x \in Disk /\ x.blocks = disk.blocks /\ x.bitmap = kept /\ \A h \in k : x.inodes[h] = disk.inodes[h]
    BY <1>10, <1>11, <1>15, <2>1
  <2>3. \A h \in k : \A i \in Slot : AtSlot(x, h, i) = AtSlot(disk, h, i)
    BY <1>12, <2>2
  <2>4. \A b \in x.bitmap : \E h \in k : \E i \in Slot : AtSlot(x, h, i) = b
    BY <1>15, <2>2, <2>3 DEF NoneLost, kept, k
  <2>5. \A h \in k : \A i \in Slot : i \notin Needs(x.inodes[h].size) => AtSlot(x, h, i) = 0
    BY <1>2, <1>15, <2>2, <2>3 DEF NoneLost
  <2> QED BY <2>4, <2>5 DEF NoneLost
<1>16. L + 1 \in 0..L + 1
  BY <1>3
<1>17. \A n \in 0..L + 1 : \A x \in Stg(n) : x \in Disk /\ BlocksOnce(x, k) /\ \A h \in k : Holds(x, h, len[h])
  BY <1>10, <1>12
<1>18. LET x == After(disk, w) IN
       /\ x \in Disk /\ left(L) = x.bitmap /\ BlocksOnce(x, k) /\ \A h \in k : Holds(x, h, len[h])
       /\ \A h \in k : x.inodes[h] = disk.inodes[h]
       /\ NoneLost(disk, entry) => NoneLost(x, k)
  BY <1>4, <1>10, <1>11, <1>13, <1>15, <1>16, <1>17
<1> QED BY <1>1, <1>14, <1>17, <1>18 DEF k


-----------------------------------------------------------------------------
\* Holds() with the number of the file's creation.
HoldsOf(d, f, n, k) ==
  /\ d.inodes[f].size = n
  /\ \A o \in 0..n - 1 :
       d.blocks[AtSlot(d, f, o \div BlockSize)][o % BlockSize] = k * 2 * BlockSize * AllBlocks + o

\* It says the same.
LEMMA HoldsOfFacts ==
  ASSUME NEW d, NEW f, NEW n
  PROVE  Holds(d, f, n) <=> HoldsOf(d, f, n, gen[f])
BY DEF Holds, HoldsOf, Byte

\* What FilesInv says of the next state.
LEMMA FilesInvNext ==
  ASSUME disk' \in Disk, bitmap' = disk'.bitmap,
         entry' \in SUBSET File, opened' \in SUBSET entry', inode' \in [File -> Inode],
         gen' \in [File -> 0..MaxGen], len' \in [File -> Nat], fd_pos' \in [File -> Nat], stops' \in Nat,
         BlocksOnce(disk', entry'), stops' = 0 => NoneLost(disk', entry'),
         \A f \in entry' : HoldsOf(disk', f, len'[f], gen'[f]),
         \A f \in opened' : /\ inode'[f] = disk'.inodes[f]
                            /\ fd_pos'[f] <= len'[f] \/ (len'[f] = 0 /\ fd_pos'[f] = Word - 1)
  PROVE  FilesInv'
<1>1. \A f \in entry' : Holds(disk, f, len[f])'
  BY DEF Holds, HoldsOf, Byte, AtSlot
<1>2. BlocksOnce(disk, entry)' /\ (stops' = 0 => NoneLost(disk, entry)')
  OBVIOUS
<1> QED BY <1>1, <1>2 DEF FilesInv

\* What a step that stops the machine must leave on the disk.
LEMMA StopKeeps ==
  ASSUME FilesInv, NEW x \in Disk, NEW k \in SUBSET entry, Stop(x), entry' = k, UNCHANGED len,
         BlocksOnce(x, k), \A h \in k : Holds(x, h, len[h])
  PROVE  FilesInv'
<1>1. Empty \in Inode
  <2>1. 0 \in Nat /\ 0 \in 0..NBlock - 1
    BY SlotFacts
  <2> QED BY <2>1 DEF Empty, Inode
<1>2. /\ disk' = x /\ bitmap' = x.bitmap /\ inode' = [f \in File |-> Empty]
      /\ fd_pos' = [f \in File |-> 0] /\ opened' = {} /\ stops' = stops + 1 /\ gen' = gen /\ len' = len
  BY DEF Stop
<1>3. stops \in Nat /\ entry \in SUBSET File /\ gen \in [File -> 0..MaxGen] /\ len \in [File -> Nat]
  BY DEF FilesInv
<1>4. stops' \in Nat /\ stops' # 0
  BY <1>2, <1>3
<1>5. \A h \in k : HoldsOf(x, h, len[h], gen[h])
  BY HoldsOfFacts
<1>6. disk' \in Disk /\ BlocksOnce(disk', entry') /\ \A h \in entry' : HoldsOf(disk', h, len'[h], gen'[h])
  BY <1>2, <1>5
<1>7. inode' \in [File -> Inode] /\ fd_pos' \in [File -> Nat] /\ opened' \in SUBSET entry' /\ entry' \in SUBSET File
  BY <1>1, <1>2, <1>3
<1>8. gen' \in [File -> 0..MaxGen] /\ len' \in [File -> Nat] /\ bitmap' = disk'.bitmap
  BY <1>2, <1>3
<1>9. \A f \in opened' : /\ inode'[f] = disk'.inodes[f]
                         /\ fd_pos'[f] <= len'[f] \/ (len'[f] = 0 /\ fd_pos'[f] = Word - 1)
  BY <1>2
<1>10. stops' = 0 => NoneLost(disk', entry')
  BY <1>4
<1>11. /\ disk' \in Disk /\ BlocksOnce(disk', entry') /\ stops' \in Nat
       /\ \A f \in entry' : HoldsOf(disk', f, len'[f], gen'[f])
  BY <1>4, <1>6
<1> QED BY <1>7, <1>8, <1>9, <1>10, <1>11, FilesInvNext, Zenon

\* The power fails between two calls, or a read() stops the machine.
LEMMA PowerLossKeeps ==
  ASSUME FilesInv, PowerLoss
  PROVE  FilesInv'
<1>1. disk \in Disk /\ BlocksOnce(disk, entry) /\ \A h \in entry : Holds(disk, h, len[h])
  BY DEF FilesInv
<1>2. Stop(disk) /\ entry' = entry /\ UNCHANGED len
  BY DEF PowerLoss
<1> QED BY <1>1, <1>2, StopKeeps

\* A write() stops the machine: the bitmap may have been written.
LEMMA PanicKeeps ==
  ASSUME FilesInv, NEW f \in opened, NEW count \in Nat, file_write(f, count).panic,
         Stop(After(disk, file_write(f, count).writes)), UNCHANGED <<entry, len>>
  PROVE  FilesInv'
<1> DEFINE x == After(disk, file_write(f, count).writes)
<1>1. x \in Disk /\ x.inodes = disk.inodes /\ x.blocks = disk.blocks /\ disk.bitmap \subseteq x.bitmap
  BY WriteFacts
<1>2. /\ disk \in Disk /\ entry \in SUBSET File /\ BlocksOnce(disk, entry)
      /\ \A h \in entry : Holds(disk, h, len[h])
  BY DEF FilesInv
<1>3. Stop(x) /\ entry' = entry /\ UNCHANGED len
  OBVIOUS
<1> HIDE DEF x
<1>4. \A h \in entry : \A i \in Slot : AtSlot(disk, h, i) # 0 => AtSlot(disk, h, i) \in x.bitmap
  BY <1>1, <1>2 DEF BlocksOnce
<1>5. BlocksOnce(x, entry) /\ \A h \in entry : \A n : Holds(disk, h, n) => Holds(x, h, n)
  BY <1>1, <1>2, <1>4, SameFiles
<1> QED BY <1>1, <1>2, <1>3, <1>5, StopKeeps

\* The power fails in a write().
LEMMA PowerLossInWriteKeeps ==
  ASSUME FilesInv, NEW f \in File, NEW count \in 0..MaxCount, PowerLossInWrite(f, count)
  PROVE  FilesInv'
<1>1. f \in opened /\ count \in Nat /\ ~file_write(f, count).panic
  BY SizeFacts DEF PowerLossInWrite
<1>2. PICK i \in 1..Len(file_write(f, count).writes) - 1 :
        Stop(After(disk, SubSeq(file_write(f, count).writes, 1, i)))
  BY DEF PowerLossInWrite
<1> DEFINE x == After(disk, SubSeq(file_write(f, count).writes, 1, i))
<1>3. PICK g : Writable(disk, entry, f, count, g) /\ Cut(disk, f, count, g, x)
  <2>1. \E g : /\ Writable(disk, entry, f, count, g)
               /\ \A n \in 1..Len(file_write(f, count).writes) - 1 :
                    Cut(disk, f, count, g, After(disk, SubSeq(file_write(f, count).writes, 1, n)))
    BY <1>1, WriteFacts
  <2> QED BY <1>2, <2>1
<1>4. Stop(x) /\ entry' = entry /\ UNCHANGED len
  BY <1>2 DEF PowerLossInWrite
<1> HIDE DEF x
<1>5. \A h \in entry : Holds(disk, h, len[h])
  BY DEF FilesInv
<1>6. x \in Disk /\ BlocksOnce(x, entry) /\ \A h \in entry : Holds(x, h, len[h])
  BY <1>3, <1>5, CutSound DEF Cut
<1> QED BY <1>4, <1>6, StopKeeps

\* The power fails in an unlink().
LEMMA PowerLossInUnlinkKeeps ==
  ASSUME FilesInv, NEW f \in File, PowerLossInUnlink(f)
  PROVE  FilesInv'
<1>1. f \in entry /\ entry' = entry \ {f} /\ UNCHANGED len
  BY DEF PowerLossInUnlink
<1>2. PICK i \in 0..Len(inode_release(f).writes) - 1 :
        Stop(After(disk, SubSeq(inode_release(f).writes, 1, i)))
  BY DEF PowerLossInUnlink
<1> DEFINE x == After(disk, SubSeq(inode_release(f).writes, 1, i))
<1>3. x \in Disk /\ BlocksOnce(x, entry \ {f}) /\ \A h \in entry \ {f} : Holds(x, h, len[h])
  BY <1>1, <1>2, ReleaseFacts
<1>4. Stop(x)
  BY <1>2
<1> HIDE DEF x
<1> QED BY <1>1, <1>3, <1>4, StopKeeps

\* Steps that leave the disk alone.
LEMMA MemoryKeeps ==
  ASSUME FilesInv, UNCHANGED <<disk, bitmap, entry, gen, len, stops>>,
         opened' \in SUBSET entry, inode' \in [File -> Inode], fd_pos' \in [File -> Nat],
         \A f \in opened' : /\ inode'[f] = disk.inodes[f]
                            /\ fd_pos'[f] <= len[f] \/ (len[f] = 0 /\ fd_pos'[f] = Word - 1)
  PROVE  FilesInv'
<1>1. /\ disk \in Disk /\ bitmap = disk.bitmap /\ entry \in SUBSET File
      /\ gen \in [File -> 0..MaxGen] /\ len \in [File -> Nat] /\ stops \in Nat
      /\ BlocksOnce(disk, entry) /\ (stops = 0 => NoneLost(disk, entry))
      /\ \A f \in entry : HoldsOf(disk, f, len[f], gen[f])
  BY HoldsOfFacts DEF FilesInv
<1>2. disk' = disk /\ bitmap' = bitmap /\ entry' = entry /\ gen' = gen /\ len' = len /\ stops' = stops
  OBVIOUS
<1>3. /\ disk' \in Disk /\ bitmap' = disk'.bitmap /\ entry' \in SUBSET File /\ opened' \in SUBSET entry'
      /\ gen' \in [File -> 0..MaxGen] /\ len' \in [File -> Nat] /\ stops' \in Nat
  BY <1>1, <1>2
<1>4. /\ BlocksOnce(disk', entry') /\ (stops' = 0 => NoneLost(disk', entry'))
      /\ \A f \in entry' : HoldsOf(disk', f, len'[f], gen'[f])
  BY <1>1, <1>2
<1>5. \A f \in opened' : /\ inode'[f] = disk'.inodes[f]
                         /\ fd_pos'[f] <= len'[f] \/ (len'[f] = 0 /\ fd_pos'[f] = Word - 1)
  BY <1>2
<1> QED BY <1>3, <1>4, <1>5, FilesInvNext, Zenon

\* open() reads the inode from the disk.
LEMMA OpenKeeps ==
  ASSUME FilesInv, NEW f \in File, file_open(f)
  PROVE  FilesInv'
<1>1. /\ disk \in Disk /\ inode \in [File -> Inode] /\ fd_pos \in [File -> Nat] /\ opened \in SUBSET entry
      /\ len \in [File -> Nat] /\ entry \in SUBSET File
      /\ \A h \in opened : /\ inode[h] = disk.inodes[h]
                           /\ fd_pos[h] <= len[h] \/ (len[h] = 0 /\ fd_pos[h] = Word - 1)
  BY DEF FilesInv
<1>2. /\ f \in entry /\ inode' = [inode EXCEPT ![f] = disk.inodes[f]] /\ fd_pos' = [fd_pos EXCEPT ![f] = 0]
      /\ opened' = opened \cup {f} /\ UNCHANGED <<disk, bitmap, entry, gen, len, stops>>
  BY DEF file_open, inode_open
<1>3. disk.inodes[f] \in Inode /\ 0 <= len[f]
  BY <1>1, AtFacts
<1>4. opened' \in SUBSET entry /\ inode' \in [File -> Inode] /\ fd_pos' \in [File -> Nat]
  BY <1>1, <1>2, <1>3
<1>5. ASSUME NEW h \in opened'
      PROVE  /\ inode'[h] = disk.inodes[h]
             /\ fd_pos'[h] <= len[h] \/ (len[h] = 0 /\ fd_pos'[h] = Word - 1)
  BY <1>1, <1>2, <1>3
<1> QED BY <1>2, <1>4, <1>5, MemoryKeeps

\* close() forgets the inode in memory.
LEMMA CloseKeeps ==
  ASSUME FilesInv, NEW f \in File, file_close(f)
  PROVE  FilesInv'
<1>1. /\ inode \in [File -> Inode] /\ fd_pos \in [File -> Nat] /\ opened \in SUBSET entry /\ entry \in SUBSET File
      /\ \A h \in opened : /\ inode[h] = disk.inodes[h]
                           /\ fd_pos[h] <= len[h] \/ (len[h] = 0 /\ fd_pos[h] = Word - 1)
  BY DEF FilesInv
<1>2. /\ inode' = [inode EXCEPT ![f] = Empty] /\ fd_pos' = [fd_pos EXCEPT ![f] = 0]
      /\ opened' = opened \ {f} /\ UNCHANGED <<disk, bitmap, entry, gen, len, stops>>
  BY DEF file_close
<1>3. Empty \in Inode
  <2>1. 0 \in Nat /\ 0 \in 0..NBlock - 1
    BY SlotFacts
  <2> QED BY <2>1 DEF Empty, Inode
<1>4. opened' \in SUBSET entry /\ inode' \in [File -> Inode] /\ fd_pos' \in [File -> Nat]
  BY <1>1, <1>2, <1>3
<1>5. ASSUME NEW h \in opened'
      PROVE  /\ inode'[h] = disk.inodes[h]
             /\ fd_pos'[h] <= len[h] \/ (len[h] = 0 /\ fd_pos'[h] = Word - 1)
  BY <1>1, <1>2
<1> QED BY <1>2, <1>4, <1>5, MemoryKeeps

\* A position below the size.
LEMMA LseekKeeps ==
  ASSUME FilesInv, NEW f \in File, NEW offset, NEW whence, sys_lseek(f, offset, whence)
  PROVE  FilesInv'
<1>1. /\ inode \in [File -> Inode] /\ fd_pos \in [File -> Nat] /\ opened \in SUBSET entry /\ entry \in SUBSET File
      /\ len \in [File -> Nat] /\ \A h \in entry : Holds(disk, h, len[h])
      /\ \A h \in opened : /\ inode[h] = disk.inodes[h]
                           /\ fd_pos[h] <= len[h] \/ (len[h] = 0 /\ fd_pos[h] = Word - 1)
  BY DEF FilesInv
<1>2. PICK p \in 0..inode[f].size - 1 : f \in opened /\ fd_pos' = [fd_pos EXCEPT ![f] = p]
  BY DEF sys_lseek
<1>3. UNCHANGED <<disk, bitmap, inode, opened, entry, gen, len, stops>>
  BY DEF sys_lseek
<1>4. inode[f].size = len[f]
  BY <1>1, <1>2 DEF Holds
<1>5. p \in Nat /\ p <= len[f]
  BY <1>1, <1>2, <1>4
<1>6. opened' \in SUBSET entry /\ inode' \in [File -> Inode] /\ fd_pos' \in [File -> Nat]
  BY <1>1, <1>2, <1>3, <1>5
<1>7. ASSUME NEW h \in opened'
      PROVE  /\ inode'[h] = disk.inodes[h]
             /\ fd_pos'[h] <= len[h] \/ (len[h] = 0 /\ fd_pos'[h] = Word - 1)
  BY <1>1, <1>2, <1>3, <1>5
<1> QED BY <1>3, <1>6, <1>7, MemoryKeeps

\* The sizes do not wrap around.
LEMMA LengthFacts ==
  ASSUME FilesInv, NEW f \in entry
  PROVE  /\ disk.inodes[f].size = len[f] /\ len[f] \in Nat /\ len[f] < BlockSize * AllBlocks
         /\ len[f] + MaxCount < Word /\ len[f] < Word - 1 /\ f \in File
         /\ Shaped(disk, f) /\ disk \in Disk /\ Word \in Nat /\ MaxCount \in Nat
<1>1. /\ disk \in Disk /\ entry \in SUBSET File /\ len \in [File -> Nat] /\ BlocksOnce(disk, entry)
      /\ Holds(disk, f, len[f])
  BY DEF FilesInv
<1>2. /\ f \in File /\ Shaped(disk, f) /\ disk.inodes[f].size = len[f] /\ len[f] \in Nat
      /\ len[f] < BlockSize * AllBlocks
  BY <1>1 DEF BlocksOnce, Holds, Shaped
<1>3. /\ MaxCount \in Nat /\ Word \in Nat /\ Word > BlockSize * AllBlocks + MaxCount /\ BlockSize * AllBlocks \in Nat
  BY SizeFacts
<1> HIDE DEF AllBlocks
<1>4. len[f] + MaxCount < Word /\ len[f] < Word - 1
  BY <1>2, <1>3
<1> QED BY <1>1, <1>2, <1>3, <1>4

\* unlink() releases the inode and its blocks.
LEMMA UnlinkKeeps ==
  ASSUME FilesInv, NEW f \in File, sys_unlink(f)
  PROVE  FilesInv'
<1> DEFINE x == After(disk, inode_release(f).writes)
<1>1. /\ f \in entry /\ f \notin opened /\ disk' = x /\ bitmap' = inode_release(f).bitmap /\ entry' = entry \ {f}
      /\ inode' = inode /\ fd_pos' = fd_pos /\ opened' = opened /\ gen' = gen /\ len' = len /\ stops' = stops
  BY DEF sys_unlink
<1>2. /\ x \in Disk /\ inode_release(f).bitmap = x.bitmap
      /\ BlocksOnce(x, entry \ {f}) /\ \A h \in entry \ {f} : Holds(x, h, len[h])
      /\ \A h \in entry \ {f} : x.inodes[h] = disk.inodes[h]
      /\ NoneLost(disk, entry) => NoneLost(x, entry \ {f})
  BY <1>1, ReleaseFacts
<1> HIDE DEF x
<1>3. /\ entry \in SUBSET File /\ opened \in SUBSET entry /\ inode \in [File -> Inode] /\ fd_pos \in [File -> Nat]
      /\ gen \in [File -> 0..MaxGen] /\ len \in [File -> Nat] /\ stops \in Nat
      /\ stops = 0 => NoneLost(disk, entry)
  BY DEF FilesInv
<1>4. \A h \in opened : /\ inode[h] = disk.inodes[h]
                        /\ fd_pos[h] <= len[h] \/ (len[h] = 0 /\ fd_pos[h] = Word - 1)
  BY DEF FilesInv
<1>5. /\ disk' \in Disk /\ bitmap' = disk'.bitmap /\ entry' \in SUBSET File /\ opened' \in SUBSET entry'
      /\ inode' \in [File -> Inode] /\ gen' \in [File -> 0..MaxGen] /\ len' \in [File -> Nat]
      /\ fd_pos' \in [File -> Nat] /\ stops' \in Nat
  BY <1>1, <1>2, <1>3
<1>6. \A h \in entry' : HoldsOf(disk', h, len'[h], gen'[h])
  BY <1>1, <1>2, HoldsOfFacts
<1>7. BlocksOnce(disk', entry') /\ (stops' = 0 => NoneLost(disk', entry'))
  BY <1>1, <1>2, <1>3
<1>8. \A h \in opened' : /\ inode'[h] = disk'.inodes[h]
                         /\ fd_pos'[h] <= len'[h] \/ (len'[h] = 0 /\ fd_pos'[h] = Word - 1)
  BY <1>1, <1>2, <1>3, <1>4
<1> QED BY <1>5, <1>6, <1>7, <1>8, FilesInvNext, Zenon

\* A position that is not in the file is far behind the end of any.
LEMMA FarPosition ==
  /\ Word - 1 \in Nat /\ (Word - 1) \div BlockSize >= AllBlocks - 1
  /\ \A count \in 0..MaxCount : ReadSize(Word - 1, count, 0) = 1
<1>1. /\ MaxCount \in Nat /\ Word \in Nat /\ Word > BlockSize * AllBlocks + MaxCount /\ BlockSize * AllBlocks \in Nat
      /\ BlockSize \in Nat \ {0} /\ AllBlocks \in Nat
  BY SizeFacts
<1> HIDE DEF AllBlocks
<1>2. Word - 1 \in Nat /\ ~(Word - 1 < BlockSize * AllBlocks)
  BY <1>1
<1>3. (Word - 1) \div BlockSize \in Nat
  BY <1>1, <1>2, DivFacts
<1>4. ~((Word - 1) \div BlockSize < AllBlocks)
  BY <1>1, <1>2, DivLess
<1>5. ASSUME NEW count \in 0..MaxCount PROVE ReadSize(Word - 1, count, 0) = 1
  <2>1. Word \in Nat \ {0} /\ count \in Nat /\ count < Word
    BY <1>1
  <2>2. (0 - (Word - 1)) % Word = 1 \/ Word = 1
    <3>1. 0 - (Word - 1) = Word * (-1) + 1
      BY <2>1
    <3> QED BY <2>1, <3>1
  <2>3. Word # 1
    <3>1. BlockSize * AllBlocks # 0
      <4>1. AllBlocks # 0
        BY SizeFacts
      <4> QED BY <1>1, <4>1
    <3> QED BY <1>1, <3>1
  <2>4. CASE count = 0
    <3>1. ((Word - 1) + 0) % Word = Word - 1 /\ Word - 1 > 0
      BY <2>1, <2>3
    <3> QED BY <2>2, <2>3, <2>4, <3>1 DEF ReadSize
  <2>5. CASE count # 0
    <3>1. ((Word - 1) + count) % Word = count - 1
      <4>1. (Word - 1) + count = Word * 1 + (count - 1) /\ count - 1 \in 0..Word - 1
        BY <2>1, <2>5
      <4> QED BY <2>1, <4>1, DivUnique
    <3>2. CASE count = 1
      BY <3>1, <3>2 DEF ReadSize
    <3>3. CASE count # 1
      <4>1. count - 1 > 0
        BY <2>1, <2>5, <3>3
      <4> QED BY <2>2, <2>3, <3>1, <4>1 DEF ReadSize
    <3> QED BY <3>2, <3>3
  <2> QED BY <2>4, <2>5
<1> QED BY <1>1, <1>2, <1>3, <1>4, <1>5

\* A read(): when it stops the machine, and what it returns if not.
LEMMA ReadFacts ==
  ASSUME FilesInv, NEW f \in opened, NEW count \in 0..MaxCount
  PROVE  LET r == file_read(f, count)
             pos == fd_pos[f]
             end == IF pos + count < len[f] THEN pos + count ELSE len[f]
             n == IF len[f] - pos < count THEN len[f] - pos ELSE count
         IN  /\ r.panic <=> pos = Word - 1 \/ ((pos < len[f] \/ count = 0) /\ end \div BlockSize >= AllBlocks - 1)
             /\ ~r.panic => /\ r.pos = pos + n /\ n \in Nat /\ pos + n <= len[f]
                            /\ r.bytes = [i \in 1..n |-> Byte(f, pos + i - 1)]
<1> DEFINE r == file_read(f, count)
           pos == fd_pos[f]
           l == len[f]
           end == IF pos + count < l THEN pos + count ELSE l
           n == IF l - pos < count THEN l - pos ELSE count
           ino == inode[f]
           size == ReadSize(pos, count, ino.size)
           first == pos \div BlockSize
           last == ((pos + size) % Word) \div BlockSize
           all == ReadMap(disk, ino, first, last)
           far == (pos + count) % Word > ino.size /\ size = 0
           panic == \/ first >= AllBlocks - 1 \/ last >= AllBlocks - 1
                    \/ first # last /\ last >= Direct /\ ~HasTable(ino)
           bytes == [i \in 1..size |-> disk.blocks[all[(pos + i - 1) \div BlockSize]][(pos + i - 1) % BlockSize]]
<1>1. r = IF far THEN [panic |-> FALSE, bytes |-> <<>>, pos |-> pos]
          ELSE [panic |-> panic, pos |-> pos + size, bytes |-> IF panic THEN <<>> ELSE bytes]
  BY DEF file_read
<1>2. /\ f \in entry /\ f \in File /\ ino = disk.inodes[f] /\ pos \in Nat
      /\ pos <= l \/ (l = 0 /\ pos = Word - 1)
      /\ Holds(disk, f, l)
  BY DEF FilesInv
<1>3. /\ ino.size = l /\ l \in Nat /\ l < BlockSize * AllBlocks /\ l + MaxCount < Word /\ l < Word - 1
      /\ Shaped(disk, f) /\ disk \in Disk /\ Word \in Nat /\ MaxCount \in Nat
  BY <1>2, LengthFacts
<1> HIDE DEF r, pos, l, ino, size, first, last, all, far, panic, bytes
<1>4. CASE pos = Word - 1
  <2>1. size = 1 /\ first >= AllBlocks - 1
    <3>1. l = 0
      BY <1>2, <1>3, <1>4
    <3> QED BY <1>3, <1>4, <3>1, FarPosition DEF size, first
  <2>2. ~far /\ panic
    BY <2>1 DEF far, panic
  <2>3. r.panic
    BY <1>1, <2>2
  <2> QED BY <1>4, <2>3 DEF r, pos
<1>5. CASE pos # Word - 1
  <2>1. pos <= l /\ count \in Nat /\ pos + count \in Nat /\ pos + count < Word
    BY <1>2, <1>3, <1>5
  <2>2. (pos + count) % Word = pos + count /\ (l - pos \in Nat /\ (l - pos) % Word = l - pos)
    BY <1>2, <1>3, <2>1
  <2>3. size = n /\ n \in Nat /\ pos + n = end /\ end <= l /\ end \in Nat /\ pos <= end
    BY <1>2, <1>3, <2>1, <2>2 DEF size, ReadSize
  <2>4. far <=> ~(pos < l \/ count = 0)
    BY <1>2, <1>3, <2>1, <2>2, <2>3 DEF far
  <2>5. last = end \div BlockSize
    BY <1>2, <1>3, <2>3 DEF last
  <2> HIDE DEF n, end
  <2>6. /\ BlockSize \in Nat \ {0} /\ Direct \in Nat \ {0} /\ AllBlocks \in Nat /\ Direct < AllBlocks
        /\ Slot = -1..AllBlocks - 1 /\ TABLE = -1
    BY SlotFacts
  <2>7. first \in Nat /\ last \in Nat /\ first <= last /\ last <= l \div BlockSize /\ l \div BlockSize \in Nat
    <3>1. pos \div BlockSize <= end \div BlockSize /\ end \div BlockSize \in Nat /\ pos \div BlockSize \in Nat
      BY <1>2, <2>3, <2>6, DivMonotonic
    <3>2. end \div BlockSize <= l \div BlockSize /\ l \div BlockSize \in Nat
      BY <1>3, <2>3, <2>6, DivMonotonic
    <3> QED BY <2>5, <3>1, <3>2 DEF first
  <2>8. last >= Direct => AtSlot(disk, f, TABLE) # 0 /\ HasTable(ino)
    <3> SUFFICES ASSUME last >= Direct PROVE AtSlot(disk, f, TABLE) # 0 /\ HasTable(ino)
      OBVIOUS
    <3>1. UsedBlocks(l) > Direct
      <4>1. UsedBlocks(l) = l \div BlockSize + 1
        BY <1>3, UsedBlocksFacts
      <4> QED BY <2>6, <2>7, <4>1
    <3>2. AtSlot(disk, f, TABLE) # 0
      BY <1>2, <1>3, <3>1, FitFacts
    <3>3. AtSlot(disk, f, TABLE) = ino.sectors[Direct]
      BY <1>2, <1>3, AtFacts
    <3> QED BY <3>2, <3>3 DEF HasTable
  <2>9. panic <=> last >= AllBlocks - 1
    BY <2>6, <2>7, <2>8 DEF panic
  <2>10. r.panic <=> (pos < l \/ count = 0) /\ end \div BlockSize >= AllBlocks - 1
    BY <1>1, <2>4, <2>5, <2>9
  <2>11. ASSUME ~panic, NEW i \in 1..n
         PROVE  disk.blocks[all[(pos + i - 1) \div BlockSize]][(pos + i - 1) % BlockSize] = Byte(f, pos + i - 1)
    <3> DEFINE o == pos + i - 1
               s == o \div BlockSize
    <3>1. o \in Nat /\ pos <= o /\ o < end /\ o \in 0..l - 1
      BY <1>2, <1>3, <2>3
    <3> HIDE DEF o
    <3>2. first <= s /\ s <= last /\ s \in Nat
      <4>1. pos \div BlockSize <= o \div BlockSize /\ o \div BlockSize \in Nat
        BY <1>2, <2>6, <3>1, DivMonotonic
      <4>2. o \in Nat /\ end \in Nat /\ o <= end
        BY <2>3, <3>1
      <4>3. o \div BlockSize <= end \div BlockSize
        BY <2>6, <4>2, DivMonotonic
      <4> QED BY <2>5, <4>1, <4>3 DEF first
    <3>3. s \in 0..AllBlocks - 1 /\ s \in Slot
      BY <2>6, <2>7, <2>9, <2>11, <3>2
    <3>4. disk.blocks[AtSlot(disk, f, s)][o % BlockSize] = Byte(f, o)
      BY <1>2, <3>1 DEF Holds
    <3> HIDE DEF s
    <3>5. all[s] = AtSlot(disk, f, s)
      <4>1. CASE s < Direct
        <5>1. s \in 0..Direct - 1 /\ s \in first..last
          BY <2>6, <2>7, <3>2, <4>1
        <5>2. AtSlot(disk, f, s) = ino.sectors[s]
          BY <1>2, <1>3, <5>1, AtFacts
        <5>3. all[s] = CASE s < Direct /\ s \in first..last -> ino.sectors[s]
                         [] s >= Direct /\ last >= Direct -> Table(disk, ino)[s - Direct]
                         [] OTHER -> 0
          BY <3>3 DEF all, ReadMap
        <5>4. all[s] = ino.sectors[s]
          BY <2>6, <3>3, <4>1, <5>1, <5>3
        <5> QED BY <5>2, <5>4
      <4>2. CASE ~(s < Direct)
        <5>1. s \in Direct..AllBlocks - 1 /\ last >= Direct /\ s >= Direct
          BY <2>6, <2>7, <3>2, <3>3, <4>2
        <5>2. AtSlot(disk, f, s) = disk.blocks[AtSlot(disk, f, TABLE)][s - Direct] /\ AtSlot(disk, f, TABLE) = ino.sectors[Direct]
          BY <1>2, <1>3, <2>8, <5>1, AtFacts
        <5>3. all[s] = disk.blocks[ino.sectors[Direct]][s - Direct]
          BY <3>3, <4>2, <5>1 DEF all, ReadMap, Table
        <5> QED BY <5>2, <5>3
      <4> QED BY <4>1, <4>2
    <3>6. disk.blocks[all[s]][o % BlockSize] = Byte(f, o)
      BY <3>4, <3>5
    <3> QED BY <3>6 DEF o, s
  <2>12. ~r.panic => r.pos = pos + n /\ r.bytes = [i \in 1..n |-> Byte(f, pos + i - 1)]
    <3> SUFFICES ASSUME ~r.panic PROVE r.pos = pos + n /\ r.bytes = [i \in 1..n |-> Byte(f, pos + i - 1)]
      OBVIOUS
    <3>1. CASE far
      <4>1. r.pos = pos /\ r.bytes = <<>> /\ n = 0
        BY <1>1, <2>3, <3>1 DEF far
      <4>2. <<>> = [i \in 1..0 |-> Byte(f, pos + i - 1)]
        OBVIOUS
      <4> QED BY <1>2, <4>1, <4>2
    <3>2. CASE ~far
      <4>1. ~panic /\ r.pos = pos + size /\ r.bytes = bytes
        BY <1>1, <3>2
      <4>2. bytes = [i \in 1..n |-> Byte(f, pos + i - 1)]
        BY <2>3, <2>11, <4>1 DEF bytes
      <4> QED BY <2>3, <4>1, <4>2
    <3> QED BY <3>1, <3>2
  <2> QED BY <1>5, <2>3, <2>10, <2>12 DEF r, pos, l, n, end
<1> QED BY <1>4, <1>5

\* A read() moves the position, not behind the end of the file.
LEMMA ReadKeeps ==
  ASSUME FilesInv, NEW f \in File, NEW count \in 0..MaxCount, sys_read(f, count)
  PROVE  FilesInv'
<1>1. f \in opened
  BY DEF sys_read
<1>2. CASE file_read(f, count).panic
  <2>1. PowerLoss
    BY <1>2 DEF sys_read, PowerLoss
  <2> QED BY <2>1, PowerLossKeeps
<1>3. CASE ~file_read(f, count).panic
  <2>1. /\ fd_pos' = [fd_pos EXCEPT ![f] = file_read(f, count).pos]
        /\ UNCHANGED <<disk, bitmap, inode, opened, entry, gen, len, stops>>
    BY <1>3 DEF sys_read
  <2>2. PICK n \in Nat : file_read(f, count).pos = fd_pos[f] + n /\ fd_pos[f] + n <= len[f]
    BY <1>1, <1>3, ReadFacts
  <2>3. /\ inode \in [File -> Inode] /\ fd_pos \in [File -> Nat] /\ opened \in SUBSET entry /\ entry \in SUBSET File
        /\ \A h \in opened : /\ inode[h] = disk.inodes[h]
                             /\ fd_pos[h] <= len[h] \/ (len[h] = 0 /\ fd_pos[h] = Word - 1)
    BY DEF FilesInv
  <2>4. opened' \in SUBSET entry /\ inode' \in [File -> Inode] /\ fd_pos' \in [File -> Nat]
    BY <2>1, <2>2, <2>3
  <2>5. ASSUME NEW h \in opened'
        PROVE  /\ inode'[h] = disk.inodes[h]
               /\ fd_pos'[h] <= len[h] \/ (len[h] = 0 /\ fd_pos'[h] = Word - 1)
    BY <2>1, <2>2, <2>3
  <2> QED BY <2>1, <2>4, <2>5, MemoryKeeps
<1> QED BY <1>2, <1>3

\* The position after a write() is at its last byte, or far behind the end.
LEMMA EndPosFacts ==
  ASSUME NEW n \in Nat, NEW count \in Nat, n + count < Word - 1
  PROVE  /\ EndPos(n, count) \in Nat
         /\ EndPos(n, count) <= n + count \/ (n + count = 0 /\ EndPos(n, count) = Word - 1)
<1>1. Word \in Nat \ {0}
  <2>1. Word \in Nat
    BY SizeFacts
  <2> QED BY <2>1
<1>2. CASE n + count = 0
  <2>1. n - 1 + count = -1 /\ n = 0 /\ count = 0
    BY <1>2
  <2>2. (0 - 1) % Word = Word - 1
    BY <1>1
  <2> QED BY <1>1, <1>2, <2>1, <2>2 DEF EndPos
<1>3. CASE n + count # 0
  <2>1. n - 1 + count \in Nat /\ n - 1 + count < Word /\ n - 1 + count <= n + count
    BY <1>1, <1>3
  <2>2. (n - 1 + count) % Word = n - 1 + count
    BY <1>1, <2>1
  <2> QED BY <2>1, <2>2 DEF EndPos
<1> QED BY <1>2, <1>3

\* A write() leaves the file with all of the bytes, or stops the machine.
LEMMA WriteKeeps ==
  ASSUME FilesInv, NEW f \in File, NEW count \in 0..MaxCount, sys_write(f, count)
  PROVE  FilesInv'
<1>1. f \in opened /\ count \in Nat
  BY SizeFacts DEF sys_write
<1> DEFINE w == file_write(f, count)
           x == After(disk, w.writes)
<1>2. CASE w.panic
  <2>1. Stop(After(disk, file_write(f, count).writes)) /\ UNCHANGED <<entry, len>>
    BY <1>2 DEF sys_write
  <2> QED BY <1>1, <1>2, <2>1, PanicKeeps
<1>3. CASE ~w.panic
  <2>1. /\ disk' = x /\ bitmap' = w.bitmap /\ inode' = [inode EXCEPT ![f] = w.inode]
        /\ fd_pos' = [fd_pos EXCEPT ![f] = EndPos(inode[f].size, count)]
        /\ len' = [len EXCEPT ![f] = @ + count]
        /\ opened' = opened /\ entry' = entry /\ gen' = gen /\ stops' = stops
    BY <1>3 DEF sys_write
  <2>2. PICK g : /\ Writable(disk, entry, f, count, g) /\ Done(disk, f, count, g, x)
                 /\ w.inode = NewInode(disk, f, count, g) /\ w.bitmap = Marked(disk, g)
    BY <1>1, <1>3, WriteFacts
  <2> HIDE DEF w, x
  <2>3. /\ entry \in SUBSET File /\ opened \in SUBSET entry /\ inode \in [File -> Inode] /\ fd_pos \in [File -> Nat]
        /\ gen \in [File -> 0..MaxGen] /\ len \in [File -> Nat] /\ stops \in Nat
        /\ stops = 0 => NoneLost(disk, entry)
    BY DEF FilesInv
  <2>4. \A h \in opened : /\ inode[h] = disk.inodes[h]
                          /\ fd_pos[h] <= len[h] \/ (len[h] = 0 /\ fd_pos[h] = Word - 1)
    BY DEF FilesInv
  <2>5. \A h \in entry : Holds(disk, h, len[h])
    BY DEF FilesInv
  <2>6. /\ BlocksOnce(x, entry) /\ (NoneLost(disk, entry) => NoneLost(x, entry))
        /\ \A h \in entry \ {f} : Holds(x, h, len[h])
        /\ Holds(x, f, len[f] + count)
    BY <2>2, <2>5, DoneSound
  <2>7. /\ x \in Disk /\ x.inodes = [disk.inodes EXCEPT ![f] = NewInode(disk, f, count, g)]
        /\ x.bitmap = Marked(disk, g)
    BY <2>2 DEF Done
  <2>8. NewInode(disk, f, count, g) \in Inode
    <3>1. gen \in [File -> Nat]
      BY <2>3
    <3> QED BY <2>2, <3>1, WrittenType
  <2>9. disk.inodes \in [File -> Inode]
    BY DEF FilesInv, Disk
  <2>10. /\ EndPos(inode[f].size, count) \in Nat
         /\ \/ EndPos(inode[f].size, count) <= len[f] + count
            \/ len[f] + count = 0 /\ EndPos(inode[f].size, count) = Word - 1
    <3>1. inode[f].size = len[f] /\ len[f] \in Nat
      BY <1>1, <2>3, <2>4, <2>5 DEF Holds
    <3>2. x.inodes[f].size = len[f] + count /\ x.inodes[f].size < BlockSize * AllBlocks
      BY <1>1, <2>3, <2>6 DEF BlocksOnce, Shaped, Holds
    <3>3. Word \in Nat /\ Word > BlockSize * AllBlocks + MaxCount /\ MaxCount \in Nat /\ BlockSize * AllBlocks \in Nat
      BY SizeFacts
    <3> HIDE DEF AllBlocks
    <3>4. len[f] + count < Word - 1
      BY <1>1, <3>1, <3>2, <3>3
    <3> QED BY <1>1, <3>1, <3>4, EndPosFacts
  <2>11. /\ disk' \in Disk /\ bitmap' = disk'.bitmap /\ entry' \in SUBSET File /\ opened' \in SUBSET entry'
         /\ gen' \in [File -> 0..MaxGen] /\ stops' \in Nat
    BY <2>1, <2>2, <2>3, <2>7
  <2>12. inode' \in [File -> Inode] /\ len' \in [File -> Nat] /\ fd_pos' \in [File -> Nat]
    BY <1>1, <2>1, <2>2, <2>3, <2>8, <2>10
  <2>13. BlocksOnce(disk', entry') /\ (stops' = 0 => NoneLost(disk', entry'))
    BY <2>1, <2>3, <2>6
  <2>14. ASSUME NEW h \in entry' PROVE HoldsOf(disk', h, len'[h], gen'[h])
    <3>1. CASE h = f
      <4>1. len'[h] = len[f] + count /\ HoldsOf(x, f, len[f] + count, gen[f])
        BY <2>1, <2>3, <2>6, <3>1, HoldsOfFacts
      <4> QED BY <2>1, <3>1, <4>1
    <3>2. CASE h # f
      <4>1. len'[h] = len[h] /\ HoldsOf(x, h, len[h], gen[h])
        BY <2>1, <2>3, <2>6, <3>2, HoldsOfFacts
      <4> QED BY <2>1, <4>1
    <3> QED BY <3>1, <3>2
  <2>15. ASSUME NEW h \in opened'
         PROVE  /\ inode'[h] = disk'.inodes[h]
                /\ fd_pos'[h] <= len'[h] \/ (len'[h] = 0 /\ fd_pos'[h] = Word - 1)
    <3>1. CASE h = f
      <4>1. inode'[h] = NewInode(disk, f, count, g) /\ disk'.inodes[h] = NewInode(disk, f, count, g)
        BY <2>1, <2>2, <2>3, <2>7, <2>9, <3>1
      <4>2. fd_pos'[h] = EndPos(inode[f].size, count) /\ len'[h] = len[f] + count
        BY <2>1, <2>3, <3>1
      <4> QED BY <2>10, <4>1, <4>2
    <3>2. CASE h # f
      <4>1. inode'[h] = inode[h] /\ disk'.inodes[h] = disk.inodes[h]
        BY <2>1, <2>3, <2>7, <2>9, <3>2
      <4>2. fd_pos'[h] = fd_pos[h] /\ len'[h] = len[h] /\ h \in opened
        BY <2>1, <2>3, <3>2
      <4> QED BY <2>4, <4>1, <4>2
    <3> QED BY <3>1, <3>2
  <2> QED BY <2>11, <2>12, <2>13, <2>14, <2>15, FilesInvNext, Zenon
<1> QED BY <1>2, <1>3

\* The number of the creation of a new file is one more than that of any.
LEMMA LastCreation ==
  ASSUME gen \in [File -> 0..MaxGen], File # {}
  PROVE  Max(Range(gen)) \in 0..MaxGen
<1> DEFINE S == {MaxGen - x : x \in Range(gen)}
<1>1. MaxGen \in Nat /\ Range(gen) \in SUBSET (0..MaxGen) /\ Range(gen) # {}
  BY FileBlocksAssumption DEF Range
<1>2. S \in SUBSET Nat /\ S # {}
  BY <1>1
<1>3. PICK y \in S : \A z \in S : y <= z
  BY <1>2, LeastOf
<1>4. PICK x \in Range(gen) : y = MaxGen - x
  OBVIOUS
<1>5. \A z \in Range(gen) : x >= z
  <2>1. ASSUME NEW z \in Range(gen) PROVE x >= z
    <3>1. y <= MaxGen - z
      BY <1>3
    <3> QED BY <1>1, <1>4, <3>1
  <2> QED BY <2>1
<1> HIDE DEF S
<1>6. Max(Range(gen)) \in Range(gen)
  BY <1>5 DEF Max
<1> QED BY <1>1, <1>6

\* A new file has an empty inode, on the disk and in memory.
LEMMA CreateKeeps ==
  ASSUME FilesInv, NEW f \in File, file_create(f)
  PROVE  FilesInv'
<1> DEFINE x == After(disk, <<inode_sync(f, Empty)>>)
           e == entry \cup {f}
           k == Max(Range(gen)) + 1
<1>1. /\ f \notin entry /\ disk' = x /\ bitmap' = bitmap /\ stops' = stops
      /\ inode' = [inode EXCEPT ![f] = Empty] /\ fd_pos' = [fd_pos EXCEPT ![f] = 0]
      /\ opened' = opened \cup {f} /\ entry' = e
      /\ gen' = [gen EXCEPT ![f] = k] /\ len' = [len EXCEPT ![f] = 0]
      /\ Max(Range(gen)) < MaxGen
  BY DEF file_create
<1>2. /\ disk \in Disk /\ bitmap = disk.bitmap
      /\ entry \in SUBSET File /\ opened \in SUBSET entry /\ inode \in [File -> Inode] /\ fd_pos \in [File -> Nat]
      /\ gen \in [File -> 0..MaxGen] /\ len \in [File -> Nat] /\ stops \in Nat
      /\ BlocksOnce(disk, entry)
  BY DEF FilesInv
<1>3. stops = 0 => NoneLost(disk, entry)
  BY DEF FilesInv
<1>4. \A h \in opened : /\ inode[h] = disk.inodes[h]
                        /\ fd_pos[h] <= len[h] \/ (len[h] = 0 /\ fd_pos[h] = Word - 1)
  BY DEF FilesInv
<1>5. \A h \in entry : Holds(disk, h, len[h])
  BY DEF FilesInv
<1>6. Empty \in Inode
  <2>1. 0 \in Nat /\ 0 \in 0..NBlock - 1
    BY SlotFacts
  <2> QED BY <2>1 DEF Empty, Inode
<1>7. x = Apply(disk, inode_sync(f, Empty))
  <2> DEFINE w == <<inode_sync(f, Empty)>>
  <2>1. Len(w) = 1 /\ w[1] = inode_sync(f, Empty)
    OBVIOUS
  <2> HIDE DEF w
  <2>2. PICK r : Steps(disk, w, r)
    <3>1. Len(w) \in Nat
      BY <2>1
    <3> QED BY <3>1, AfterSteps
  <2>3. r[0] = disk /\ After(disk, w) = r[1] /\ r[1] = Apply(r[0], w[1])
    <3>1. 1 \in 1..Len(w) /\ 1 - 1 = 0
      BY <2>1
    <3> QED BY <2>1, <2>2, <3>1 DEF Steps
  <2> QED BY <2>1, <2>3 DEF w
<1>8. /\ x \in Disk /\ x.bitmap = disk.bitmap /\ x.blocks = disk.blocks
      /\ x.inodes = [disk.inodes EXCEPT ![f] = Empty]
  BY <1>2, <1>6, <1>7, ApplyFacts
<1> HIDE DEF x, k
<1>9. /\ \A h \in entry : x.inodes[h] = disk.inodes[h]
      /\ x.inodes[f] = Empty
  <2>1. disk.inodes \in [File -> Inode]
    BY <1>2 DEF Disk
  <2> QED BY <1>1, <1>2, <1>8, <2>1
<1>10. /\ BlocksOnce(x, entry)
       /\ \A h \in entry : \A i \in Slot : AtSlot(x, h, i) = AtSlot(disk, h, i)
       /\ \A h \in entry : Holds(x, h, len[h])
  <2>1. \A h \in entry : \A i \in Slot : AtSlot(disk, h, i) # 0 => AtSlot(disk, h, i) \in x.bitmap
    BY <1>2, <1>8 DEF BlocksOnce
  <2>2. /\ BlocksOnce(x, entry)
        /\ \A h \in entry : \A i \in Slot : AtSlot(x, h, i) = AtSlot(disk, h, i)
        /\ \A h \in entry : \A n : Holds(disk, h, n) => Holds(x, h, n)
    BY <1>2, <1>8, <1>9, <2>1, SameFiles
  <2> QED BY <1>5, <2>2
<1>11. x.inodes[f].size = 0 /\ \A i \in Slot : AtSlot(x, f, i) = 0
  <2>1. /\ Empty.size = 0 /\ \A i \in 0..Direct : Empty.sectors[i] = 0
    BY DEF Empty
  <2>2. Direct \in Nat /\ TABLE = -1 /\ Slot = -1..AllBlocks - 1 /\ Direct \in 0..Direct
    BY SlotFacts
  <2>3. AtSlot(x, f, TABLE) = 0 /\ \A i \in 0..Direct - 1 : AtSlot(x, f, i) = 0
    <3>1. /\ AtSlot(x, f, TABLE) = x.inodes[f].sectors[Direct]
          /\ \A i \in 0..Direct - 1 : AtSlot(x, f, i) = x.inodes[f].sectors[i]
      BY <1>8, AtFacts
    <3>2. /\ AtSlot(x, f, TABLE) = Empty.sectors[Direct]
          /\ \A i \in 0..Direct - 1 : AtSlot(x, f, i) = Empty.sectors[i]
      BY <1>9, <3>1
    <3>3. \A i \in 0..Direct - 1 : i \in 0..Direct
      BY <2>2
    <3> QED BY <2>1, <2>2, <3>2, <3>3
  <2>4. \A i \in Direct..AllBlocks - 1 : AtSlot(x, f, i) = 0
    BY <1>8, <2>3, AtFacts
  <2>5. ASSUME NEW i \in Slot PROVE i = TABLE \/ i \in 0..Direct - 1 \/ i \in Direct..AllBlocks - 1
    <3>1. AllBlocks \in Nat
      BY SlotFacts
    <3> QED BY <2>2, <3>1
  <2> QED BY <1>9, <2>1, <2>3, <2>4, <2>5
<1>12. BlocksOnce(x, e)
  <2>1. Shaped(x, f)
    <3>1. 0 < BlockSize * AllBlocks
      <4>1. BlockSize \in Nat \ {0} /\ AllBlocks \in Nat \ {0}
        BY SlotFacts
      <4> QED BY <4>1
    <3> QED BY <1>11, <3>1 DEF Shaped, Blank
  <2> QED BY <1>10, <1>11, <2>1 DEF BlocksOnce
<1>13. NoneLost(disk, entry) => NoneLost(x, e)
  BY <1>8, <1>9, <1>10, <1>11 DEF NoneLost
<1>14. k \in 0..MaxGen
  <2>1. Max(Range(gen)) \in 0..MaxGen /\ MaxGen \in Nat
    BY <1>2, LastCreation, FileBlocksAssumption
  <2> QED BY <1>1, <2>1 DEF k
<1>15. /\ disk' \in Disk /\ bitmap' = disk'.bitmap /\ entry' \in SUBSET File /\ opened' \in SUBSET entry'
       /\ inode' \in [File -> Inode] /\ fd_pos' \in [File -> Nat] /\ stops' \in Nat
       /\ gen' \in [File -> 0..MaxGen] /\ len' \in [File -> Nat]
  BY <1>1, <1>2, <1>6, <1>8, <1>14
<1>16. BlocksOnce(disk', entry') /\ (stops' = 0 => NoneLost(disk', entry'))
  BY <1>1, <1>3, <1>12, <1>13
<1>17. ASSUME NEW h \in entry' PROVE HoldsOf(disk', h, len'[h], gen'[h])
  <2>1. CASE h = f
    <3>1. len'[h] = 0 /\ disk' = x
      BY <1>1, <1>2, <2>1
    <3> QED BY <1>11, <2>1, <3>1 DEF HoldsOf
  <2>2. CASE h # f
    <3>1. h \in entry /\ h \in File /\ len'[h] = len[h] /\ gen'[h] = gen[h]
      BY <1>1, <1>2, <2>2
    <3>2. HoldsOf(x, h, len[h], gen[h])
      BY <1>10, <3>1, HoldsOfFacts
    <3> QED BY <1>1, <3>1, <3>2
  <2> QED BY <2>1, <2>2
<1>18. ASSUME NEW h \in opened'
       PROVE  /\ inode'[h] = disk'.inodes[h]
              /\ fd_pos'[h] <= len'[h] \/ (len'[h] = 0 /\ fd_pos'[h] = Word - 1)
  <2>1. CASE h = f
    BY <1>1, <1>2, <1>9, <2>1
  <2>2. CASE h # f
    <3>1. h \in opened /\ h \in entry /\ inode'[h] = inode[h] /\ fd_pos'[h] = fd_pos[h] /\ len'[h] = len[h]
      BY <1>1, <1>2, <2>2
    <3> QED BY <1>1, <1>4, <1>9, <3>1
  <2> QED BY <2>1, <2>2
<1> QED BY <1>15, <1>16, <1>17, <1>18, FilesInvNext, Zenon

\* The disk as it is formatted.
LEMMA FilesInitial ==
  ASSUME FilesInit
  PROVE  FilesInv
<1>1. Empty \in Inode
  <2>1. 0 \in Nat /\ 0 \in 0..NBlock - 1
    BY SlotFacts
  <2> QED BY <2>1 DEF Empty, Inode
<1>2. Unwritten \in [0..BlockSize - 1 -> Nat]
  BY DEF Unwritten
<1>3. MaxGen \in Nat
  BY FileBlocksAssumption
<1>4. disk \in Disk
  BY <1>1, <1>2 DEF FilesInit, Disk
<1>5. BlocksOnce(disk, {}) /\ NoneLost(disk, {})
  BY DEF FilesInit, BlocksOnce, NoneLost
<1> QED BY <1>1, <1>3, <1>4, <1>5 DEF FilesInit, FilesInv

\* FilesInv is an invariant, whenever the power fails.
THEOREM FilesInvariant == FilesSpec => []FilesInv
<1>1. FilesInit => FilesInv
  BY FilesInitial
<1>2. FilesInv /\ [FilesNext]_files_vars => FilesInv'
  <2> SUFFICES ASSUME FilesInv, [FilesNext]_files_vars PROVE FilesInv'
    OBVIOUS
  <2>1. CASE UNCHANGED files_vars
    <3>1. UNCHANGED <<disk, bitmap, entry, gen, len, stops>> /\ opened' = opened /\ inode' = inode /\ fd_pos' = fd_pos
      BY <2>1 DEF files_vars
    <3>2. /\ opened \in SUBSET entry /\ inode \in [File -> Inode] /\ fd_pos \in [File -> Nat]
          /\ \A f \in opened : /\ inode[f] = disk.inodes[f]
                               /\ fd_pos[f] <= len[f] \/ (len[f] = 0 /\ fd_pos[f] = Word - 1)
      BY DEF FilesInv
    <3>3. opened' \in SUBSET entry /\ inode' \in [File -> Inode] /\ fd_pos' \in [File -> Nat]
      BY <3>1, <3>2
    <3>4. \A f \in opened' : /\ inode'[f] = disk.inodes[f]
                             /\ fd_pos'[f] <= len[f] \/ (len[f] = 0 /\ fd_pos'[f] = Word - 1)
      BY <3>1, <3>2
    <3> QED BY <3>1, <3>3, <3>4, MemoryKeeps
  <2>2. ASSUME NEW f \in File, file_create(f) PROVE FilesInv'
    BY <2>2, CreateKeeps
  <2>3. ASSUME NEW f \in File, file_open(f) PROVE FilesInv'
    BY <2>3, OpenKeeps
  <2>4. ASSUME NEW f \in File, file_close(f) PROVE FilesInv'
    BY <2>4, CloseKeeps
  <2>5. ASSUME NEW f \in File, sys_unlink(f) PROVE FilesInv'
    BY <2>5, UnlinkKeeps
  <2>6. ASSUME NEW f \in File, NEW count \in 0..MaxCount, sys_write(f, count) PROVE FilesInv'
    BY <2>6, WriteKeeps
  <2>7. ASSUME NEW f \in File, NEW count \in 0..MaxCount, sys_read(f, count) PROVE FilesInv'
    BY <2>7, ReadKeeps
  <2>8. ASSUME NEW f \in File, NEW count \in 0..MaxCount, PowerLossInWrite(f, count) PROVE FilesInv'
    BY <2>8, PowerLossInWriteKeeps
  <2>9. ASSUME NEW f \in File, NEW offset, NEW whence, sys_lseek(f, offset, whence) PROVE FilesInv'
    BY <2>9, LseekKeeps
  <2>10. ASSUME NEW f \in File, PowerLossInUnlink(f) PROVE FilesInv'
    BY <2>10, PowerLossInUnlinkKeeps
  <2>11. CASE PowerLoss
    BY <2>11, PowerLossKeeps
  <2> QED BY <2>1, <2>2, <2>3, <2>4, <2>5, <2>6, <2>7, <2>8, <2>9, <2>10, <2>11 DEF FilesNext
<1> QED BY <1>1, <1>2, PTL DEF FilesSpec

\* No block has two uses and every block in use is marked, on the disk and in memory,
\* whatever write() and unlink() the power interrupted; and no block is lost before.
THEOREM NoBlockTwiceOrLost == FilesSpec => []BlocksExact
<1>1. ASSUME FilesInv PROVE BlocksExact
  <2> DEFINE used == {AtSlot(disk, f, i) : f \in entry, i \in Slot} \ {0}
  <2>1. /\ bitmap = disk.bitmap /\ BlocksOnce(disk, entry) /\ (stops = 0 => NoneLost(disk, entry))
        /\ disk.bitmap \in SUBSET Block
    BY <1>1 DEF FilesInv, Disk
  <2>2. \A f, g \in entry : \A i, j \in Slot : AtSlot(disk, f, i) = AtSlot(disk, g, j) /\ AtSlot(disk, f, i) # 0 => f = g /\ i = j
    BY <2>1 DEF BlocksOnce
  <2>3. used \subseteq disk.bitmap
    BY <2>1 DEF BlocksOnce
  <2>4. stops = 0 => disk.bitmap \subseteq used
    <3> SUFFICES ASSUME stops = 0, NEW b \in disk.bitmap PROVE b \in used
      OBVIOUS
    <3>1. PICK f \in entry, i \in Slot : AtSlot(disk, f, i) = b
      BY <2>1 DEF NoneLost
    <3>2. b # 0
      BY <2>1 DEF Block
    <3> QED BY <3>1, <3>2
  <2>5. stops = 0 => used = bitmap
    BY <2>1, <2>3, <2>4
  <2> QED BY <2>1, <2>2, <2>3, <2>5 DEF BlocksExact, AtSlot
<1> QED BY <1>1, FilesInvariant, PTL

\* What file_write() wrote is on the disk, at its place, and file_read() returns it, also
\* after a loss of power.
THEOREM WrittenIsReadBack == FilesSpec => []ReadsBack
<1>1. ASSUME FilesInv PROVE ReadsBack
  <2>1. ASSUME NEW f \in entry PROVE Contents(f) = [o \in 0..len[f] - 1 |-> Byte(f, o)]
    <3>1. Holds(disk, f, len[f])
      BY <1>1 DEF FilesInv
    <3> QED BY <3>1 DEF Holds, Contents, AtSlot
  <2>2. ASSUME NEW f \in opened, NEW count \in 0..MaxCount, ~file_read(f, count).panic
        PROVE  file_read(f, count).bytes =
                 [i \in 1..(IF len[f] - fd_pos[f] < count THEN len[f] - fd_pos[f] ELSE count) |->
                    Byte(f, fd_pos[f] + i - 1)]
    BY <1>1, <2>2, ReadFacts
  <2> QED BY <2>1, <2>2 DEF ReadsBack
<1> QED BY <1>1, FilesInvariant, PTL

\* Within the limits no write() and no read() meets an ASSERT, for every size of
\* blocks, inodes and disks.
THEOREM StopsOnlyAtLimits == FilesSpec => []NoAssertWithinLimits
<1>1. ASSUME FilesInv PROVE NoAssertWithinLimits
  <2> SUFFICES ASSUME NEW f \in opened, NEW count \in 0..MaxCount
               PROVE
    LET first == IF len[f] = 0 /\ inode[f].sectors[0] = 0 THEN 1 ELSE 0
        more == (len[f] + count) \div BlockSize - len[f] \div BlockSize
        table == IF len[f] < Direct * BlockSize
                   /\ len[f] + count >= Direct * BlockSize THEN 1 ELSE 0
        last == IF fd_pos[f] + count < len[f] THEN fd_pos[f] + count ELSE len[f]
    IN  /\ len[f] + count < BlockSize * AllBlocks
             /\ first + more + table <= Len(FreeBlocks(bitmap)) => ~file_write(f, count).panic
        /\ fd_pos[f] # Word - 1 /\ last \div BlockSize < AllBlocks - 1 => ~file_read(f, count).panic
    BY DEF NoAssertWithinLimits
  <2> DEFINE n == len[f]
             ino == inode[f]
             free == Len(FreeBlocks(bitmap))
             first == IF n = 0 /\ ino.sectors[0] = 0 THEN 1 ELSE 0
             more == (n + count) \div BlockSize - n \div BlockSize
             table == IF n < Direct * BlockSize /\ n + count >= Direct * BlockSize THEN 1 ELSE 0
             slots == Len(FirstSlot(ino) \o NewSlots(ino, count))
             has == UsedBlocks(n)
             will == UsedBlocks(n + count)
  <2>1. f \in entry /\ ino = disk.inodes[f] /\ count \in Nat
    BY <1>1, SizeFacts DEF FilesInv
  <2>2. n \in Nat /\ ino.size = n /\ Shaped(disk, f) /\ disk \in Disk /\ f \in File
    BY <1>1, <2>1, LengthFacts
  <2>3. ino \in Inode
    BY <2>1, <2>2, AtFacts
  <2>4. file_write(f, count).panic <=> ~(will <= AllBlocks) \/ slots > free
    <3>1. file_write(f, count).panic <=> ~(UsedBlocks(ino.size + count) <= AllBlocks) \/ slots > free
      BY <1>1, <2>1, WriteFacts
    <3> QED BY <2>2, <3>1
  <2> HIDE DEF n, ino, free, slots
  <2>5. n + count \in Nat
    BY <2>1, <2>2
  <2>6. /\ has = n \div BlockSize + 1 /\ n \div BlockSize \in Nat
        /\ has > Direct <=> ~(n < BlockSize * Direct)
    BY <2>2, UsedBlocksFacts
  <2>7. /\ will = (n + count) \div BlockSize + 1 /\ (n + count) \div BlockSize \in Nat
        /\ will <= AllBlocks <=> n + count < BlockSize * AllBlocks
        /\ will > Direct <=> ~(n + count < BlockSize * Direct)
    BY <2>5, UsedBlocksFacts
  <2> HIDE DEF has, will
  <2>8. ino.sectors[0] = 0 => n = 0
    <3> SUFFICES ASSUME ino.sectors[0] = 0, n # 0 PROVE FALSE
      OBVIOUS
    <3>1. Direct \in Nat \ {0} /\ AllBlocks \in Nat /\ Direct < AllBlocks /\ TABLE = -1 /\ Slot = -1..AllBlocks - 1
      BY SlotFacts
    <3>2. 0 \in 0..Direct - 1 /\ 0 \in Slot /\ 0 # TABLE
      BY <3>1
    <3>3. AtSlot(disk, f, 0) = 0
      BY <2>1, <2>2, <3>2, AtFacts
    <3>4. 0 \in Needs(n)
      BY <2>6, <3>2 DEF Needs, has
    <3>5. disk.inodes[f].size = n
      BY <2>1, <2>2
    <3>6. disk.inodes[f].size # 0
      BY <3>5
    <3> QED BY <2>2, <3>2, <3>3, <3>4, <3>5, <3>6 DEF Shaped, Blank
  <2>9. will <= AllBlocks => slots = first + more + table
    <3> SUFFICES ASSUME will <= AllBlocks PROVE slots = first + more + table
      OBVIOUS
    <3>1. UsedBlocks(ino.size + count) <= AllBlocks
      BY <2>2 DEF will
    <3>2. slots = (IF ino.sectors[0] = 0 THEN 1 ELSE 0)
                    + (IF UsedBlocks(ino.size) <= Direct /\ UsedBlocks(ino.size + count) > Direct THEN 1 ELSE 0)
                    + (UsedBlocks(ino.size + count) - UsedBlocks(ino.size))
      <4>1. PICK q : q = FirstSlot(ino) \o NewSlots(ino, count)
        OBVIOUS
      <4>2. Len(q) = (IF ino.sectors[0] = 0 THEN 1 ELSE 0)
                       + (IF UsedBlocks(ino.size) <= Direct /\ UsedBlocks(ino.size + count) > Direct THEN 1 ELSE 0)
                       + (UsedBlocks(ino.size + count) - UsedBlocks(ino.size))
        <5>1. SlotsSound(ino, count, q)
          BY <2>1, <2>3, <3>1, <4>1, SlotsFacts
        <5> QED BY <5>1 DEF SlotsSound
      <4> QED BY <4>1, <4>2 DEF slots
    <3>3. slots = (IF ino.sectors[0] = 0 THEN 1 ELSE 0)
                    + (IF has <= Direct /\ will > Direct THEN 1 ELSE 0) + (will - has)
      BY <2>2, <3>2 DEF has, will
    <3>4. (IF ino.sectors[0] = 0 THEN 1 ELSE 0) = first
      BY <2>8
    <3>5. (IF has <= Direct /\ will > Direct THEN 1 ELSE 0) = table
      <4>1. Direct \in Nat /\ BlockSize * Direct = Direct * BlockSize /\ BlockSize * Direct \in Nat
        BY SizeFacts
      <4>2. has <= Direct <=> n < Direct * BlockSize
        BY <2>6, <4>1
      <4>3. will > Direct <=> n + count >= Direct * BlockSize
        BY <2>5, <2>7, <4>1
      <4> QED BY <4>2, <4>3
    <3>6. will - has = more
      BY <2>6, <2>7
    <3>7. first \in Nat /\ table \in Nat /\ more \in Int
      BY <2>6, <2>7
    <3> HIDE DEF first, table, more
    <3> QED BY <3>3, <3>4, <3>5, <3>6, <3>7
  <2> HIDE DEF first, more, table
  <2> DEFINE last == IF fd_pos[f] + count < len[f] THEN fd_pos[f] + count ELSE len[f]
  <2>10. free \in Nat
    <3>1. 1 \in Int /\ NBlock - 1 \in Int /\ Block \ bitmap \in SUBSET (1..NBlock - 1)
      BY FileBlocksAssumption DEF Block
    <3> QED BY <3>1, SortedFacts DEF FreeBlocks, free
  <2>11. n + count < BlockSize * AllBlocks /\ first + more + table <= free => ~file_write(f, count).panic
    <3>1. BlockSize * AllBlocks \in Nat /\ free \in Nat /\ first + more + table \in Int
      <4>1. first \in Nat /\ table \in Nat /\ more \in Int
        BY <2>6, <2>7 DEF first, table, more
      <4>2. BlockSize * AllBlocks \in Nat
        BY SizeFacts
      <4> QED BY <2>10, <4>1, <4>2
    <3> HIDE DEF AllBlocks
    <3> QED BY <2>4, <2>5, <2>7, <2>9, <3>1
  <2>12. fd_pos[f] # Word - 1 /\ last \div BlockSize < AllBlocks - 1 => ~file_read(f, count).panic
    <3>1. file_read(f, count).panic <=>
            \/ fd_pos[f] = Word - 1
            \/ (fd_pos[f] < len[f] \/ count = 0) /\ last \div BlockSize >= AllBlocks - 1
      BY <1>1, ReadFacts DEF last
    <3>2. last \div BlockSize \in Int /\ AllBlocks - 1 \in Int
      <4>1. len[f] \in Nat /\ fd_pos[f] + count \in Nat
        <5>1. fd_pos[f] \in Nat /\ len[f] \in Nat
          BY <1>1, <2>1, <2>2 DEF FilesInv
        <5>2. count \in Nat
          BY SizeFacts
        <5> QED BY <5>1, <5>2
      <4>2. last \in Nat
        BY <4>1
      <4>3. BlockSize \in Nat \ {0} /\ AllBlocks \in Nat
        BY SizeFacts
      <4> HIDE DEF last, AllBlocks
      <4> QED BY <4>2, <4>3
    <3> HIDE DEF last, AllBlocks
    <3> QED BY <3>1, <3>2
  <2> QED BY <2>11, <2>12 DEF n, ino, free, first, more, table
<1> QED BY <1>1, FilesInvariant, PTL
=============================================================================
