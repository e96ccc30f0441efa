--------------------------- MODULE FileTableProofs ---------------------------
(***************************************************************************)
(* Until the table is spoiled, a pipe stays just as long as it has         *)
(* descriptors, shared by fork and closed in any order, and an open file   *)
(* has its name, its number and one inode in memory: invariants of module  *)
(* FileTable, for every number of processes, descriptors, slots, names and *)
(* inode numbers.                                                          *)
(*                                                                         *)
(* FileInv is inductive.  The counts alone are not: what a close() may     *)
(* free depends on which slots share an inode, whether the inode is in the *)
(* list, and what the call that waits for the disk has taken already.  So  *)
(* FileInv says, part by part, what a descriptor, a slot, an inode of the  *)
(* list, an address and a waiting call each rely on.  There is always a    *)
(* free address for an inode (NewAddrFacts) because each address in use is *)
(* that of a slot or of the one call.                                      *)
(*                                                                         *)
(* exit() closes the descriptors one after the other with a recursive      *)
(* function.  ReleaseSteps shows that the function exists, from the least  *)
(* number for which it would not; ReleaseSound that each of its states is  *)
(* as the invariant says, from the least one that would not be.            *)
(***************************************************************************)
EXTENDS FileTable, FiniteSetTheorems, WellFoundedInduction, TLAPS

-----------------------------------------------------------------------------
\* The invariant is stated of any fd, table, mem and open_inodes, for the
\* states that release_prog_resource() goes through.

\* A descriptor has a slot of the table, and its file is that of the slot.
FdInv(f, t, m) ==
  \A q \in Proc, j \in Fd : f[q][j] # NoFd =>
    LET s == f[q][j].slot
    IN  /\ q \in alive /\ s \in Slot /\ t[s].fd_inode # NULL /\ ~Creating(s)
        /\ f[q][j].file = IF t[s].fd_flag = "pipe" THEN <<"pipe", t[s].fd_inode>>
                          ELSE <<"file", m[t[s].fd_inode].no>>

At(l, a) == \E i \in 1..Len(l) : l[i] = a

\* A slot has a page that no other slot has, or an inode of the list.
SlotInv(t, m, l) ==
  \A s \in Slot : t[s].fd_inode # NULL =>
    LET a == t[s].fd_inode
    IN  /\ m[a].space # "free"
        /\ t[s].fd_flag = "pipe" =>
             /\ ~At(l, a) /\ \A r \in Slot : t[r].fd_inode = a => r = s
             /\ \A q \in Proc : pending[q].addr # a
        /\ t[s].fd_flag # "pipe" => Creating(s) \/ At(l, a)

\* An inode of the list is that of a file, and the only one of it.
ListInv(m, l) ==
  /\ \A i, j \in 1..Len(l) : m[l[i]].no = m[l[j]].no => i = j
  /\ \A i \in 1..Len(l) :
       /\ m[l[i]].space # "free" /\ m[l[i]].no \in inode_bitmap
       /\ \/ \E name \in Name : dir[name] = m[l[i]].no
          \/ \E q \in Proc : pending[q].op = "release" /\ pending[q].addr = l[i]

\* What is in memory is there for a slot or for a call that waits.
MemInv(t, m) ==
  \A a \in Addr : m[a].space # "free" =>
    (\E s \in Slot : t[s].fd_inode = a) \/ (\E q \in Proc : pending[q].addr = a)

Inodes(t, a) == {s \in Slot : t[s].fd_inode = a /\ t[s].fd_flag # "pipe"}
Got(f, S) == {d \in Proc \X Fd : f[d[1]][d[2]].slot \in S}
Missed(u, S) == {x \in S \X {1, 2} : x[2] <= u[x[1]]}
Uses(f, u, S) == Cardinality(Got(f, S)) + Cardinality(Missed(u, S))
Holders(a) == {q \in Proc : pending[q].op = "release" /\ pending[q].addr = a}

\* The counts are exact.
CountInv(f, t, m, l) ==
  /\ \A i \in 1..Len(l) :
       m[l[i]].i_open_cnts = Uses(f, unfilled, Inodes(t, l[i])) + Cardinality(Holders(l[i]))
  /\ \A s \in Slot : t[s].fd_inode # NULL /\ t[s].fd_flag = "pipe" =>
       t[s].fd_pos > 0 /\ t[s].fd_pos = Uses(f, unfilled, {s})

\* A slot of a file has descriptors, or one was missed when it was taken.
UnfilledInv(f, t) ==
  \A s \in Slot :
    /\ unfilled[s] \in 0..2
    /\ t[s].fd_inode = NULL \/ Creating(s) => unfilled[s] = 0
    /\ t[s].fd_inode # NULL /\ t[s].fd_flag # "pipe" /\ ~Creating(s) =>
         IF unfilled[s] = 0 THEN \E q \in Proc, j \in Fd : f[q][j].slot = s
         ELSE unfilled[s] = 1 /\ \A q \in Proc, j \in Fd : f[q][j].slot # s

\* What a call that waits for the disk relies on.
CallInv(c, t, m, l) ==
  LET unlisted == \A i \in 1..Len(l) : m[l[i]].no # c.no
  IN  /\ c.op \in {"open", "create", "release"} =>
           c.addr \in Addr /\ m[c.addr].space # "free" /\ m[c.addr].no = c.no
      /\ c.op \in {"none", "delete"} => c.addr = NULL
      /\ c.op \in {"open", "create"} => c.slot \in Slot /\ ~At(l, c.addr) /\ unlisted
      /\ c.op # "none" => c.name \in Name /\ c.no \in inode_bitmap
      /\ c.op = "open" => dir[c.name] = c.no /\ \A s \in Slot : t[s].fd_inode # c.addr
      /\ c.op = "create" =>
           /\ t[c.slot].fd_inode = c.addr /\ t[c.slot].fd_flag # "pipe"
           /\ \A s \in Slot : t[s].fd_inode = c.addr => s = c.slot
           /\ dir[c.name] = 0 /\ \A name \in Name : dir[name] # c.no
      /\ c.op = "delete" => dir[c.name] = c.no /\ unlisted
      /\ c.op = "release" =>
           /\ At(l, c.addr) /\ \A s \in Slot : t[s].fd_inode # c.addr
           /\ \A name \in Name : dir[name] # c.no

PendInv(t, m, l) ==
  /\ \A q, r \in Proc : pending[q] # NoCall /\ pending[r] # NoCall => q = r
  /\ \A q \in Proc : /\ pending[q] # NoCall => q \in alive /\ pending[q].op # "none"
                     /\ CallInv(pending[q], t, m, l)

DirInv ==
  /\ \A n \in Name : dir[n] # 0 => dir[n] \in inode_bitmap
  /\ \A m, n \in Name : dir[m] = dir[n] /\ dir[m] # 0 => m = n

TableInv(f, t, m, l) ==
  /\ FdInv(f, t, m) /\ SlotInv(t, m, l) /\ ListInv(m, l) /\ MemInv(t, m)
  /\ CountInv(f, t, m, l) /\ UnfilledInv(f, t) /\ PendInv(t, m, l)

FileInv == TypeOK /\ (spoiled = "no" => TableInv(fd, table, mem, open_inodes) /\ DirInv)
-----------------------------------------------------------------------------
\* A set of natural numbers that is not empty has a least one.
LEMMA LowestFacts ==
  ASSUME NEW S \in SUBSET Nat, S # {}
  PROVE  Lowest(S) \in S /\ \A n \in S : Lowest(S) <= n
<1> DEFINE R == OpToRel(<, Nat)
<1>1. IsWellFoundedOn(R, Nat)
  BY NatLessThanWellFounded
<1>2. \A x, y \in Nat : <<y, x>> \in R <=> y < x
  BY DEF OpToRel
<1> HIDE DEF R
<1>3. \E x \in S : \A y \in S : ~(<<y, x>> \in R)
  BY <1>1, WFMin
<1>4. \E x \in S : \A y \in S : ~(y < x)
  BY <1>2, <1>3, Zenon
<1>5. \E x \in S : \A y \in S : x <= y
  BY <1>4
<1> QED BY <1>5 DEF Lowest

\* release_prog_resource() goes through states, each of which is the one before
\* it or comes from it by closing one descriptor.
LEMMA ReleaseSteps ==
  ASSUME NEW p \in Proc, NEW last
  PROVE  \E c : /\ c[0] = Files /\ release_prog_resource(p, last) = c[NFd]
                /\ \A i \in 1..NFd :
                     c[i] = IF fd[p][i] = NoFd THEN c[i - 1] ELSE sys_close(c[i - 1], p, i, last)
<1> USE FileTableAssumption
<1> DEFINE Step(f, i) == IF i = 0 THEN Files
                         ELSE IF fd[p][i] = NoFd THEN f[i - 1] ELSE sys_close(f[i - 1], p, i, last)
           Good(f, n) == f = [i \in 0..n |-> Step(f, i)]
           Bad == {n \in Nat : ~\E f : Good(f, n)}
<1>1. Bad = {}
  <2> SUFFICES ASSUME Bad # {} PROVE FALSE
    OBVIOUS
  <2> DEFINE n == Lowest(Bad)
  <2>1. n \in Bad /\ \A m \in Bad : n <= m
    BY LowestFacts
  <2> HIDE DEF n
  <2>2. n # 0
    <3>1. Good([i \in 0..0 |-> Files], 0)
      OBVIOUS
    <3> QED BY <2>1, <3>1
  <2>3. n - 1 \in Nat /\ n - 1 \notin Bad
    BY <2>1, <2>2
  <2>4. PICK f : Good(f, n - 1)
    BY <2>3
  <2> DEFINE g == [i \in 0..n |-> Step(f, i)]
  <2>5. Good(g, n)
    <3>1. \A i \in 0..n - 1 : g[i] = f[i]
      <4>1. ASSUME NEW i \in 0..n - 1 PROVE f[i] = Step(f, i) /\ i \in 0..n
        <5> HIDE DEF Step
        <5> QED BY <2>1, <2>4
      <4>2. \A i \in 0..n : g[i] = Step(f, i)
        OBVIOUS
      <4> QED BY <4>1, <4>2
    <3>2. \A i \in 0..n : Step(g, i) = Step(f, i)
      <4> SUFFICES ASSUME NEW i \in 0..n PROVE Step(g, i) = Step(f, i)
        OBVIOUS
      <4> HIDE DEF g
      <4>1. CASE i = 0
        BY <4>1
      <4>2. CASE i # 0
        <5>1. g[i - 1] = f[i - 1]
          BY <2>1, <3>1, <4>2
        <5> QED BY <4>2, <5>1
      <4> QED BY <4>1, <4>2
    <3> HIDE DEF Step
    <3> QED BY <3>2
  <2> QED BY <2>1, <2>5
<1> DEFINE closed[i \in 0..NFd] == IF i = 0 THEN Files
        ELSE IF fd[p][i] = NoFd THEN closed[i - 1] ELSE sys_close(closed[i - 1], p, i, last)
<1>2. release_prog_resource(p, last) = closed[NFd]
  BY DEF release_prog_resource
<1>3. \E f : Good(f, NFd)
  BY <1>1
<1>4. closed = [i \in 0..NFd |-> Step(closed, i)]
  BY <1>3
<1> HIDE DEF closed
<1> QED BY <1>2, <1>4
-----------------------------------------------------------------------------
\* The counts.
LEMMA UsesFacts ==
  ASSUME NEW f, NEW u, NEW S \in SUBSET Slot
  PROVE  /\ IsFiniteSet(Got(f, S)) /\ Cardinality(Got(f, S)) \in Nat
         /\ IsFiniteSet(Missed(u, S)) /\ Cardinality(Missed(u, S)) \in Nat
         /\ Uses(f, u, S) \in Nat
<1> USE FileTableAssumption
<1>1. IsFiniteSet(Slot) /\ IsFiniteSet(Fd) /\ IsFiniteSet({1, 2})
  <2>1. NSlot \in Int /\ NFd \in Int /\ {1, 2} = 1..2 /\ 1 \in Int /\ 2 \in Int
    OBVIOUS
  <2>2. IsFiniteSet(1..NSlot) /\ IsFiniteSet(1..NFd) /\ IsFiniteSet(1..2)
    BY <2>1, FS_Interval, Zenon
  <2> QED BY <2>1, <2>2 DEF Slot, Fd
<1>2. IsFiniteSet(Proc \X Fd) /\ IsFiniteSet(Slot \X {1, 2})
  BY <1>1, ProcAssumption, FS_Product
<1>3. Got(f, S) \subseteq Proc \X Fd /\ Missed(u, S) \subseteq Slot \X {1, 2}
  BY DEF Got, Missed
<1>4. IsFiniteSet(Got(f, S)) /\ IsFiniteSet(Missed(u, S))
  BY <1>2, <1>3, FS_Subset
<1>5. Cardinality(Got(f, S)) \in Nat /\ Cardinality(Missed(u, S)) \in Nat
  BY <1>4, FS_CardinalityType
<1> QED BY <1>4, <1>5 DEF Uses

\* One descriptor more for the slots S.
OneMore(f, g, S, p, i) ==
  /\ f[p][i].slot \notin S /\ g[p][i].slot \in S
  /\ \A q \in Proc, j \in Fd : <<q, j>> # <<p, i>> => g[q][j].slot = f[q][j].slot

\* It is counted once.
LEMMA GotOneMore ==
  ASSUME NEW f, NEW g, NEW S \in SUBSET Slot, NEW p \in Proc, NEW i \in Fd, OneMore(f, g, S, p, i)
  PROVE  Cardinality(Got(g, S)) = Cardinality(Got(f, S)) + 1
<1> USE DEF OneMore
<1>1. <<p, i>> \notin Got(f, S) /\ Got(g, S) = Got(f, S) \cup {<<p, i>>}
  <2>1. <<p, i>> \notin Got(f, S) /\ <<p, i>> \in Got(g, S)
    BY DEF Got
  <2>2. ASSUME NEW d \in Proc \X Fd, d # <<p, i>> PROVE d \in Got(g, S) <=> d \in Got(f, S)
    <3>1. PICK q \in Proc, j \in Fd : d = <<q, j>>
      OBVIOUS
    <3>2. g[q][j].slot = f[q][j].slot
      BY <2>2, <3>1
    <3> QED BY <3>1, <3>2 DEF Got
  <2>3. Got(f, S) \subseteq Proc \X Fd /\ Got(g, S) \subseteq Proc \X Fd
    BY DEF Got
  <2> QED BY <2>1, <2>2, <2>3
<1>2. IsFiniteSet(Got(f, S))
  BY UsesFacts
<1> QED BY <1>1, <1>2, FS_AddElement

\* The same descriptors for the slots S.
LEMMA GotSame ==
  ASSUME NEW f, NEW g, NEW S,
         \A q \in Proc, j \in Fd : g[q][j].slot \in S <=> f[q][j].slot \in S
  PROVE  Got(g, S) = Got(f, S)
<1>1. ASSUME NEW d \in Proc \X Fd PROVE d \in Got(g, S) <=> d \in Got(f, S)
  BY DEF Got
<1> QED BY <1>1 DEF Got

\* The same missed uses of the slots S.
LEMMA MissedSame ==
  ASSUME NEW u, NEW v, NEW S, \A s \in S : u[s] = v[s]
  PROVE  Missed(u, S) = Missed(v, S)
BY DEF Missed

\* A slot of which no use is counted adds none.
Unused(f, u, s) == u[s] = 0 /\ \A q \in Proc, j \in Fd : f[q][j].slot # s
SameUses(f, u, S, R) == Got(f, R) = Got(f, S) /\ Missed(u, R) = Missed(u, S)

\* So a set of slots has the same uses with it and without it.
LEMMA UnusedSlot ==
  ASSUME NEW f, NEW u, NEW s, Unused(f, u, s), NEW S
  PROVE  SameUses(f, u, S, S \cup {s})
<1> USE DEF Unused, SameUses
<1>1. ASSUME NEW d \in Proc \X Fd PROVE d \in Got(f, S \cup {s}) <=> d \in Got(f, S)
  <2>1. f[d[1]][d[2]].slot # s
    OBVIOUS
  <2> QED BY <2>1 DEF Got
<1>2. Got(f, S \cup {s}) = Got(f, S)
  BY <1>1 DEF Got
<1>3. ASSUME NEW x \in (S \cup {s}) \X {1, 2}, x[2] <= u[x[1]] PROVE x[1] \in S
  BY <1>3
<1>4. Missed(u, S \cup {s}) = Missed(u, S)
  BY <1>3 DEF Missed
<1> QED BY <1>2, <1>4
-----------------------------------------------------------------------------
\* There is room in memory: each address that is not free has a slot of its own,
\* or belongs to the one call that waits.
LEMMA NewAddrFacts ==
  ASSUME mem \in [Addr -> InodeType], MemInv(table, mem),
         \A q, r \in Proc : pending[q].addr \in Addr /\ pending[r].addr \in Addr => q = r,
         FreeSlots # {} \/ \A q \in Proc : pending[q].addr \notin Addr
  PROVE  NewAddr \in Addr /\ mem[NewAddr].space = "free"
<1> USE FileTableAssumption
<1> DEFINE Free == {a \in Addr : mem[a].space = "free"}
<1>1. Free # {}
  <2> SUFFICES ASSUME Free = {} PROVE FALSE
    OBVIOUS
  <2> DEFINE Has(a) == \E s \in Slot : table[s].fd_inode = a
             g == [a \in Addr |-> IF Has(a) THEN CHOOSE s \in Slot : table[s].fd_inode = a ELSE 0]
  <2>1. \A a \in Addr : Has(a) \/ \E q \in Proc : pending[q].addr = a
    BY DEF MemInv
  <2>2. \A a \in Addr : IF Has(a) THEN g[a] \in Slot /\ table[g[a]].fd_inode = a ELSE g[a] = 0
    OBVIOUS
  <2> HIDE DEF g
  <2>3. PICK n \in 0..NSlot : \A a \in Addr : g[a] \in 0..NSlot \ {n}
    <3>1. CASE FreeSlots # {}
      <4>1. PICK s \in Slot : table[s].fd_inode = NULL
        BY <3>1 DEF FreeSlots
      <4>2. \A a \in Addr : g[a] \in 0..NSlot \ {s}
        BY <2>2, <4>1 DEF Slot, Addr, NULL
      <4>3. s \in 0..NSlot
        BY DEF Slot
      <4> QED BY <4>2, <4>3
    <3>2. CASE \A q \in Proc : pending[q].addr \notin Addr
      <4>1. \A a \in Addr : g[a] \in 0..NSlot \ {0}
        BY <2>1, <2>2, <3>2 DEF Slot
      <4> QED BY <4>1
    <3> QED BY <3>1, <3>2
  <2> DEFINE T == 0..NSlot \ {n}
  <2>4. IsFiniteSet(T) /\ Cardinality(T) < NSlot + 1
    <3>1. IsFiniteSet(0..NSlot) /\ Cardinality(0..NSlot) = NSlot + 1
      BY FS_Interval
    <3>2. IsFiniteSet(T) /\ Cardinality(T) <= NSlot + 1 /\ Cardinality(T) # NSlot + 1
      <4>1. T \in SUBSET (0..NSlot) /\ T # 0..NSlot
        OBVIOUS
      <4> HIDE DEF T
      <4> DEFINE R == 0..NSlot
      <4>2. IsFiniteSet(R) /\ T \in SUBSET R /\ T # R
        BY <3>1, <4>1
      <4>3. Cardinality(R) = NSlot + 1
        BY <3>1
      <4> HIDE DEF R
      <4>4. /\ IsFiniteSet(T) /\ Cardinality(T) <= Cardinality(R)
            /\ Cardinality(R) = Cardinality(T) => R = T
        BY <4>2, FS_Subset
      <4> QED BY <4>2, <4>3, <4>4
    <3> QED BY <3>2, FS_CardinalityType
  <2>5. IsFiniteSet(Addr) /\ Cardinality(Addr) = NSlot + 1
    BY FS_Interval DEF Addr
  <2>6. g \in [Addr -> T]
    BY <2>3 DEF g
  <2>7. PICK a, b \in Addr : a # b /\ g[a] = g[b]
    BY <2>4, <2>5, <2>6, FS_PigeonHole
  <2> QED BY <2>1, <2>2, <2>7 DEF Slot
<1>2. Free \in SUBSET Nat
  BY DEF Addr
<1>3. Lowest(Free) \in Free
  BY <1>1, <1>2, LowestFacts
<1> QED BY <1>3 DEF NewAddr

\* get_free_slot_in_global() finds a slot.
LEMMA FreeSlotFacts ==
  ASSUME FreeSlots # {}
  PROVE  Lowest(FreeSlots) \in Slot /\ table[Lowest(FreeSlots)].fd_inode = NULL
<1>1. FreeSlots \in SUBSET Nat
  BY FileTableAssumption DEF FreeSlots, Slot
<1>2. Lowest(FreeSlots) \in FreeSlots
  BY <1>1, LowestFacts
<1> QED BY <1>2 DEF FreeSlots

\* pcb_fd_install() fills a descriptor that was not used, if there is one.
Filled(f, g, p, s, file) ==
  \E i \in Fd : f[p][i] = NoFd /\ g = [f EXCEPT ![p][i] = [slot |-> s, file |-> file]]

\* pcb_fd_install() fills one, or there is none and nothing changes.
LEMMA InstallFacts ==
  ASSUME NEW f \in [Proc -> [Fd -> FdType]], NEW p \in Proc, NEW s \in Slot, NEW file
  PROVE  LET g == pcb_fd_install(f, p, s, file)
         IN  (g = f /\ \A i \in Fd : f[p][i] # NoFd) \/ Filled(f, g, p, s, file)
<1> DEFINE free == {i \in Fd : f[p][i] = NoFd}
<1>1. CASE free = {}
  BY <1>1 DEF pcb_fd_install
<1>2. CASE free # {}
  <2>1. free \in SUBSET Nat
    BY FileTableAssumption DEF Fd
  <2>2. Lowest(free) \in free
    BY <1>2, <2>1, LowestFacts
  <2>3. pcb_fd_install(f, p, s, file) = [f EXCEPT ![p][Lowest(free)] = [slot |-> s, file |-> file]]
    BY <1>2 DEF pcb_fd_install
  <2> QED BY <2>2, <2>3 DEF Filled
<1> QED BY <1>1, <1>2

\* What it changes.
FilledAt(f, g, p, i, s, file) ==
  /\ f[p][i] = NoFd /\ f[p][i].slot = -1
  /\ g[p][i] = [slot |-> s, file |-> file] /\ g[p][i].slot = s /\ g[p][i] # NoFd
  /\ \A q \in Proc, j \in Fd : <<q, j>> # <<p, i>> => g[q][j] = f[q][j]

\* It has the slot, and no other descriptor changes.
LEMMA FilledFacts ==
  ASSUME NEW f \in [Proc -> [Fd -> FdType]], NEW p \in Proc, NEW s \in Slot, NEW g,
         NEW file \in {"none", "pipe", "file"} \X Nat, Filled(f, g, p, s, file)
  PROVE  /\ g \in [Proc -> [Fd -> FdType]] /\ g # f
         /\ \E i \in Fd : FilledAt(f, g, p, i, s, file)
<1>1. PICK i \in Fd : f[p][i] = NoFd /\ g = [f EXCEPT ![p][i] = [slot |-> s, file |-> file]]
  BY DEF Filled
<1>2. [slot |-> s, file |-> file] \in FdType /\ s # -1
  BY FileTableAssumption DEF FdType, Slot
<1>3. g \in [Proc -> [Fd -> FdType]]
  BY <1>1, <1>2
<1>4. g[p][i] = [slot |-> s, file |-> file]
  BY <1>1
<1>5. \A q \in Proc, j \in Fd : <<q, j>> # <<p, i>> => g[q][j] = f[q][j]
  BY <1>1
<1>6. f[p][i].slot = -1 /\ g[p][i].slot = s
  BY <1>1, <1>4 DEF NoFd
<1>7. g[p][i] # NoFd /\ g # f
  BY <1>1, <1>2, <1>6 DEF NoFd
<1> QED BY <1>1, <1>3, <1>4, <1>5, <1>6, <1>7 DEF FilledAt
\* A slot is taken: a descriptor is filled, or the use is missed.
Taken(f, g, u, v, p, s, file) ==
  (g = f /\ v = [u EXCEPT ![s] = @ + 1]) \/ (Filled(f, g, p, s, file) /\ v = u)

TakenAt(f, g, u, v, p, s, file) ==
  /\ g \in [Proc -> [Fd -> FdType]] /\ v \in [Slot -> Nat]
  /\ \A r \in Slot : r # s => v[r] = u[r]
  /\ \A q \in Proc, j \in Fd : g[q][j] = f[q][j] \/ (q = p /\ g[q][j] = [slot |-> s, file |-> file])
  /\ \A q \in Proc, j \in Fd : \A r \in Slot : r # s => (g[q][j].slot = r <=> f[q][j].slot = r)
  /\ IF v[s] = 0 THEN \E q \in Proc, j \in Fd : g[q][j].slot = s
     ELSE v[s] = 1 /\ \A q \in Proc, j \in Fd : g[q][j].slot # s

\* What that says of each descriptor, and of the uses that were missed.
LEMMA TakenFacts ==
  ASSUME NEW f \in [Proc -> [Fd -> FdType]], NEW u \in [Slot -> Nat], NEW p \in Proc, NEW s \in Slot,
         NEW file \in {"none", "pipe", "file"} \X Nat, NEW g, NEW v, Taken(f, g, u, v, p, s, file),
         Unused(f, u, s)
  PROVE  TakenAt(f, g, u, v, p, s, file)
<1> USE DEF Unused, TakenAt
<1>1. CASE g = f /\ v = [u EXCEPT ![s] = @ + 1]
  BY <1>1
<1>2. CASE Filled(f, g, p, s, file) /\ v = u
  <2>1. g \in [Proc -> [Fd -> FdType]]
    BY <1>2, FilledFacts
  <2>2. PICK i \in Fd : FilledAt(f, g, p, i, s, file)
    BY <1>2, FilledFacts
  <2>3. ASSUME NEW q \in Proc, NEW j \in Fd
        PROVE  /\ g[q][j] = f[q][j] \/ (q = p /\ g[q][j] = [slot |-> s, file |-> file])
               /\ \A r \in Slot : r # s => (g[q][j].slot = r <=> f[q][j].slot = r)
    <3>1. CASE <<q, j>> = <<p, i>>
      BY <2>2, <3>1, FileTableAssumption DEF Slot, FilledAt
    <3>2. CASE <<q, j>> # <<p, i>>
      BY <2>2, <3>2 DEF FilledAt
    <3> QED BY <3>1, <3>2
  <2> QED BY <1>2, <2>1, <2>2, <2>3 DEF FilledAt
<1> QED BY <1>1, <1>2 DEF Taken

\* It is counted once for its slot, and for no other.
LEMMA TakenUses ==
  ASSUME NEW f \in [Proc -> [Fd -> FdType]], NEW u \in [Slot -> Nat], NEW p \in Proc, NEW s \in Slot,
         NEW file \in {"none", "pipe", "file"} \X Nat, NEW g, NEW v, Taken(f, g, u, v, p, s, file),
         Unused(f, u, s), NEW S \in SUBSET Slot, s \notin S
  PROVE  Uses(g, v, S) = Uses(f, u, S) /\ Uses(g, v, S \cup {s}) = Uses(f, u, S) + 1
<1> DEFINE S1 == S \cup {s}
<1>1. S1 \in SUBSET Slot
  OBVIOUS
<1>2. /\ \A r \in Slot : r # s => v[r] = u[r]
      /\ \A q \in Proc, j \in Fd : \A r \in Slot : r # s => (g[q][j].slot = r <=> f[q][j].slot = r)
  <2>1. TakenAt(f, g, u, v, p, s, file)
    BY TakenFacts
  <2> QED BY <2>1 DEF TakenAt
<1>3. Got(g, S) = Got(f, S) /\ Missed(v, S) = Missed(u, S)
  <2>1. ASSUME NEW q \in Proc, NEW j \in Fd PROVE g[q][j].slot \in S <=> f[q][j].slot \in S
    <3>1. \A r \in S : g[q][j].slot = r <=> f[q][j].slot = r
      BY <1>2
    <3> QED BY <3>1
  <2>2. \A r \in S : v[r] = u[r]
    BY <1>2
  <2> QED BY <2>1, <2>2, GotSame, MissedSame
<1>4. Got(f, S1) = Got(f, S) /\ Missed(u, S1) = Missed(u, S)
  <2>1. SameUses(f, u, S, S1)
    BY UnusedSlot
  <2> QED BY <2>1 DEF SameUses
<1>5. CASE g = f /\ v = [u EXCEPT ![s] = @ + 1]
  <2>1. v[s] = 1
    BY <1>5 DEF Unused
  <2>2. <<s, 1>> \notin Missed(u, S) /\ Missed(v, S1) = Missed(u, S) \cup {<<s, 1>>}
    <3>1. \A r \in S : v[r] = u[r]
      BY <1>2
    <3>2. ASSUME NEW x \in S1 \X {1, 2}
          PROVE  x \in Missed(v, S1) <=> x \in Missed(u, S) \/ x = <<s, 1>>
      <4>1. CASE x[1] = s
        BY <2>1, <4>1 DEF Missed
      <4>2. CASE x[1] # s
        BY <3>1, <4>2 DEF Missed
      <4> QED BY <4>1, <4>2
    <3>3. Missed(v, S1) \subseteq S1 \X {1, 2} /\ Missed(u, S) \subseteq S1 \X {1, 2}
      BY DEF Missed
    <3>4. <<s, 1>> \in S1 \X {1, 2} /\ <<s, 1>> \notin Missed(u, S)
      BY DEF Missed
    <3> HIDE DEF S1
    <3> QED BY <3>2, <3>3, <3>4
  <2> HIDE DEF S1
  <2>3. IsFiniteSet(Missed(u, S)) /\ Cardinality(Missed(u, S)) \in Nat /\ Cardinality(Got(f, S)) \in Nat
    BY UsesFacts
  <2>4. Cardinality(Missed(v, S1)) = Cardinality(Missed(u, S)) + 1
    BY <2>2, <2>3, FS_AddElement
  <2> QED BY <1>3, <1>4, <1>5, <2>3, <2>4 DEF Uses, S1
<1>6. CASE Filled(f, g, p, s, file) /\ v = u
  <2>1. PICK i \in Fd : FilledAt(f, g, p, i, s, file)
    BY <1>6, FilledFacts
  <2>2. OneMore(f, g, S1, p, i)
    BY <2>1, FileTableAssumption DEF Slot, FilledAt, OneMore
  <2> HIDE DEF S1
  <2>3. Cardinality(Got(g, S1)) = Cardinality(Got(f, S1)) + 1
    BY <1>1, <2>2, GotOneMore
  <2> QED BY <1>1, <1>3, <1>4, <1>6, <2>3, UsesFacts DEF Uses, S1
<1> QED BY <1>5, <1>6 DEF Taken
-----------------------------------------------------------------------------
\* Closing a descriptor.
Typed(f, t, m, l) ==
  /\ f \in [Proc -> [Fd -> FdType]] /\ t \in [Slot -> FileType]
  /\ m \in [Addr -> InodeType] /\ l \in Seq(Addr)
Around ==
  /\ dir \in [Name -> {0} \cup Number] /\ inode_bitmap \subseteq Number
  /\ pending \in [Proc -> CallType] /\ unfilled \in [Slot -> Nat]

\* The descriptor i of p, for slot s, is closed in f and the others stay.
Dropped(f, g, p, i, s) ==
  /\ f[p][i] # NoFd /\ f[p][i].slot = s /\ s \in Slot /\ g[p][i] = NoFd
  /\ \A q \in Proc, j \in Fd : <<q, j>> # <<p, i>> => g[q][j] = f[q][j]

\* The uses of slots before and after: one less for the slot s.
LEMMA DroppedUses ==
  ASSUME NEW f, NEW g, NEW p \in Proc, NEW i \in Fd, NEW s, Dropped(f, g, p, i, s), NEW u,
         NEW S \in SUBSET Slot
  PROVE  Uses(f, u, S) = Uses(g, u, S) + (IF s \in S THEN 1 ELSE 0)
<1>1. g[p][i].slot = -1 /\ -1 \notin Slot
  BY FileTableAssumption DEF Dropped, NoFd, Slot
<1>2. CASE s \in S
  <2>1. OneMore(g, f, S, p, i)
    BY <1>1, <1>2 DEF OneMore, Dropped
  <2>2. Cardinality(Got(f, S)) = Cardinality(Got(g, S)) + 1
    BY <2>1, GotOneMore
  <2>3. Cardinality(Got(g, S)) \in Nat /\ Cardinality(Missed(u, S)) \in Nat
    BY UsesFacts
  <2> QED BY <1>2, <2>2, <2>3 DEF Uses
<1>3. CASE s \notin S
  <2>1. ASSUME NEW q \in Proc, NEW j \in Fd PROVE g[q][j].slot \in S <=> f[q][j].slot \in S
    <3>1. CASE <<q, j>> = <<p, i>>
      BY <1>1, <1>3, <3>1 DEF Dropped
    <3>2. CASE <<q, j>> # <<p, i>>
      BY <3>2 DEF Dropped
    <3> QED BY <3>1, <3>2
  <2>2. Got(g, S) = Got(f, S)
    BY <2>1, GotSame
  <2>3. Uses(g, u, S) \in Nat
    BY UsesFacts
  <2> QED BY <1>3, <2>2, <2>3 DEF Uses
<1> QED BY <1>2, <1>3

\* There is a use of S if a descriptor has a slot of S, or a use was missed.
LEMMA UsesPositive ==
  ASSUME NEW f, NEW u \in [Slot -> Nat], NEW S \in SUBSET Slot
  PROVE  Uses(f, u, S) > 0 <=> \/ \E q \in Proc, j \in Fd : f[q][j].slot \in S
                               \/ \E s \in S : u[s] > 0
<1>1. Got(f, S) # {} <=> \E q \in Proc, j \in Fd : f[q][j].slot \in S
  <2>1. ASSUME NEW d \in Got(f, S) PROVE \E q \in Proc, j \in Fd : f[q][j].slot \in S
    BY DEF Got
  <2>2. ASSUME NEW q \in Proc, NEW j \in Fd, f[q][j].slot \in S PROVE <<q, j>> \in Got(f, S)
    BY <2>2 DEF Got
  <2> QED BY <2>1, <2>2
<1>2. Missed(u, S) # {} <=> \E s \in S : u[s] > 0
  <2>1. ASSUME NEW x \in Missed(u, S) PROVE \E s \in S : u[s] > 0
    <3>1. x[1] \in S /\ x[2] \in {1, 2} /\ x[2] <= u[x[1]] /\ u[x[1]] \in Nat
      BY DEF Missed
    <3> QED BY <3>1
  <2>2. ASSUME NEW s \in S, u[s] > 0 PROVE <<s, 1>> \in Missed(u, S)
    BY <2>2 DEF Missed
  <2> QED BY <2>1, <2>2
<1>3. /\ IsFiniteSet(Got(f, S)) /\ Cardinality(Got(f, S)) \in Nat
      /\ IsFiniteSet(Missed(u, S)) /\ Cardinality(Missed(u, S)) \in Nat
  BY UsesFacts
<1>4. Cardinality(Got(f, S)) = 0 <=> Got(f, S) = {}
  BY <1>3, FS_EmptySet
<1>5. Cardinality(Missed(u, S)) = 0 <=> Missed(u, S) = {}
  BY <1>3, FS_EmptySet
<1> QED BY <1>1, <1>2, <1>3, <1>4, <1>5 DEF Uses

\* The slots that other descriptors have are used, and s is used.
LEMMA DroppedSlots ==
  ASSUME NEW f, NEW g, NEW t, NEW m, NEW p \in Proc, NEW i \in Fd, NEW s,
         Dropped(f, g, p, i, s), FdInv(f, t, m)
  PROVE  /\ t[s].fd_inode # NULL /\ ~Creating(s) /\ \E q \in Proc, j \in Fd : f[q][j].slot = s
         /\ \A q \in Proc, j \in Fd : g[q][j] # NoFd => <<q, j>> # <<p, i>> /\ g[q][j] = f[q][j]
         /\ \A r \in Slot : r # s =>
              ((\E q \in Proc, j \in Fd : g[q][j].slot = r) <=> (\E q \in Proc, j \in Fd : f[q][j].slot = r))
<1>1. t[s].fd_inode # NULL /\ ~Creating(s) /\ \E q \in Proc, j \in Fd : f[q][j].slot = s
  BY DEF Dropped, FdInv
<1>2. ASSUME NEW q \in Proc, NEW j \in Fd, g[q][j] # NoFd
      PROVE  <<q, j>> # <<p, i>> /\ g[q][j] = f[q][j]
  BY <1>2 DEF Dropped
<1>3. ASSUME NEW q \in Proc, NEW j \in Fd, NEW r \in Slot, r # s
      PROVE  g[q][j].slot = r <=> f[q][j].slot = r
  <2>1. CASE <<q, j>> = <<p, i>>
    BY <1>3, <2>1, FileTableAssumption DEF Dropped, NoFd, Slot
  <2>2. CASE <<q, j>> # <<p, i>>
    BY <2>2 DEF Dropped
  <2> QED BY <2>1, <2>2
<1> QED BY <1>1, <1>2, <1>3

\* A descriptor of a pipe that has others.
LEMMA PipeCounted ==
  ASSUME Around, NEW f, NEW g \in [Proc -> [Fd -> FdType]], NEW t, NEW m, NEW l,
         Typed(f, t, m, l), TableInv(f, t, m, l),
         NEW p \in Proc, NEW i \in Fd, NEW s, Dropped(f, g, p, i, s),
         t[s].fd_flag = "pipe", t[s].fd_pos > 1,
         NEW r, r = [t EXCEPT ![s].fd_pos = @ - 1]
  PROVE  Typed(g, r, m, l) /\ TableInv(g, r, m, l)
<1> USE FileTableAssumption
<1>1. /\ FdInv(f, t, m) /\ SlotInv(t, m, l) /\ ListInv(m, l) /\ MemInv(t, m)
      /\ CountInv(f, t, m, l) /\ UnfilledInv(f, t) /\ PendInv(t, m, l)
  BY DEF TableInv
<1>2. s \in Slot /\ t \in [Slot -> FileType] /\ t[s].fd_pos \in Nat
  BY DEF Typed, Dropped, FileType
<1>3. r \in [Slot -> FileType]
  <2> DEFINE x == [t[s] EXCEPT !.fd_pos = @ - 1]
  <2>1. t[s] \in FileType /\ t[s].fd_pos - 1 \in Nat
    BY <1>2
  <2>2. x \in FileType
    BY <2>1 DEF FileType
  <2>3. r = [t EXCEPT ![s] = x]
    BY <1>2
  <2> QED BY <1>2, <2>2, <2>3
<1>4. /\ r[s].fd_pos = t[s].fd_pos - 1 /\ \A x \in Slot : x # s => r[x] = t[x]
      /\ \A x \in Slot : r[x].fd_inode = t[x].fd_inode /\ r[x].fd_flag = t[x].fd_flag
  BY <1>2 DEF FileType
<1>5. /\ t[s].fd_inode # NULL
      /\ \A q \in Proc, j \in Fd : g[q][j] # NoFd => <<q, j>> # <<p, i>> /\ g[q][j] = f[q][j]
      /\ \A x \in Slot : x # s =>
           ((\E q \in Proc, j \in Fd : g[q][j].slot = x) <=> (\E q \in Proc, j \in Fd : f[q][j].slot = x))
  BY <1>1, DroppedSlots
<1>6. FdInv(g, r, m)
  <2>1. ASSUME NEW q \in Proc, NEW j \in Fd, g[q][j] # NoFd
        PROVE  /\ q \in alive /\ g[q][j].slot \in Slot /\ r[g[q][j].slot].fd_inode # NULL
               /\ ~Creating(g[q][j].slot)
               /\ g[q][j].file = IF r[g[q][j].slot].fd_flag = "pipe" THEN <<"pipe", r[g[q][j].slot].fd_inode>>
                                 ELSE <<"file", m[r[g[q][j].slot].fd_inode].no>>
    <3> DEFINE x == g[q][j].slot
    <3>1. f[q][j] = g[q][j] /\ f[q][j] # NoFd
      BY <1>5, <2>1
    <3>2. /\ q \in alive /\ x \in Slot /\ t[x].fd_inode # NULL /\ ~Creating(x)
          /\ g[q][j].file = IF t[x].fd_flag = "pipe" THEN <<"pipe", t[x].fd_inode>>
                            ELSE <<"file", m[t[x].fd_inode].no>>
      BY <1>1, <3>1 DEF FdInv
    <3> HIDE DEF x
    <3>3. r[x].fd_inode = t[x].fd_inode /\ r[x].fd_flag = t[x].fd_flag
      BY <1>4, <3>2
    <3> QED BY <3>2, <3>3 DEF x
  <2> QED BY <2>1 DEF FdInv
<1>7. SlotInv(r, m, l) /\ MemInv(r, m)
  BY <1>1, <1>4 DEF SlotInv, MemInv
<1>8. CountInv(g, r, m, l)
  <2>1. ASSUME NEW x \in 1..Len(l)
        PROVE  m[l[x]].i_open_cnts = Uses(g, unfilled, Inodes(r, l[x])) + Cardinality(Holders(l[x]))
    <3>1. Inodes(r, l[x]) = Inodes(t, l[x]) /\ s \notin Inodes(t, l[x]) /\ Inodes(t, l[x]) \in SUBSET Slot
      BY <1>4 DEF Inodes
    <3>2. Uses(f, unfilled, Inodes(t, l[x])) = Uses(g, unfilled, Inodes(t, l[x])) + 0
      BY <3>1, DroppedUses
    <3>3. Uses(g, unfilled, Inodes(t, l[x])) \in Nat
      BY <3>1, UsesFacts
    <3> QED BY <1>1, <3>1, <3>2, <3>3 DEF CountInv
  <2>2. ASSUME NEW x \in Slot, r[x].fd_inode # NULL, r[x].fd_flag = "pipe"
        PROVE  r[x].fd_pos > 0 /\ r[x].fd_pos = Uses(g, unfilled, {x})
    <3>1. t[x].fd_pos > 0 /\ t[x].fd_pos = Uses(f, unfilled, {x})
      BY <1>1, <1>4, <2>2 DEF CountInv
    <3>2. Uses(f, unfilled, {x}) = Uses(g, unfilled, {x}) + (IF s \in {x} THEN 1 ELSE 0)
      BY DroppedUses
    <3>3. Uses(g, unfilled, {x}) \in Nat
      BY UsesFacts
    <3> QED BY <1>2, <1>4, <3>1, <3>2, <3>3
  <2> QED BY <2>1, <2>2 DEF CountInv
<1>9. UnfilledInv(g, r)
  BY <1>1, <1>4, <1>5 DEF UnfilledInv
<1>10. PendInv(r, m, l)
  BY <1>1, <1>4 DEF PendInv, CallInv
<1> QED BY <1>1, <1>3, <1>6, <1>7, <1>8, <1>9, <1>10 DEF Typed, TableInv

\* k is the list l without the address a.
Without(l, k, a) ==
  /\ k \in Seq(Addr) /\ \A b \in Addr : At(k, b) <=> At(l, b) /\ b # a
  /\ \E h \in [1..Len(k) -> 1..Len(l)] :
       /\ \A i \in 1..Len(k) : k[i] = l[h[i]]
       /\ \A i, j \in 1..Len(k) : h[i] = h[j] => i = j

\* An address that is not in the list can be left out of it.
LEMMA WithoutSame ==
  ASSUME NEW l \in Seq(Addr), NEW a, ~At(l, a)
  PROVE  Without(l, l, a)
<1> DEFINE h == [i \in 1..Len(l) |-> i]
<1>1. /\ h \in [1..Len(l) -> 1..Len(l)] /\ \A i \in 1..Len(l) : l[i] = l[h[i]]
      /\ \A i, j \in 1..Len(l) : h[i] = h[j] => i = j
  OBVIOUS
<1>2. \A b \in Addr : At(l, b) <=> At(l, b) /\ b # a
  OBVIOUS
<1> HIDE DEF h
<1> QED BY <1>1, <1>2 DEF Without

\* RemoveAt() leaves out the address at a place, if it is at no other.
LEMMA WithoutRemoved ==
  ASSUME NEW l \in Seq(Addr), NEW n \in 1..Len(l), \A j \in 1..Len(l) : l[j] = l[n] => j = n
  PROVE  Without(l, RemoveAt(l, n), l[n])
<1> DEFINE k == RemoveAt(l, n)
           h == [i \in 1..Len(l) - 1 |-> IF i < n THEN i ELSE i + 1]
<1>1. /\ k \in Seq(Addr) /\ Len(k) = Len(l) - 1
      /\ \A i \in 1..Len(k) : k[i] = l[IF i < n THEN i ELSE i + 1]
  <2> DEFINE c == SubSeq(l, 1, n - 1)
             d == SubSeq(l, n + 1, Len(l))
  <2>1. /\ c \in Seq(Addr) /\ Len(c) = n - 1 /\ \A i \in 1..n - 1 : c[i] = l[i]
        /\ d \in Seq(Addr) /\ Len(d) = Len(l) - n /\ \A i \in 1..Len(l) - n : d[i] = l[n + i]
    <3>1. c \in Seq(Addr) /\ Len(c) = n - 1
      OBVIOUS
    <3>2. \A i \in 1..n - 1 : c[i] = l[i]
      OBVIOUS
    <3>3. d \in Seq(Addr) /\ Len(d) = Len(l) - n
      OBVIOUS
    <3>4. \A i \in 1..Len(l) - n : d[i] = l[n + i]
      OBVIOUS
    <3> HIDE DEF c, d
    <3> QED BY <3>1, <3>2, <3>3, <3>4
  <2>2. k = c \o d
    BY DEF RemoveAt
  <2> HIDE DEF c, d, k
  <2>3. k \in Seq(Addr) /\ Len(k) = Len(l) - 1
    BY <2>1, <2>2
  <2>4. ASSUME NEW i \in 1..Len(k) PROVE k[i] = l[IF i < n THEN i ELSE i + 1]
    <3>1. CASE i < n
      <4>1. k[i] = c[i]
        BY <2>1, <2>2, <2>3, <3>1
      <4> QED BY <2>1, <3>1, <4>1
    <3>2. CASE ~(i < n)
      <4>1. k[i] = d[i - (n - 1)] /\ i - (n - 1) \in 1..Len(l) - n
        BY <2>1, <2>2, <2>3, <3>2
      <4>2. n + (i - (n - 1)) = i + 1
        OBVIOUS
      <4> QED BY <2>1, <3>2, <4>1, <4>2
    <3> QED BY <3>1, <3>2
  <2> QED BY <2>3, <2>4
<1> HIDE DEF k
<1>2. /\ h \in [1..Len(k) -> 1..Len(l)] /\ \A i \in 1..Len(k) : k[i] = l[h[i]] /\ h[i] # n
      /\ \A i, j \in 1..Len(k) : h[i] = h[j] => i = j
  BY <1>1
<1>3. \A j \in 1..Len(l) : j # n => \E i \in 1..Len(k) : h[i] = j
  <2>1. ASSUME NEW j \in 1..Len(l), j # n PROVE \E i \in 1..Len(k) : h[i] = j
    <3>1. CASE j < n
      <4>1. j \in 1..Len(k) /\ h[j] = j
        BY <1>1, <3>1
      <4> QED BY <4>1
    <3>2. CASE j > n
      <4>1. j - 1 \in 1..Len(k) /\ h[j - 1] = j
        BY <1>1, <3>2
      <4> QED BY <4>1
    <3>3. j < n \/ j > n
      BY <2>1
    <3> QED BY <3>1, <3>2, <3>3
  <2> QED BY <2>1
<1> HIDE DEF h
<1>4. ASSUME NEW b \in Addr PROVE At(k, b) <=> At(l, b) /\ b # l[n]
  <2>1. ASSUME NEW i \in 1..Len(k) PROVE At(l, k[i]) /\ k[i] # l[n]
    <3>1. h[i] \in 1..Len(l) /\ k[i] = l[h[i]] /\ h[i] # n
      BY <1>2
    <3> QED BY <3>1 DEF At
  <2>2. ASSUME NEW j \in 1..Len(l), l[j] # l[n] PROVE At(k, l[j])
    <3>1. PICK i \in 1..Len(k) : h[i] = j
      BY <1>3, <2>2
    <3>2. k[i] = l[j]
      BY <1>2, <3>1
    <3> QED BY <3>2 DEF At
  <2> QED BY <2>1, <2>2 DEF At
<1> QED BY <1>1, <1>2, <1>4 DEF Without, k

\* Slot s, which had address a, becomes free, and a stays for others or is freed.
Cleared(t, r, s) == r \in [Slot -> FileType] /\ r[s].fd_inode = NULL /\ \A x \in Slot : x # s => r[x] = t[x]
Stays(r, m, n, l, k, a) ==
  /\ k = l /\ \A b \in Addr : n[b].no = m[b].no /\ n[b].space = m[b].space
  /\ (\E x \in Slot : r[x].fd_inode = a) \/ (\E q \in Proc : pending[q].addr = a)
Goes(r, m, n, l, k, a) ==
  /\ n[a].space = "free" /\ \A b \in Addr : b # a => n[b] = m[b]
  /\ \A x \in Slot : r[x].fd_inode # a
  /\ \A q \in Proc : pending[q].addr # a
  /\ Without(l, k, a)

\* A slot that nobody uses any more is cleared, and its page or inode stays in
\* memory or goes: but for the counts, the invariant is kept.
LEMMA ClearSound ==
  ASSUME Around, NEW f, NEW g \in [Proc -> [Fd -> FdType]], NEW t, NEW r, NEW m,
         NEW n \in [Addr -> InodeType], NEW l, NEW k \in Seq(Addr),
         Typed(f, t, m, l), TableInv(f, t, m, l),
         NEW p \in Proc, NEW i \in Fd, NEW s, Dropped(f, g, p, i, s),
         Unused(g, unfilled, s), Cleared(t, r, s),
         Stays(r, m, n, l, k, t[s].fd_inode) \/ Goes(r, m, n, l, k, t[s].fd_inode),
         CountInv(g, r, n, k)
  PROVE  Typed(g, r, n, k) /\ TableInv(g, r, n, k)
<1> USE FileTableAssumption
<1> DEFINE a == t[s].fd_inode
<1>1. /\ FdInv(f, t, m) /\ SlotInv(t, m, l) /\ ListInv(m, l) /\ MemInv(t, m)
      /\ UnfilledInv(f, t) /\ PendInv(t, m, l)
  BY DEF TableInv
<1>2. /\ s \in Slot /\ t \in [Slot -> FileType] /\ l \in Seq(Addr)
      /\ \A x \in Slot : t[x].fd_inode \in {NULL} \cup Addr
  BY DEF Typed, Dropped, FileType
<1>3. /\ a # NULL /\ ~Creating(s)
      /\ \A q \in Proc, j \in Fd : g[q][j] # NoFd => <<q, j>> # <<p, i>> /\ g[q][j] = f[q][j]
      /\ \A x \in Slot : x # s =>
           ((\E q \in Proc, j \in Fd : g[q][j].slot = x) <=> (\E q \in Proc, j \in Fd : f[q][j].slot = x))
  BY <1>1, DroppedSlots
<1>4. a \in Addr
  BY <1>2, <1>3
<1>5. /\ r[s].fd_inode = NULL /\ \A x \in Slot : r[x].fd_inode # NULL => x # s /\ r[x] = t[x]
      /\ \A x \in Slot : x # s => r[x] = t[x]
  BY DEF Cleared
<1> HIDE DEF a
<1>6. /\ \A x \in Slot : r[x].fd_inode # NULL =>
           n[r[x].fd_inode].no = m[r[x].fd_inode].no /\ n[r[x].fd_inode].space = m[r[x].fd_inode].space
      /\ \A q \in Proc : pending[q].addr \in Addr =>
           n[pending[q].addr].no = m[pending[q].addr].no /\ n[pending[q].addr].space = m[pending[q].addr].space
  <2>1. CASE Stays(r, m, n, l, k, a)
    BY <1>2, <1>5, <2>1 DEF Stays
  <2>2. CASE Goes(r, m, n, l, k, a)
    BY <1>2, <1>5, <2>2 DEF Goes
  <2> QED BY <2>1, <2>2 DEF a
<1>7. PICK h \in [1..Len(k) -> 1..Len(l)] :
        /\ \A x \in 1..Len(k) : /\ k[x] = l[h[x]] /\ k[x] \in Addr
                                /\ n[k[x]].no = m[l[h[x]]].no /\ n[k[x]].space = m[l[h[x]]].space
        /\ \A x, y \in 1..Len(k) : h[x] = h[y] => x = y
  <2>1. CASE Stays(r, m, n, l, k, a)
    <3> DEFINE h == [x \in 1..Len(k) |-> x]
    <3>1. /\ h \in [1..Len(k) -> 1..Len(l)]
          /\ \A x \in 1..Len(k) : /\ k[x] = l[h[x]] /\ k[x] \in Addr
                                  /\ n[k[x]].no = m[l[h[x]]].no /\ n[k[x]].space = m[l[h[x]]].space
          /\ \A x, y \in 1..Len(k) : h[x] = h[y] => x = y
      BY <1>2, <2>1 DEF Stays
    <3> HIDE DEF h
    <3> QED BY <3>1
  <2>2. CASE Goes(r, m, n, l, k, a)
    <3>1. PICK h \in [1..Len(k) -> 1..Len(l)] :
            /\ \A x \in 1..Len(k) : k[x] = l[h[x]]
            /\ \A x, y \in 1..Len(k) : h[x] = h[y] => x = y
      BY <2>2 DEF Goes, Without
    <3>2. ASSUME NEW x \in 1..Len(k) PROVE k[x] \in Addr /\ n[k[x]] = m[k[x]]
      <4>1. k[x] \in Addr /\ At(k, k[x])
        BY DEF At
      <4>2. k[x] # a
        BY <2>2, <4>1 DEF Goes, Without
      <4> QED BY <2>2, <4>1, <4>2 DEF Goes
    <3>3. ASSUME NEW x \in 1..Len(k)
          PROVE  /\ k[x] = l[h[x]] /\ k[x] \in Addr
                 /\ n[k[x]].no = m[l[h[x]]].no /\ n[k[x]].space = m[l[h[x]]].space
      BY <3>1, <3>2
    <3> QED BY <3>1, <3>3
  <2> QED BY <2>1, <2>2 DEF a
<1>8. \A b \in Addr : (At(k, b) => At(l, b)) /\ (At(l, b) /\ b # a => At(k, b))
  BY <1>4 DEF Stays, Goes, Without, a
<1>9. FdInv(g, r, n)
  <2>1. ASSUME NEW q \in Proc, NEW j \in Fd, g[q][j] # NoFd
        PROVE  /\ q \in alive /\ g[q][j].slot \in Slot /\ r[g[q][j].slot].fd_inode # NULL
               /\ ~Creating(g[q][j].slot)
               /\ g[q][j].file = IF r[g[q][j].slot].fd_flag = "pipe" THEN <<"pipe", r[g[q][j].slot].fd_inode>>
                                 ELSE <<"file", n[r[g[q][j].slot].fd_inode].no>>
    <3>1. g[q][j] = f[q][j] /\ g[q][j].slot # s
      BY <1>3, <2>1 DEF Unused
    <3>2. g[q][j].slot \in Slot /\ r[g[q][j].slot] = t[g[q][j].slot]
      BY <1>1, <1>5, <2>1, <3>1 DEF FdInv
    <3> DEFINE x == g[q][j].slot
    <3>3. /\ q \in alive /\ t[x].fd_inode # NULL /\ ~Creating(x)
          /\ g[q][j].file = IF t[x].fd_flag = "pipe" THEN <<"pipe", t[x].fd_inode>>
                            ELSE <<"file", m[t[x].fd_inode].no>>
      BY <1>1, <2>1, <3>1 DEF FdInv
    <3>4. r[x] = t[x] /\ n[t[x].fd_inode].no = m[t[x].fd_inode].no
      BY <1>6, <3>2, <3>3
    <3> HIDE DEF x
    <3>5. /\ r[x].fd_inode # NULL
          /\ g[q][j].file = IF r[x].fd_flag = "pipe" THEN <<"pipe", r[x].fd_inode>>
                            ELSE <<"file", n[r[x].fd_inode].no>>
      BY <3>3, <3>4
    <3> QED BY <3>2, <3>3, <3>5 DEF x
  <2> QED BY <2>1 DEF FdInv
<1>10. SlotInv(r, n, k)
  <2>1. ASSUME NEW x \in Slot, r[x].fd_inode # NULL
        PROVE  /\ n[r[x].fd_inode].space # "free"
               /\ r[x].fd_flag = "pipe" =>
                    /\ ~At(k, r[x].fd_inode) /\ \A y \in Slot : r[y].fd_inode = r[x].fd_inode => y = x
                    /\ \A q \in Proc : pending[q].addr # r[x].fd_inode
               /\ r[x].fd_flag # "pipe" => Creating(x) \/ At(k, r[x].fd_inode)
    <3>1. x # s /\ r[x] = t[x] /\ r[x].fd_inode \in Addr
      BY <1>2, <1>5, <2>1
    <3>2. n[r[x].fd_inode].space # "free"
      BY <1>1, <1>6, <2>1, <3>1 DEF SlotInv
    <3>3. At(l, r[x].fd_inode) => At(k, r[x].fd_inode)
      BY <3>1 DEF Stays, Goes, Without
    <3>4. \A y \in Slot : r[y].fd_inode = r[x].fd_inode => t[y].fd_inode = t[x].fd_inode
      BY <1>5, <2>1, <3>1
    <3> QED BY <1>1, <1>8, <2>1, <3>1, <3>2, <3>3, <3>4 DEF SlotInv
  <2> QED BY <2>1 DEF SlotInv
<1>11. ListInv(n, k)
  <2>1. ASSUME NEW x \in 1..Len(k), NEW y \in 1..Len(k), n[k[x]].no = n[k[y]].no PROVE x = y
    <3>1. h[x] \in 1..Len(l) /\ h[y] \in 1..Len(l) /\ m[l[h[x]]].no = m[l[h[y]]].no
      BY <1>7, <2>1
    <3>2. h[x] = h[y]
      BY <1>1, <3>1 DEF ListInv
    <3> QED BY <1>7, <3>2
  <2>2. ASSUME NEW x \in 1..Len(k)
        PROVE  /\ n[k[x]].space # "free" /\ n[k[x]].no \in inode_bitmap
               /\ \/ \E name \in Name : dir[name] = n[k[x]].no
                  \/ \E q \in Proc : pending[q].op = "release" /\ pending[q].addr = k[x]
    <3>1. h[x] \in 1..Len(l) /\ k[x] = l[h[x]] /\ n[k[x]].no = m[l[h[x]]].no /\ n[k[x]].space = m[l[h[x]]].space
      BY <1>7
    <3> QED BY <1>1, <3>1 DEF ListInv
  <2> QED BY <2>1, <2>2 DEF ListInv
<1>12. MemInv(r, n)
  <2>1. ASSUME NEW b \in Addr, n[b].space # "free"
        PROVE  (\E x \in Slot : r[x].fd_inode = b) \/ (\E q \in Proc : pending[q].addr = b)
    <3>1. CASE b = a
      BY <2>1, <3>1 DEF Stays, Goes, a
    <3>2. CASE b # a
      <4>1. m[b].space # "free"
        BY <2>1, <3>2 DEF Stays, Goes, a
      <4>2. ASSUME NEW x \in Slot, t[x].fd_inode = b PROVE r[x].fd_inode = b
        BY <1>5, <3>2, <4>2 DEF a
      <4> QED BY <1>1, <4>1, <4>2 DEF MemInv
    <3> QED BY <3>1, <3>2
  <2> QED BY <2>1 DEF MemInv
<1>13. UnfilledInv(g, r)
  <2>1. ASSUME NEW x \in Slot
        PROVE  /\ unfilled[x] \in 0..2
               /\ r[x].fd_inode = NULL \/ Creating(x) => unfilled[x] = 0
               /\ r[x].fd_inode # NULL /\ r[x].fd_flag # "pipe" /\ ~Creating(x) =>
                    IF unfilled[x] = 0 THEN \E q \in Proc, j \in Fd : g[q][j].slot = x
                    ELSE unfilled[x] = 1 /\ \A q \in Proc, j \in Fd : g[q][j].slot # x
    <3>1. CASE x = s
      BY <1>5, <3>1 DEF Unused
    <3>2. CASE x # s
      <4>1. r[x] = t[x]
        BY <1>5, <3>2
      <4>2. /\ unfilled[x] \in 0..2
            /\ t[x].fd_inode = NULL \/ Creating(x) => unfilled[x] = 0
            /\ t[x].fd_inode # NULL /\ t[x].fd_flag # "pipe" /\ ~Creating(x) =>
                 IF unfilled[x] = 0 THEN \E q \in Proc, j \in Fd : f[q][j].slot = x
                 ELSE unfilled[x] = 1 /\ \A q \in Proc, j \in Fd : f[q][j].slot # x
        BY <1>1 DEF UnfilledInv
      <4>3. (\E q \in Proc, j \in Fd : g[q][j].slot = x) <=> (\E q \in Proc, j \in Fd : f[q][j].slot = x)
        BY <1>3, <3>2
      <4> QED BY <4>1, <4>2, <4>3
    <3> QED BY <3>1, <3>2
  <2> QED BY <2>1 DEF UnfilledInv
<1>14. PendInv(r, n, k)
  <2>1. ASSUME NEW q \in Proc PROVE CallInv(pending[q], r, n, k)
    <3> DEFINE c == pending[q]
    <3>1. CallInv(c, t, m, l) /\ c.addr \in {NULL} \cup Addr
      BY <1>1 DEF PendInv, Around, CallType
    <3>3. (\A x \in 1..Len(l) : m[l[x]].no # c.no) => \A x \in 1..Len(k) : n[k[x]].no # c.no
      <4> HIDE DEF c
      <4>1. ASSUME NEW x \in 1..Len(k) PROVE h[x] \in 1..Len(l) /\ n[k[x]].no = m[l[h[x]]].no
        BY <1>7
      <4> QED BY <4>1
    <3>4. c.addr \in Addr => /\ n[c.addr].no = m[c.addr].no /\ n[c.addr].space = m[c.addr].space
                             /\ At(k, c.addr) <=> At(l, c.addr)
      <4>1. c.addr \in Addr => (At(k, c.addr) <=> At(l, c.addr))
        BY DEF Stays, Goes, Without
      <4> QED BY <1>6, <4>1
    <3>5. c.op = "create" /\ c.slot \in Slot => c.slot # s /\ r[c.slot] = t[c.slot]
      BY <1>3, <1>5 DEF Creating
    <3>6. \A x \in Slot : r[x].fd_inode # NULL => r[x].fd_inode = t[x].fd_inode
      BY <1>5
    <3>7. NULL \notin Addr
      BY DEF NULL, Addr
    <3> HIDE DEF c
    <3>8. CallInv(c, r, n, k)
      BY <3>1, <3>3, <3>4, <3>5, <3>6, <3>7 DEF CallInv
    <3> QED BY <3>8 DEF c
  <2> QED BY <1>1, <2>1 DEF PendInv
<1> QED BY <1>9, <1>10, <1>11, <1>12, <1>13, <1>14 DEF Typed, TableInv, Cleared

\* The uses that are counted when slot s becomes free.
ClearedCounts(f, g, t, r, s) ==
  /\ \A b \in Addr : t[s].fd_flag = "pipe" \/ b # t[s].fd_inode =>
       Uses(g, unfilled, Inodes(r, b)) = Uses(f, unfilled, Inodes(t, b))
  /\ t[s].fd_flag # "pipe" /\ t[s].fd_inode \in Addr =>
       Uses(f, unfilled, Inodes(t, t[s].fd_inode)) = Uses(g, unfilled, Inodes(r, t[s].fd_inode)) + 1
  /\ \A x \in Slot : x # s => Uses(g, unfilled, {x}) = Uses(f, unfilled, {x})

\* They follow when the last use of the slot is dropped.
LEMMA ClearedUses ==
  ASSUME NEW f, NEW g, NEW t, NEW r, NEW p \in Proc, NEW i \in Fd, NEW s, Dropped(f, g, p, i, s),
         Unused(g, unfilled, s), Cleared(t, r, s)
  PROVE  ClearedCounts(f, g, t, r, s)
<1>1. /\ s \in Slot /\ r[s].fd_inode = NULL /\ \A x \in Slot : x # s => r[x] = t[x]
      /\ \A b \in Addr : b # NULL
  BY FileTableAssumption DEF Dropped, Cleared, Addr, NULL
<1>2. ASSUME NEW S \in SUBSET Slot, s \notin S PROVE Uses(g, unfilled, S) = Uses(f, unfilled, S)
  <2>1. Uses(f, unfilled, S) = Uses(g, unfilled, S) + 0
    BY <1>2, DroppedUses
  <2>2. Uses(g, unfilled, S) \in Nat
    BY UsesFacts
  <2> QED BY <2>1, <2>2
<1>3. ASSUME NEW b \in Addr, t[s].fd_flag = "pipe" \/ b # t[s].fd_inode
      PROVE  Uses(g, unfilled, Inodes(r, b)) = Uses(f, unfilled, Inodes(t, b))
  <2>1. Inodes(r, b) = Inodes(t, b) /\ s \notin Inodes(t, b) /\ Inodes(t, b) \in SUBSET Slot
    BY <1>1, <1>3 DEF Inodes
  <2> QED BY <1>2, <2>1
<1>4. ASSUME t[s].fd_flag # "pipe", t[s].fd_inode \in Addr
      PROVE  Uses(f, unfilled, Inodes(t, t[s].fd_inode)) = Uses(g, unfilled, Inodes(r, t[s].fd_inode)) + 1
  <2> DEFINE S == Inodes(r, t[s].fd_inode)
             S1 == Inodes(t, t[s].fd_inode)
  <2>1. S1 = S \cup {s} /\ S1 \in SUBSET Slot /\ s \in S1
    BY <1>1, <1>4 DEF Inodes
  <2> HIDE DEF S, S1
  <2>2. SameUses(g, unfilled, S, S1)
    BY <2>1, UnusedSlot
  <2>3. Uses(f, unfilled, S1) = Uses(g, unfilled, S1) + 1
    BY <2>1, DroppedUses
  <2> QED BY <2>2, <2>3 DEF SameUses, Uses, S, S1
<1>5. ASSUME NEW x \in Slot, x # s PROVE Uses(g, unfilled, {x}) = Uses(f, unfilled, {x})
  BY <1>2, <1>5
<1> QED BY <1>3, <1>4, <1>5 DEF ClearedCounts

\* The last descriptor of a pipe.
LEMMA PipeFreed ==
  ASSUME Around, NEW f, NEW g \in [Proc -> [Fd -> FdType]], NEW t, NEW m, NEW l,
         Typed(f, t, m, l), TableInv(f, t, m, l),
         NEW p \in Proc, NEW i \in Fd, NEW s, Dropped(f, g, p, i, s),
         t[s].fd_flag = "pipe", ~(t[s].fd_pos > 1),
         NEW r, Cleared(t, r, s), NEW n, n = [m EXCEPT ![t[s].fd_inode] = Vacant]
  PROVE  Typed(g, r, n, l) /\ TableInv(g, r, n, l)
<1> USE FileTableAssumption
<1> DEFINE a == t[s].fd_inode
<1>1. /\ FdInv(f, t, m) /\ SlotInv(t, m, l) /\ CountInv(f, t, m, l) /\ UnfilledInv(f, t)
  BY DEF TableInv
<1>2. s \in Slot /\ t \in [Slot -> FileType] /\ l \in Seq(Addr) /\ m \in [Addr -> InodeType] /\ t[s].fd_pos \in Nat
  BY DEF Typed, Dropped, FileType
<1>3. a # NULL
  BY <1>1, DroppedSlots
<1>4. a \in Addr
  BY <1>2, <1>3 DEF FileType
<1>5. Uses(f, unfilled, {s}) = 1
  BY <1>1, <1>2, <1>3 DEF CountInv
<1>6. Uses(g, unfilled, {s}) = 0
  <2>1. Uses(f, unfilled, {s}) = Uses(g, unfilled, {s}) + 1 /\ Uses(g, unfilled, {s}) \in Nat
    BY <1>2, DroppedUses, UsesFacts
  <2> QED BY <1>5, <2>1
<1>7. Unused(g, unfilled, s)
  <2>1. \/ \E q \in Proc, j \in Fd : g[q][j].slot \in {s}
        \/ \E x \in {s} : unfilled[x] > 0
        => Uses(g, unfilled, {s}) > 0
    BY <1>2, UsesPositive DEF Around
  <2> QED BY <1>2, <1>6, <2>1 DEF Unused, Around
<1>8. /\ n \in [Addr -> InodeType] /\ n[a].space = "free" /\ \A b \in Addr : b # a => n[b] = m[b]
  <2>1. Vacant \in InodeType /\ Vacant.space = "free"
    BY DEF Vacant, InodeType
  <2> QED BY <1>2, <1>4, <2>1
<1>9. /\ ~At(l, a) /\ \A x \in Slot : t[x].fd_inode = a => x = s
      /\ \A q \in Proc : pending[q].addr # a
  BY <1>1, <1>2, <1>3 DEF SlotInv
<1>10. Goes(r, m, n, l, l, a)
  <2>1. Without(l, l, a)
    BY <1>2, <1>9, WithoutSame
  <2> QED BY <1>3, <1>8, <1>9, <2>1 DEF Goes, Cleared
<1>11. CountInv(g, r, n, l)
  <2>1. /\ \A b \in Addr : Uses(g, unfilled, Inodes(r, b)) = Uses(f, unfilled, Inodes(t, b))
        /\ \A x \in Slot : x # s => Uses(g, unfilled, {x}) = Uses(f, unfilled, {x})
    <3>1. ClearedCounts(f, g, t, r, s)
      BY <1>7, ClearedUses
    <3> QED BY <3>1 DEF ClearedCounts
  <2>2. ASSUME NEW x \in 1..Len(l)
        PROVE  n[l[x]].i_open_cnts = Uses(g, unfilled, Inodes(r, l[x])) + Cardinality(Holders(l[x]))
    <3>1. l[x] \in Addr /\ l[x] # a
      BY <1>2, <1>9 DEF At
    <3> QED BY <1>1, <1>8, <2>1, <3>1 DEF CountInv
  <2>3. ASSUME NEW x \in Slot, r[x].fd_inode # NULL, r[x].fd_flag = "pipe"
        PROVE  r[x].fd_pos > 0 /\ r[x].fd_pos = Uses(g, unfilled, {x})
    <3>1. x # s /\ r[x] = t[x]
      BY <2>3 DEF Cleared
    <3> QED BY <1>1, <2>1, <2>3, <3>1 DEF CountInv
  <2> QED BY <2>2, <2>3 DEF CountInv
<1> QED BY <1>2, <1>7, <1>8, <1>10, <1>11, ClearSound DEF a

\* The only descriptor of a slot for a file.
Only(f, p, i, s) == \A q \in Proc, j \in Fd : <<q, j>> # <<p, i>> => f[q][j].slot # s

\* An unlink() that waits counts for its inode.
LEMMA HoldersFacts ==
  ASSUME NEW a
  PROVE  Cardinality(Holders(a)) \in Nat /\ (Cardinality(Holders(a)) = 0 <=> Holders(a) = {})
<1>1. IsFiniteSet(Holders(a))
  BY ProcAssumption, FS_Subset DEF Holders
<1> QED BY <1>1, FS_CardinalityType, FS_EmptySet

\* Then the count of its inode is one more than the other slots account for.
LEMMA OnlyFacts ==
  ASSUME Around, NEW f, NEW g, NEW t, NEW r, NEW m, NEW l, Typed(f, t, m, l), TableInv(f, t, m, l),
         NEW p \in Proc, NEW i \in Fd, NEW s, Dropped(f, g, p, i, s), Only(f, p, i, s),
         t[s].fd_flag # "pipe", Cleared(t, r, s)
  PROVE  /\ t[s].fd_inode \in Addr /\ At(l, t[s].fd_inode) /\ Unused(g, unfilled, s)
         /\ m[t[s].fd_inode].i_open_cnts =
              Uses(g, unfilled, Inodes(r, t[s].fd_inode)) + 1 + Cardinality(Holders(t[s].fd_inode))
<1> DEFINE a == t[s].fd_inode
<1>1. FdInv(f, t, m) /\ SlotInv(t, m, l) /\ CountInv(f, t, m, l) /\ UnfilledInv(f, t)
  BY DEF TableInv
<1>2. s \in Slot /\ t \in [Slot -> FileType] /\ l \in Seq(Addr)
  BY DEF Typed, Dropped
<1>3. a # NULL /\ ~Creating(s) /\ f[p][i].slot = s
  <2>1. a # NULL /\ ~Creating(s)
    BY <1>1 DEF Dropped, FdInv
  <2> QED BY <2>1 DEF Dropped
<1>4. a \in Addr
  BY <1>2, <1>3 DEF FileType
<1>5. At(l, a)
  BY <1>1, <1>2, <1>3 DEF SlotInv
<1>6. Unused(g, unfilled, s)
  <2>1. unfilled[s] = 0
    BY <1>1, <1>2, <1>3 DEF UnfilledInv
  <2>2. ASSUME NEW q \in Proc, NEW j \in Fd PROVE g[q][j].slot # s
    <3>1. CASE <<q, j>> = <<p, i>>
      BY <1>2, <3>1, FileTableAssumption DEF Dropped, NoFd, Slot
    <3>2. CASE <<q, j>> # <<p, i>>
      BY <3>2 DEF Dropped, Only
    <3> QED BY <3>1, <3>2
  <2> QED BY <2>1, <2>2 DEF Unused
<1>7. ClearedCounts(f, g, t, r, s)
  BY <1>6, ClearedUses
<1>8. m[a].i_open_cnts = Uses(f, unfilled, Inodes(t, a)) + Cardinality(Holders(a))
  BY <1>1, <1>5 DEF CountInv, At
<1> QED BY <1>4, <1>5, <1>6, <1>7, <1>8 DEF ClearedCounts

\* The counts after that, for the inodes that stay in the list.
Counted(g, r, m, n, l, k, a) ==
  /\ \A b \in Addr : (At(k, b) => At(l, b)) /\ (b # a => n[b] = m[b])
  /\ At(k, a) => n[a].i_open_cnts = Uses(g, unfilled, Inodes(r, a)) + Cardinality(Holders(a))

\* If so, the counts of all are exact.
LEMMA OnlyCounts ==
  ASSUME NEW f, NEW g, NEW t, NEW r, NEW m, NEW n, NEW l, NEW k \in Seq(Addr), NEW s,
         CountInv(f, t, m, l), Cleared(t, r, s), ClearedCounts(f, g, t, r, s),
         Counted(g, r, m, n, l, k, t[s].fd_inode)
  PROVE  CountInv(g, r, n, k)
<1> USE DEF Counted
<1>1. ASSUME NEW x \in 1..Len(k)
      PROVE  n[k[x]].i_open_cnts = Uses(g, unfilled, Inodes(r, k[x])) + Cardinality(Holders(k[x]))
  <2>1. k[x] \in Addr /\ At(k, k[x])
    BY DEF At
  <2>2. PICK y \in 1..Len(l) : l[y] = k[x]
    BY <2>1 DEF At
  <2>3. CASE k[x] = t[s].fd_inode
    BY <2>1, <2>3
  <2>4. CASE k[x] # t[s].fd_inode
    <3>1. n[k[x]] = m[k[x]] /\ Uses(g, unfilled, Inodes(r, k[x])) = Uses(f, unfilled, Inodes(t, k[x]))
      BY <2>1, <2>4 DEF ClearedCounts
    <3>2. m[k[x]].i_open_cnts = Uses(f, unfilled, Inodes(t, k[x])) + Cardinality(Holders(k[x]))
      BY <2>2 DEF CountInv
    <3> QED BY <3>1, <3>2
  <2> QED BY <2>3, <2>4
<1>2. ASSUME NEW x \in Slot, r[x].fd_inode # NULL, r[x].fd_flag = "pipe"
      PROVE  r[x].fd_pos > 0 /\ r[x].fd_pos = Uses(g, unfilled, {x})
  <2>1. x # s /\ r[x] = t[x]
    BY <1>2 DEF Cleared
  <2> QED BY <1>2, <2>1 DEF CountInv, ClearedCounts
<1> QED BY <1>1, <1>2 DEF CountInv

\* A descriptor for a file that others have open.
Released(o) == [o EXCEPT !.write_deny = FALSE, !.i_open_cnts = o.i_open_cnts - 1]

\* file_close() of a file that other slots have open keeps the invariant.
LEMMA FileCounted ==
  ASSUME Around, NEW f, NEW g \in [Proc -> [Fd -> FdType]], NEW t, NEW m, NEW l,
         Typed(f, t, m, l), TableInv(f, t, m, l),
         NEW p \in Proc, NEW i \in Fd, NEW s, Dropped(f, g, p, i, s), Only(f, p, i, s),
         t[s].fd_flag # "pipe", m[t[s].fd_inode].i_open_cnts > 1, NEW r, Cleared(t, r, s),
         NEW n, n = [m EXCEPT ![t[s].fd_inode] = Released(m[t[s].fd_inode])]
  PROVE  Typed(g, r, n, l) /\ TableInv(g, r, n, l)
<1> DEFINE a == t[s].fd_inode
<1>1. /\ a \in Addr /\ At(l, a) /\ Unused(g, unfilled, s)
      /\ m[a].i_open_cnts = Uses(g, unfilled, Inodes(r, a)) + 1 + Cardinality(Holders(a))
  BY OnlyFacts
<1>2. m \in [Addr -> InodeType] /\ l \in Seq(Addr)
  BY DEF Typed
<1>3. /\ n \in [Addr -> InodeType] /\ n[a].i_open_cnts = m[a].i_open_cnts - 1
      /\ n[a].no = m[a].no /\ n[a].space = m[a].space /\ \A b \in Addr : b # a => n[b] = m[b]
  <2> DEFINE o == Released(m[a])
  <2>1. m[a] \in InodeType /\ m[a].i_open_cnts - 1 \in Nat
    BY <1>1, <1>2 DEF InodeType
  <2>2. o \in InodeType /\ o.i_open_cnts = m[a].i_open_cnts - 1 /\ o.no = m[a].no /\ o.space = m[a].space
    BY <2>1 DEF InodeType, Released
  <2>3. n = [m EXCEPT ![a] = o]
    BY <1>1, <1>2
  <2> HIDE DEF o
  <2> QED BY <1>1, <1>2, <2>2, <2>3
<1> HIDE DEF a
<1>4. Stays(r, m, n, l, l, a)
  <2> DEFINE S == Inodes(r, a)
  <2>1. S \in SUBSET Slot /\ \A x \in S : r[x].fd_inode = a
    BY DEF Inodes
  <2>2. Uses(g, unfilled, S) \in Nat /\ Cardinality(Holders(a)) \in Nat /\ (Cardinality(Holders(a)) = 0 <=> Holders(a) = {})
    BY <2>1, UsesFacts, HoldersFacts
  <2>3. Uses(g, unfilled, S) > 0 \/ Holders(a) # {}
    BY <1>1, <2>2 DEF a
  <2>4. Uses(g, unfilled, S) > 0 => S # {}
    <3>1. Uses(g, unfilled, S) > 0 => \/ \E q \in Proc, j \in Fd : g[q][j].slot \in S
                                      \/ \E x \in S : unfilled[x] > 0
      BY <2>1, UsesPositive DEF Around
    <3> QED BY <3>1
  <2>5. (\E x \in Slot : r[x].fd_inode = a) \/ (\E q \in Proc : pending[q].addr = a)
    BY <2>1, <2>3, <2>4 DEF Holders
  <2>6. \A b \in Addr : n[b].no = m[b].no /\ n[b].space = m[b].space
    BY <1>3
  <2> QED BY <2>5, <2>6 DEF Stays
<1>5. CountInv(g, r, n, l)
  <2>1. CountInv(f, t, m, l) /\ ClearedCounts(f, g, t, r, s)
    BY <1>1, ClearedUses DEF TableInv
  <2>2. n[a].i_open_cnts = Uses(g, unfilled, Inodes(r, a)) + Cardinality(Holders(a))
    <3>1. Uses(g, unfilled, Inodes(r, a)) \in Nat /\ Cardinality(Holders(a)) \in Nat
      <4>1. Inodes(r, a) \in SUBSET Slot
        BY DEF Inodes
      <4> QED BY <4>1, UsesFacts, HoldersFacts
    <3> QED BY <1>1, <1>3, <3>1 DEF a
  <2>3. Counted(g, r, m, n, l, l, a)
    BY <1>3, <2>2 DEF Counted
  <2> QED BY <1>2, <2>1, <2>3, OnlyCounts DEF a
<1> QED BY <1>1, <1>2, <1>3, <1>4, <1>5, ClearSound DEF a

\* The last descriptor for a file.
LEMMA FileFreed ==
  ASSUME Around, NEW f, NEW g \in [Proc -> [Fd -> FdType]], NEW t, NEW m, NEW l,
         Typed(f, t, m, l), TableInv(f, t, m, l),
         NEW p \in Proc, NEW i \in Fd, NEW s, Dropped(f, g, p, i, s), Only(f, p, i, s),
         t[s].fd_flag # "pipe", ~(m[t[s].fd_inode].i_open_cnts > 1), NEW r, Cleared(t, r, s),
         NEW n, n = [m EXCEPT ![t[s].fd_inode] = Vacant],
         NEW k, Without(l, k, t[s].fd_inode)
  PROVE  Typed(g, r, n, k) /\ TableInv(g, r, n, k)
<1> DEFINE a == t[s].fd_inode
           S == Inodes(r, a)
<1>1. /\ a \in Addr /\ At(l, a) /\ Unused(g, unfilled, s)
      /\ m[a].i_open_cnts = Uses(g, unfilled, S) + 1 + Cardinality(Holders(a))
  BY OnlyFacts
<1>2. /\ m \in [Addr -> InodeType] /\ k \in Seq(Addr) /\ s \in Slot
      /\ SlotInv(t, m, l) /\ UnfilledInv(f, t) /\ PendInv(t, m, l) /\ FdInv(f, t, m)
  BY DEF Typed, TableInv, Without, Dropped
<1>3. n \in [Addr -> InodeType] /\ n[a].space = "free" /\ \A b \in Addr : b # a => n[b] = m[b]
  <2>1. Vacant \in InodeType /\ Vacant.space = "free"
    BY DEF Vacant, InodeType
  <2> QED BY <1>1, <1>2, <2>1
<1>4. S \in SUBSET Slot
  BY DEF Inodes
<1> HIDE DEF S
<1>5. Uses(g, unfilled, S) = 0 /\ Holders(a) = {}
  <2>1. /\ Uses(g, unfilled, S) \in Nat /\ Cardinality(Holders(a)) \in Nat
        /\ (Cardinality(Holders(a)) = 0 <=> Holders(a) = {})
    BY <1>4, UsesFacts, HoldersFacts
  <2> QED BY <1>1, <2>1
<1>6. (\A q \in Proc, j \in Fd : g[q][j].slot \notin S) /\ \A x \in S : ~(unfilled[x] > 0)
  <2>1. (\E q \in Proc, j \in Fd : g[q][j].slot \in S) \/ (\E x \in S : unfilled[x] > 0)
        => Uses(g, unfilled, S) > 0
    BY <1>4, UsesPositive DEF Around
  <2> QED BY <1>5, <2>1
<1>7. ASSUME NEW q \in Proc PROVE pending[q].addr # a
  <2>1. CallInv(pending[q], t, m, l) /\ pending[q].op \in {"none", "open", "create", "delete", "release"}
    BY <1>2 DEF PendInv, Around, CallType
  <2>2. a # NULL
    BY <1>1, FileTableAssumption DEF Addr, NULL
  <2> QED BY <1>1, <1>5, <2>1, <2>2 DEF CallInv, Holders
<1>8. ASSUME NEW x \in Slot PROVE r[x].fd_inode # a
  <2> SUFFICES ASSUME r[x].fd_inode = a PROVE FALSE
    OBVIOUS
  <2>1. a # NULL /\ r[s].fd_inode = NULL
    BY <1>1, FileTableAssumption DEF Addr, NULL, Cleared
  <2>2. x # s /\ r[x] = t[x] /\ t[x].fd_inode = a
    BY <2>1 DEF Cleared
  <2>3. t[x].fd_flag # "pipe"
    BY <1>1, <1>2, <2>1, <2>2 DEF SlotInv
  <2>4. x \in S
    BY <2>2, <2>3 DEF S, Inodes
  <2>5. ~Creating(x)
    <3>1. ASSUME NEW q \in Proc, pending[q].op = "create", pending[q].slot = x PROVE FALSE
      <4>1. CallInv(pending[q], t, m, l)
        BY <1>2 DEF PendInv
      <4> QED BY <1>1, <2>2, <3>1, <4>1 DEF CallInv
    <3> QED BY <3>1 DEF Creating
  <2>6. unfilled[x] \in 0..2 /\ unfilled[x] = 0
    BY <1>2, <1>6, <2>4 DEF UnfilledInv
  <2>7. \E q \in Proc, j \in Fd : f[q][j].slot = x
    BY <1>2, <2>1, <2>2, <2>3, <2>5, <2>6 DEF UnfilledInv
  <2>8. \E q \in Proc, j \in Fd : g[q][j].slot = x
    BY <2>2, <2>7 DEF Dropped
  <2> QED BY <1>6, <2>4, <2>8
<1>9. Goes(r, m, n, l, k, a)
  BY <1>3, <1>7, <1>8 DEF Goes
<1>10. CountInv(g, r, n, k)
  <2>1. CountInv(f, t, m, l) /\ ClearedCounts(f, g, t, r, s)
    BY <1>1, ClearedUses DEF TableInv
  <2>2. Counted(g, r, m, n, l, k, a)
    BY <1>1, <1>3 DEF Counted, Without
  <2> QED BY <1>2, <2>1, <2>2, OnlyCounts
<1> QED BY <1>1, <1>2, <1>3, <1>9, <1>10, ClearSound
-----------------------------------------------------------------------------
\* sys_close() on a state that is not spoiled.
AsFiles(f, t, m, l, x) == [fd |-> f, table |-> t, mem |-> m, list |-> l, spoiled |-> x]

\* inode_close() on an inode of the list.
InodeClosed(r, f, t, m, l, x, a) ==
  IF m[a].i_open_cnts > 1
  THEN r = AsFiles(f, t, [m EXCEPT ![a].i_open_cnts = @ - 1], l, x)
  ELSE \E y : /\ r = AsFiles(f, t, [m EXCEPT ![a] = Vacant],
                             RemoveAt(l, CHOOSE i \in 1..Len(l) : l[i] = a), y)
              /\ x # "no" => y # "no"

\* inode_close() gives a record of that form.
LEMMA InodeCloseIs ==
  ASSUME NEW f, NEW t, NEW m, NEW l, NEW x, NEW p, NEW a, NEW last
  PROVE  InodeClosed(inode_close(AsFiles(f, t, m, l, x), p, a, last), f, t, m, l, x, a)
<1> USE DEF InodeClosed
<1> DEFINE st == AsFiles(f, t, m, l, x)
           at == CHOOSE i \in 1..Len(l) : l[i] = a
           near == {l[i] : i \in {at - 1, at, at + 1} \cap 1..Len(l)}
           y == IF Foreign(p, near) THEN "foreign" ELSE IF a \in last THEN "heap" ELSE x
<1>1. st.fd = f /\ st.table = t /\ st.mem = m /\ st.list = l /\ st.spoiled = x
  BY DEF AsFiles
<1>2. CASE m[a].i_open_cnts > 1
  <2>1. inode_close(st, p, a, last) = [st EXCEPT !.mem[a].i_open_cnts = @ - 1]
    BY <1>1, <1>2 DEF inode_close
  <2>2. [st EXCEPT !.mem[a].i_open_cnts = @ - 1] = AsFiles(f, t, [m EXCEPT ![a].i_open_cnts = @ - 1], l, x)
    BY DEF AsFiles
  <2> QED BY <1>2, <2>1, <2>2
<1>3. CASE ~(m[a].i_open_cnts > 1)
  <2>1. inode_close(st, p, a, last) = [st EXCEPT !.mem[a] = Vacant, !.list = RemoveAt(@, at), !.spoiled = y]
    BY <1>1, <1>3 DEF inode_close
  <2> DEFINE n == [m EXCEPT ![a] = Vacant]
             k == RemoveAt(l, at)
  <2> HIDE DEF at, y
  <2>2. [st EXCEPT !.mem[a] = Vacant, !.list = RemoveAt(@, at), !.spoiled = y] = AsFiles(f, t, n, k, y)
    <3>1. [st EXCEPT !.mem[a] = Vacant] = AsFiles(f, t, n, l, x)
      BY DEF AsFiles
    <3> HIDE DEF n
    <3>2. [AsFiles(f, t, n, l, x) EXCEPT !.list = RemoveAt(@, at)] = AsFiles(f, t, n, k, x)
      BY DEF AsFiles
    <3> HIDE DEF k
    <3>3. [AsFiles(f, t, n, k, x) EXCEPT !.spoiled = y] = AsFiles(f, t, n, k, y)
      BY DEF AsFiles
    <3> HIDE DEF st
    <3> QED BY <3>1, <3>2, <3>3
  <2>3. x # "no" => y # "no"
    BY DEF y
  <2>4. inode_close(st, p, a, last) = AsFiles(f, t, [m EXCEPT ![a] = Vacant], RemoveAt(l, at), y)
    BY <2>1, <2>2
  <2> QED BY <1>3, <2>3, <2>4 DEF at
<1> QED BY <1>2, <1>3

\* pipe_close() of the last descriptor.
PipeClosed(r, f, t, m, l, x, s) ==
  r = AsFiles(f, [t EXCEPT ![s].fd_pos = 0, ![s].fd_inode = NULL],
              [m EXCEPT ![t[s].fd_inode] = Vacant], l, x)

\* pipe_close() gives a record of that form.
LEMMA PipeCloseIs ==
  ASSUME NEW f, NEW t, NEW m, NEW l, NEW x, NEW s, ~(t[s].fd_pos > 1)
  PROVE  PipeClosed(pipe_close(AsFiles(f, t, m, l, x), s), f, t, m, l, x, s)
<1> USE DEF PipeClosed
<1> DEFINE st == AsFiles(f, t, m, l, x)
           a == t[s].fd_inode
           n == [m EXCEPT ![a] = Vacant]
           t1 == [t EXCEPT ![s].fd_pos = 0]
           t2 == [t1 EXCEPT ![s].fd_inode = NULL]
<1>1. st.table = t
  BY DEF AsFiles
<1>2. pipe_close(st, s) = [st EXCEPT !.mem[a] = Vacant, !.table[s].fd_pos = 0, !.table[s].fd_inode = NULL]
  BY <1>1 DEF pipe_close
<1> HIDE DEF a
<1>3. [st EXCEPT !.mem[a] = Vacant] = AsFiles(f, t, n, l, x)
  BY DEF AsFiles
<1> HIDE DEF n
<1>4. [AsFiles(f, t, n, l, x) EXCEPT !.table[s].fd_pos = 0] = AsFiles(f, t1, n, l, x)
  BY DEF AsFiles
<1> HIDE DEF t1
<1>5. [AsFiles(f, t1, n, l, x) EXCEPT !.table[s].fd_inode = NULL] = AsFiles(f, t2, n, l, x)
  BY DEF AsFiles
<1> HIDE DEF st, t2
<1>6. pipe_close(st, s) = AsFiles(f, t2, n, l, x)
  BY <1>2, <1>3, <1>4, <1>5
<1> QED BY <1>6 DEF st, t2, t1, n, a

\* file_close(), from what inode_close() leaves.
FileClosed(r, f, t, n, k, s, y) ==
  \E z : r = AsFiles(f, [t EXCEPT ![s].fd_inode = NULL], n, k, z) /\ (y # "no" => z # "no")

\* file_close() gives a record of that form.
LEMMA FileCloseIs ==
  ASSUME NEW f, NEW t, NEW m, NEW l, NEW x, NEW p, NEW s, NEW n, NEW k, NEW y, NEW last,
         inode_close(AsFiles(f, t, [m EXCEPT ![t[s].fd_inode].write_deny = FALSE], l, x), p, t[s].fd_inode, last)
           = AsFiles(f, t, n, k, y)
  PROVE  FileClosed(file_close(AsFiles(f, t, m, l, x), p, s, last), f, t, n, k, s, y)
<1> DEFINE st == AsFiles(f, t, m, l, x)
           a == t[s].fd_inode
           v == FALSE
           m1 == [m EXCEPT ![a].write_deny = v]
           r == inode_close(AsFiles(f, t, m1, l, x), p, a, last)
           z == IF Foreign(p, {a}) THEN "foreign" ELSE y
           w == [t EXCEPT ![s].fd_inode = NULL]
<1>1. st.table = t
  BY DEF AsFiles
<1> HIDE DEF a, v
<1>2. [st EXCEPT !.mem[a].write_deny = v] = AsFiles(f, t, m1, l, x)
  BY DEF AsFiles
<1>3. file_close(st, p, s, last) = [r EXCEPT !.table[s].fd_inode = NULL,
                                       !.spoiled = IF Foreign(p, {a}) THEN "foreign" ELSE @]
  BY <1>1, <1>2 DEF file_close, a, v
<1>4. r = AsFiles(f, t, n, k, y)
  BY DEF a, v
<1> HIDE DEF r
<1>5. [AsFiles(f, t, n, k, y) EXCEPT !.table[s].fd_inode = NULL] = AsFiles(f, w, n, k, y)
  BY DEF AsFiles
<1> HIDE DEF w
<1>6. [AsFiles(f, w, n, k, y) EXCEPT !.spoiled = IF Foreign(p, {a}) THEN "foreign" ELSE @] = AsFiles(f, w, n, k, z)
  BY DEF AsFiles
<1>7. y # "no" => z # "no"
  OBVIOUS
<1> HIDE DEF z, st
<1>8. file_close(st, p, s, last) = AsFiles(f, w, n, k, z)
  BY <1>3, <1>4, <1>5, <1>6
<1> QED BY <1>7, <1>8 DEF FileClosed, st, w

\* file_close() frees the slot, whatever becomes of the inode.
SlotFreed(r, f, t, x, s) ==
  \E n, k, z : r = AsFiles(f, [t EXCEPT ![s].fd_inode = NULL], n, k, z) /\ (x # "no" => z # "no")

LEMMA FileCloseGives ==
  ASSUME NEW f, NEW t, NEW m, NEW l, NEW x, NEW p, NEW s, NEW last
  PROVE  SlotFreed(file_close(AsFiles(f, t, m, l, x), p, s, last), f, t, x, s)
<1> DEFINE a == t[s].fd_inode
           m1 == [m EXCEPT ![a].write_deny = FALSE]
           q == inode_close(AsFiles(f, t, m1, l, x), p, a, last)
           w == [t EXCEPT ![s].fd_inode = NULL]
           r == file_close(AsFiles(f, t, m, l, x), p, s, last)
<1>1. \E n, k, y : q = AsFiles(f, t, n, k, y) /\ (x # "no" => y # "no")
  <2> HIDE DEF m1, a
  <2>1. InodeClosed(q, f, t, m1, l, x, a)
    BY InodeCloseIs
  <2> HIDE DEF q
  <2>2. CASE m1[a].i_open_cnts > 1
    BY <2>1, <2>2 DEF InodeClosed
  <2>3. CASE ~(m1[a].i_open_cnts > 1)
    BY <2>1, <2>3 DEF InodeClosed
  <2> QED BY <2>2, <2>3
<1>2. PICK n, k, y : q = AsFiles(f, t, n, k, y) /\ (x # "no" => y # "no")
  BY <1>1
<1>3. FileClosed(r, f, t, n, k, s, y)
  BY <1>2, FileCloseIs
<1> HIDE DEF r
<1>4. PICK z : r = AsFiles(f, w, n, k, z) /\ (y # "no" => z # "no")
  BY <1>3 DEF FileClosed
<1> HIDE DEF w
<1>5. \E n1, k1, z1 : r = AsFiles(f, w, n1, k1, z1) /\ (x # "no" => z1 # "no")
  BY <1>2, <1>4
<1> QED BY <1>5 DEF r, w, SlotFreed

\* sys_close() clears the descriptor.
LEMMA DropIs ==
  ASSUME NEW f, NEW t, NEW m, NEW l, NEW x, NEW p, NEW i
  PROVE  [AsFiles(f, t, m, l, x) EXCEPT !.fd[p][i] = NoFd] = AsFiles([f EXCEPT ![p][i] = NoFd], t, m, l, x)
BY DEF AsFiles

\* What is spoiled stays so, and the record is one of Files.
LEMMA CloseIs ==
  ASSUME NEW f, NEW t, NEW m, NEW l, NEW x, NEW p, NEW i, NEW last
  PROVE  \E g, r, n, k, y : /\ sys_close(AsFiles(f, t, m, l, x), p, i, last) = AsFiles(g, r, n, k, y)
                            /\ x # "no" => y # "no"
<1> DEFINE Kept(r) == \E g, u, n, k, y : r = AsFiles(g, u, n, k, y) /\ (x # "no" => y # "no")
           st == AsFiles(f, t, m, l, x)
           s == f[p][i].slot
           a == t[s].fd_inode
<1>1. st.fd = f /\ st.table = t /\ st.mem = m /\ st.list = l /\ st.spoiled = x
  BY DEF AsFiles
<1>2. Kept(pipe_close(st, s))
  <2>1. CASE t[s].fd_pos > 1
    <3>1. [st EXCEPT !.table[s].fd_pos = @ - 1] = AsFiles(f, [t EXCEPT ![s].fd_pos = @ - 1], m, l, x)
      BY DEF AsFiles
    <3> DEFINE w == [t EXCEPT ![s].fd_pos = @ - 1]
    <3>2. pipe_close(st, s) = [st EXCEPT !.table[s].fd_pos = @ - 1]
      BY <1>1, <2>1 DEF pipe_close
    <3>3. pipe_close(st, s) = AsFiles(f, w, m, l, x)
      BY <3>1, <3>2
    <3> HIDE DEF w
    <3> QED BY <3>3
  <2>2. CASE ~(t[s].fd_pos > 1)
    <3> HIDE DEF a
    <3>1. PipeClosed(pipe_close(st, s), f, t, m, l, x, s)
      <4> HIDE DEF s
      <4> QED BY <2>2, PipeCloseIs
    <3> DEFINE q == pipe_close(st, s)
    <3>2. PipeClosed(q, f, t, m, l, x, s)
      BY <3>1
    <3> HIDE DEF q, s
    <3>3. \E w, n : q = AsFiles(f, w, n, l, x)
      BY <3>2 DEF PipeClosed
    <3>4. Kept(q)
      BY <3>3
    <3> QED BY <3>4 DEF q
  <2> QED BY <2>1, <2>2
<1>3. ASSUME NEW q, Kept(q) PROVE Kept([q EXCEPT !.spoiled = IF @ = "no" THEN "shared" ELSE @])
  <2>1. PICK g, u, n, k, y : q = AsFiles(g, u, n, k, y) /\ (x # "no" => y # "no")
    BY <1>3
  <2> DEFINE z == IF y = "no" THEN "shared" ELSE y
  <2>2. [q EXCEPT !.spoiled = IF @ = "no" THEN "shared" ELSE @] = AsFiles(g, u, n, k, z)
    BY <2>1 DEF AsFiles
  <2>3. z # "no"
    OBVIOUS
  <2> HIDE DEF z
  <2> QED BY <2>2, <2>3
<1>4. Kept(file_close(st, p, s, last))
  <2>1. SlotFreed(file_close(st, p, s, last), f, t, x, s)
    <3> HIDE DEF s
    <3> QED BY FileCloseGives
  <2> HIDE DEF st, s
  <2>2. PICK n, k, z : /\ file_close(st, p, s, last) = AsFiles(f, [t EXCEPT ![s].fd_inode = NULL], n, k, z)
                       /\ x # "no" => z # "no"
    BY <2>1 DEF SlotFreed
  <2> DEFINE w == [t EXCEPT ![s].fd_inode = NULL]
  <2>3. file_close(st, p, s, last) = AsFiles(f, w, n, k, z)
    BY <2>2
  <2> HIDE DEF w
  <2> QED BY <2>2, <2>3
<1>5. ASSUME NEW r, Kept(r) PROVE Kept([r EXCEPT !.fd[p][i] = NoFd])
  <2>1. PICK g, u, n, k, y : r = AsFiles(g, u, n, k, y) /\ (x # "no" => y # "no")
    BY <1>5
  <2>2. [r EXCEPT !.fd[p][i] = NoFd] = AsFiles([g EXCEPT ![p][i] = NoFd], u, n, k, y)
    BY <2>1 DEF AsFiles
  <2> QED BY <2>1, <2>2
<1> DEFINE r == IF t[s].fd_flag = "pipe" THEN pipe_close(st, s)
                ELSE IF Shared(st, p, i)
                THEN [file_close(st, p, s, last) EXCEPT !.spoiled = IF @ = "no" THEN "shared" ELSE @]
                ELSE file_close(st, p, s, last)
<1>6. sys_close(st, p, i, last) = [r EXCEPT !.fd[p][i] = NoFd]
  BY <1>1 DEF sys_close
<1> HIDE DEF Kept, st, s
<1>7. Kept(r)
  BY <1>2, <1>3, <1>4
<1> HIDE DEF r
<1>8. Kept(sys_close(st, p, i, last))
  BY <1>5, <1>6, <1>7
<1> QED BY <1>8 DEF Kept, st

\* The parts of a record of the files are those it was made from.
LEMMA FilesEqual ==
  ASSUME NEW f, NEW t, NEW m, NEW l, NEW x, NEW g, NEW r, NEW n, NEW k, NEW y,
         AsFiles(f, t, m, l, x) = AsFiles(g, r, n, k, y)
  PROVE  f = g /\ t = r /\ m = n /\ l = k /\ x = y
BY DEF AsFiles

\* sys_close() keeps the invariant, unless it spoils the table.
LEMMA CloseSound ==
  ASSUME Around, NEW f, NEW t, NEW m, NEW l, Typed(f, t, m, l), TableInv(f, t, m, l),
         NEW p \in Proc, NEW i \in Fd, f[p][i] # NoFd, NEW last,
         NEW g, NEW r, NEW n, NEW k, sys_close(AsFiles(f, t, m, l, "no"), p, i, last) = AsFiles(g, r, n, k, "no")
  PROVE  Typed(g, r, n, k) /\ TableInv(g, r, n, k) /\ g = [f EXCEPT ![p][i] = NoFd]
<1> USE FileTableAssumption
<1> DEFINE h == [f EXCEPT ![p][i] = NoFd]
           s == f[p][i].slot
           a == t[s].fd_inode
           st == AsFiles(f, t, m, l, "no")
<1>1. /\ f \in [Proc -> [Fd -> FdType]] /\ t \in [Slot -> FileType]
      /\ m \in [Addr -> InodeType] /\ l \in Seq(Addr)
  BY DEF Typed
<1>2. h \in [Proc -> [Fd -> FdType]]
  <2>1. NoFd \in FdType
    BY DEF NoFd, FdType, Nothing
  <2> QED BY <1>1, <2>1
<1>3. s \in Slot /\ a # NULL /\ ~Creating(s)
  BY DEF TableInv, FdInv
<1>4. a \in Addr
  BY <1>1, <1>3 DEF FileType
<1>5. Dropped(f, h, p, i, s)
  BY <1>1, <1>3 DEF Dropped
<1>6. CASE t[s].fd_flag = "pipe" /\ t[s].fd_pos > 1
  <2>1. sys_close(st, p, i, last) = AsFiles(h, [t EXCEPT ![s].fd_pos = @ - 1], m, l, "no")
    BY <1>6 DEF sys_close, pipe_close, AsFiles
  <2>2. g = h /\ r = [t EXCEPT ![s].fd_pos = @ - 1] /\ n = m /\ k = l
    <3> DEFINE r1 == [t EXCEPT ![s].fd_pos = @ - 1]
    <3>1. AsFiles(g, r, n, k, "no") = AsFiles(h, r1, m, l, "no")
      BY <2>1
    <3> HIDE DEF h, r1
    <3>2. g = h /\ r = r1 /\ n = m /\ k = l
      BY <3>1, FilesEqual
    <3> QED BY <3>2 DEF r1
  <2> HIDE DEF h, s
  <2>3. Typed(h, r, m, l) /\ TableInv(h, r, m, l)
    BY <1>2, <1>5, <1>6, <2>2, PipeCounted
  <2> QED BY <2>2, <2>3 DEF h
<1>7. CASE t[s].fd_flag = "pipe" /\ ~(t[s].fd_pos > 1)
  <2> DEFINE r2 == [t EXCEPT ![s].fd_pos = 0, ![s].fd_inode = NULL]
             n2 == [m EXCEPT ![a] = Vacant]
  <2>1. sys_close(st, p, i, last) = AsFiles(h, r2, n2, l, "no")
    <3>1. st.table = t /\ st.fd = f
      BY DEF AsFiles
    <3>2. sys_close(st, p, i, last) = [pipe_close(st, s) EXCEPT !.fd[p][i] = NoFd]
      BY <1>7, <3>1 DEF sys_close
    <3>3. pipe_close(st, s) = AsFiles(f, r2, n2, l, "no")
      <4> HIDE DEF s
      <4>1. PipeClosed(pipe_close(st, s), f, t, m, l, "no", s)
        BY <1>7, PipeCloseIs
      <4> HIDE DEF st
      <4> QED BY <4>1 DEF PipeClosed
    <3> HIDE DEF r2, n2
    <3>4. [AsFiles(f, r2, n2, l, "no") EXCEPT !.fd[p][i] = NoFd] = AsFiles(h, r2, n2, l, "no")
      BY DEF AsFiles
    <3> HIDE DEF h, st, s
    <3> QED BY <3>2, <3>3, <3>4
  <2>2. g = h /\ r = r2 /\ n = n2 /\ k = l
    <3> HIDE DEF h, r2, n2
    <3> QED BY <2>1, FilesEqual
  <2>3. Cleared(t, r2, s)
    <3> DEFINE e == [t[s] EXCEPT !.fd_pos = 0, !.fd_inode = NULL]
    <3>1. t[s] \in FileType
      BY <1>1, <1>3
    <3>2. e \in FileType /\ e.fd_inode = NULL
      BY <3>1 DEF FileType
    <3>3. r2 = [t EXCEPT ![s] = e]
      BY <1>1, <1>3
    <3> HIDE DEF e, s, r2
    <3>4. r2 \in [Slot -> FileType] /\ r2[s] = e /\ \A x \in Slot : x # s => r2[x] = t[x]
      BY <1>1, <1>3, <3>2, <3>3
    <3> QED BY <3>2, <3>4 DEF Cleared
  <2> HIDE DEF h, s, r2
  <2>4. Typed(h, r2, n2, l) /\ TableInv(h, r2, n2, l)
    BY <1>2, <1>5, <1>7, <2>3, PipeFreed
  <2> QED BY <2>2, <2>4 DEF h
<1>8. CASE t[s].fd_flag # "pipe"
  <2> DEFINE m1 == [m EXCEPT ![a].write_deny = FALSE]
             r2 == [t EXCEPT ![s].fd_inode = NULL]
             at == CHOOSE j \in 1..Len(l) : l[j] = a
  <2>1. ~Shared(st, p, i)
    <3> SUFFICES ASSUME Shared(st, p, i) PROVE FALSE
      OBVIOUS
    <3> DEFINE q == file_close(st, p, s, last)
    <3>1. st.table = t /\ st.fd = f
      BY DEF AsFiles
    <3>2. sys_close(st, p, i, last)
            = [[q EXCEPT !.spoiled = IF @ = "no" THEN "shared" ELSE @] EXCEPT !.fd[p][i] = NoFd]
      BY <1>8, <3>1 DEF sys_close
    <3>3. \E n1, k1, z : q = AsFiles(f, r2, n1, k1, z)
      <4> HIDE DEF s
      <4>1. SlotFreed(q, f, t, "no", s)
        BY FileCloseGives
      <4> HIDE DEF q
      <4> QED BY <4>1 DEF SlotFreed
    <3> HIDE DEF q, r2
    <3>4. PICK n1, k1, z : q = AsFiles(f, r2, n1, k1, z)
      BY <3>3
    <3> DEFINE z1 == IF z = "no" THEN "shared" ELSE z
    <3>5. [q EXCEPT !.spoiled = IF @ = "no" THEN "shared" ELSE @] = AsFiles(f, r2, n1, k1, z1)
      BY <3>4 DEF AsFiles
    <3>6. z1 # "no"
      OBVIOUS
    <3> HIDE DEF z1, st
    <3>7. sys_close(st, p, i, last) = AsFiles(h, r2, n1, k1, z1)
      <4>1. [AsFiles(f, r2, n1, k1, z1) EXCEPT !.fd[p][i] = NoFd] = AsFiles(h, r2, n1, k1, z1)
        BY DEF AsFiles
      <4>2. sys_close(st, p, i, last) = [AsFiles(f, r2, n1, k1, z1) EXCEPT !.fd[p][i] = NoFd]
        BY <3>2, <3>5
      <4> HIDE DEF h
      <4> QED BY <4>1, <4>2
    <3>8. AsFiles(g, r, n, k, "no") = AsFiles(h, r2, n1, k1, z1)
      BY <3>7 DEF st
    <3> HIDE DEF h
    <3>9. z1 = "no"
      BY <3>8, FilesEqual
    <3> QED BY <3>6, <3>9
  <2>2. sys_close(st, p, i, last) = [file_close(st, p, s, last) EXCEPT !.fd[p][i] = NoFd]
    BY <1>8, <2>1 DEF sys_close, AsFiles
  <2>3. Only(f, p, i, s)
    BY <2>1 DEF Shared, Only, AsFiles
  <2>4. m1 \in [Addr -> InodeType] /\ m1[a].i_open_cnts = m[a].i_open_cnts
    <3> DEFINE o == [m[a] EXCEPT !.write_deny = FALSE]
    <3>1. m[a] \in InodeType
      BY <1>1, <1>4
    <3>2. o \in InodeType /\ o.i_open_cnts = m[a].i_open_cnts
      BY <3>1 DEF InodeType
    <3>3. m1 = [m EXCEPT ![a] = o]
      BY <1>1, <1>4
    <3> HIDE DEF o, a, m1
    <3> QED BY <1>1, <1>4, <3>2, <3>3
  <2>5. Cleared(t, r2, s)
    <3>1. r2 \in [Slot -> FileType]
      BY <1>1, <1>3 DEF FileType
    <3>2. r2[s].fd_inode = NULL /\ \A x \in Slot : x # s => r2[x] = t[x]
      BY <1>1, <1>3 DEF FileType
    <3> QED BY <3>1, <3>2 DEF Cleared
  <2>6. CASE m[a].i_open_cnts > 1
    <3> DEFINE n2 == [m EXCEPT ![a] = Released(m[a])]
    <3>0. InodeClosed(inode_close(AsFiles(f, t, m1, l, "no"), p, a, last), f, t, m1, l, "no", a)
      BY InodeCloseIs
    <3>1. inode_close(AsFiles(f, t, m1, l, "no"), p, a, last)
            = AsFiles(f, t, [m1 EXCEPT ![a].i_open_cnts = @ - 1], l, "no")
      BY <2>4, <2>6, <3>0 DEF InodeClosed
    <3>2. [m1 EXCEPT ![a].i_open_cnts = @ - 1] = n2
      BY <1>1, <1>4 DEF Released, InodeType
    <3>3. \E y : sys_close(st, p, i, last) = AsFiles(h, r2, n2, l, y)
      <4>1. FileClosed(file_close(st, p, s, last), f, t, n2, l, s, "no")
        BY <3>1, <3>2, FileCloseIs
      <4>2. PICK z : file_close(st, p, s, last) = AsFiles(f, r2, n2, l, z)
        BY <4>1 DEF FileClosed
      <4>3. [AsFiles(f, r2, n2, l, z) EXCEPT !.fd[p][i] = NoFd] = AsFiles(h, r2, n2, l, z)
        <5> HIDE DEF r2, n2
        <5> QED BY DEF AsFiles
      <4>4. sys_close(st, p, i, last) = AsFiles(h, r2, n2, l, z)
        BY <2>2, <4>2, <4>3
      <4> HIDE DEF h, r2, n2
      <4> QED BY <4>4
    <3>4. g = h /\ r = r2 /\ n = n2 /\ k = l
      <4> HIDE DEF h, r2, n2
      <4>1. PICK z : AsFiles(g, r, n, k, "no") = AsFiles(h, r2, n2, l, z)
        BY <3>3
      <4> QED BY <4>1, FilesEqual
    <3> HIDE DEF h, s, r2
    <3>5. Typed(h, r2, n2, l) /\ TableInv(h, r2, n2, l)
      BY <1>2, <1>5, <1>8, <2>3, <2>5, <2>6, FileCounted
    <3> QED BY <3>4, <3>5 DEF h
  <2>7. CASE ~(m[a].i_open_cnts > 1)
    <3> DEFINE n2 == [m EXCEPT ![a] = Vacant]
               k2 == RemoveAt(l, at)
    <3>0. InodeClosed(inode_close(AsFiles(f, t, m1, l, "no"), p, a, last), f, t, m1, l, "no", a)
      BY InodeCloseIs
    <3>1. PICK y : inode_close(AsFiles(f, t, m1, l, "no"), p, a, last)
                     = AsFiles(f, t, [m1 EXCEPT ![a] = Vacant], k2, y)
      BY <2>4, <2>7, <3>0 DEF InodeClosed
    <3>2. [m1 EXCEPT ![a] = Vacant] = n2
      BY <1>1, <1>4
    <3>3. \E z : sys_close(st, p, i, last) = AsFiles(h, r2, n2, k2, z)
      <4>1. FileClosed(file_close(st, p, s, last), f, t, n2, k2, s, y)
        BY <3>1, <3>2, FileCloseIs
      <4>2. PICK z : file_close(st, p, s, last) = AsFiles(f, r2, n2, k2, z)
        BY <4>1 DEF FileClosed
      <4>3. [AsFiles(f, r2, n2, k2, z) EXCEPT !.fd[p][i] = NoFd] = AsFiles(h, r2, n2, k2, z)
        <5> HIDE DEF r2, n2, k2
        <5> QED BY DEF AsFiles
      <4>4. sys_close(st, p, i, last) = AsFiles(h, r2, n2, k2, z)
        BY <2>2, <4>2, <4>3
      <4> HIDE DEF h, r2, n2
      <4> QED BY <4>4
    <3>4. g = h /\ r = r2 /\ n = n2 /\ k = k2
      <4> HIDE DEF h, r2, n2, k2
      <4>1. PICK z : AsFiles(g, r, n, k, "no") = AsFiles(h, r2, n2, k2, z)
        BY <3>3
      <4> QED BY <4>1, FilesEqual
    <3>5. Without(l, k2, a)
      <4>1. At(l, a)
        BY <1>3, <1>8 DEF TableInv, SlotInv
      <4>2. at \in 1..Len(l) /\ l[at] = a
        BY <4>1 DEF At
      <4>3. \A j \in 1..Len(l) : l[j] = l[at] => j = at
        BY <4>2 DEF TableInv, ListInv
      <4> HIDE DEF at
      <4> QED BY <1>1, <4>2, <4>3, WithoutRemoved
    <3> HIDE DEF h, s, r2, k2
    <3>6. Typed(h, r2, n2, k2) /\ TableInv(h, r2, n2, k2)
      BY <1>2, <1>5, <1>8, <2>3, <2>5, <2>7, <3>5, FileFreed
    <3> QED BY <3>4, <3>6 DEF h
  <2> QED BY <2>6, <2>7
<1> QED BY <1>6, <1>7, <1>8

\* The state of release_prog_resource() after descriptor i: the descriptors up
\* to i are closed.
ClosedTo(st, p, i) ==
  \E f, t, m, l, x :
    /\ st = AsFiles(f, t, m, l, x)
    /\ x = "no" =>
         /\ Typed(f, t, m, l) /\ TableInv(f, t, m, l)
         /\ \A j \in Fd : f[p][j] = IF j <= i THEN NoFd ELSE fd[p][j]

\* So does release_prog_resource(), which closes all that p has.
LEMMA ReleaseSound ==
  ASSUME Around, Typed(fd, table, mem, open_inodes), TableInv(fd, table, mem, open_inodes), NEW p \in Proc,
         NEW last
  PROVE  ClosedTo(release_prog_resource(p, last), p, NFd)
<1> USE FileTableAssumption
<1>1. PICK c : /\ c[0] = Files /\ release_prog_resource(p, last) = c[NFd]
               /\ \A i \in 1..NFd :
                    c[i] = IF fd[p][i] = NoFd THEN c[i - 1] ELSE sys_close(c[i - 1], p, i, last)
  BY ReleaseSteps
<1> DEFINE Bad == {i \in 0..NFd : ~ClosedTo(c[i], p, i)}
<1>2. Bad = {}
  <2> SUFFICES ASSUME Bad # {} PROVE FALSE
    OBVIOUS
  <2> DEFINE i == Lowest(Bad)
  <2>1. i \in Bad /\ \A j \in Bad : i <= j
    BY LowestFacts
  <2> HIDE DEF i
  <2>2. i # 0
    <3>1. c[0] = AsFiles(fd, table, mem, open_inodes, "no")
      BY <1>1 DEF Files, AsFiles
    <3>2. \A j \in Fd : fd[p][j] = IF j <= 0 THEN NoFd ELSE fd[p][j]
      BY DEF Fd
    <3>3. ClosedTo(c[0], p, 0)
      BY <3>1, <3>2 DEF ClosedTo
    <3> QED BY <2>1, <3>3
  <2>3. i \in 1..NFd /\ i \in Fd /\ i - 1 \in 0..NFd /\ ClosedTo(c[i - 1], p, i - 1)
    <3>1. i \in 1..NFd /\ i - 1 \in 0..NFd /\ i - 1 \notin Bad
      BY <2>1, <2>2
    <3> QED BY <3>1 DEF Fd
  <2>4. PICK f, t, m, l, x :
          /\ c[i - 1] = AsFiles(f, t, m, l, x)
          /\ x = "no" => /\ Typed(f, t, m, l) /\ TableInv(f, t, m, l)
                         /\ \A j \in Fd : f[p][j] = IF j <= i - 1 THEN NoFd ELSE fd[p][j]
    BY <2>3 DEF ClosedTo
  <2>5. \A j \in Fd : j # i => (j <= i - 1 <=> j <= i)
    BY <2>3 DEF Fd
  <2>6. CASE fd[p][i] = NoFd
    <3>1. c[i] = AsFiles(f, t, m, l, x)
      BY <1>1, <2>3, <2>4, <2>6
    <3>2. x = "no" => \A j \in Fd : f[p][j] = IF j <= i THEN NoFd ELSE fd[p][j]
      BY <2>3, <2>4, <2>5, <2>6
    <3>3. ClosedTo(c[i], p, i)
      BY <2>4, <3>1, <3>2 DEF ClosedTo
    <3> QED BY <2>1, <3>3
  <2>7. CASE fd[p][i] # NoFd
    <3>1. PICK g, r, n, k, y : /\ sys_close(AsFiles(f, t, m, l, x), p, i, last) = AsFiles(g, r, n, k, y)
                               /\ x # "no" => y # "no"
      BY CloseIs
    <3>2. c[i] = AsFiles(g, r, n, k, y)
      BY <1>1, <2>3, <2>4, <2>7, <3>1
    <3>3. ASSUME y = "no"
          PROVE  /\ Typed(g, r, n, k) /\ TableInv(g, r, n, k)
                 /\ \A j \in Fd : g[p][j] = IF j <= i THEN NoFd ELSE fd[p][j]
      <4>1. /\ x = "no" /\ Typed(f, t, m, l) /\ TableInv(f, t, m, l)
            /\ \A j \in Fd : f[p][j] = IF j <= i - 1 THEN NoFd ELSE fd[p][j]
        BY <2>4, <3>1, <3>3
      <4>2. f[p][i] # NoFd
        BY <2>3, <2>7, <4>1
      <4>3. Typed(g, r, n, k) /\ TableInv(g, r, n, k) /\ g = [f EXCEPT ![p][i] = NoFd]
        BY <2>3, <3>1, <3>3, <4>1, <4>2, CloseSound
      <4>4. \A j \in Fd : g[p][j] = IF j = i THEN NoFd ELSE f[p][j]
        BY <2>3, <4>1, <4>3 DEF Typed
      <4> QED BY <2>3, <2>5, <4>1, <4>3, <4>4
    <3>4. ClosedTo(c[i], p, i)
      BY <3>2, <3>3 DEF ClosedTo
    <3> QED BY <2>1, <3>4
  <2> QED BY <2>6, <2>7
<1> QED BY <1>1, <1>2
-----------------------------------------------------------------------------
\* The invariant of a state that is not spoiled.
Sound == /\ alive \subseteq Proc /\ Typed(fd, table, mem, open_inodes) /\ Around
         /\ TableInv(fd, table, mem, open_inodes) /\ DirInv

\* Until the table is spoiled, FileInv is just that.
LEMMA InvIsSound ==
  ASSUME FileInv, spoiled = "no"
  PROVE  Sound
BY DEF FileInv, TypeOK, Sound, Typed, Around

\* After that it says nothing.
LEMMA SoundIsInv ==
  ASSUME spoiled' = "no" => Sound'
  PROVE  FileInv'
BY DEF FileInv, TypeOK, Sound, Typed, Around

\* Nothing but the state that closing changes is different.
LEMMA TableMoves ==
  ASSUME TableInv(fd', table', mem', open_inodes'),
         UNCHANGED <<alive, dir, inode_bitmap, pending, unfilled>>
  PROVE  TableInv(fd, table, mem, open_inodes)'
<1>1. alive' = alive /\ dir' = dir /\ inode_bitmap' = inode_bitmap /\ pending' = pending /\ unfilled' = unfilled
  OBVIOUS
<1>2. FdInv(fd, table, mem)' /\ SlotInv(table, mem, open_inodes)' /\ ListInv(mem, open_inodes)' /\ MemInv(table, mem)'
  <2>1. FdInv(fd, table, mem)'
    <3>1. ASSUME NEW q \in Proc, NEW j \in Fd, fd'[q][j] # NoFd
          PROVE  LET x == fd'[q][j].slot
                 IN  /\ q \in alive' /\ x \in Slot /\ table'[x].fd_inode # NULL
                     /\ \A r \in Proc : ~(pending'[r].op = "create" /\ pending'[r].slot = x)
                     /\ fd'[q][j].file = IF table'[x].fd_flag = "pipe" THEN <<"pipe", table'[x].fd_inode>>
                                         ELSE <<"file", mem'[table'[x].fd_inode].no>>
      <4>1. FdInv(fd', table', mem')
        BY DEF TableInv
      <4> DEFINE x == fd'[q][j].slot
      <4>2. /\ q \in alive /\ x \in Slot /\ table'[x].fd_inode # NULL /\ ~Creating(x)
            /\ fd'[q][j].file = IF table'[x].fd_flag = "pipe" THEN <<"pipe", table'[x].fd_inode>>
                                ELSE <<"file", mem'[table'[x].fd_inode].no>>
        BY <3>1, <4>1 DEF FdInv
      <4> HIDE DEF x
      <4>3. \A r \in Proc : ~(pending'[r].op = "create" /\ pending'[r].slot = x)
        BY <1>1, <4>2 DEF Creating
      <4> QED BY <1>1, <4>2, <4>3 DEF x
    <3> QED BY <3>1 DEF FdInv, Creating
  <2>2. SlotInv(table, mem, open_inodes)'
    BY <1>1 DEF TableInv, SlotInv, Creating
  <2>3. ListInv(mem, open_inodes)' /\ MemInv(table, mem)'
    BY <1>1 DEF TableInv, ListInv, MemInv
  <2> QED BY <2>1, <2>2, <2>3
<1>3. CountInv(fd, table, mem, open_inodes)' /\ UnfilledInv(fd, table)'
  BY <1>1 DEF TableInv, CountInv, Holders, UnfilledInv, Creating
<1>4. PendInv(table, mem, open_inodes)'
  <2>1. PendInv(table', mem', open_inodes')
    BY DEF TableInv
  <2>2. ASSUME NEW q \in Proc PROVE CallInv(pending[q], table, mem, open_inodes)'
    <3>1. CallInv(pending[q], table', mem', open_inodes')
      BY <2>1 DEF PendInv
    <3> QED BY <1>1, <3>1 DEF CallInv
  <2> QED BY <1>1, <2>1, <2>2 DEF PendInv
<1> QED BY <1>2, <1>3, <1>4 DEF TableInv

\* A program closes a descriptor.
LEMMA CloseStep ==
  ASSUME Sound, NEW p \in Proc, NEW i \in Fd, Close(p, i), spoiled' = "no"
  PROVE  Sound'
<1>1. Files = AsFiles(fd, table, mem, open_inodes, "no")
  BY DEF Files, AsFiles
<1>0. PICK last \in SUBSET OwnInodes(p) : Become(sys_close(Files, p, i, last))
  BY DEF Close
<1>2. PICK g, r, n, k, y : sys_close(AsFiles(fd, table, mem, open_inodes, "no"), p, i, last) = AsFiles(g, r, n, k, y)
  BY CloseIs
<1>3. fd' = g /\ table' = r /\ mem' = n /\ open_inodes' = k /\ spoiled' = y
  <2>1. Become(AsFiles(g, r, n, k, y))
    BY <1>0, <1>1, <1>2
  <2> QED BY <2>1 DEF Become, AsFiles
<1>4. fd[p][i] # NoFd /\ UNCHANGED <<alive, dir, inode_bitmap, pending, unfilled>>
  BY DEF Close
<1>5. Typed(fd, table, mem, open_inodes) /\ TableInv(fd, table, mem, open_inodes) /\ Around
  BY DEF Sound
<1>6. Typed(g, r, n, k) /\ TableInv(g, r, n, k)
  BY <1>2, <1>3, <1>4, <1>5, CloseSound
<1>7. TableInv(fd, table, mem, open_inodes)'
  BY <1>3, <1>4, <1>6, TableMoves
<1> QED BY <1>3, <1>4, <1>6, <1>7 DEF Sound, Typed, Around, DirInv

\* A process exits: its descriptors are closed and its heap is gone.
LEMMA ExitStep ==
  ASSUME Sound, NEW p \in Proc, sys_exit(p), spoiled' = "no"
  PROVE  Sound'
<1> DEFINE lost(o) == IF o.space = p THEN [o EXCEPT !.space = "gone"] ELSE o
<1>1. Typed(fd, table, mem, open_inodes) /\ TableInv(fd, table, mem, open_inodes) /\ Around
  BY DEF Sound
<1>0. PICK last \in SUBSET OwnInodes(p) :
        LET st == release_prog_resource(p, last)
        IN  Become([st EXCEPT !.mem = [a \in Addr |-> lost(st.mem[a])]])
  BY DEF sys_exit
<1>2. ClosedTo(release_prog_resource(p, last), p, NFd)
  BY <1>1, ReleaseSound
<1>3. PICK f, t, m, l, x :
        /\ release_prog_resource(p, last) = AsFiles(f, t, m, l, x)
        /\ x = "no" => /\ Typed(f, t, m, l) /\ TableInv(f, t, m, l)
                       /\ \A j \in Fd : f[p][j] = IF j <= NFd THEN NoFd ELSE fd[p][j]
  BY <1>2 DEF ClosedTo
<1>4. /\ alive' = alive \ {p} /\ pending[p] = NoCall
      /\ UNCHANGED <<dir, inode_bitmap, pending, unfilled>>
  BY DEF sys_exit, Ready
<1>5. /\ fd' = f /\ table' = t /\ open_inodes' = l /\ spoiled' = x
      /\ mem' = [a \in Addr |-> lost(m[a])]
  <2>1. Become([AsFiles(f, t, m, l, x) EXCEPT !.mem = [a \in Addr |-> lost(AsFiles(f, t, m, l, x).mem[a])]])
    BY <1>0, <1>3
  <2> QED BY <2>1 DEF Become, AsFiles
<1>6. /\ Typed(f, t, m, l) /\ TableInv(f, t, m, l) /\ \A j \in Fd : f[p][j] = NoFd
  BY <1>3, <1>5, FileTableAssumption DEF Fd
<1>7. /\ mem' \in [Addr -> InodeType]
      /\ \A a \in Addr : /\ mem'[a].no = m[a].no /\ mem'[a].i_open_cnts = m[a].i_open_cnts
                         /\ mem'[a].space = "free" <=> m[a].space = "free"
  <2>1. m \in [Addr -> InodeType] /\ p \notin {"free", "kernel", "gone"}
    BY <1>6, ProcAssumption DEF Typed
  <2>2. ASSUME NEW o \in InodeType
        PROVE  /\ lost(o) \in InodeType /\ lost(o).no = o.no /\ lost(o).i_open_cnts = o.i_open_cnts
               /\ lost(o).space = "free" <=> o.space = "free"
    BY <2>1 DEF InodeType
  <2> HIDE DEF lost
  <2> QED BY <1>5, <2>1, <2>2
<1>8. /\ \A s \in Slot : t[s].fd_inode # NULL => t[s].fd_inode \in Addr
      /\ \A i \in 1..Len(l) : l[i] \in Addr
  BY <1>6 DEF Typed, FileType
<1>9. /\ FdInv(f, t, m) /\ SlotInv(t, m, l) /\ ListInv(m, l) /\ MemInv(t, m)
      /\ CountInv(f, t, m, l) /\ UnfilledInv(f, t) /\ PendInv(t, m, l)
  BY <1>6 DEF TableInv
<1>10. FdInv(fd, table, mem)'
  <2>1. ASSUME NEW q \in Proc, NEW j \in Fd, f[q][j] # NoFd
        PROVE  LET s == f[q][j].slot
               IN  /\ q \in alive' /\ s \in Slot /\ t[s].fd_inode # NULL /\ ~Creating(s)
                   /\ f[q][j].file = IF t[s].fd_flag = "pipe" THEN <<"pipe", t[s].fd_inode>>
                                     ELSE <<"file", mem'[t[s].fd_inode].no>>
    <3>1. q # p
      BY <1>6, <2>1
    <3> QED BY <1>4, <1>7, <1>8, <1>9, <2>1, <3>1 DEF FdInv
  <2>2. fd' = f /\ table' = t /\ pending' = pending
    BY <1>4, <1>5
  <2> QED BY <2>1, <2>2 DEF FdInv, Creating
<1>11. SlotInv(table, mem, open_inodes)'
  BY <1>4, <1>5, <1>7, <1>8, <1>9 DEF SlotInv, Creating
<1>12. ListInv(mem, open_inodes)'
  BY <1>4, <1>5, <1>7, <1>8, <1>9 DEF ListInv
<1>13. MemInv(table, mem)'
  BY <1>4, <1>5, <1>7, <1>9 DEF MemInv
<1>14. CountInv(fd, table, mem, open_inodes)'
  BY <1>4, <1>5, <1>7, <1>8, <1>9 DEF CountInv, Holders
<1>15. UnfilledInv(fd, table)'
  BY <1>4, <1>5, <1>9 DEF UnfilledInv, Creating
<1>16. PendInv(table, mem, open_inodes)'
  <2>1. ASSUME NEW q \in Proc PROVE CallInv(pending[q], t, mem', l)
    <3>1. CallInv(pending[q], t, m, l)
      BY <1>9 DEF PendInv
    <3> QED BY <1>7, <1>8, <3>1 DEF CallInv
  <2>2. ASSUME NEW q \in Proc, pending[q] # NoCall PROVE q \in alive'
    BY <1>4, <1>9, <2>2 DEF PendInv
  <2>3. ASSUME NEW q \in Proc PROVE CallInv(pending[q], table, mem, open_inodes)'
    BY <1>4, <1>5, <2>1 DEF CallInv
  <2> QED BY <1>4, <1>5, <1>9, <2>2, <2>3 DEF PendInv
<1> QED BY <1>4, <1>5, <1>6, <1>7, <1>10, <1>11, <1>12, <1>13, <1>14, <1>15, <1>16
        DEF Sound, Typed, Around, DirInv, TableInv
-----------------------------------------------------------------------------
\* The calls that use the disk: p has the only one that waits, or there is none.
Alone(P, p, c) == P[p] = c /\ \A q \in Proc : q # p => P[q] = NoCall

\* What is in the record of no call.
LEMMA IdleFacts ==
  /\ NoCall.op = "none" /\ NoCall.addr = NULL /\ NoCall \in CallType
BY DEF NoCall, CallType, Flag, NULL

\* What is being created and what unlink() holds, before a step.
LEMMA AloneFacts ==
  ASSUME NEW p \in Proc, NEW c, Alone(pending, p, c)
  PROVE  /\ \A s : Creating(s) <=> c.op = "create" /\ c.slot = s
         /\ \A a : Holders(a) = IF c.op = "release" /\ c.addr = a THEN {p} ELSE {}
         /\ \A q \in Proc : pending[q].addr = IF q = p THEN c.addr ELSE NULL
BY IdleFacts DEF Alone, Creating, Holders

\* The same after it.
LEMMA AloneNext ==
  ASSUME NEW p \in Proc, NEW c, Alone(pending', p, c)
  PROVE  /\ \A s : Creating(s)' <=> c.op = "create" /\ c.slot = s
         /\ \A a : Holders(a)' = IF c.op = "release" /\ c.addr = a THEN {p} ELSE {}
         /\ \A q \in Proc : pending'[q].addr = IF q = p THEN c.addr ELSE NULL
BY IdleFacts DEF Alone, Creating, Holders

\* What is known of the one call, and what has to be shown of it.
LEMMA AloneCall ==
  ASSUME Sound, NEW p \in Proc, pending[p] # NoCall \/ DiskFree
  PROVE  /\ Alone(pending, p, pending[p]) /\ CallInv(pending[p], table, mem, open_inodes)
         /\ pending[p] # NoCall => p \in alive
BY DEF Sound, TableInv, PendInv, Alone, DiskFree

\* PendInv, when only p may have a call.
LEMMA AloneInv ==
  ASSUME NEW p \in Proc, NEW c, Alone(pending', p, c), p \in alive', c = NoCall \/ c.op # "none",
         CallInv(c, table, mem, open_inodes)'
  PROVE  PendInv(table, mem, open_inodes)'
<1>1. CallInv(NoCall, table, mem, open_inodes)'
  BY DEF NoCall, CallInv
<1>2. ASSUME NEW q \in Proc PROVE CallInv(pending[q], table, mem, open_inodes)'
  <2>1. CASE q = p
    <3>1. pending'[q] = c
      BY <2>1 DEF Alone
    <3> QED BY <3>1 DEF CallInv
  <2>2. CASE q # p
    <3>1. pending'[q] = NoCall
      BY <2>2 DEF Alone
    <3> QED BY <1>1, <3>1 DEF CallInv
  <2> QED BY <2>1, <2>2
<1> QED BY <1>2 DEF PendInv, Alone

\* An address that is free is used by nobody.
LEMMA FreshFacts ==
  ASSUME Sound, NEW a \in Addr, mem[a].space = "free"
  PROVE  /\ ~At(open_inodes, a) /\ \A s \in Slot : table[s].fd_inode # a
         /\ \A q \in Proc : pending[q].addr # a
<1>1. a # NULL
  BY FileTableAssumption DEF Addr, NULL
<1>2. ~At(open_inodes, a) /\ \A s \in Slot : table[s].fd_inode # a
  BY <1>1 DEF Sound, TableInv, ListInv, SlotInv, At
<1>3. ASSUME NEW q \in Proc PROVE pending[q].addr # a
  <2>1. CallInv(pending[q], table, mem, open_inodes) /\ pending[q].op \in {"none", "open", "create", "delete", "release"}
    BY DEF Sound, TableInv, PendInv, Around, CallType
  <2> QED BY <1>1, <2>1 DEF CallInv
<1> QED BY <1>2, <1>3

\* No use of a slot that is free, or that file_create() has just taken, is counted.
LEMMA FreeUnused ==
  ASSUME Sound, NEW s \in Slot, table[s].fd_inode = NULL \/ Creating(s)
  PROVE  Unused(fd, unfilled, s)
<1>1. FdInv(fd, table, mem) /\ UnfilledInv(fd, table)
  BY DEF Sound, TableInv
<1>2. ASSUME NEW q \in Proc, NEW j \in Fd PROVE fd[q][j].slot # s
  <2>1. CASE fd[q][j] = NoFd
    BY <2>1, FileTableAssumption DEF NoFd, Slot
  <2>2. CASE fd[q][j] # NoFd
    BY <1>1, <2>2 DEF FdInv
  <2> QED BY <2>1, <2>2
<1>3. unfilled[s] = 0
  BY <1>1 DEF UnfilledInv
<1> QED BY <1>2, <1>3 DEF Unused

\* An inode is put at the head of the list.
Pushed(l, k, a) ==
  /\ k \in Seq(Addr) /\ Len(k) = Len(l) + 1 /\ k[1] = a
  /\ \A i \in 1..Len(k) : i # 1 => i - 1 \in 1..Len(l) /\ k[i] = l[i - 1]
  /\ \A b : At(k, b) <=> At(l, b) \/ b = a

\* file_open() and unlink() put inodes there so.
LEMMA PushFacts ==
  ASSUME NEW l \in Seq(Addr), NEW a \in Addr
  PROVE  Pushed(l, <<a>> \o l, a)
<1> DEFINE k == <<a>> \o l
<1>1. k \in Seq(Addr) /\ Len(k) = Len(l) + 1 /\ k[1] = a
  OBVIOUS
<1>2. \A i \in 1..Len(k) : i # 1 => i - 1 \in 1..Len(l) /\ k[i] = l[i - 1]
  OBVIOUS
<1>3. \A i \in 1..Len(l) : i + 1 \in 1..Len(k) /\ k[i + 1] = l[i]
  OBVIOUS
<1>4. 1 \in 1..Len(k)
  BY <1>1
<1> HIDE DEF k
<1>5. ASSUME NEW b PROVE At(k, b) <=> At(l, b) \/ b = a
  <2>1. ASSUME NEW i \in 1..Len(k), k[i] = b PROVE At(l, b) \/ b = a
    BY <1>1, <1>2, <2>1 DEF At
  <2>2. ASSUME NEW i \in 1..Len(l), l[i] = b PROVE At(k, b)
    BY <1>3, <2>2 DEF At
  <2>3. At(k, a)
    BY <1>1, <1>4 DEF At
  <2> QED BY <2>1, <2>2, <2>3 DEF At
<1> QED BY <1>1, <1>2, <1>5 DEF Pushed, k

\* A call gets slot s for the inode at a, which was in the list or is put there,
\* and nobody waits for the disk any more.
Opens(p, s, a) ==
  /\ p \in alive /\ s \in Slot /\ a \in Addr /\ UNCHANGED <<alive, inode_bitmap>>
  /\ Alone(pending, p, pending[p]) /\ pending[p].op # "release" /\ pending[p].addr \in {NULL, a}
  /\ pending' \in [Proc -> CallType] /\ Alone(pending', p, NoCall)
  /\ \/ table[s].fd_inode = NULL
     \/ Creating(s) /\ table[s].fd_inode = a /\ table[s].fd_flag # "pipe"
  /\ \A x \in Slot : (Creating(x) => x = s) /\ (table[x].fd_inode = a => table[x].fd_flag # "pipe")
  /\ table' \in [Slot -> FileType] /\ table'[s].fd_inode = a /\ table'[s].fd_flag # "pipe"
  /\ \A x \in Slot : x # s => table'[x] = table[x]
  /\ Taken(fd, fd', unfilled, unfilled', p, s, <<"file", mem[a].no>>)
  /\ mem[a].space # "free" /\ mem' \in [Addr -> InodeType]
  /\ \A b \in Addr : mem'[b].no = mem[b].no /\ mem'[b].space = mem[b].space
  /\ \A b \in Addr : b # a => mem'[b].i_open_cnts = mem[b].i_open_cnts
  /\ \/ /\ At(open_inodes, a) /\ open_inodes' = open_inodes
        /\ mem'[a].i_open_cnts = mem[a].i_open_cnts + 1
     \/ /\ \A i \in 1..Len(open_inodes) : mem[open_inodes[i]].no # mem[a].no
        /\ \A x \in Slot : table[x].fd_inode = a => x = s
        /\ Pushed(open_inodes, open_inodes', a) /\ mem'[a].i_open_cnts = 1
  /\ mem[a].no \in inode_bitmap /\ \E name \in Name : dir'[name] = mem[a].no
  /\ dir' \in [Name -> {0} \cup Number] /\ DirInv'
  /\ \A i \in 1..Len(open_inodes) :
       (\E name \in Name : dir[name] = mem[open_inodes[i]].no) =>
         \E name \in Name : dir'[name] = mem[open_inodes[i]].no

\* The uses that are counted after that.
LEMMA OpensUses ==
  ASSUME Sound, NEW p \in Proc, NEW s, NEW a, Opens(p, s, a)
  PROVE  /\ \A b \in Addr : Uses(fd', unfilled', Inodes(table', b)) =
                              Uses(fd, unfilled, Inodes(table, b)) + IF b = a THEN 1 ELSE 0
         /\ \A x \in Slot : x # s => Uses(fd', unfilled', {x}) = Uses(fd, unfilled, {x})
<1> DEFINE file == <<"file", mem[a].no>>
<1>1. /\ fd \in [Proc -> [Fd -> FdType]] /\ unfilled \in [Slot -> Nat] /\ s \in Slot /\ a \in Addr
      /\ file \in {"none", "pipe", "file"} \X Nat
  BY FileTableAssumption DEF Sound, Typed, Around, Opens, InodeType, Number
<1>2. Unused(fd, unfilled, s)
  BY FreeUnused DEF Opens
<1>3. Taken(fd, fd', unfilled, unfilled', p, s, file)
  BY DEF Opens
<1> HIDE DEF file
<1>4. ASSUME NEW S \in SUBSET Slot, s \notin S
      PROVE  /\ Uses(fd', unfilled', S) = Uses(fd, unfilled, S)
             /\ Uses(fd', unfilled', S \cup {s}) = Uses(fd, unfilled, S) + 1
  BY <1>1, <1>2, <1>3, <1>4, TakenUses
<1>5. NULL \notin Addr
  BY FileTableAssumption DEF Addr, NULL
<1>6. ASSUME NEW b \in Addr, b # a
      PROVE  Uses(fd', unfilled', Inodes(table', b)) = Uses(fd, unfilled, Inodes(table, b))
  <2>1. Inodes(table', b) = Inodes(table, b) /\ Inodes(table, b) \in SUBSET Slot /\ s \notin Inodes(table, b)
    BY <1>5, <1>6 DEF Opens, Inodes
  <2> QED BY <1>4, <2>1
<1>7. Uses(fd', unfilled', Inodes(table', a)) = Uses(fd, unfilled, Inodes(table, a)) + 1
  <2> DEFINE S == Inodes(table, a) \ {s}
  <2>1. /\ Inodes(table', a) = S \cup {s} /\ S \in SUBSET Slot /\ s \notin S
        /\ Inodes(table, a) = S \/ Inodes(table, a) = S \cup {s}
    BY <1>1 DEF Opens, Inodes
  <2> HIDE DEF S
  <2>2. SameUses(fd, unfilled, S, S \cup {s})
    BY <1>2, UnusedSlot
  <2>3. Uses(fd, unfilled, Inodes(table, a)) = Uses(fd, unfilled, S)
    BY <2>1, <2>2 DEF SameUses, Uses
  <2> QED BY <1>4, <2>1, <2>3
<1>8. ASSUME NEW b \in Addr PROVE Uses(fd, unfilled, Inodes(table, b)) \in Nat
  <2>1. Inodes(table, b) \in SUBSET Slot
    BY DEF Inodes
  <2> QED BY <2>1, UsesFacts
<1>9. ASSUME NEW x \in Slot, x # s PROVE Uses(fd', unfilled', {x}) = Uses(fd, unfilled, {x})
  BY <1>4, <1>9
<1> QED BY <1>1, <1>6, <1>7, <1>8, <1>9

\* Every such step keeps the invariant.
LEMMA OpensSound ==
  ASSUME Sound, NEW p \in Proc, NEW s, NEW a, Opens(p, s, a)
  PROVE  Sound'
<1> DEFINE file == <<"file", mem[a].no>>
<1>1. /\ FdInv(fd, table, mem) /\ SlotInv(table, mem, open_inodes) /\ ListInv(mem, open_inodes)
      /\ MemInv(table, mem) /\ CountInv(fd, table, mem, open_inodes) /\ UnfilledInv(fd, table)
      /\ Typed(fd, table, mem, open_inodes) /\ Around
  BY DEF Sound, TableInv
<1>2. /\ fd \in [Proc -> [Fd -> FdType]] /\ unfilled \in [Slot -> Nat] /\ s \in Slot /\ a \in Addr
      /\ file \in {"none", "pipe", "file"} \X Nat /\ open_inodes \in Seq(Addr)
      /\ \A x \in Slot : table[x].fd_inode \in {NULL} \cup Addr
  BY <1>1, FileTableAssumption DEF Typed, Around, Opens, InodeType, Number, FileType
<1>3. TakenAt(fd, fd', unfilled, unfilled', p, s, file)
  <2>1. Unused(fd, unfilled, s)
    BY FreeUnused DEF Opens
  <2>2. Taken(fd, fd', unfilled, unfilled', p, s, file)
    BY DEF Opens
  <2> HIDE DEF file
  <2> QED BY <1>2, <2>1, <2>2, TakenFacts
<1>4. /\ fd' \in [Proc -> [Fd -> FdType]] /\ unfilled' \in [Slot -> Nat]
      /\ \A r \in Slot : r # s => unfilled'[r] = unfilled[r]
      /\ \A q \in Proc, j \in Fd : fd'[q][j] = fd[q][j] \/ (q = p /\ fd'[q][j] = [slot |-> s, file |-> file])
      /\ \A q \in Proc, j \in Fd : \A r \in Slot : r # s => (fd'[q][j].slot = r <=> fd[q][j].slot = r)
      /\ IF unfilled'[s] = 0 THEN \E q \in Proc, j \in Fd : fd'[q][j].slot = s
         ELSE unfilled'[s] = 1 /\ \A q \in Proc, j \in Fd : fd'[q][j].slot # s
  BY <1>3 DEF TakenAt
<1>5. /\ \A x \in Slot : Creating(x) => x = s
      /\ \A b : Holders(b) = {}
      /\ \A q \in Proc : pending[q].addr \in {NULL, a}
      /\ \A x \in Slot : ~Creating(x)'
      /\ \A b : Holders(b)' = {}
  <2>1. NoCall.op = "none"
    BY DEF NoCall
  <2>2. /\ \A b : Holders(b) = {}
        /\ \A q \in Proc : pending[q].addr \in {NULL, a}
    BY AloneFacts DEF Opens
  <2>3. /\ \A x : ~Creating(x)'
        /\ \A b : Holders(b)' = {}
    BY <2>1, AloneNext DEF Opens
  <2>4. \A x \in Slot : Creating(x) => x = s
    BY DEF Opens
  <2> QED BY <2>2, <2>3, <2>4
<1>6. /\ \A b : At(open_inodes', b) <=> At(open_inodes, b) \/ b = a
      /\ open_inodes' \in Seq(Addr)
  BY <1>2 DEF Opens, Pushed
<1>7. FdInv(fd, table, mem)'
  <2>1. ASSUME NEW q \in Proc, NEW j \in Fd, fd'[q][j] # NoFd
        PROVE  LET x == fd'[q][j].slot
               IN  /\ q \in alive' /\ x \in Slot /\ table'[x].fd_inode # NULL
                   /\ fd'[q][j].file = IF table'[x].fd_flag = "pipe" THEN <<"pipe", table'[x].fd_inode>>
                                       ELSE <<"file", mem'[table'[x].fd_inode].no>>
    <3>1. CASE fd'[q][j] = fd[q][j]
      <4> DEFINE x == fd[q][j].slot
      <4>1. /\ q \in alive /\ x \in Slot /\ table[x].fd_inode # NULL /\ ~Creating(x)
            /\ fd[q][j].file = IF table[x].fd_flag = "pipe" THEN <<"pipe", table[x].fd_inode>>
                               ELSE <<"file", mem[table[x].fd_inode].no>>
        BY <1>1, <2>1, <3>1 DEF FdInv
      <4>2. x # s /\ table'[x] = table[x]
        BY <4>1 DEF Opens
      <4>3. mem'[table[x].fd_inode].no = mem[table[x].fd_inode].no
        BY <1>2, <4>1 DEF Opens
      <4>4. alive' = alive
        BY DEF Opens
      <4> HIDE DEF x
      <4>5. /\ q \in alive' /\ x \in Slot /\ table'[x].fd_inode # NULL
            /\ fd[q][j].file = IF table'[x].fd_flag = "pipe" THEN <<"pipe", table'[x].fd_inode>>
                               ELSE <<"file", mem'[table'[x].fd_inode].no>>
        BY <4>1, <4>2, <4>3, <4>4
      <4> QED BY <3>1, <4>5 DEF x
    <3>2. CASE q = p /\ fd'[q][j] = [slot |-> s, file |-> file]
      <4>1. fd'[q][j].slot = s /\ fd'[q][j].file = <<"file", mem[a].no>>
        BY <3>2
      <4>2. p \in alive' /\ table'[s].fd_inode = a /\ table'[s].fd_flag # "pipe" /\ mem'[a].no = mem[a].no /\ a # NULL
        BY <1>2, FileTableAssumption DEF Opens, Addr, NULL
      <4> HIDE DEF file
      <4> QED BY <1>2, <3>2, <4>1, <4>2
    <3>3. fd'[q][j] = fd[q][j] \/ (q = p /\ fd'[q][j] = [slot |-> s, file |-> file])
      <4> HIDE DEF file
      <4> QED BY <1>4
    <3> QED BY <3>1, <3>2, <3>3
  <2> QED BY <1>5, <2>1 DEF FdInv, Creating
<1>8. SlotInv(table, mem, open_inodes)'
  <2>1. ASSUME NEW x \in Slot, table'[x].fd_inode # NULL
        PROVE  LET b == table'[x].fd_inode
               IN  /\ mem'[b].space # "free"
                   /\ table'[x].fd_flag = "pipe" =>
                        /\ ~At(open_inodes', b) /\ \A r \in Slot : table'[r].fd_inode = b => r = x
                        /\ \A q \in Proc : pending'[q].addr # b
                   /\ table'[x].fd_flag # "pipe" => At(open_inodes', b)
    <3>1. CASE x = s
      BY <1>2, <1>6, <3>1 DEF Opens
    <3>2. CASE x # s
      <4>1. table'[x] = table[x] /\ table[x].fd_inode \in Addr /\ table[x].fd_inode # NULL /\ ~Creating(x)
        BY <1>2, <1>5, <2>1, <3>2 DEF Opens
      <4>2. mem'[table[x].fd_inode].space # "free"
        BY <1>1, <4>1 DEF SlotInv, Opens
      <4>3. table[x].fd_flag # "pipe" => At(open_inodes', table[x].fd_inode)
        BY <1>1, <1>6, <4>1 DEF SlotInv
      <4>4. ASSUME table[x].fd_flag = "pipe"
            PROVE  /\ ~At(open_inodes', table[x].fd_inode)
                   /\ \A r \in Slot : table'[r].fd_inode = table[x].fd_inode => r = x
                   /\ \A q \in Proc : pending'[q].addr # table[x].fd_inode
        <5>1. ~At(open_inodes, table[x].fd_inode) /\ \A r \in Slot : table[r].fd_inode = table[x].fd_inode => r = x
          BY <1>1, <4>1, <4>4 DEF SlotInv
        <5>2. table[x].fd_inode # a
          BY <4>4 DEF Opens
        <5>3. \A r \in Slot : table'[r].fd_inode = table[x].fd_inode => r = x
          BY <5>1, <5>2 DEF Opens
        <5>4. \A q \in Proc : pending'[q].addr = NULL
          <6>1. NoCall.addr = NULL
            BY DEF NoCall
          <6> QED BY <6>1, AloneNext DEF Opens
        <5> QED BY <1>6, <4>1, <5>1, <5>2, <5>3, <5>4
      <4> QED BY <4>1, <4>2, <4>3, <4>4
    <3> QED BY <3>1, <3>2
  <2> QED BY <2>1 DEF SlotInv
<1>9. ListInv(mem, open_inodes)'
  <2>1. \A i \in 1..Len(open_inodes) : open_inodes[i] \in Addr /\ mem'[open_inodes[i]].no = mem[open_inodes[i]].no
                                       /\ mem'[open_inodes[i]].space = mem[open_inodes[i]].space
    BY <1>2 DEF Opens
  <2>2. \A i \in 1..Len(open_inodes) :
          /\ mem[open_inodes[i]].space # "free" /\ mem[open_inodes[i]].no \in inode_bitmap'
          /\ \E name \in Name : dir'[name] = mem[open_inodes[i]].no
    <3>1. \A i \in 1..Len(open_inodes) : \E name \in Name : dir[name] = mem[open_inodes[i]].no
      <4>1. ASSUME NEW i \in 1..Len(open_inodes), NEW q \in Proc, pending[q].op = "release" PROVE FALSE
        <5>1. NoCall.op = "none"
          BY DEF NoCall
        <5> QED BY <4>1, <5>1 DEF Opens, Alone
      <4> QED BY <1>1, <4>1 DEF ListInv
    <3> QED BY <1>1, <3>1 DEF ListInv, Opens
  <2>3. mem'[a].no = mem[a].no /\ mem'[a].space # "free" /\ mem[a].no \in inode_bitmap' /\ \E name \in Name : dir'[name] = mem[a].no
    BY <1>2 DEF Opens
  <2>4. CASE open_inodes' = open_inodes
    BY <1>1, <2>1, <2>2, <2>4 DEF ListInv
  <2>5. CASE /\ Pushed(open_inodes, open_inodes', a)
             /\ \A i \in 1..Len(open_inodes) : mem[open_inodes[i]].no # mem[a].no
    <3>1. ASSUME NEW i \in 1..Len(open_inodes')
          PROVE  /\ open_inodes'[i] = IF i = 1 THEN a ELSE open_inodes[i - 1]
                 /\ i # 1 => i - 1 \in 1..Len(open_inodes)
      BY <2>5 DEF Pushed
    <3>2. ASSUME NEW i \in 1..Len(open_inodes'), NEW j \in 1..Len(open_inodes'),
                 mem'[open_inodes'[i]].no = mem'[open_inodes'[j]].no
          PROVE  i = j
      <4>1. CASE i = 1 \/ j = 1
        <5>1. \A x \in 1..Len(open_inodes') : x # 1 => mem'[open_inodes'[x]].no # mem'[open_inodes'[1]].no
          <6>1. ASSUME NEW x \in 1..Len(open_inodes'), x # 1
                PROVE  mem'[open_inodes'[x]].no = mem[open_inodes[x - 1]].no /\ x - 1 \in 1..Len(open_inodes)
            BY <2>1, <3>1, <6>1
          <6>2. 1 \in 1..Len(open_inodes') => mem'[open_inodes'[1]].no = mem[a].no
            BY <2>3, <3>1
          <6>3. ASSUME NEW x \in 1..Len(open_inodes') PROVE 1 \in 1..Len(open_inodes')
            OBVIOUS
          <6> QED BY <2>5, <6>1, <6>2, <6>3
        <5> QED BY <3>2, <4>1, <5>1
      <4>2. CASE i # 1 /\ j # 1
        <5>1. /\ i - 1 \in 1..Len(open_inodes) /\ j - 1 \in 1..Len(open_inodes)
              /\ mem[open_inodes[i - 1]].no = mem[open_inodes[j - 1]].no
          BY <2>1, <3>1, <3>2, <4>2
        <5>2. i - 1 = j - 1
          BY <1>1, <5>1 DEF ListInv
        <5> QED BY <5>2
      <4> QED BY <4>1, <4>2
    <3>3. ASSUME NEW i \in 1..Len(open_inodes')
          PROVE  /\ mem'[open_inodes'[i]].space # "free" /\ mem'[open_inodes'[i]].no \in inode_bitmap'
                 /\ \E name \in Name : dir'[name] = mem'[open_inodes'[i]].no
      <4>1. CASE i = 1
        BY <2>3, <3>1, <4>1
      <4>2. CASE i # 1
        <5> DEFINE j == i - 1
        <5>1. j \in 1..Len(open_inodes) /\ open_inodes'[i] = open_inodes[j]
          BY <3>1, <4>2
        <5> HIDE DEF j
        <5> QED BY <2>1, <2>2, <5>1
      <4> QED BY <4>1, <4>2
    <3> QED BY <3>2, <3>3 DEF ListInv
  <2> QED BY <2>4, <2>5 DEF Opens
<1>10. MemInv(table, mem)'
  <2>1. ASSUME NEW b \in Addr, mem'[b].space # "free" PROVE \E x \in Slot : table'[x].fd_inode = b
    <3>1. CASE b = a
      BY <1>2, <3>1 DEF Opens
    <3>2. CASE b # a
      <4>1. mem[b].space # "free" /\ b # NULL
        BY <2>1, FileTableAssumption DEF Opens, Addr, NULL
      <4>2. PICK x \in Slot : table[x].fd_inode = b
        BY <1>1, <1>5, <3>2, <4>1 DEF MemInv
      <4>3. x # s
        BY <3>2, <4>1, <4>2 DEF Opens
      <4> QED BY <4>2, <4>3 DEF Opens
    <3> QED BY <3>1, <3>2
  <2> QED BY <2>1 DEF MemInv
<1>11. CountInv(fd, table, mem, open_inodes)'
  <2>1. /\ \A b \in Addr : Uses(fd', unfilled', Inodes(table', b)) =
                             Uses(fd, unfilled, Inodes(table, b)) + IF b = a THEN 1 ELSE 0
        /\ \A x \in Slot : x # s => Uses(fd', unfilled', {x}) = Uses(fd, unfilled, {x})
    BY OpensUses
  <2>2. \A b : Cardinality(Holders(b)) = 0 /\ Cardinality(Holders(b)') = 0
    BY <1>5, FS_EmptySet
  <2>3. \A b \in Addr : Uses(fd, unfilled, Inodes(table, b)) \in Nat
    <3>1. \A b \in Addr : Inodes(table, b) \in SUBSET Slot
      BY DEF Inodes
    <3> QED BY <3>1, UsesFacts
  <2>4. \A b \in Addr : At(open_inodes, b) => mem[b].i_open_cnts = Uses(fd, unfilled, Inodes(table, b))
    <3>1. ASSUME NEW i \in 1..Len(open_inodes)
          PROVE  mem[open_inodes[i]].i_open_cnts = Uses(fd, unfilled, Inodes(table, open_inodes[i]))
      BY <1>1, <1>2, <2>2, <2>3 DEF CountInv
    <3> QED BY <3>1 DEF At
  <2>5. ASSUME NEW b \in Addr, At(open_inodes', b)
        PROVE  mem'[b].i_open_cnts = Uses(fd', unfilled', Inodes(table', b))
    <3>1. CASE b # a
      BY <1>6, <2>1, <2>3, <2>4, <2>5, <3>1 DEF Opens
    <3>2. CASE b = a /\ At(open_inodes, a) /\ mem'[a].i_open_cnts = mem[a].i_open_cnts + 1
      BY <2>1, <2>4, <3>2
    <3>3. CASE b = a /\ (\A x \in Slot : table[x].fd_inode = a => x = s) /\ mem'[a].i_open_cnts = 1
      <4>1. \A x \in Inodes(table, a) : x = s
        BY <3>3 DEF Inodes
      <4>2. Unused(fd, unfilled, s)
        BY FreeUnused DEF Opens
      <4>3. Inodes(table, a) \in SUBSET Slot
        BY DEF Inodes
      <4>4. ~(Uses(fd, unfilled, Inodes(table, a)) > 0)
        <5> DEFINE S == Inodes(table, a)
        <5>1. ~(\E q \in Proc, j \in Fd : fd[q][j].slot \in S) /\ ~(\E x \in S : unfilled[x] > 0)
          BY <4>1, <4>2 DEF Unused
        <5> HIDE DEF S
        <5>2. S \in SUBSET Slot
          BY <4>3 DEF S
        <5>3. Uses(fd, unfilled, S) > 0 <=> \/ \E q \in Proc, j \in Fd : fd[q][j].slot \in S
                                            \/ \E x \in S : unfilled[x] > 0
          BY <1>2, <5>2, UsesPositive
        <5> QED BY <5>1, <5>3 DEF S
      <4> QED BY <1>2, <2>1, <2>3, <3>3, <4>4
    <3> QED BY <3>1, <3>2, <3>3 DEF Opens
  <2>6. ASSUME NEW i \in 1..Len(open_inodes')
        PROVE  /\ mem'[open_inodes'[i]].i_open_cnts =
                    Uses(fd', unfilled', Inodes(table', open_inodes'[i])) + Cardinality(Holders(open_inodes[i])')
    <3>1. open_inodes'[i] \in Addr /\ At(open_inodes', open_inodes'[i])
      BY <1>6 DEF At
    <3>2. mem'[open_inodes'[i]].i_open_cnts = Uses(fd', unfilled', Inodes(table', open_inodes'[i]))
      BY <2>5, <3>1
    <3>3. Cardinality(Holders(open_inodes[i])') = 0
      BY <2>2
    <3>4. mem'[open_inodes'[i]].i_open_cnts \in Nat
      BY <3>1 DEF Opens, InodeType
    <3> QED BY <3>2, <3>3, <3>4
  <2>7. ASSUME NEW x \in Slot, table'[x].fd_inode # NULL, table'[x].fd_flag = "pipe"
        PROVE  table'[x].fd_pos > 0 /\ table'[x].fd_pos = Uses(fd', unfilled', {x})
    <3>1. x # s /\ table'[x] = table[x]
      BY <2>7 DEF Opens
    <3> QED BY <1>1, <2>1, <2>7, <3>1 DEF CountInv
  <2> QED BY <2>6, <2>7 DEF CountInv, Inodes, Uses, Got, Missed
<1>12. UnfilledInv(fd, table)'
  <2>1. ASSUME NEW x \in Slot
        PROVE  /\ unfilled'[x] \in 0..2
               /\ table'[x].fd_inode = NULL \/ Creating(x)' => unfilled'[x] = 0
               /\ table'[x].fd_inode # NULL /\ table'[x].fd_flag # "pipe" /\ ~Creating(x)' =>
                    IF unfilled'[x] = 0 THEN \E q \in Proc, j \in Fd : fd'[q][j].slot = x
                    ELSE unfilled'[x] = 1 /\ \A q \in Proc, j \in Fd : fd'[q][j].slot # x
    <3>1. CASE x = s
      <4>1. table'[x].fd_inode # NULL
        BY <1>2, <3>1, FileTableAssumption DEF Opens, Addr, NULL
      <4> HIDE DEF file
      <4> QED BY <1>2, <1>4, <1>5, <3>1, <4>1
    <3>2. CASE x # s
      <4>1. table'[x] = table[x] /\ ~Creating(x) /\ unfilled'[x] = unfilled[x]
        BY <1>4, <1>5, <3>2 DEF Opens
      <4>2. \A q \in Proc, j \in Fd : fd'[q][j].slot = x <=> fd[q][j].slot = x
        BY <1>4, <3>2
      <4> QED BY <1>1, <1>5, <4>1, <4>2 DEF UnfilledInv
    <3> QED BY <3>1, <3>2
  <2> QED BY <2>1 DEF UnfilledInv
<1>13. PendInv(table, mem, open_inodes)'
  <2>1. CallInv(NoCall, table, mem, open_inodes)' /\ p \in alive'
    BY DEF NoCall, CallInv, Opens
  <2> QED BY <2>1, AloneInv DEF Opens
<1>14. TableInv(fd, table, mem, open_inodes)'
  BY <1>7, <1>8, <1>9, <1>10, <1>11, <1>12, <1>13 DEF TableInv
<1>15. Typed(fd, table, mem, open_inodes)' /\ Around'
  BY <1>1, <1>4, <1>6 DEF Typed, Around, Opens
<1> QED BY <1>14, <1>15 DEF Sound, Opens

\* Installs() takes the slot.
LEMMA InstallsTaken ==
  ASSUME fd \in [Proc -> [Fd -> FdType]], NEW p \in Proc, NEW s \in Slot, NEW no \in Nat, NEW refused \in BOOLEAN,
         Installs(p, s, no, refused)
  PROVE  Taken(fd, fd', unfilled, unfilled', p, s, <<"file", no>>)
<1> DEFINE file == <<"file", no>>
<1>1. file \in {"none", "pipe", "file"} \X Nat
  OBVIOUS
<1> HIDE DEF file
<1>2. /\ fd' = IF refused THEN fd ELSE pcb_fd_install(fd, p, s, file)
      /\ unfilled' = IF fd' = fd THEN [unfilled EXCEPT ![s] = @ + 1] ELSE unfilled
  BY DEF Installs, file
<1>3. fd' = fd \/ Filled(fd, fd', p, s, file)
  <2>1. CASE refused
    BY <1>2, <2>1
  <2>2. CASE ~refused
    <3>1. fd' = pcb_fd_install(fd, p, s, file)
      BY <1>2, <2>2
    <3> QED BY <3>1, InstallFacts
  <2> QED BY <2>1, <2>2
<1>4. CASE fd' = fd
  BY <1>2, <1>4 DEF Taken, file
<1>5. CASE Filled(fd, fd', p, s, file)
  <2>1. fd' # fd
    BY <1>1, <1>5, FilledFacts
  <2> QED BY <1>2, <1>5, <2>1 DEF Taken, file
<1> QED BY <1>3, <1>4, <1>5

\* The end of file_open(), with an inode that is counted in m.
OpenEnds(p, s, a, m) ==
  /\ table' \in [Slot -> FileType] /\ table'[s].fd_inode = a /\ table'[s].fd_flag # "pipe"
  /\ \A x \in Slot : x # s => table'[x] = table[x]
  /\ mem' \in [Addr -> InodeType]
  /\ \A b \in Addr : mem'[b].no = m[b].no /\ mem'[b].space = m[b].space /\ mem'[b].i_open_cnts = m[b].i_open_cnts
  /\ Taken(fd, fd', unfilled, unfilled', p, s, <<"file", m[a].no>>)

\* file_open_end() does so.
LEMMA OpenEndFacts ==
  ASSUME Sound, NEW p \in Proc, NEW s \in Slot, NEW a \in Addr, NEW flag \in Flag,
         NEW m \in [Addr -> InodeType], file_open_end(p, s, a, flag, m)
  PROVE  OpenEnds(p, s, a, m)
<1>1. table' = [table EXCEPT ![s] = [fd_inode |-> a, fd_flag |-> flag, fd_pos |-> 0]]
  BY DEF file_open_end
<1>2. table \in [Slot -> FileType] /\ fd \in [Proc -> [Fd -> FdType]]
  BY DEF Sound, Typed
<1>3. /\ table' \in [Slot -> FileType] /\ table'[s].fd_inode = a /\ table'[s].fd_flag # "pipe"
      /\ \A x \in Slot : x # s => table'[x] = table[x]
  <2> DEFINE x == [fd_inode |-> a, fd_flag |-> flag, fd_pos |-> 0]
  <2>1. x \in FileType /\ x.fd_inode = a /\ x.fd_flag # "pipe"
    BY DEF FileType, Flag
  <2> HIDE DEF x
  <2>2. table' = [table EXCEPT ![s] = x]
    BY <1>1 DEF x
  <2> QED BY <1>2, <2>1, <2>2
<1>4. /\ mem' \in [Addr -> InodeType]
      /\ \A b \in Addr : mem'[b].no = m[b].no /\ mem'[b].space = m[b].space /\ mem'[b].i_open_cnts = m[b].i_open_cnts
  <2> DEFINE o == [m[a] EXCEPT !.write_deny = TRUE]
  <2>1. o \in InodeType /\ o.no = m[a].no /\ o.space = m[a].space /\ o.i_open_cnts = m[a].i_open_cnts
    BY DEF InodeType
  <2>2. mem' = [m EXCEPT ![a] = o] \/ mem' = m
    BY DEF file_open_end
  <2> HIDE DEF o
  <2> QED BY <2>1, <2>2
<1>5. Taken(fd, fd', unfilled, unfilled', p, s, <<"file", m[a].no>>)
  <2>1. m[a].no \in Nat /\ (flag = "write" /\ m[a].write_deny) \in BOOLEAN
    BY FileTableAssumption DEF InodeType, Number
  <2>2. Installs(p, s, m[a].no, flag = "write" /\ m[a].write_deny)
    BY DEF file_open_end
  <2> QED BY <1>2, <2>1, <2>2, InstallsTaken
<1> QED BY <1>3, <1>4, <1>5 DEF OpenEnds

\* A count of an inode is set.
SetCount(m, a, n) == [m EXCEPT ![a].i_open_cnts = n]
CountIs(m, a, n) ==
  /\ m \in [Addr -> InodeType] /\ m[a].i_open_cnts = n
  /\ \A b \in Addr : m[b].no = mem[b].no /\ m[b].space = mem[b].space
  /\ \A b \in Addr : b # a => m[b].i_open_cnts = mem[b].i_open_cnts

\* Nothing else changes.
LEMMA CountSet ==
  ASSUME mem \in [Addr -> InodeType], NEW a \in Addr, NEW n \in Nat
  PROVE  CountIs(SetCount(mem, a, n), a, n)
<1> DEFINE m == SetCount(mem, a, n)
<1> DEFINE o == [mem[a] EXCEPT !.i_open_cnts = n]
<1>1. o \in InodeType /\ o.no = mem[a].no /\ o.space = mem[a].space /\ o.i_open_cnts = n
  BY DEF InodeType
<1>2. m = [mem EXCEPT ![a] = o]
  BY DEF SetCount
<1> HIDE DEF o, m
<1>3. CountIs(m, a, n)
  BY <1>1, <1>2 DEF CountIs
<1> QED BY <1>3 DEF m

\* file_open(), when the inode has been read.
LEMMA OpenReadStep ==
  ASSUME Sound, NEW p \in Proc, file_open_read(p), spoiled' = "no"
  PROVE  Sound'
<1> DEFINE c == pending[p]
           s == c.slot
           a == c.addr
           m == [mem EXCEPT ![a].i_open_cnts = 1]
<1>1. /\ c.op = "open" /\ table[s].fd_inode = NULL /\ open_inodes' = <<a>> \o open_inodes
      /\ file_open_end(p, s, a, c.flag, m) /\ pending' = [pending EXCEPT ![p] = NoCall]
      /\ UNCHANGED <<alive, dir, inode_bitmap>>
  BY DEF file_open_read, Returns
<1>2. /\ mem \in [Addr -> InodeType] /\ open_inodes \in Seq(Addr) /\ pending \in [Proc -> CallType]
      /\ c \in CallType /\ c.flag \in Flag /\ dir \in [Name -> {0} \cup Number] /\ DirInv
  BY DEF Sound, Typed, Around, CallType
<1>3. Alone(pending, p, c) /\ CallInv(c, table, mem, open_inodes) /\ p \in alive
  <2>1. c # NoCall
    BY <1>1, IdleFacts
  <2> QED BY <2>1, AloneCall
<1> HIDE DEF c
<1>4. /\ a \in Addr /\ mem[a].space # "free" /\ mem[a].no = c.no /\ s \in Slot
      /\ \A i \in 1..Len(open_inodes) : mem[open_inodes[i]].no # c.no
      /\ c.name \in Name /\ c.no \in inode_bitmap /\ dir[c.name] = c.no
      /\ \A x \in Slot : table[x].fd_inode # a
  BY <1>1, <1>3 DEF CallInv
<1>5. /\ m \in [Addr -> InodeType] /\ m[a].i_open_cnts = 1
      /\ \A b \in Addr : m[b].no = mem[b].no /\ m[b].space = mem[b].space
      /\ \A b \in Addr : b # a => m[b].i_open_cnts = mem[b].i_open_cnts
  <2>1. m = SetCount(mem, a, 1)
    BY DEF SetCount
  <2> HIDE DEF m, a
  <2>2. CountIs(SetCount(mem, a, 1), a, 1)
    BY <1>2, <1>4, CountSet
  <2>3. CountIs(m, a, 1)
    BY <2>1, <2>2
  <2> QED BY <2>3 DEF CountIs
<1> HIDE DEF m, s, a
<1>6. OpenEnds(p, s, a, m)
  BY <1>1, <1>2, <1>4, <1>5, OpenEndFacts
<1>7. Pushed(open_inodes, open_inodes', a)
  BY <1>1, <1>2, <1>4, PushFacts
<1>8. \A x \in Slot : ~Creating(x)
  BY <1>1, <1>3, AloneFacts
<1>9. pending' \in [Proc -> CallType] /\ Alone(pending', p, NoCall)
  BY <1>1, <1>2, <1>3, IdleFacts DEF Alone
<1>10. DirInv' /\ dir' = dir /\ alive' = alive /\ inode_bitmap' = inode_bitmap
  BY <1>1, <1>2 DEF DirInv
<1>11. Opens(p, s, a)
  <2>1. /\ p \in alive /\ s \in Slot /\ a \in Addr /\ UNCHANGED <<alive, inode_bitmap>>
        /\ Alone(pending, p, pending[p]) /\ pending[p].op # "release" /\ pending[p].addr \in {NULL, a}
        /\ pending' \in [Proc -> CallType] /\ Alone(pending', p, NoCall)
    BY <1>1, <1>3, <1>4, <1>9, <1>10 DEF c, a
  <2>2. /\ table[s].fd_inode = NULL
        /\ \A x \in Slot : (Creating(x) => x = s) /\ (table[x].fd_inode = a => table[x].fd_flag # "pipe")
    BY <1>1, <1>4, <1>8
  <2>3. /\ table' \in [Slot -> FileType] /\ table'[s].fd_inode = a /\ table'[s].fd_flag # "pipe"
        /\ \A x \in Slot : x # s => table'[x] = table[x]
        /\ Taken(fd, fd', unfilled, unfilled', p, s, <<"file", mem[a].no>>)
        /\ mem[a].space # "free" /\ mem' \in [Addr -> InodeType]
        /\ \A b \in Addr : mem'[b].no = mem[b].no /\ mem'[b].space = mem[b].space
        /\ \A b \in Addr : b # a => mem'[b].i_open_cnts = mem[b].i_open_cnts
        /\ mem'[a].i_open_cnts = 1
    <3>1. m[a].no = mem[a].no
      BY <1>4, <1>5
    <3> QED BY <1>4, <1>5, <1>6, <3>1 DEF OpenEnds
  <2>4. /\ \A i \in 1..Len(open_inodes) : mem[open_inodes[i]].no # mem[a].no
        /\ \A x \in Slot : table[x].fd_inode = a => x = s
    BY <1>4
  <2>5. mem[a].no \in inode_bitmap /\ \E name \in Name : dir'[name] = mem[a].no
    BY <1>4, <1>10
  <2>6. dir' \in [Name -> {0} \cup Number] /\ DirInv'
    BY <1>2, <1>10
  <2> QED BY <1>7, <1>10, <2>1, <2>2, <2>3, <2>4, <2>5, <2>6 DEF Opens
<1> QED BY <1>11, OpensSound

\* file_create(), when the file has been written.
LEMMA CreateWrittenStep ==
  ASSUME Sound, NEW p \in Proc, file_create_written(p), spoiled' = "no"
  PROVE  Sound'
<1> DEFINE c == pending[p]
           s == c.slot
           a == c.addr
<1>1. /\ c.op = "create" /\ open_inodes' = <<a>> \o open_inodes
      /\ dir' = [dir EXCEPT ![c.name] = c.no] /\ mem' = [mem EXCEPT ![a].i_open_cnts = 1]
      /\ Installs(p, s, c.no, FALSE) /\ pending' = [pending EXCEPT ![p] = NoCall]
      /\ UNCHANGED <<alive, table, inode_bitmap>>
  BY DEF file_create_written, Returns
<1>2. /\ mem \in [Addr -> InodeType] /\ open_inodes \in Seq(Addr) /\ pending \in [Proc -> CallType]
      /\ table \in [Slot -> FileType] /\ fd \in [Proc -> [Fd -> FdType]]
      /\ dir \in [Name -> {0} \cup Number] /\ inode_bitmap \subseteq Number /\ DirInv
  BY DEF Sound, Typed, Around
<1>3. Alone(pending, p, c) /\ CallInv(c, table, mem, open_inodes) /\ p \in alive
  <2>1. c # NoCall
    BY <1>1, IdleFacts
  <2> QED BY <2>1, AloneCall
<1> HIDE DEF c
<1>4. /\ a \in Addr /\ mem[a].space # "free" /\ mem[a].no = c.no /\ s \in Slot
      /\ \A i \in 1..Len(open_inodes) : mem[open_inodes[i]].no # c.no
      /\ c.name \in Name /\ c.no \in inode_bitmap /\ dir[c.name] = 0 /\ \A name \in Name : dir[name] # c.no
      /\ table[s].fd_inode = a /\ table[s].fd_flag # "pipe"
      /\ \A x \in Slot : table[x].fd_inode = a => x = s
  BY <1>1, <1>3 DEF CallInv
<1> HIDE DEF s, a
<1>5. /\ mem' \in [Addr -> InodeType] /\ mem'[a].i_open_cnts = 1
      /\ \A b \in Addr : mem'[b].no = mem[b].no /\ mem'[b].space = mem[b].space
      /\ \A b \in Addr : b # a => mem'[b].i_open_cnts = mem[b].i_open_cnts
  <2>1. mem' = SetCount(mem, a, 1)
    BY <1>1 DEF SetCount
  <2>2. CountIs(SetCount(mem, a, 1), a, 1)
    BY <1>2, <1>4, CountSet
  <2>3. CountIs(mem', a, 1)
    BY <2>1, <2>2
  <2> QED BY <2>3 DEF CountIs
<1>6. Taken(fd, fd', unfilled, unfilled', p, s, <<"file", mem[a].no>>)
  <2>1. c.no \in Nat
    <3>1. c.no \in Number
      BY <1>2, <1>4
    <3> QED BY <3>1 DEF Number
  <2> QED BY <1>1, <1>2, <1>4, <2>1, InstallsTaken
<1>7. Pushed(open_inodes, open_inodes', a)
  BY <1>1, <1>2, <1>4, PushFacts
<1>8. Creating(s) /\ \A x \in Slot : Creating(x) => x = s
  BY <1>1, <1>3, AloneFacts DEF s
<1>9. pending' \in [Proc -> CallType] /\ Alone(pending', p, NoCall)
  BY <1>1, <1>2, <1>3, IdleFacts DEF Alone
<1>10. /\ dir' \in [Name -> {0} \cup Number] /\ dir'[c.name] = c.no /\ c.no # 0
       /\ \A name \in Name : name # c.name => dir'[name] = dir[name]
  BY <1>1, <1>2, <1>4, FileTableAssumption DEF Number
<1>11. DirInv'
  BY <1>1, <1>2, <1>4, <1>10 DEF DirInv
<1>12. ASSUME NEW i \in 1..Len(open_inodes), NEW name \in Name, dir[name] = mem[open_inodes[i]].no
       PROVE  dir'[name] = mem[open_inodes[i]].no
  <2>1. mem[open_inodes[i]].no \in inode_bitmap
    BY DEF Sound, TableInv, ListInv
  <2>2. mem[open_inodes[i]].no # 0
    BY <1>2, <2>1, FileTableAssumption DEF Number
  <2> QED BY <1>4, <1>10, <1>12, <2>2
<1>13. Opens(p, s, a)
  <2>1. /\ p \in alive /\ s \in Slot /\ a \in Addr /\ UNCHANGED <<alive, inode_bitmap>>
        /\ Alone(pending, p, pending[p]) /\ pending[p].op # "release" /\ pending[p].addr \in {NULL, a}
        /\ pending' \in [Proc -> CallType] /\ Alone(pending', p, NoCall)
    BY <1>1, <1>3, <1>4, <1>9 DEF c, a
  <2>2. /\ Creating(s) /\ table[s].fd_inode = a /\ table[s].fd_flag # "pipe"
        /\ \A x \in Slot : (Creating(x) => x = s) /\ (table[x].fd_inode = a => table[x].fd_flag # "pipe")
    BY <1>4, <1>8
  <2>3. /\ table' \in [Slot -> FileType] /\ table'[s].fd_inode = a /\ table'[s].fd_flag # "pipe"
        /\ \A x \in Slot : x # s => table'[x] = table[x]
    BY <1>1, <1>2, <1>4
  <2>4. /\ \A i \in 1..Len(open_inodes) : mem[open_inodes[i]].no # mem[a].no
        /\ \A x \in Slot : table[x].fd_inode = a => x = s
    BY <1>4
  <2>5. mem[a].no \in inode_bitmap /\ \E name \in Name : dir'[name] = mem[a].no
    BY <1>4, <1>10
  <2> QED BY <1>4, <1>5, <1>6, <1>7, <1>10, <1>11, <1>12, <2>1, <2>2, <2>3, <2>4, <2>5 DEF Opens
<1> QED BY <1>13, OpensSound

\* file_open() of a file that is open already.
LEMMA OpenListedStep ==
  ASSUME Sound, NEW p \in Proc, NEW name \in Name, NEW flag \in Flag, file_open(p, name, flag),
         FindInode(dir[name]) # {}, spoiled' = "no"
  PROVE  Sound'
<1> DEFINE no == dir[name]
           s == Lowest(FreeSlots)
           n == Lowest(FindInode(no))
           a == open_inodes[n]
           m == [mem EXCEPT ![a].i_open_cnts = @ + 1]
<1>1. /\ p \in alive /\ DiskFree /\ no # 0 /\ FreeSlots # {} /\ file_open_end(p, s, a, flag, m)
      /\ UNCHANGED <<pending, alive, open_inodes, dir, inode_bitmap>>
  BY DEF file_open, Ready
<1>2. /\ mem \in [Addr -> InodeType] /\ open_inodes \in Seq(Addr) /\ pending \in [Proc -> CallType]
      /\ dir \in [Name -> {0} \cup Number] /\ DirInv /\ ListInv(mem, open_inodes) /\ SlotInv(table, mem, open_inodes)
  BY DEF Sound, Typed, Around, TableInv
<1>3. Alone(pending, p, NoCall) /\ pending[p] = NoCall
  BY <1>1 DEF Alone, DiskFree
<1>4. s \in Slot /\ table[s].fd_inode = NULL
  BY <1>1, FreeSlotFacts
<1>5. n \in 1..Len(open_inodes) /\ mem[open_inodes[n]].no = no
  <2>1. FindInode(no) \in SUBSET Nat
    BY DEF FindInode
  <2>2. n \in FindInode(no)
    BY <2>1, LowestFacts
  <2> QED BY <2>2 DEF FindInode
<1> HIDE DEF no, s, n
<1>6. /\ a \in Addr /\ At(open_inodes, a) /\ mem[a].no = no /\ mem[a].space # "free" /\ no \in inode_bitmap
      /\ mem[a].i_open_cnts + 1 \in Nat
  BY <1>2, <1>5 DEF ListInv, At, InodeType
<1>7. /\ m \in [Addr -> InodeType] /\ m[a].i_open_cnts = mem[a].i_open_cnts + 1
      /\ \A b \in Addr : m[b].no = mem[b].no /\ m[b].space = mem[b].space
      /\ \A b \in Addr : b # a => m[b].i_open_cnts = mem[b].i_open_cnts
  <2> DEFINE k == mem[a].i_open_cnts + 1
  <2>1. m = SetCount(mem, a, k)
    BY DEF SetCount
  <2> HIDE DEF m, a
  <2>2. CountIs(SetCount(mem, a, k), a, k)
    BY <1>2, <1>6, CountSet
  <2>3. CountIs(m, a, k)
    BY <2>1, <2>2
  <2> QED BY <2>3 DEF CountIs
<1> HIDE DEF m, a
<1>8. OpenEnds(p, s, a, m)
  BY <1>1, <1>4, <1>6, <1>7, OpenEndFacts
<1>9. \A x \in Slot : ~Creating(x)
  BY <1>3, AloneFacts, IdleFacts
<1>10. DirInv' /\ dir' = dir /\ alive' = alive /\ inode_bitmap' = inode_bitmap /\ pending' = pending /\ open_inodes' = open_inodes
  BY <1>1, <1>2 DEF DirInv
<1>11. Opens(p, s, a)
  <2>1. /\ p \in alive /\ s \in Slot /\ a \in Addr /\ UNCHANGED <<alive, inode_bitmap>>
        /\ Alone(pending, p, pending[p]) /\ pending[p].op # "release" /\ pending[p].addr \in {NULL, a}
        /\ pending' \in [Proc -> CallType] /\ Alone(pending', p, NoCall)
    BY <1>1, <1>2, <1>3, <1>4, <1>6, <1>10, IdleFacts
  <2>2. /\ table[s].fd_inode = NULL
        /\ \A x \in Slot : (Creating(x) => x = s) /\ (table[x].fd_inode = a => table[x].fd_flag # "pipe")
    <3>1. a # NULL
      BY <1>6, FileTableAssumption DEF Addr, NULL
    <3> QED BY <1>2, <1>4, <1>6, <1>9, <3>1 DEF SlotInv
  <2>3. /\ table' \in [Slot -> FileType] /\ table'[s].fd_inode = a /\ table'[s].fd_flag # "pipe"
        /\ \A x \in Slot : x # s => table'[x] = table[x]
        /\ Taken(fd, fd', unfilled, unfilled', p, s, <<"file", mem[a].no>>)
        /\ mem[a].space # "free" /\ mem' \in [Addr -> InodeType]
        /\ \A b \in Addr : mem'[b].no = mem[b].no /\ mem'[b].space = mem[b].space
        /\ \A b \in Addr : b # a => mem'[b].i_open_cnts = mem[b].i_open_cnts
        /\ mem'[a].i_open_cnts = mem[a].i_open_cnts + 1
    <3>1. m[a].no = mem[a].no
      BY <1>6, <1>7
    <3> QED BY <1>6, <1>7, <1>8, <3>1 DEF OpenEnds
  <2>4. mem[a].no \in inode_bitmap /\ \E nm \in Name : dir'[nm] = mem[a].no
    BY <1>6, <1>10 DEF no
  <2>5. dir' \in [Name -> {0} \cup Number] /\ DirInv'
    BY <1>2, <1>10
  <2> QED BY <1>6, <1>10, <2>1, <2>2, <2>3, <2>4, <2>5 DEF Opens
<1> QED BY <1>11, OpensSound
-----------------------------------------------------------------------------
\* A call takes an address for an inode, and a slot if it is file_create(), and
\* waits for the disk.
Reserves(p, c) ==
  /\ p \in alive /\ Alone(pending, p, NoCall) /\ Alone(pending', p, c) /\ pending' \in [Proc -> CallType]
  /\ c.op \in {"open", "create"} /\ c.addr \in Addr /\ mem[c.addr].space = "free"
  /\ c.slot \in Slot /\ table[c.slot].fd_inode = NULL /\ c.name \in Name
  /\ mem' \in [Addr -> InodeType] /\ mem'[c.addr].no = c.no /\ mem'[c.addr].space # "free"
  /\ \A b \in Addr : b # c.addr => mem'[b] = mem[b]
  /\ UNCHANGED <<alive, fd, open_inodes, dir, unfilled>>
  /\ inode_bitmap \subseteq inode_bitmap' /\ inode_bitmap' \subseteq Number /\ c.no \in inode_bitmap'
  /\ \A i \in 1..Len(open_inodes) : mem[open_inodes[i]].no # c.no
  /\ table' \in [Slot -> FileType] /\ \A x \in Slot : x # c.slot => table'[x] = table[x]
  /\ c.op = "open" => table' = table /\ dir[c.name] = c.no
  /\ c.op = "create" => /\ table'[c.slot].fd_inode = c.addr /\ table'[c.slot].fd_flag # "pipe"
                        /\ dir[c.name] = 0 /\ \A name \in Name : dir[name] # c.no

\* Every such step keeps the invariant.
LEMMA ReservesSound ==
  ASSUME Sound, NEW p \in Proc, NEW c, Reserves(p, c)
  PROVE  Sound'
<1> DEFINE a == c.addr
           s == c.slot
<1>1. /\ FdInv(fd, table, mem) /\ SlotInv(table, mem, open_inodes) /\ ListInv(mem, open_inodes)
      /\ MemInv(table, mem) /\ CountInv(fd, table, mem, open_inodes) /\ UnfilledInv(fd, table)
      /\ Typed(fd, table, mem, open_inodes) /\ Around /\ DirInv
  BY DEF Sound, TableInv
<1>2. /\ open_inodes \in Seq(Addr) /\ \A x \in Slot : table[x].fd_inode \in {NULL} \cup Addr
      /\ \A i \in 1..Len(open_inodes) : open_inodes[i] \in Addr
      /\ NULL \notin Addr /\ s \in Slot /\ a \in Addr
  BY <1>1, FileTableAssumption DEF Typed, FileType, Addr, NULL, Reserves
<1>3. /\ ~At(open_inodes, a) /\ \A x \in Slot : table[x].fd_inode # a
  BY FreshFacts DEF Reserves
<1>4. /\ \A x : ~Creating(x) /\ \A b : Holders(b) = {} /\ \A q \in Proc : pending[q].addr = NULL
  BY AloneFacts, IdleFacts DEF Reserves
<1>5. /\ \A x : Creating(x)' <=> c.op = "create" /\ s = x
      /\ \A b : Holders(b)' = {}
      /\ \A q \in Proc : pending'[q].addr = IF q = p THEN a ELSE NULL
  <2>1. Alone(pending', p, c) /\ c.op # "release"
    BY DEF Reserves
  <2> QED BY <2>1, AloneNext
<1>6. /\ table[s].fd_inode = NULL /\ (c.op = "create" \/ table' = table)
      /\ \A x \in Slot : table[x].fd_inode # NULL => x # s /\ table'[x] = table[x]
      /\ \A x \in Slot : table'[x].fd_inode # NULL =>
           (x = s /\ c.op = "create" /\ table'[x].fd_inode = a /\ table'[x].fd_flag # "pipe")
           \/ (x # s /\ table'[x] = table[x])
  BY DEF Reserves
<1>7. /\ \A x \in Slot : table[x].fd_inode # NULL => mem'[table[x].fd_inode] = mem[table[x].fd_inode]
      /\ \A i \in 1..Len(open_inodes) : open_inodes[i] # a /\ mem'[open_inodes[i]] = mem[open_inodes[i]]
  BY <1>2, <1>3 DEF Reserves, At
<1>8. alive' = alive /\ fd' = fd /\ open_inodes' = open_inodes /\ dir' = dir /\ unfilled' = unfilled
  BY DEF Reserves
<1> HIDE DEF a, s
<1>9. FdInv(fd, table, mem)'
  <2>1. ASSUME NEW q \in Proc, NEW j \in Fd, fd[q][j] # NoFd
        PROVE  LET x == fd[q][j].slot
               IN  /\ q \in alive /\ x \in Slot /\ table'[x].fd_inode # NULL /\ x # s
                   /\ fd[q][j].file = IF table'[x].fd_flag = "pipe" THEN <<"pipe", table'[x].fd_inode>>
                                      ELSE <<"file", mem'[table'[x].fd_inode].no>>
    <3> DEFINE x == fd[q][j].slot
    <3>1. /\ q \in alive /\ x \in Slot /\ table[x].fd_inode # NULL
          /\ fd[q][j].file = IF table[x].fd_flag = "pipe" THEN <<"pipe", table[x].fd_inode>>
                             ELSE <<"file", mem[table[x].fd_inode].no>>
      BY <1>1, <2>1 DEF FdInv
    <3> HIDE DEF x
    <3>2. x # s /\ table'[x] = table[x] /\ mem'[table[x].fd_inode] = mem[table[x].fd_inode]
      BY <1>6, <1>7, <3>1
    <3>3. /\ q \in alive /\ x \in Slot /\ table'[x].fd_inode # NULL /\ x # s
          /\ fd[q][j].file = IF table'[x].fd_flag = "pipe" THEN <<"pipe", table'[x].fd_inode>>
                             ELSE <<"file", mem'[table'[x].fd_inode].no>>
      BY <3>1, <3>2
    <3> QED BY <3>3 DEF x
  <2>2. ASSUME NEW q \in Proc, NEW j \in Fd, fd[q][j] # NoFd PROVE ~Creating(fd[q][j].slot)'
    <3>1. fd[q][j].slot # s
      BY <2>1, <2>2
    <3> QED BY <1>5, <1>8, <3>1 DEF Creating
  <2> QED BY <1>8, <2>1, <2>2 DEF FdInv
<1>10. SlotInv(table, mem, open_inodes)'
  <2>1. ASSUME NEW x \in Slot, table'[x].fd_inode # NULL
        PROVE  LET b == table'[x].fd_inode
               IN  /\ mem'[b].space # "free"
                   /\ table'[x].fd_flag = "pipe" =>
                        /\ ~At(open_inodes', b) /\ \A r \in Slot : table'[r].fd_inode = b => r = x
                        /\ \A q \in Proc : pending'[q].addr # b
                   /\ table'[x].fd_flag # "pipe" => Creating(x)' \/ At(open_inodes', b)
    <3>1. CASE x = s /\ c.op = "create" /\ table'[x].fd_inode = a /\ table'[x].fd_flag # "pipe"
      BY <1>5, <3>1 DEF Reserves, a
    <3>2. CASE x # s /\ table'[x] = table[x]
      <4> DEFINE b == table[x].fd_inode
      <4>1. b # NULL /\ b # a /\ b \in Addr
        BY <1>2, <1>3, <2>1, <3>2
      <4>2. mem'[b].space # "free" /\ (table[x].fd_flag # "pipe" => At(open_inodes, b))
        BY <1>1, <1>4, <1>7, <4>1 DEF SlotInv
      <4>3. ASSUME table[x].fd_flag = "pipe"
            PROVE  ~At(open_inodes, b) /\ \A r \in Slot : table[r].fd_inode = b => r = x
        BY <1>1, <4>1, <4>3 DEF SlotInv
      <4> HIDE DEF b
      <4>4. \A r \in Slot : table'[r].fd_inode = b => table[r].fd_inode = b
        BY <1>6, <4>1
      <4>5. \A q \in Proc : pending'[q].addr # b
        BY <1>5, <4>1
      <4>6. table'[x].fd_inode = b /\ table'[x].fd_flag = table[x].fd_flag
        BY <3>2 DEF b
      <4> QED BY <1>8, <4>2, <4>3, <4>4, <4>5, <4>6
    <3> QED BY <1>6, <2>1, <3>1, <3>2
  <2> QED BY <2>1 DEF SlotInv
<1>11. ListInv(mem, open_inodes)'
  <2>1. \A i \in 1..Len(open_inodes) : \E name \in Name : dir[name] = mem[open_inodes[i]].no
    <3>1. \A b, q : q \in Proc /\ pending[q].op = "release" /\ pending[q].addr = b => q \in Holders(b)
      BY DEF Holders
    <3> QED BY <1>1, <1>4, <3>1 DEF ListInv
  <2>2. inode_bitmap \subseteq inode_bitmap'
    BY DEF Reserves
  <2>3. ASSUME NEW i \in 1..Len(open_inodes)
        PROVE  /\ mem'[open_inodes[i]].space # "free" /\ mem'[open_inodes[i]].no \in inode_bitmap'
               /\ \E name \in Name : dir[name] = mem'[open_inodes[i]].no
    <3>1. mem[open_inodes[i]].space # "free" /\ mem[open_inodes[i]].no \in inode_bitmap
      BY <1>1 DEF ListInv
    <3> QED BY <1>7, <2>1, <2>2, <3>1
  <2>4. \A i, j \in 1..Len(open_inodes) : mem'[open_inodes[i]].no = mem'[open_inodes[j]].no => i = j
    BY <1>1, <1>7 DEF ListInv
  <2> QED BY <1>8, <2>3, <2>4 DEF ListInv
<1>12. MemInv(table, mem)'
  <2>1. ASSUME NEW b \in Addr, mem'[b].space # "free"
        PROVE  (\E x \in Slot : table'[x].fd_inode = b) \/ (\E q \in Proc : pending'[q].addr = b)
    <3>1. CASE b = a
      BY <1>5, <3>1
    <3>2. CASE b # a
      <4>1. mem[b].space # "free" /\ b # NULL
        BY <1>2, <2>1, <3>2 DEF Reserves, a
      <4>2. PICK x \in Slot : table[x].fd_inode = b
        BY <1>1, <1>4, <4>1 DEF MemInv
      <4> QED BY <1>6, <4>1, <4>2
    <3> QED BY <3>1, <3>2
  <2> QED BY <2>1 DEF MemInv
<1>13. CountInv(fd, table, mem, open_inodes)'
  <2>1. ASSUME NEW i \in 1..Len(open_inodes)
        PROVE  mem'[open_inodes[i]].i_open_cnts
                 = Uses(fd, unfilled, Inodes(table', open_inodes[i])) + Cardinality({})
    <3>1. Inodes(table', open_inodes[i]) = Inodes(table, open_inodes[i])
      BY <1>2, <1>6, <1>7 DEF Inodes
    <3>2. mem[open_inodes[i]].i_open_cnts = Uses(fd, unfilled, Inodes(table, open_inodes[i])) + Cardinality({})
      BY <1>1, <1>4 DEF CountInv
    <3> QED BY <1>7, <3>1, <3>2
  <2>2. ASSUME NEW x \in Slot, table'[x].fd_inode # NULL, table'[x].fd_flag = "pipe"
        PROVE  table'[x].fd_pos > 0 /\ table'[x].fd_pos = Uses(fd, unfilled, {x})
    <3>1. table'[x] = table[x]
      BY <1>6, <2>2
    <3> QED BY <1>1, <2>2, <3>1 DEF CountInv
  <2>3. ASSUME NEW i \in 1..Len(open_inodes) PROVE Holders(open_inodes[i])' = {}
    <3>1. \A b : {q \in Proc : pending'[q].op = "release" /\ pending'[q].addr = b} = {}
      BY <1>5 DEF Holders
    <3> QED BY <3>1 DEF Holders
  <2>4. ASSUME NEW i \in 1..Len(open_inodes')
        PROVE  mem'[open_inodes'[i]].i_open_cnts
                 = Uses(fd', unfilled', Inodes(table', open_inodes'[i])) + Cardinality(Holders(open_inodes[i])')
    BY <1>8, <2>1, <2>3
  <2>5. \A x \in Slot : table'[x].fd_inode # NULL /\ table'[x].fd_flag = "pipe" =>
          table'[x].fd_pos > 0 /\ table'[x].fd_pos = Uses(fd', unfilled', {x})
    BY <1>8, <2>2
  <2> QED BY <2>4, <2>5 DEF CountInv, Inodes, Uses, Got, Missed
<1>14. UnfilledInv(fd, table)'
  <2>1. ASSUME NEW x \in Slot
        PROVE  /\ unfilled[x] \in 0..2
               /\ table'[x].fd_inode = NULL \/ Creating(x)' => unfilled[x] = 0
               /\ table'[x].fd_inode # NULL /\ table'[x].fd_flag # "pipe" /\ ~Creating(x)' =>
                    IF unfilled[x] = 0 THEN \E q \in Proc, j \in Fd : fd[q][j].slot = x
                    ELSE unfilled[x] = 1 /\ \A q \in Proc, j \in Fd : fd[q][j].slot # x
    <3>1. CASE x = s
      <4>1. unfilled[x] = 0
        BY <1>1, <1>2, <1>6, <3>1 DEF UnfilledInv
      <4>2. table'[x].fd_inode # NULL => Creating(x)'
        BY <1>5, <1>6, <3>1
      <4> QED BY <4>1, <4>2
    <3>2. CASE x # s
      <4>1. table'[x] = table[x] /\ ~Creating(x) /\ ~Creating(x)'
        BY <1>4, <1>5, <3>2 DEF Reserves, s
      <4> QED BY <1>1, <4>1 DEF UnfilledInv
    <3> QED BY <3>1, <3>2
  <2> QED BY <1>8, <2>1 DEF UnfilledInv
<1>15. PendInv(table, mem, open_inodes)'
  <2>1. CallInv(c, table, mem, open_inodes)'
    <3>1. ~At(open_inodes', a) /\ \A i \in 1..Len(open_inodes') : mem'[open_inodes'[i]].no # c.no
      BY <1>3, <1>7, <1>8 DEF Reserves
    <3>2. c.op = "create" => \A x \in Slot : table'[x].fd_inode = a => x = s
      BY <1>2, <1>3, <1>6
    <3>3. c.op = "open" => \A x \in Slot : table'[x].fd_inode # a
      BY <1>3, <1>6 DEF Reserves
    <3> QED BY <1>2, <1>8, <3>1, <3>2, <3>3 DEF CallInv, Reserves, a, s
  <2>2. Alone(pending', p, c) /\ p \in alive' /\ c.op # "none"
    BY <1>8 DEF Reserves
  <2> QED BY <2>1, <2>2, AloneInv
<1>16. TableInv(fd, table, mem, open_inodes)'
  BY <1>9, <1>10, <1>11, <1>12, <1>13, <1>14, <1>15 DEF TableInv
<1>17. Typed(fd, table, mem, open_inodes)' /\ Around' /\ DirInv'
  BY <1>1, <1>8 DEF Typed, Around, Reserves, DirInv
<1> QED BY <1>8, <1>16, <1>17 DEF Sound

\* An inode is put at a free address.
Put(m, a, o) == [m EXCEPT ![a] = o]
PutAt(m, n, a, o) == n \in [Addr -> InodeType] /\ n[a] = o /\ \A b \in Addr : b # a => n[b] = m[b]

\* It is at the address, and nothing else changes.
LEMMA PutFacts ==
  ASSUME mem \in [Addr -> InodeType], NEW a \in Addr, NEW o \in InodeType
  PROVE  PutAt(mem, Put(mem, a, o), a, o)
BY DEF PutAt, Put

\* What is in the record of an inode.
LEMMA InodeFacts ==
  ASSUME NEW no \in Number, NEW cnts \in Nat, NEW space \in Proc \cup {"kernel"}
  PROVE  /\ Inode(no, cnts, space) \in InodeType /\ Inode(no, cnts, space).no = no
         /\ Inode(no, cnts, space).space # "free" /\ Inode(no, cnts, space).i_open_cnts = cnts
BY ProcAssumption DEF Inode, InodeType

\* There is room in memory for a call that has the disk and has not yet taken any.
LEMMA NewAddrFree ==
  ASSUME Sound, \A q \in Proc : pending[q].addr = NULL
  PROVE  NewAddr \in Addr /\ mem[NewAddr].space = "free"
<1>1. NULL \notin Addr
  BY FileTableAssumption DEF Addr, NULL
<1>2. mem \in [Addr -> InodeType] /\ MemInv(table, mem)
  BY DEF Sound, Typed, TableInv
<1> QED BY <1>1, <1>2, NewAddrFacts

\* file_open() of a file that is not open.
LEMMA OpenUnlistedStep ==
  ASSUME Sound, NEW p \in Proc, NEW name \in Name, NEW flag \in Flag, file_open(p, name, flag),
         FindInode(dir[name]) = {}, spoiled' = "no"
  PROVE  Sound'
<1> DEFINE no == dir[name]
           s == Lowest(FreeSlots)
           a == NewAddr
           c == [op |-> "open", name |-> name, no |-> no, slot |-> s, addr |-> a, flag |-> flag]
           o == Inode(no, 0, "kernel")
<1>1. /\ p \in alive /\ DiskFree /\ no # 0 /\ FreeSlots # {} /\ pending' = [pending EXCEPT ![p] = c]
      /\ mem' = Put(mem, a, o)
      /\ UNCHANGED <<fd, table, unfilled, alive, open_inodes, dir, inode_bitmap>>
  BY DEF file_open, Ready, Waits, Put
<1>2. /\ mem \in [Addr -> InodeType] /\ pending \in [Proc -> CallType] /\ table \in [Slot -> FileType]
      /\ dir \in [Name -> {0} \cup Number] /\ inode_bitmap \subseteq Number /\ DirInv
  BY DEF Sound, Typed, Around
<1>3. Alone(pending, p, NoCall) /\ \A q \in Proc : pending[q].addr = NULL
  BY <1>1, IdleFacts DEF Alone, DiskFree
<1>4. s \in Slot /\ table[s].fd_inode = NULL /\ a \in Addr /\ mem[a].space = "free"
  BY <1>1, <1>3, FreeSlotFacts, NewAddrFree
<1>5. \A i \in 1..Len(open_inodes) : mem[open_inodes[i]].no # no
  BY DEF FindInode
<1>6. no \in Number /\ no \in inode_bitmap
  BY <1>1, <1>2 DEF DirInv
<1>7. c \in CallType
  BY <1>4, <1>6 DEF CallType
<1>8. /\ c.op = "open" /\ c.addr = a /\ c.slot = s /\ c.name = name /\ c.no = no
  OBVIOUS
<1>9. o \in InodeType /\ o.no = no /\ o.space # "free"
  BY <1>6, InodeFacts
<1> HIDE DEF no, s, a, c, o
<1>10. PutAt(mem, mem', a, o)
  BY <1>1, <1>2, <1>4, <1>9, PutFacts
<1>11. Alone(pending', p, c) /\ pending' \in [Proc -> CallType]
  BY <1>1, <1>2, <1>3, <1>7 DEF Alone
<1>12. Reserves(p, c)
  <2>1. /\ mem' \in [Addr -> InodeType] /\ mem'[c.addr].no = c.no /\ mem'[c.addr].space # "free"
        /\ \A b \in Addr : b # c.addr => mem'[b] = mem[b]
    BY <1>8, <1>9, <1>10 DEF PutAt
  <2>2. dir[c.name] = c.no /\ table' = table /\ inode_bitmap' = inode_bitmap
    BY <1>1, <1>8 DEF no
  <2> QED BY <1>1, <1>2, <1>3, <1>4, <1>5, <1>6, <1>8, <1>11, <2>1, <2>2 DEF Reserves
<1> QED BY <1>12, ReservesSound

\* file_create(), up to its first wait.
LEMMA CreateStep ==
  ASSUME Sound, NEW p \in Proc, NEW name \in Name, NEW flag \in Flag, file_create(p, name, flag)
  PROVE  Sound'
<1> DEFINE no == Lowest(Number \ inode_bitmap)
           s == Lowest(FreeSlots)
           a == NewAddr
           c == [op |-> "create", name |-> name, no |-> no, slot |-> s, addr |-> a, flag |-> flag]
           o == Inode(no, 0, p)
           f == [fd_inode |-> a, fd_flag |-> flag, fd_pos |-> 0]
<1>1. /\ p \in alive /\ DiskFree /\ dir[name] = 0 /\ FreeSlots # {} /\ inode_bitmap # Number
      /\ inode_bitmap' = inode_bitmap \cup {no} /\ mem' = Put(mem, a, o)
      /\ table' = [table EXCEPT ![s] = f] /\ pending' = [pending EXCEPT ![p] = c]
      /\ UNCHANGED <<alive, fd, open_inodes, dir, unfilled>>
  BY DEF file_create, Ready, Waits, Put
<1>2. /\ mem \in [Addr -> InodeType] /\ pending \in [Proc -> CallType] /\ table \in [Slot -> FileType]
      /\ dir \in [Name -> {0} \cup Number] /\ inode_bitmap \subseteq Number /\ DirInv /\ ListInv(mem, open_inodes)
  BY DEF Sound, Typed, Around, TableInv
<1>3. Alone(pending, p, NoCall) /\ \A q \in Proc : pending[q].addr = NULL
  BY <1>1, IdleFacts DEF Alone, DiskFree
<1>4. s \in Slot /\ table[s].fd_inode = NULL /\ a \in Addr /\ mem[a].space = "free"
  BY <1>1, <1>3, FreeSlotFacts, NewAddrFree
<1>5. no \in Number /\ no \notin inode_bitmap /\ no # 0
  <2>1. Number \ inode_bitmap \in SUBSET Nat /\ Number \ inode_bitmap # {}
    <3>1. Number \in SUBSET Nat
      BY DEF Number
    <3> QED BY <1>1, <1>2, <3>1
  <2>2. no \in Number \ inode_bitmap
    BY <2>1, LowestFacts
  <2> HIDE DEF no
  <2>3. no # 0
    BY <2>2 DEF Number
  <2> QED BY <2>2, <2>3
<1>6. /\ \A i \in 1..Len(open_inodes) : mem[open_inodes[i]].no # no
      /\ \A n \in Name : dir[n] # no
  BY <1>2, <1>5 DEF ListInv, DirInv
<1>7. c \in CallType /\ f \in FileType /\ f.fd_inode = a /\ f.fd_flag # "pipe"
  <2> HIDE DEF no, a, s
  <2>1. c \in CallType
    BY <1>4, <1>5 DEF CallType
  <2>2. f \in FileType /\ f.fd_inode = a /\ f.fd_flag # "pipe"
    BY <1>4 DEF FileType, Flag
  <2> QED BY <2>1, <2>2
<1>8. /\ c.op = "create" /\ c.addr = a /\ c.slot = s /\ c.name = name /\ c.no = no
  OBVIOUS
<1> HIDE DEF no, s, a, c, f
<1>9. o \in InodeType /\ o.no = no /\ o.space # "free"
  BY <1>5, InodeFacts
<1> HIDE DEF o
<1>10. PutAt(mem, mem', a, o)
  BY <1>1, <1>2, <1>4, <1>9, PutFacts
<1>11. Alone(pending', p, c) /\ pending' \in [Proc -> CallType]
  BY <1>1, <1>2, <1>3, <1>7 DEF Alone
<1>12. Reserves(p, c)
  <2>1. /\ mem' \in [Addr -> InodeType] /\ mem'[c.addr].no = c.no /\ mem'[c.addr].space # "free"
        /\ \A b \in Addr : b # c.addr => mem'[b] = mem[b]
    BY <1>8, <1>9, <1>10 DEF PutAt
  <2>2. /\ table' \in [Slot -> FileType] /\ \A x \in Slot : x # c.slot => table'[x] = table[x]
        /\ table'[c.slot].fd_inode = c.addr /\ table'[c.slot].fd_flag # "pipe"
    BY <1>1, <1>2, <1>4, <1>7, <1>8
  <2>3. inode_bitmap \subseteq inode_bitmap' /\ inode_bitmap' \subseteq Number /\ c.no \in inode_bitmap'
    BY <1>1, <1>2, <1>5, <1>8
  <2> QED BY <1>1, <1>3, <1>4, <1>6, <1>8, <1>11, <2>1, <2>2, <2>3 DEF Reserves
<1> QED BY <1>12, ReservesSound
-----------------------------------------------------------------------------
\* sys_unlink(): the inode of a file that no slot has is not in the list.
LEMMA UnlinkStep ==
  ASSUME Sound, NEW p \in Proc, NEW name \in Name, sys_unlink(p, name)
  PROVE  Sound'
<1> DEFINE no == dir[name]
           c == [op |-> "delete", name |-> name, no |-> no, slot |-> 0, addr |-> NULL, flag |-> "read"]
<1>1. /\ p \in alive /\ DiskFree /\ no # 0
      /\ \/ pending' = pending
         \/ ~InUse(no) /\ pending' = [pending EXCEPT ![p] = c]
      /\ alive' = alive /\ fd' = fd /\ table' = table /\ mem' = mem /\ open_inodes' = open_inodes
      /\ dir' = dir /\ inode_bitmap' = inode_bitmap /\ unfilled' = unfilled
  BY DEF sys_unlink, Ready, Waits
<1>2. /\ FdInv(fd, table, mem) /\ SlotInv(table, mem, open_inodes) /\ ListInv(mem, open_inodes)
      /\ MemInv(table, mem) /\ CountInv(fd, table, mem, open_inodes) /\ UnfilledInv(fd, table)
      /\ Typed(fd, table, mem, open_inodes) /\ Around /\ DirInv /\ alive \subseteq Proc
  BY DEF Sound, TableInv
<1>3. Alone(pending, p, NoCall) /\ \A q \in Proc : pending[q].addr = NULL
  BY <1>1, IdleFacts DEF Alone, DiskFree
<1>4. CASE pending' = pending
  <2>1. TableInv(fd', table', mem', open_inodes')
    BY <1>1 DEF Sound
  <2>2. TableInv(fd, table, mem, open_inodes)'
    BY <1>1, <1>4, <2>1, TableMoves
  <2> QED BY <1>1, <1>2, <1>4, <2>2 DEF Sound, Typed, Around, DirInv
<1>5. CASE ~InUse(no) /\ pending' = [pending EXCEPT ![p] = c]
  <2>1. no \in Number /\ no \in inode_bitmap
    BY <1>1, <1>2 DEF Around, DirInv
  <2>2. PICK d : /\ d \in CallType /\ d.op = "delete" /\ d.addr = NULL /\ d.name = name /\ d.no = no
                 /\ pending' = [pending EXCEPT ![p] = d]
    <3>1. c.op = "delete" /\ c.addr = NULL /\ c.name = name /\ c.no = no
      OBVIOUS
    <3> HIDE DEF no
    <3>2. c \in CallType
      BY <2>1 DEF CallType, Flag
    <3> HIDE DEF c
    <3> QED BY <1>5, <3>1, <3>2
  <2>3. Alone(pending', p, d) /\ pending' \in [Proc -> CallType]
    BY <1>2, <1>3, <2>2 DEF Alone, Around
  <2>4. /\ \A x : ~Creating(x)
        /\ \A b : Holders(b) = {}
    BY <1>3, AloneFacts, IdleFacts
  <2>5. /\ \A x : ~Creating(x)'
        /\ \A b : Holders(b)' = {}
        /\ \A q \in Proc : pending'[q].addr = NULL
    BY <2>2, <2>3, AloneNext
  <2>6. ASSUME NEW i \in 1..Len(open_inodes) PROVE mem[open_inodes[i]].no # no
    <3> DEFINE a == open_inodes[i]
    <3> SUFFICES ASSUME mem[a].no = no PROVE FALSE
      OBVIOUS
    <3>1. a \in Addr /\ a # NULL /\ At(open_inodes, a) /\ mem[a].space # "free"
      BY <1>2, FileTableAssumption DEF Typed, Addr, NULL, At, ListInv
    <3> HIDE DEF a
    <3>2. PICK s \in Slot : table[s].fd_inode = a
      BY <1>2, <1>3, <3>1 DEF MemInv
    <3>3. table[s].fd_flag # "pipe"
      BY <1>2, <3>1, <3>2 DEF SlotInv
    <3>4. s \in UsedSlots /\ Target(s) = <<"file", no>>
      BY <3>1, <3>2, <3>3 DEF UsedSlots, Target
    <3> QED BY <1>5, <3>4 DEF InUse
  <2>7. FdInv(fd, table, mem)' /\ SlotInv(table, mem, open_inodes)'
    <3>1. FdInv(fd, table, mem)'
      BY <1>1, <1>2, <2>5 DEF FdInv, Creating
    <3>2. SlotInv(table, mem, open_inodes)'
      BY <1>1, <1>2, <2>4, <2>5 DEF SlotInv
    <3> QED BY <3>1, <3>2
  <2>8. ListInv(mem, open_inodes)' /\ MemInv(table, mem)'
    <3>1. \A q \in Proc : pending[q].op # "release"
      BY <1>3, IdleFacts DEF Alone
    <3>2. ListInv(mem, open_inodes)'
      BY <1>1, <1>2, <3>1 DEF ListInv
    <3>3. \A b \in Addr : b # NULL
      BY FileTableAssumption DEF Addr, NULL
    <3>4. MemInv(table, mem)'
      BY <1>1, <1>2, <1>3, <3>3 DEF MemInv
    <3> QED BY <3>2, <3>4
  <2>9. CountInv(fd, table, mem, open_inodes)'
    <3>1. \A b : Holders(b)' = Holders(b)
      BY <2>4, <2>5
    <3> QED BY <1>1, <1>2, <3>1 DEF CountInv, Holders
  <2>10. UnfilledInv(fd, table)'
    BY <1>1, <1>2, <2>4, <2>5 DEF UnfilledInv
  <2>11. PendInv(table, mem, open_inodes)'
    <3>1. CallInv(d, table, mem, open_inodes)'
      BY <1>1, <2>1, <2>2, <2>6 DEF CallInv
    <3>2. p \in alive' /\ d.op # "none"
      BY <1>1, <2>2
    <3> QED BY <2>3, <3>1, <3>2, AloneInv
  <2>12. TableInv(fd, table, mem, open_inodes)'
    BY <2>7, <2>8, <2>9, <2>10, <2>11 DEF TableInv
  <2>13. Typed(fd, table, mem, open_inodes)' /\ Around' /\ DirInv'
    BY <1>1, <1>2, <2>3 DEF Typed, Around, DirInv
  <2> QED BY <1>1, <1>2, <2>12, <2>13 DEF Sound
<1> QED BY <1>1, <1>4, <1>5

\* sys_unlink() has removed the name: the inode is put in the list for the call.
LEMMA DeletedStep ==
  ASSUME Sound, NEW p \in Proc, sys_unlink_deleted(p)
  PROVE  Sound'
<1> DEFINE c == pending[p]
           a == NewAddr
           e == [op |-> "release", name |-> c.name, no |-> c.no, slot |-> 0, addr |-> a, flag |-> "read"]
           o == Inode(c.no, 1, "kernel")
<1>1. /\ FdInv(fd, table, mem) /\ SlotInv(table, mem, open_inodes) /\ ListInv(mem, open_inodes)
      /\ MemInv(table, mem) /\ CountInv(fd, table, mem, open_inodes) /\ UnfilledInv(fd, table)
      /\ Typed(fd, table, mem, open_inodes) /\ Around /\ DirInv /\ alive \subseteq Proc
  BY DEF Sound, TableInv
<1>2. c.op = "delete"
  BY DEF sys_unlink_deleted
<1>3. Alone(pending, p, c) /\ CallInv(c, table, mem, open_inodes) /\ p \in alive
  <2>1. c # NoCall
    BY <1>2, IdleFacts
  <2> QED BY <2>1, AloneCall
<1>4. /\ c.addr = NULL /\ c.name \in Name /\ c.no \in inode_bitmap /\ dir[c.name] = c.no
      /\ \A i \in 1..Len(open_inodes) : mem[open_inodes[i]].no # c.no
  BY <1>2, <1>3 DEF CallInv
<1>5. /\ dir' = [dir EXCEPT ![c.name] = 0] /\ mem' = Put(mem, a, o) /\ open_inodes' = <<a>> \o open_inodes
      /\ pending' = [pending EXCEPT ![p] = e]
      /\ alive' = alive /\ fd' = fd /\ table' = table /\ inode_bitmap' = inode_bitmap /\ unfilled' = unfilled
  <2>1. FindInode(c.no) = {}
    BY <1>4 DEF FindInode
  <2> QED BY <2>1 DEF sys_unlink_deleted, Waits, Put
<1>6. /\ \A x : ~Creating(x)
      /\ \A b : Holders(b) = {}
      /\ \A q \in Proc : pending[q].addr = NULL
  BY <1>2, <1>3, <1>4, AloneFacts
<1>7. c.no \in Number /\ c.no # 0
  <2>1. c.no \in Number
    BY <1>1, <1>4 DEF Around
  <2> HIDE DEF c
  <2> QED BY <2>1 DEF Number
<1> HIDE DEF c
<1>8. a \in Addr /\ mem[a].space = "free"
  BY <1>6, NewAddrFree
<1> HIDE DEF a
<1>9. PICK d : /\ d \in CallType /\ d.op = "release" /\ d.addr = a /\ d.name = c.name /\ d.no = c.no
               /\ pending' = [pending EXCEPT ![p] = d]
  <2>1. e.op = "release" /\ e.addr = a /\ e.name = c.name /\ e.no = c.no
    OBVIOUS
  <2>2. e \in CallType
    BY <1>4, <1>7, <1>8 DEF CallType, Flag
  <2> HIDE DEF e
  <2> QED BY <1>5, <2>1, <2>2
<1>10. o \in InodeType /\ o.no = c.no /\ o.space # "free" /\ o.i_open_cnts = 1
  BY <1>7, InodeFacts
<1> HIDE DEF e, o
<1>11. mem' \in [Addr -> InodeType] /\ mem'[a] = o /\ \A b \in Addr : b # a => mem'[b] = mem[b]
  <2>1. mem \in [Addr -> InodeType]
    BY <1>1 DEF Typed
  <2>2. PutAt(mem, mem', a, o)
    BY <1>5, <1>8, <1>10, <2>1, PutFacts
  <2> QED BY <2>2 DEF PutAt
<1>12. Alone(pending', p, d) /\ pending' \in [Proc -> CallType]
  BY <1>1, <1>3, <1>5, <1>9 DEF Alone, Around
<1>13. /\ \A x : ~Creating(x)'
       /\ \A b : Holders(b)' = IF b = a THEN {p} ELSE {}
       /\ \A q \in Proc : pending'[q].addr = IF q = p THEN a ELSE NULL
  <2>1. d.op = "release" /\ d.addr = a
    BY <1>9
  <2>2. /\ \A x : Creating(x)' <=> d.op = "create" /\ d.slot = x
        /\ \A b : Holders(b)' = IF d.op = "release" /\ d.addr = b THEN {p} ELSE {}
        /\ \A q \in Proc : pending'[q].addr = IF q = p THEN d.addr ELSE NULL
    BY <1>12, AloneNext
  <2> QED BY <2>1, <2>2
<1>14. /\ open_inodes \in Seq(Addr) /\ \A x \in Slot : table[x].fd_inode \in {NULL} \cup Addr
       /\ \A i \in 1..Len(open_inodes) : open_inodes[i] \in Addr
       /\ NULL \notin Addr
  BY <1>1, FileTableAssumption DEF Typed, FileType, Addr, NULL
<1>15. ~At(open_inodes, a) /\ \A x \in Slot : table[x].fd_inode # a
  BY <1>8, FreshFacts
<1>16. Pushed(open_inodes, open_inodes', a)
  BY <1>5, <1>8, <1>14, PushFacts
<1>17. /\ \A b : At(open_inodes', b) <=> At(open_inodes, b) \/ b = a
       /\ open_inodes' \in Seq(Addr)
       /\ \A i \in 1..Len(open_inodes') :
            \/ i = 1 /\ open_inodes'[i] = a
            \/ i # 1 /\ \E j \in 1..Len(open_inodes) : /\ j = i - 1 /\ open_inodes'[i] = open_inodes[j]
                                                       /\ open_inodes[j] # a
  BY <1>15, <1>16 DEF Pushed, At
<1>18. /\ \A x \in Slot : table[x].fd_inode # NULL => mem'[table[x].fd_inode] = mem[table[x].fd_inode]
       /\ \A i \in 1..Len(open_inodes) : open_inodes[i] # a /\ mem'[open_inodes[i]] = mem[open_inodes[i]]
  BY <1>11, <1>14, <1>15 DEF At
<1>19. /\ dir' \in [Name -> {0} \cup Number] /\ dir'[c.name] = 0
       /\ \A n \in Name : n # c.name => dir'[n] = dir[n] /\ dir[n] # c.no
  BY <1>1, <1>4, <1>5, <1>7 DEF Around, DirInv
<1>20. FdInv(fd, table, mem)'
  <2>1. ASSUME NEW q \in Proc, NEW j \in Fd, fd[q][j] # NoFd
        PROVE  LET x == fd[q][j].slot
               IN  /\ q \in alive /\ x \in Slot /\ table[x].fd_inode # NULL
                   /\ fd[q][j].file = IF table[x].fd_flag = "pipe" THEN <<"pipe", table[x].fd_inode>>
                                      ELSE <<"file", mem'[table[x].fd_inode].no>>
    BY <1>1, <1>18, <2>1 DEF FdInv
  <2>2. alive' = alive /\ fd' = fd /\ table' = table
    BY <1>5
  <2>3. \A x : ~Creating(x)'
    BY <1>13
  <2> QED BY <2>1, <2>2, <2>3 DEF FdInv, Creating
<1>21. SlotInv(table, mem, open_inodes)'
  <2>1. ASSUME NEW x \in Slot, table[x].fd_inode # NULL
        PROVE  LET b == table[x].fd_inode
               IN  /\ mem'[b].space # "free"
                   /\ table[x].fd_flag = "pipe" =>
                        /\ ~At(open_inodes', b) /\ \A r \in Slot : table[r].fd_inode = b => r = x
                        /\ \A q \in Proc : pending'[q].addr # b
                   /\ table[x].fd_flag # "pipe" => At(open_inodes', b)
    <3>1. table[x].fd_inode # a
      BY <1>15
    <3>2. \A q \in Proc : pending'[q].addr # table[x].fd_inode
      BY <1>13, <2>1, <3>1
    <3> QED BY <1>1, <1>6, <1>17, <1>18, <2>1, <3>1, <3>2 DEF SlotInv
  <2> QED BY <1>5, <2>1 DEF SlotInv
<1>22. ListInv(mem, open_inodes)'
  <2>1. ASSUME NEW j \in 1..Len(open_inodes)
        PROVE  /\ mem'[open_inodes[j]].no # c.no
               /\ mem'[open_inodes[j]].space # "free" /\ mem'[open_inodes[j]].no \in inode_bitmap
               /\ \E n \in Name : dir'[n] = mem'[open_inodes[j]].no
    <3>1. PICK n \in Name : dir[n] = mem[open_inodes[j]].no
      <4>1. \A b, q : q \in Proc /\ pending[q].op = "release" /\ pending[q].addr = b => q \in Holders(b)
        BY DEF Holders
      <4> QED BY <1>1, <1>6, <4>1 DEF ListInv
    <3>2. mem[open_inodes[j]].space # "free" /\ mem[open_inodes[j]].no \in inode_bitmap
      BY <1>1 DEF ListInv
    <3>3. n # c.name
      BY <1>4, <3>1
    <3> QED BY <1>4, <1>18, <1>19, <3>1, <3>2, <3>3
  <2>2. ASSUME NEW i \in 1..Len(open_inodes')
        PROVE  /\ mem'[open_inodes'[i]].space # "free" /\ mem'[open_inodes'[i]].no \in inode_bitmap
               /\ \/ \E n \in Name : dir'[n] = mem'[open_inodes'[i]].no
                  \/ \E q \in Proc : pending'[q].op = "release" /\ pending'[q].addr = open_inodes'[i]
    <3>1. CASE open_inodes'[i] = a
      BY <1>4, <1>9, <1>10, <1>11, <1>12, <3>1 DEF Alone
    <3>2. CASE \E j \in 1..Len(open_inodes) : open_inodes'[i] = open_inodes[j]
      BY <2>1, <3>2
    <3> QED BY <1>17, <3>1, <3>2
  <2>3. ASSUME NEW i \in 1..Len(open_inodes'), NEW j \in 1..Len(open_inodes'),
               mem'[open_inodes'[i]].no = mem'[open_inodes'[j]].no
        PROVE  i = j
    <3>1. mem'[a].no = c.no
      BY <1>10, <1>11
    <3>2. CASE i = 1
      BY <1>17, <2>1, <2>3, <3>1, <3>2
    <3>3. CASE j = 1
      BY <1>17, <2>1, <2>3, <3>1, <3>3
    <3>4. CASE i # 1 /\ j # 1
      <4>1. PICK x \in 1..Len(open_inodes) : x = i - 1 /\ open_inodes'[i] = open_inodes[x]
        BY <1>17, <3>4
      <4>2. PICK y \in 1..Len(open_inodes) : y = j - 1 /\ open_inodes'[j] = open_inodes[y]
        BY <1>17, <3>4
      <4>3. x = y
        BY <1>1, <1>18, <2>3, <4>1, <4>2 DEF ListInv
      <4> QED BY <4>1, <4>2, <4>3
    <3> QED BY <3>2, <3>3, <3>4
  <2> QED BY <1>5, <2>2, <2>3 DEF ListInv
<1>23. MemInv(table, mem)'
  <2>1. ASSUME NEW b \in Addr, mem'[b].space # "free"
        PROVE  (\E x \in Slot : table[x].fd_inode = b) \/ (\E q \in Proc : pending'[q].addr = b)
    <3>1. CASE b = a
      BY <1>13, <3>1
    <3>2. CASE b # a
      <4>1. mem[b].space # "free" /\ b # NULL
        BY <1>11, <1>14, <2>1, <3>2
      <4>2. (\E x \in Slot : table[x].fd_inode = b) \/ (\E q \in Proc : pending[q].addr = b)
        BY <1>1, <4>1 DEF MemInv
      <4> QED BY <1>6, <4>1, <4>2
    <3> QED BY <3>1, <3>2
  <2> QED BY <1>5, <2>1 DEF MemInv
<1>24. CountInv(fd, table, mem, open_inodes)'
  <2>1. Cardinality({}) = 0 /\ Cardinality({p}) = 1
    BY FS_EmptySet, FS_Singleton
  <2>2. Uses(fd, unfilled, Inodes(table, a)) = 0
    <3> DEFINE S == Inodes(table, a)
    <3>1. S = {}
      BY <1>15 DEF Inodes
    <3> HIDE DEF S
    <3>2. S \in SUBSET Slot /\ unfilled \in [Slot -> Nat]
      BY <1>1, <3>1 DEF Around
    <3>3. Uses(fd, unfilled, S) > 0 <=> \/ \E q \in Proc, j \in Fd : fd[q][j].slot \in S
                                        \/ \E s \in S : unfilled[s] > 0
      BY <3>2, UsesPositive
    <3>4. Uses(fd, unfilled, S) \in Nat
      BY <3>2, UsesFacts
    <3> QED BY <3>1, <3>3, <3>4 DEF S
  <2>3. ASSUME NEW b \in Addr, At(open_inodes', b)
        PROVE  mem'[b].i_open_cnts = Uses(fd, unfilled, Inodes(table, b)) + Cardinality(IF b = a THEN {p} ELSE {})
    <3>1. CASE b = a
      BY <1>10, <1>11, <2>1, <2>2, <3>1
    <3>2. CASE b # a
      <4>1. PICK i \in 1..Len(open_inodes) : open_inodes[i] = b
        BY <1>17, <2>3, <3>2 DEF At
      <4>2. mem[b].i_open_cnts = Uses(fd, unfilled, Inodes(table, b)) + Cardinality({})
        BY <1>1, <1>6, <4>1 DEF CountInv
      <4> QED BY <1>11, <3>2, <4>2
    <3> QED BY <3>1, <3>2
  <2>4. ASSUME NEW i \in 1..Len(open_inodes')
        PROVE  mem'[open_inodes'[i]].i_open_cnts
                 = Uses(fd', unfilled', Inodes(table', open_inodes'[i])) + Cardinality(Holders(open_inodes[i])')
    <3>1. open_inodes'[i] \in Addr /\ At(open_inodes', open_inodes'[i])
      BY <1>17 DEF At
    <3>2. Holders(open_inodes[i])' = IF open_inodes'[i] = a THEN {p} ELSE {}
      BY <1>13 DEF Holders
    <3> QED BY <1>5, <2>3, <3>1, <3>2
  <2>5. \A x \in Slot : table'[x].fd_inode # NULL /\ table'[x].fd_flag = "pipe" =>
          table'[x].fd_pos > 0 /\ table'[x].fd_pos = Uses(fd', unfilled', {x})
    BY <1>1, <1>5 DEF CountInv
  <2> QED BY <2>4, <2>5 DEF CountInv, Inodes, Uses, Got, Missed
<1>25. UnfilledInv(fd, table)'
  BY <1>1, <1>5, <1>6, <1>13 DEF UnfilledInv
<1>26. PendInv(table, mem, open_inodes)'
  <2>1. CallInv(d, table, mem, open_inodes)'
    <3>1. At(open_inodes', a) /\ \A n \in Name : dir'[n] # c.no
      BY <1>7, <1>17, <1>19
    <3> QED BY <1>4, <1>5, <1>8, <1>9, <1>10, <1>11, <1>15, <3>1 DEF CallInv
  <2>2. p \in alive' /\ d.op # "none"
    BY <1>3, <1>5, <1>9
  <2> QED BY <1>12, <2>1, <2>2, AloneInv
<1>27. TableInv(fd, table, mem, open_inodes)'
  BY <1>20, <1>21, <1>22, <1>23, <1>24, <1>25, <1>26 DEF TableInv
<1>28. DirInv'
  BY <1>1, <1>5, <1>7, <1>19 DEF DirInv
<1>29. Typed(fd, table, mem, open_inodes)' /\ Around'
  BY <1>1, <1>5, <1>11, <1>12, <1>17, <1>19 DEF Typed, Around
<1> QED BY <1>1, <1>5, <1>27, <1>28, <1>29 DEF Sound

\* sys_unlink() ends: its inode, which nobody else has, leaves the list.
LEMMA ReleasedStep ==
  ASSUME Sound, NEW p \in Proc, sys_unlink_released(p), spoiled' = "no"
  PROVE  Sound'
<1> DEFINE c == pending[p]
           a == c.addr
           at == CHOOSE i \in 1..Len(open_inodes) : open_inodes[i] = a
<1>1. /\ FdInv(fd, table, mem) /\ SlotInv(table, mem, open_inodes) /\ ListInv(mem, open_inodes)
      /\ MemInv(table, mem) /\ CountInv(fd, table, mem, open_inodes) /\ UnfilledInv(fd, table)
      /\ Typed(fd, table, mem, open_inodes) /\ Around /\ DirInv /\ alive \subseteq Proc
  BY DEF Sound, TableInv
<1>2. /\ c.op = "release" /\ inode_bitmap' = inode_bitmap \ {c.no}
      /\ \E last \in SUBSET OwnInodes(p) : Become(inode_close(Files, p, a, last))
      /\ pending' = [pending EXCEPT ![p] = NoCall]
      /\ alive' = alive /\ dir' = dir /\ unfilled' = unfilled
  BY DEF sys_unlink_released, Returns
<1>3. Alone(pending, p, c) /\ CallInv(c, table, mem, open_inodes) /\ p \in alive
  <2>1. c # NoCall
    BY <1>2, IdleFacts
  <2> QED BY <2>1, AloneCall
<1>4. /\ a \in Addr /\ mem[a].no = c.no /\ c.no \in inode_bitmap /\ At(open_inodes, a)
      /\ \A s \in Slot : table[s].fd_inode # a
      /\ \A n \in Name : dir[n] # c.no
  BY <1>2, <1>3 DEF CallInv
<1>5. /\ \A x : ~Creating(x)
      /\ \A b : Holders(b) = IF b = a THEN {p} ELSE {}
      /\ \A q \in Proc : pending[q].addr = IF q = p THEN a ELSE NULL
  BY <1>2, <1>3, AloneFacts
<1>6. /\ open_inodes \in Seq(Addr) /\ mem \in [Addr -> InodeType]
      /\ \A x \in Slot : table[x].fd_inode \in {NULL} \cup Addr
      /\ NULL \notin Addr
  BY <1>1, FileTableAssumption DEF Typed, FileType, Addr, NULL
<1>7. at \in 1..Len(open_inodes) /\ open_inodes[at] = a /\ \A j \in 1..Len(open_inodes) : open_inodes[j] = a => j = at
  <2>1. at \in 1..Len(open_inodes) /\ open_inodes[at] = a
    BY <1>4 DEF At
  <2> HIDE DEF at
  <2> QED BY <1>1, <2>1 DEF ListInv
<1>8. mem[a].i_open_cnts = 1
  <2>1. Cardinality({p}) = 1
    BY FS_Singleton
  <2>2. Uses(fd, unfilled, Inodes(table, a)) = 0
    <3> DEFINE S == Inodes(table, a)
    <3>1. S = {}
      BY <1>4 DEF Inodes
    <3> HIDE DEF S
    <3>2. S \in SUBSET Slot /\ unfilled \in [Slot -> Nat]
      BY <1>1, <3>1 DEF Around
    <3>3. Uses(fd, unfilled, S) > 0 <=> \/ \E q \in Proc, j \in Fd : fd[q][j].slot \in S
                                        \/ \E s \in S : unfilled[s] > 0
      BY <3>2, UsesPositive
    <3>4. Uses(fd, unfilled, S) \in Nat
      BY <3>2, UsesFacts
    <3> QED BY <3>1, <3>3, <3>4 DEF S
  <2>3. mem[a].i_open_cnts = Uses(fd, unfilled, Inodes(table, a)) + Cardinality({p})
    <3> HIDE DEF at, a
    <3> QED BY <1>1, <1>5, <1>7 DEF CountInv
  <2> QED BY <2>1, <2>2, <2>3
<1> DEFINE n == Put(mem, a, Vacant)
           k == RemoveAt(open_inodes, at)
<1>9. fd' = fd /\ table' = table /\ mem' = n /\ open_inodes' = k
  <2>0. PICK last \in SUBSET OwnInodes(p) : Become(inode_close(Files, p, a, last))
    BY <1>2
  <2>1. Files = AsFiles(fd, table, mem, open_inodes, "no")
    BY DEF Files, AsFiles
  <2>2. InodeClosed(inode_close(Files, p, a, last), fd, table, mem, open_inodes, "no", a)
    BY <2>1, InodeCloseIs
  <2>3. ~(mem[a].i_open_cnts > 1)
    BY <1>8
  <2>4. PICK y : inode_close(Files, p, a, last) = AsFiles(fd, table, n, k, y)
    <3> HIDE DEF c
    <3>1. \E y : inode_close(Files, p, a, last) = AsFiles(fd, table, [mem EXCEPT ![a] = Vacant], k, y)
      BY <2>2, <2>3, Zenon DEF InodeClosed
    <3>2. n = [mem EXCEPT ![a] = Vacant]
      BY DEF Put
    <3> QED BY <3>1, <3>2, Zenon
  <2> HIDE DEF n, k
  <2>5. Become(AsFiles(fd, table, n, k, y))
    BY <2>0, <2>4
  <2> QED BY <2>5 DEF Become, AsFiles
<1>10. Without(open_inodes, open_inodes', a)
  <2> HIDE DEF at, a
  <2> QED BY <1>6, <1>7, <1>9, WithoutRemoved
<1> HIDE DEF c, at, n, k
<1>11. mem' \in [Addr -> InodeType] /\ mem'[a].space = "free" /\ \A b \in Addr : b # a => mem'[b] = mem[b]
  <2>1. Vacant \in InodeType /\ Vacant.space = "free"
    BY DEF Vacant, InodeType
  <2>2. PutAt(mem, n, a, Vacant)
    BY <1>4, <1>6, <2>1, PutFacts DEF n
  <2> QED BY <1>9, <2>1, <2>2 DEF PutAt
<1> HIDE DEF a
<1>12. PICK h \in [1..Len(open_inodes') -> 1..Len(open_inodes)] :
         /\ \A i \in 1..Len(open_inodes') : open_inodes'[i] = open_inodes[h[i]]
         /\ \A i, j \in 1..Len(open_inodes') : h[i] = h[j] => i = j
  BY <1>10 DEF Without
<1>13. /\ open_inodes' \in Seq(Addr)
       /\ \A b \in Addr : At(open_inodes', b) <=> At(open_inodes, b) /\ b # a
  BY <1>10 DEF Without
<1>14. ASSUME NEW i \in 1..Len(open_inodes')
       PROVE  /\ h[i] \in 1..Len(open_inodes) /\ open_inodes'[i] = open_inodes[h[i]] /\ open_inodes[h[i]] \in Addr
              /\ open_inodes[h[i]] # a /\ mem'[open_inodes'[i]] = mem[open_inodes[h[i]]]
  <2>1. h[i] \in 1..Len(open_inodes) /\ open_inodes'[i] = open_inodes[h[i]]
    BY <1>12
  <2>2. open_inodes[h[i]] \in Addr /\ At(open_inodes', open_inodes[h[i]])
    BY <1>6, <2>1 DEF At
  <2>3. open_inodes[h[i]] # a
    BY <1>13, <2>2
  <2> QED BY <1>11, <2>1, <2>2, <2>3
<1>15. Alone(pending', p, NoCall) /\ pending' \in [Proc -> CallType]
  BY <1>1, <1>2, <1>3, IdleFacts DEF Alone, Around
<1>16. /\ \A x : ~Creating(x)'
       /\ \A b : Holders(b)' = {}
       /\ \A q \in Proc : pending'[q].addr = NULL
  BY <1>15, AloneNext, IdleFacts
<1>17. \A x \in Slot : table[x].fd_inode # NULL =>
         table[x].fd_inode \in Addr /\ table[x].fd_inode # a /\ mem'[table[x].fd_inode] = mem[table[x].fd_inode]
  BY <1>4, <1>6, <1>11
<1>18. FdInv(fd, table, mem)'
  <2>1. ASSUME NEW q \in Proc, NEW j \in Fd, fd[q][j] # NoFd
        PROVE  LET x == fd[q][j].slot
               IN  /\ q \in alive /\ x \in Slot /\ table[x].fd_inode # NULL
                   /\ fd[q][j].file = IF table[x].fd_flag = "pipe" THEN <<"pipe", table[x].fd_inode>>
                                      ELSE <<"file", mem'[table[x].fd_inode].no>>
    BY <1>1, <1>17, <2>1 DEF FdInv
  <2>2. alive' = alive /\ fd' = fd /\ table' = table
    BY <1>2, <1>9
  <2> QED BY <1>16, <2>1, <2>2 DEF FdInv, Creating
<1>19. SlotInv(table, mem, open_inodes)'
  <2>1. ASSUME NEW x \in Slot, table[x].fd_inode # NULL
        PROVE  LET b == table[x].fd_inode
               IN  /\ mem'[b].space # "free"
                   /\ table[x].fd_flag = "pipe" =>
                        /\ ~At(open_inodes', b) /\ \A r \in Slot : table[r].fd_inode = b => r = x
                        /\ \A q \in Proc : pending'[q].addr # b
                   /\ table[x].fd_flag # "pipe" => At(open_inodes', b)
    BY <1>1, <1>5, <1>13, <1>16, <1>17, <2>1 DEF SlotInv
  <2> QED BY <1>9, <2>1 DEF SlotInv
<1>20. ListInv(mem, open_inodes)'
  <2>1. ASSUME NEW i \in 1..Len(open_inodes')
        PROVE  /\ mem'[open_inodes'[i]].space # "free" /\ mem'[open_inodes'[i]].no \in inode_bitmap'
               /\ \E m \in Name : dir[m] = mem'[open_inodes'[i]].no
    <3> DEFINE b == open_inodes[h[i]]
    <3>1. mem[b].no # c.no
      <4>1. mem[open_inodes[at]].no = c.no /\ at \in 1..Len(open_inodes) /\ h[i] \in 1..Len(open_inodes)
        BY <1>4, <1>7, <1>14
      <4>2. h[i] # at
        BY <1>7, <1>14
      <4> QED BY <1>1, <4>1, <4>2 DEF ListInv
    <3>2. mem[b].space # "free" /\ mem[b].no \in inode_bitmap
      BY <1>1, <1>14 DEF ListInv
    <3>3. \E m \in Name : dir[m] = mem[b].no
      <4>1. ASSUME NEW q \in Proc, pending[q].addr = b PROVE FALSE
        BY <1>5, <1>6, <1>14, <4>1
      <4>2. \A i0 \in 1..Len(open_inodes) :
              \/ \E m \in Name : dir[m] = mem[open_inodes[i0]].no
              \/ \E q \in Proc : pending[q].op = "release" /\ pending[q].addr = open_inodes[i0]
        BY <1>1 DEF ListInv
      <4>3. h[i] \in 1..Len(open_inodes)
        BY <1>14
      <4> QED BY <4>1, <4>2, <4>3, Zenon
    <3> QED BY <1>2, <1>14, <3>1, <3>2, <3>3
  <2>2. ASSUME NEW i \in 1..Len(open_inodes'), NEW j \in 1..Len(open_inodes'),
               mem'[open_inodes'[i]].no = mem'[open_inodes'[j]].no
        PROVE  i = j
    <3>1. h[i] = h[j]
      BY <1>1, <1>14, <2>2 DEF ListInv
    <3> QED BY <1>12, <3>1
  <2> QED BY <1>2, <2>1, <2>2 DEF ListInv
<1>21. MemInv(table, mem)'
  <2>1. ASSUME NEW b \in Addr, mem'[b].space # "free" PROVE \E x \in Slot : table[x].fd_inode = b
    <3>1. b # a /\ mem[b].space # "free" /\ b # NULL
      BY <1>6, <1>11, <2>1
    <3> QED BY <1>1, <1>5, <3>1 DEF MemInv
  <2> QED BY <1>9, <2>1 DEF MemInv
<1>22. CountInv(fd, table, mem, open_inodes)'
  <2>1. ASSUME NEW i \in 1..Len(open_inodes')
        PROVE  mem'[open_inodes'[i]].i_open_cnts
                 = Uses(fd', unfilled', Inodes(table', open_inodes'[i])) + Cardinality(Holders(open_inodes[i])')
    <3>1. mem[open_inodes[h[i]]].i_open_cnts = Uses(fd, unfilled, Inodes(table, open_inodes[h[i]])) + Cardinality({})
      BY <1>1, <1>5, <1>14 DEF CountInv
    <3>2. Holders(open_inodes[i])' = {}
      BY <1>16 DEF Holders
    <3> QED BY <1>2, <1>9, <1>14, <3>1, <3>2
  <2>2. \A x \in Slot : table'[x].fd_inode # NULL /\ table'[x].fd_flag = "pipe" =>
          table'[x].fd_pos > 0 /\ table'[x].fd_pos = Uses(fd', unfilled', {x})
    BY <1>1, <1>2, <1>9 DEF CountInv
  <2> QED BY <2>1, <2>2 DEF CountInv, Inodes, Uses, Got, Missed
<1>23. UnfilledInv(fd, table)'
  BY <1>1, <1>2, <1>5, <1>9, <1>16 DEF UnfilledInv
<1>24. PendInv(table, mem, open_inodes)'
  <2>1. CallInv(NoCall, table, mem, open_inodes)' /\ p \in alive'
    BY <1>2, <1>3 DEF NoCall, CallInv
  <2> QED BY <1>15, <2>1, AloneInv
<1>25. TableInv(fd, table, mem, open_inodes)'
  BY <1>18, <1>19, <1>20, <1>21, <1>22, <1>23, <1>24 DEF TableInv
<1>26. DirInv'
  BY <1>1, <1>2, <1>4 DEF DirInv
<1>27. Typed(fd, table, mem, open_inodes)' /\ Around'
  BY <1>1, <1>2, <1>9, <1>11, <1>13, <1>15 DEF Typed, Around
<1> QED BY <1>1, <1>2, <1>25, <1>26, <1>27 DEF Sound

-----------------------------------------------------------------------------
\* The uses of one slot that were missed.
LEMMA MissedCount ==
  ASSUME NEW s, NEW v, v[s] \in 0..2
  PROVE  Cardinality(Missed(v, {s})) = v[s]
<1> DEFINE M == Missed(v, {s})
           one == <<s, 1>>
           two == <<s, 2>>
<1>1. one # two
  OBVIOUS
<1>2. \A x \in {s} \X {1, 2} : x = one \/ x = two
  OBVIOUS
<1>3. /\ v[s] = 0 => M = {}
      /\ v[s] = 1 => M = {one}
      /\ v[s] = 2 => M = {one, two}
  BY <1>2 DEF Missed
<1> HIDE DEF M, one, two
<1>4. IsFiniteSet({one}) /\ Cardinality({one}) = 1 /\ Cardinality({}) = 0
  BY FS_Singleton, FS_EmptySet
<1>5. Cardinality({one, two}) = 2
  <2>1. two \notin {one} /\ {one, two} = {one} \cup {two}
    BY <1>1
  <2>2. Cardinality({one} \cup {two}) = Cardinality({one}) + 1
    BY <1>4, <2>1, FS_AddElement
  <2> QED BY <1>4, <2>1, <2>2
<1>6. v[s] = 0 \/ v[s] = 1 \/ v[s] = 2
  OBVIOUS
<1> QED BY <1>3, <1>4, <1>5, <1>6 DEF M

\* sys_pipe() takes a slot for two descriptors, and counts those it did not get.
Missing(f, g, h) == IF h # g THEN 0 ELSE IF g # f THEN 1 ELSE 2
TwoTaken(f, h, u, v, p, s, file) ==
  /\ h \in [Proc -> [Fd -> FdType]] /\ v \in [Slot -> Nat] /\ v[s] \in 0..2
  /\ \A r \in Slot : r # s => v[r] = u[r]
  /\ \A q \in Proc, j \in Fd : h[q][j] = f[q][j] \/ (q = p /\ h[q][j] = [slot |-> s, file |-> file])
  /\ \A q \in Proc, j \in Fd : \A r \in Slot : r # s => (h[q][j].slot = r <=> f[q][j].slot = r)
  /\ Uses(h, v, {s}) = 2

\* Two calls of pcb_fd_install() do so.
LEMMA TwoTakenFacts ==
  ASSUME NEW f \in [Proc -> [Fd -> FdType]], NEW u \in [Slot -> Nat], NEW p \in Proc, NEW s \in Slot,
         NEW file \in {"none", "pipe", "file"} \X Nat, Unused(f, u, s), NEW g, NEW h, NEW v,
         g = pcb_fd_install(f, p, s, file), h = pcb_fd_install(g, p, s, file),
         v = [u EXCEPT ![s] = @ + Missing(f, g, h)]
  PROVE  TwoTaken(f, h, u, v, p, s, file)
<1> DEFINE n == Missing(f, g, h)
           Changes(e, k) ==
             /\ \A q \in Proc, j \in Fd : k[q][j] = e[q][j] \/ (q = p /\ k[q][j] = [slot |-> s, file |-> file])
             /\ \A q \in Proc, j \in Fd : \A r \in Slot : r # s => (k[q][j].slot = r <=> e[q][j].slot = r)
<1>1. n \in 0..2
  BY DEF Missing
<1>2. v \in [Slot -> Nat] /\ v[s] = n /\ \A r \in Slot : r # s => v[r] = u[r]
  <2> HIDE DEF n
  <2>1. v = [u EXCEPT ![s] = @ + n]
    BY DEF n
  <2> QED BY <1>1, <2>1 DEF Unused
<1>3. ASSUME NEW e \in [Proc -> [Fd -> FdType]], NEW k, Filled(e, k, p, s, file)
      PROVE  /\ k \in [Proc -> [Fd -> FdType]] /\ k # e /\ Changes(e, k)
             /\ Cardinality(Got(k, {s})) = Cardinality(Got(e, {s})) + 1
  <2>1. k \in [Proc -> [Fd -> FdType]] /\ k # e
    BY <1>3, FilledFacts
  <2>2. PICK i \in Fd : FilledAt(e, k, p, i, s, file)
    BY <1>3, FilledFacts
  <2>3. ASSUME NEW q \in Proc, NEW j \in Fd
        PROVE  /\ k[q][j] = e[q][j] \/ (q = p /\ k[q][j] = [slot |-> s, file |-> file])
               /\ \A r \in Slot : r # s => (k[q][j].slot = r <=> e[q][j].slot = r)
    <3>1. CASE <<q, j>> = <<p, i>>
      BY <2>2, <3>1, FileTableAssumption DEF Slot, FilledAt
    <3>2. CASE <<q, j>> # <<p, i>>
      BY <2>2, <3>2 DEF FilledAt
    <3> QED BY <3>1, <3>2
  <2>4. OneMore(e, k, {s}, p, i)
    BY <2>2, FileTableAssumption DEF Slot, FilledAt, OneMore
  <2>5. Cardinality(Got(k, {s})) = Cardinality(Got(e, {s})) + 1
    BY <2>4, GotOneMore
  <2> QED BY <2>1, <2>3, <2>5
<1>4. Cardinality(Got(f, {s})) = 0
  <2>1. Got(f, {s}) = {}
    BY DEF Got, Unused
  <2> QED BY <2>1, FS_EmptySet
<1>5. ASSUME NEW e \in [Proc -> [Fd -> FdType]]
      PROVE  LET k == pcb_fd_install(e, p, s, file)
             IN  (k = e /\ \A i \in Fd : e[p][i] # NoFd) \/ Filled(e, k, p, s, file)
  BY InstallFacts
<1>6. h \in [Proc -> [Fd -> FdType]] /\ Changes(f, h) /\ Cardinality(Got(h, {s})) = 2 - n
  <2>1. CASE g = f /\ \A i \in Fd : f[p][i] # NoFd
    <3>1. h = f
      BY <1>5, <2>1 DEF Filled
    <3> QED BY <1>4, <2>1, <3>1 DEF Missing
  <2>2. CASE Filled(f, g, p, s, file)
    <3>1. /\ g \in [Proc -> [Fd -> FdType]] /\ g # f /\ Changes(f, g)
          /\ Cardinality(Got(g, {s})) = 1
      <4> HIDE DEF Changes
      <4>1. /\ g \in [Proc -> [Fd -> FdType]] /\ g # f /\ Changes(f, g)
            /\ Cardinality(Got(g, {s})) = Cardinality(Got(f, {s})) + 1
        BY <1>3, <2>2
      <4> QED BY <1>4, <4>1
    <3>2. CASE h = g
      BY <3>1, <3>2 DEF Missing
    <3>3. CASE Filled(g, h, p, s, file)
      <4>1. /\ h \in [Proc -> [Fd -> FdType]] /\ h # g /\ Changes(g, h)
            /\ Cardinality(Got(h, {s})) = 2
        <5> HIDE DEF Changes
        <5>1. /\ h \in [Proc -> [Fd -> FdType]] /\ h # g /\ Changes(g, h)
              /\ Cardinality(Got(h, {s})) = Cardinality(Got(g, {s})) + 1
          BY <1>3, <3>1, <3>3
        <5> QED BY <3>1, <5>1
      <4>2. Changes(f, h)
        <5>1. Changes(f, g) /\ Changes(g, h)
          BY <3>1, <4>1
        <5>2. ASSUME NEW q \in Proc, NEW j \in Fd
              PROVE  /\ h[q][j] = f[q][j] \/ (q = p /\ h[q][j] = [slot |-> s, file |-> file])
                     /\ \A r \in Slot : r # s => (h[q][j].slot = r <=> f[q][j].slot = r)
          <6>1. /\ g[q][j] = f[q][j] \/ (q = p /\ g[q][j] = [slot |-> s, file |-> file])
                /\ h[q][j] = g[q][j] \/ (q = p /\ h[q][j] = [slot |-> s, file |-> file])
            BY <5>1
          <6>2. \A r \in Slot : r # s => /\ g[q][j].slot = r <=> f[q][j].slot = r
                                         /\ h[q][j].slot = r <=> g[q][j].slot = r
            BY <5>1
          <6> QED BY <6>1, <6>2
        <5> QED BY <5>2
      <4> QED BY <4>1, <4>2 DEF Missing
    <3> QED BY <1>5, <3>1, <3>2, <3>3
  <2> QED BY <1>5, <2>1, <2>2
<1>7. Cardinality(Missed(v, {s})) = n
  <2> HIDE DEF n
  <2>1. v[s] \in 0..2
    BY <1>1, <1>2
  <2> QED BY <1>2, <2>1, MissedCount
<1>8. Uses(h, v, {s}) = 2
  <2> HIDE DEF n
  <2> QED BY <1>1, <1>6, <1>7 DEF Uses
<1> QED BY <1>1, <1>2, <1>6, <1>8 DEF TwoTaken

\* sys_pipe(), which may run while another call waits.
LEMMA PipeStep ==
  ASSUME Sound, NEW p \in Proc, sys_pipe(p), spoiled' = "no"
  PROVE  Sound'
<1> DEFINE s == Lowest(FreeSlots)
           a == NewAddr
           file == <<"pipe", a>>
           entry == [fd_inode |-> a, fd_flag |-> "pipe", fd_pos |-> 2]
           f == pcb_fd_install(fd, p, s, file)
           g == pcb_fd_install(f, p, s, file)
<1>1. /\ FdInv(fd, table, mem) /\ SlotInv(table, mem, open_inodes) /\ ListInv(mem, open_inodes)
      /\ MemInv(table, mem) /\ CountInv(fd, table, mem, open_inodes) /\ UnfilledInv(fd, table)
      /\ PendInv(table, mem, open_inodes)
      /\ Typed(fd, table, mem, open_inodes) /\ Around /\ DirInv /\ alive \subseteq Proc
  BY DEF Sound, TableInv
<1>2. FreeSlots # {} /\ p \in alive
  BY DEF sys_pipe, Ready
<1>3. /\ mem' = [mem EXCEPT ![a] = Page] /\ table' = [table EXCEPT ![s] = entry]
      /\ fd' = g /\ unfilled' = [unfilled EXCEPT ![s] = @ + Missing(fd, f, g)]
      /\ alive' = alive /\ open_inodes' = open_inodes /\ dir' = dir /\ inode_bitmap' = inode_bitmap
      /\ pending' = pending
  BY <1>2 DEF sys_pipe, Missing
<1>4. /\ open_inodes \in Seq(Addr) /\ mem \in [Addr -> InodeType] /\ table \in [Slot -> FileType]
      /\ fd \in [Proc -> [Fd -> FdType]] /\ unfilled \in [Slot -> Nat]
      /\ \A x \in Slot : table[x].fd_inode \in {NULL} \cup Addr
      /\ NULL \notin Addr
  BY <1>1, FileTableAssumption DEF Typed, Around, FileType, Addr, NULL
<1>5. s \in Slot /\ table[s].fd_inode = NULL
  BY <1>2, FreeSlotFacts
<1>6. ASSUME NEW q \in Proc
      PROVE  /\ CallInv(pending[q], table, mem, open_inodes)
             /\ pending[q].op \in {"none", "open", "create", "delete", "release"}
             /\ pending[q].addr \in Addr => pending[q] # NoCall
             /\ pending[q].op = "create" => pending[q].slot # s
  <2>1. CallInv(pending[q], table, mem, open_inodes)
    BY <1>1 DEF PendInv
  <2>2. pending[q].op \in {"none", "open", "create", "delete", "release"}
    BY <1>1 DEF Around, CallType
  <2>3. pending[q].addr \in Addr => pending[q] # NoCall
    BY <1>4, IdleFacts
  <2>4. pending[q].op = "create" => pending[q].slot # s
    BY <1>4, <1>5, <2>1 DEF CallInv
  <2> QED BY <2>1, <2>2, <2>3, <2>4
<1>7. a \in Addr /\ mem[a].space = "free"
  <2>1. \A q, r \in Proc : pending[q].addr \in Addr /\ pending[r].addr \in Addr => q = r
    BY <1>1, <1>6 DEF PendInv
  <2> QED BY <1>1, <1>2, <1>4, <2>1, NewAddrFacts
<1>8. /\ ~At(open_inodes, a) /\ \A x \in Slot : table[x].fd_inode # a
      /\ \A q \in Proc : pending[q].addr # a
  BY <1>7, FreshFacts
<1>9. Unused(fd, unfilled, s)
  BY <1>5, FreeUnused
<1> HIDE DEF s, a
<1>10. file \in {"none", "pipe", "file"} \X Nat
  BY <1>7, FileTableAssumption DEF Addr
<1> HIDE DEF file
<1>11. TwoTaken(fd, fd', unfilled, unfilled', p, s, file)
  BY <1>3, <1>4, <1>5, <1>9, <1>10, TwoTakenFacts
<1> HIDE DEF f, g
<1>12. /\ fd' \in [Proc -> [Fd -> FdType]] /\ unfilled' \in [Slot -> Nat] /\ unfilled'[s] \in 0..2
       /\ \A r \in Slot : r # s => unfilled'[r] = unfilled[r]
       /\ \A q \in Proc, j \in Fd : fd'[q][j] = fd[q][j] \/ (q = p /\ fd'[q][j] = [slot |-> s, file |-> file])
       /\ \A q \in Proc, j \in Fd : \A r \in Slot : r # s => (fd'[q][j].slot = r <=> fd[q][j].slot = r)
       /\ Uses(fd', unfilled', {s}) = 2
  BY <1>11 DEF TwoTaken
<1>13. /\ entry \in FileType /\ entry.fd_inode = a /\ entry.fd_flag = "pipe" /\ entry.fd_pos = 2
  BY <1>7 DEF FileType
<1>14. /\ table' \in [Slot -> FileType] /\ table'[s].fd_inode = a /\ table'[s].fd_flag = "pipe" /\ table'[s].fd_pos = 2
       /\ \A x \in Slot : x # s => table'[x] = table[x]
  <2> HIDE DEF entry
  <2> QED BY <1>3, <1>4, <1>5, <1>13
<1>15. mem' \in [Addr -> InodeType] /\ mem'[a].space # "free" /\ \A b \in Addr : b # a => mem'[b] = mem[b]
  <2>1. Page \in InodeType /\ Page.space # "free"
    BY DEF Page, Vacant, InodeType
  <2> QED BY <1>3, <1>4, <1>7, <2>1
<1> HIDE DEF entry
<1>16. \A x : Creating(x)' <=> Creating(x)
  BY <1>3 DEF Creating
<1>17. \A x \in Slot : Creating(x) => x # s
  BY <1>6 DEF Creating
<1>18. \A x \in Slot : x # s /\ table[x].fd_inode # NULL =>
         table'[x].fd_inode \in Addr /\ table'[x].fd_inode # a /\ mem'[table'[x].fd_inode] = mem[table[x].fd_inode]
  BY <1>4, <1>8, <1>14, <1>15
<1>19. \A i \in 1..Len(open_inodes) :
         open_inodes[i] \in Addr /\ open_inodes[i] # a /\ mem'[open_inodes[i]] = mem[open_inodes[i]]
  BY <1>4, <1>8, <1>15 DEF At
<1>20. FdInv(fd, table, mem)'
  <2>1. ASSUME NEW q \in Proc, NEW j \in Fd, fd'[q][j] # NoFd
        PROVE  LET x == fd'[q][j].slot
               IN  /\ q \in alive /\ x \in Slot /\ table'[x].fd_inode # NULL /\ ~Creating(x)
                   /\ fd'[q][j].file = IF table'[x].fd_flag = "pipe" THEN <<"pipe", table'[x].fd_inode>>
                                       ELSE <<"file", mem'[table'[x].fd_inode].no>>
    <3>1. CASE fd'[q][j] = fd[q][j]
      <4> DEFINE x == fd[q][j].slot
      <4>1. /\ q \in alive /\ x \in Slot /\ table[x].fd_inode # NULL /\ ~Creating(x)
            /\ fd[q][j].file = IF table[x].fd_flag = "pipe" THEN <<"pipe", table[x].fd_inode>>
                               ELSE <<"file", mem[table[x].fd_inode].no>>
        BY <1>1, <2>1, <3>1 DEF FdInv
      <4>2. x # s
        BY <1>9 DEF Unused
      <4> HIDE DEF x
      <4>3. table'[x] = table[x] /\ mem'[table[x].fd_inode] = mem[table[x].fd_inode]
        BY <1>14, <1>18, <4>1, <4>2
      <4> QED BY <3>1, <4>1, <4>3 DEF x
    <3>2. CASE q = p /\ fd'[q][j] = [slot |-> s, file |-> file]
      <4>1. fd'[q][j].slot = s /\ fd'[q][j].file = <<"pipe", a>>
        BY <3>2 DEF file
      <4>2. a # NULL
        BY <1>4, <1>7
      <4> QED BY <1>2, <1>5, <1>14, <1>17, <3>2, <4>1, <4>2
    <3> QED BY <1>12, <3>1, <3>2
  <2>2. alive' = alive /\ pending' = pending
    BY <1>3
  <2> QED BY <2>1, <2>2 DEF FdInv, Creating
<1>21. SlotInv(table, mem, open_inodes)'
  <2>1. ASSUME NEW x \in Slot, table'[x].fd_inode # NULL
        PROVE  LET b == table'[x].fd_inode
               IN  /\ mem'[b].space # "free"
                   /\ table'[x].fd_flag = "pipe" =>
                        /\ ~At(open_inodes, b) /\ \A r \in Slot : table'[r].fd_inode = b => r = x
                        /\ \A q \in Proc : pending[q].addr # b
                   /\ table'[x].fd_flag # "pipe" => Creating(x) \/ At(open_inodes, b)
    <3>1. CASE x = s
      BY <1>8, <1>14, <1>15, <3>1
    <3>2. CASE x # s
      <4>1. table'[x] = table[x] /\ table[x].fd_inode # NULL
        BY <1>14, <2>1, <3>2
      <4>2. /\ mem'[table[x].fd_inode].space # "free"
            /\ \A r \in Slot : table'[r].fd_inode = table[x].fd_inode => table[r].fd_inode = table[x].fd_inode
        BY <1>1, <1>8, <1>14, <1>18, <3>2, <4>1 DEF SlotInv
      <4> QED BY <1>1, <4>1, <4>2 DEF SlotInv
    <3> QED BY <3>1, <3>2
  <2> QED BY <1>3, <2>1 DEF SlotInv, Creating
<1>22. ListInv(mem, open_inodes)'
  BY <1>1, <1>3, <1>19 DEF ListInv
<1>23. MemInv(table, mem)'
  <2>1. ASSUME NEW b \in Addr, mem'[b].space # "free"
        PROVE  (\E x \in Slot : table'[x].fd_inode = b) \/ \E q \in Proc : pending[q].addr = b
    <3>1. CASE b = a
      BY <1>5, <1>14, <3>1
    <3>2. CASE b # a
      <4>1. mem[b].space # "free"
        BY <1>15, <2>1, <3>2
      <4>2. CASE \E x \in Slot : table[x].fd_inode = b
        BY <1>4, <1>5, <1>14, <4>2
      <4> QED BY <1>1, <4>1, <4>2 DEF MemInv
    <3> QED BY <3>1, <3>2
  <2> QED BY <1>3, <2>1 DEF MemInv
<1>24. ASSUME NEW S \in SUBSET Slot, s \notin S PROVE Uses(fd', unfilled', S) = Uses(fd, unfilled, S)
  <2>1. Got(fd', S) = Got(fd, S)
    <3>1. ASSUME NEW q \in Proc, NEW j \in Fd PROVE fd'[q][j].slot \in S <=> fd[q][j].slot \in S
      <4>1. \A r \in S : fd'[q][j].slot = r <=> fd[q][j].slot = r
        BY <1>12, <1>24
      <4> QED BY <4>1
    <3> QED BY <3>1, GotSame
  <2>2. Missed(unfilled', S) = Missed(unfilled, S)
    <3>1. \A r \in S : unfilled'[r] = unfilled[r]
      BY <1>12, <1>24
    <3> QED BY <3>1, MissedSame
  <2> QED BY <2>1, <2>2 DEF Uses
<1>25. CountInv(fd, table, mem, open_inodes)'
  <2>1. ASSUME NEW i \in 1..Len(open_inodes')
        PROVE  mem'[open_inodes'[i]].i_open_cnts
                 = Uses(fd', unfilled', Inodes(table', open_inodes'[i])) + Cardinality(Holders(open_inodes[i])')
    <3> DEFINE b == open_inodes[i]
               S == Inodes(table, b)
    <3>1. b \in Addr /\ mem'[b] = mem[b]
      BY <1>3, <1>19
    <3>2. S \in SUBSET Slot /\ s \notin S /\ Inodes(table', b) = S
      BY <1>4, <1>5, <1>14, <3>1 DEF Inodes
    <3>3. Uses(fd', unfilled', S) = Uses(fd, unfilled, S)
      <4> HIDE DEF S
      <4> QED BY <1>24, <3>2
    <3>4. mem[b].i_open_cnts = Uses(fd, unfilled, S) + Cardinality(Holders(b))
      BY <1>1, <1>3 DEF CountInv
    <3>5. Holders(open_inodes[i])' = Holders(b) /\ open_inodes'[i] = b
      BY <1>3 DEF Holders
    <3> HIDE DEF b, S
    <3> QED BY <3>1, <3>2, <3>3, <3>4, <3>5
  <2>2. ASSUME NEW x \in Slot, table'[x].fd_inode # NULL, table'[x].fd_flag = "pipe"
        PROVE  table'[x].fd_pos > 0 /\ table'[x].fd_pos = Uses(fd', unfilled', {x})
    <3>1. CASE x = s
      BY <1>12, <1>14, <3>1
    <3>2. CASE x # s
      <4>1. Uses(fd', unfilled', {x}) = Uses(fd, unfilled, {x})
        BY <1>24, <3>2
      <4> QED BY <1>1, <1>14, <2>2, <3>2, <4>1 DEF CountInv
    <3> QED BY <3>1, <3>2
  <2> QED BY <2>1, <2>2 DEF CountInv, Inodes, Uses, Got, Missed
<1>26. UnfilledInv(fd, table)'
  <2>1. ASSUME NEW x \in Slot
        PROVE  /\ unfilled'[x] \in 0..2
               /\ table'[x].fd_inode = NULL \/ Creating(x) => unfilled'[x] = 0
               /\ table'[x].fd_inode # NULL /\ table'[x].fd_flag # "pipe" /\ ~Creating(x) =>
                    IF unfilled'[x] = 0 THEN \E q \in Proc, j \in Fd : fd'[q][j].slot = x
                    ELSE unfilled'[x] = 1 /\ \A q \in Proc, j \in Fd : fd'[q][j].slot # x
    <3>1. CASE x = s
      BY <1>4, <1>7, <1>12, <1>14, <1>17, <3>1
    <3>2. CASE x # s
      <4>1. /\ table'[x] = table[x] /\ unfilled'[x] = unfilled[x]
            /\ \A q \in Proc, j \in Fd : fd'[q][j].slot = x <=> fd[q][j].slot = x
        BY <1>12, <1>14, <3>2
      <4> QED BY <1>1, <4>1 DEF UnfilledInv
    <3> QED BY <3>1, <3>2
  <2> QED BY <1>16, <2>1 DEF UnfilledInv
<1>27. PendInv(table, mem, open_inodes)'
  <2>1. ASSUME NEW q \in Proc PROVE CallInv(pending[q], table, mem, open_inodes)'
    <3>1. PICK c : c = pending[q]
      OBVIOUS
    <3>2. /\ CallInv(c, table, mem, open_inodes) /\ c.addr # a
          /\ c.op = "create" => c.slot # s
          /\ c.op \in {"open", "create", "release"} => c.addr \in Addr
      BY <1>6, <1>8, <3>1 DEF CallInv
    <3>3. c.op \in {"open", "create", "release"} => mem'[c.addr] = mem[c.addr]
      BY <1>15, <3>2
    <3>4. \A x \in Slot : table'[x].fd_inode = c.addr => table[x].fd_inode = c.addr
      BY <1>14, <3>2
    <3>5. c.op = "create" => c.slot \in Slot /\ table'[c.slot] = table[c.slot]
      BY <1>14, <3>2 DEF CallInv
    <3>6. \A i \in 1..Len(open_inodes) : mem'[open_inodes[i]].no = mem[open_inodes[i]].no
      BY <1>19
    <3>7. CallInv(c, table, mem, open_inodes)'
      BY <1>3, <3>2, <3>3, <3>4, <3>5, <3>6 DEF CallInv
    <3>8. c = pending'[q]
      BY <1>3, <3>1
    <3> QED BY <3>7, <3>8 DEF CallInv
  <2> QED BY <1>1, <1>3, <2>1 DEF PendInv
<1>28. TableInv(fd, table, mem, open_inodes)'
  BY <1>20, <1>21, <1>22, <1>23, <1>25, <1>26, <1>27 DEF TableInv
<1>29. DirInv'
  BY <1>1, <1>3 DEF DirInv
<1>30. Typed(fd, table, mem, open_inodes)' /\ Around'
  BY <1>1, <1>3, <1>4, <1>12, <1>14, <1>15 DEF Typed, Around
<1> QED BY <1>1, <1>3, <1>28, <1>29, <1>30 DEF Sound

-----------------------------------------------------------------------------
\* The number of descriptors that a child gets for the slots S.
LEMMA InheritedFacts ==
  ASSUME NEW p \in Proc, NEW S
  PROVE  /\ IsFiniteSet({i \in Fd : fd[p][i].slot \in S}) /\ Inherited(p, S) \in Nat
<1> DEFINE H == {i \in Fd : fd[p][i].slot \in S}
<1>1. IsFiniteSet(Fd)
  BY FileTableAssumption, FS_Interval DEF Fd
<1>2. IsFiniteSet(H)
  BY <1>1, FS_Subset
<1>3. Cardinality(H) \in Nat
  BY <1>2, FS_CardinalityType
<1> QED BY <1>2, <1>3 DEF Inherited

\* sys_fork() gives the child a copy of what its parent has, and it had nothing.
Copied(f, g, p, child) ==
  /\ child # p /\ \A j \in Fd : f[child][j] = NoFd
  /\ \A q \in Proc, j \in Fd : g[q][j] = IF q = child THEN f[p][j] ELSE f[q][j]

\* Each use by the parent is one more.
LEMMA CopiedUses ==
  ASSUME NEW p \in Proc, NEW child \in Proc, NEW g, Copied(fd, g, p, child), NEW u, NEW S \in SUBSET Slot
  PROVE  Uses(g, u, S) = Uses(fd, u, S) + Inherited(p, S)
<1> DEFINE H == {i \in Fd : fd[p][i].slot \in S}
           D == {child} \X H
<1>1. /\ IsFiniteSet(Got(fd, S)) /\ Cardinality(Got(fd, S)) \in Nat
      /\ Cardinality(Missed(u, S)) \in Nat
  BY UsesFacts
<1>2. IsFiniteSet(H) /\ Inherited(p, S) \in Nat /\ Inherited(p, S) = Cardinality(H)
  BY InheritedFacts DEF Inherited
<1>3. -1 \notin S
  BY FileTableAssumption DEF Slot
<1>4. ASSUME NEW q \in Proc, NEW j \in Fd
      PROVE  g[q][j].slot \in S <=> fd[q][j].slot \in S \/ (q = child /\ fd[p][j].slot \in S)
  <2>1. CASE q = child
    <3>1. fd[q][j].slot = -1 /\ g[q][j] = fd[p][j]
      BY <2>1 DEF Copied, NoFd
    <3> QED BY <1>3, <2>1, <3>1
  <2>2. CASE q # child
    BY <2>2 DEF Copied
  <2> QED BY <2>1, <2>2
<1>5. Got(g, S) = Got(fd, S) \cup D
  <2>1. ASSUME NEW d \in Proc \X Fd PROVE d \in Got(g, S) <=> d \in Got(fd, S) \/ d \in D
    <3>1. PICK q \in Proc, j \in Fd : d = <<q, j>>
      OBVIOUS
    <3>2. /\ d \in Got(g, S) <=> g[q][j].slot \in S
          /\ d \in Got(fd, S) <=> fd[q][j].slot \in S
      BY <3>1 DEF Got
    <3>3. d \in D <=> q = child /\ fd[p][j].slot \in S
      BY <3>1
    <3> QED BY <1>4, <3>2, <3>3
  <2>2. Got(g, S) \subseteq Proc \X Fd /\ Got(fd, S) \subseteq Proc \X Fd /\ D \subseteq Proc \X Fd
    BY DEF Got
  <2> HIDE DEF D
  <2> QED BY <2>1, <2>2
<1>6. Got(fd, S) \cap D = {}
  <2>1. ASSUME NEW d \in Got(fd, S), d \in D PROVE FALSE
    <3>1. PICK j \in Fd : d = <<child, j>>
      BY <2>1
    <3>2. fd[child][j].slot \in S
      BY <3>1 DEF Got
    <3>3. fd[child][j].slot = -1
      BY DEF Copied, NoFd
    <3> QED BY <1>3, <3>2, <3>3
  <2> QED BY <2>1
<1> HIDE DEF H
<1>7. IsFiniteSet(D) /\ Cardinality(D) = Cardinality(H)
  <2>1. IsFiniteSet({child}) /\ Cardinality({child}) = 1
    BY FS_Singleton
  <2>2. IsFiniteSet(D) /\ Cardinality(D) = Cardinality({child}) * Cardinality(H)
    BY <1>2, <2>1, FS_Product
  <2>3. Cardinality(H) \in Nat
    BY <1>2
  <2> HIDE DEF D
  <2> QED BY <2>1, <2>2, <2>3
<1> HIDE DEF D
<1>8. Cardinality(Got(g, S)) = Cardinality(Got(fd, S)) + Cardinality(H)
  <2>1. Cardinality(Got(fd, S) \cup D) = Cardinality(Got(fd, S)) + Cardinality(D) - Cardinality(Got(fd, S) \cap D)
    BY <1>1, <1>7, FS_Union
  <2>2. Cardinality({}) = 0
    BY FS_EmptySet
  <2>3. Cardinality(Got(fd, S)) \in Nat /\ Cardinality(D) \in Nat /\ Cardinality(D) = Cardinality(H)
    BY <1>1, <1>2, <1>7
  <2>4. Cardinality(Got(g, S)) = Cardinality(Got(fd, S)) + Cardinality(D) - 0
    BY <1>5, <1>6, <2>1, <2>2
  <2> QED BY <2>3, <2>4
<1> QED BY <1>1, <1>2, <1>8 DEF Uses

\* update_inode_open_cnts() changes the counts, and nothing else.
Recounted(p) ==
  /\ table' \in [Slot -> FileType] /\ mem' \in [Addr -> InodeType]
  /\ \A s \in Slot :
       /\ table'[s].fd_inode = table[s].fd_inode /\ table'[s].fd_flag = table[s].fd_flag
       /\ table[s].fd_flag = "pipe" => table'[s].fd_pos = table[s].fd_pos + Inherited(p, {s})
  /\ \A a \in Addr :
       /\ mem'[a].no = mem[a].no /\ mem'[a].space = mem[a].space
       /\ mem'[a].i_open_cnts = mem[a].i_open_cnts + Inherited(p, Inodes(table, a))

\* It does so.
LEMMA RecountedFacts ==
  ASSUME NEW p \in Proc, update_inode_open_cnts(p), table \in [Slot -> FileType], mem \in [Addr -> InodeType]
  PROVE  Recounted(p)
<1> DEFINE n(s) == IF table[s].fd_flag = "pipe" THEN Inherited(p, {s}) ELSE 0
<1>1. ASSUME NEW s \in Slot
      PROVE  /\ table'[s] \in FileType /\ table'[s].fd_inode = table[s].fd_inode
             /\ table'[s].fd_flag = table[s].fd_flag /\ table'[s].fd_pos = table[s].fd_pos + n(s)
  <2>1. n(s) \in Nat
    BY InheritedFacts
  <2>2. table'[s] = [table[s] EXCEPT !.fd_pos = @ + n(s)]
    BY DEF update_inode_open_cnts
  <2> HIDE DEF n
  <2>3. table[s] \in FileType
    OBVIOUS
  <2> QED BY <2>1, <2>2, <2>3 DEF FileType
<1>2. ASSUME NEW a \in Addr
      PROVE  /\ mem'[a] \in InodeType /\ mem'[a].no = mem[a].no /\ mem'[a].space = mem[a].space
             /\ mem'[a].i_open_cnts = mem[a].i_open_cnts + Inherited(p, Inodes(table, a))
  <2> DEFINE k == Inherited(p, Inodes(table, a))
  <2>1. k \in Nat
    BY InheritedFacts
  <2>2. mem'[a] = [mem[a] EXCEPT !.i_open_cnts = @ + k]
    BY DEF update_inode_open_cnts, SlotsAt, Inodes
  <2> HIDE DEF k
  <2>3. mem[a] \in InodeType
    OBVIOUS
  <2> QED BY <2>1, <2>2, <2>3 DEF InodeType, k
<1>3. table' \in [Slot -> FileType]
  <2>1. table' = [s \in Slot |-> table'[s]]
    BY DEF update_inode_open_cnts
  <2> QED BY <1>1, <2>1
<1>4. mem' \in [Addr -> InodeType]
  <2>1. mem' = [a \in Addr |-> mem'[a]]
    BY DEF update_inode_open_cnts
  <2> QED BY <1>2, <2>1
<1> QED BY <1>1, <1>2, <1>3, <1>4 DEF Recounted

\* sys_fork(), which may run while another call waits.
LEMMA ForkStep ==
  ASSUME Sound, NEW p \in Proc, NEW child \in Proc, sys_fork(p, child)
  PROVE  Sound'
<1>1. /\ FdInv(fd, table, mem) /\ SlotInv(table, mem, open_inodes) /\ ListInv(mem, open_inodes)
      /\ MemInv(table, mem) /\ CountInv(fd, table, mem, open_inodes) /\ UnfilledInv(fd, table)
      /\ PendInv(table, mem, open_inodes)
      /\ Typed(fd, table, mem, open_inodes) /\ Around /\ DirInv /\ alive \subseteq Proc
  BY DEF Sound, TableInv
<1>2. /\ p \in alive /\ child \notin alive /\ alive' = alive \cup {child}
      /\ update_inode_open_cnts(p) /\ fd' = [fd EXCEPT ![child] = fd[p]]
      /\ open_inodes' = open_inodes /\ dir' = dir /\ inode_bitmap' = inode_bitmap
      /\ pending' = pending /\ unfilled' = unfilled
  BY DEF sys_fork, Ready
<1>3. /\ open_inodes \in Seq(Addr) /\ mem \in [Addr -> InodeType] /\ table \in [Slot -> FileType]
      /\ fd \in [Proc -> [Fd -> FdType]]
      /\ \A x \in Slot : table[x].fd_inode \in {NULL} \cup Addr
  BY <1>1 DEF Typed, FileType
<1>4. Recounted(p)
  BY <1>2, <1>3, RecountedFacts
<1>5. /\ table' \in [Slot -> FileType] /\ mem' \in [Addr -> InodeType]
      /\ \A s \in Slot : table'[s].fd_inode = table[s].fd_inode /\ table'[s].fd_flag = table[s].fd_flag
      /\ \A a \in Addr : mem'[a].no = mem[a].no /\ mem'[a].space = mem[a].space
  BY <1>4 DEF Recounted
<1>6. Copied(fd, fd', p, child) /\ fd' \in [Proc -> [Fd -> FdType]]
  <2>1. child # p /\ \A j \in Fd : fd[child][j] = NoFd
    BY <1>1, <1>2 DEF FdInv
  <2>2. fd' \in [Proc -> [Fd -> FdType]] /\ \A q \in Proc : fd'[q] = IF q = child THEN fd[p] ELSE fd[q]
    BY <1>2, <1>3
  <2> QED BY <2>1, <2>2 DEF Copied
<1>7. \A x : Creating(x)' <=> Creating(x)
  BY <1>2 DEF Creating
<1>8. \A x \in Slot : table[x].fd_inode # NULL =>
        table[x].fd_inode \in Addr /\ mem'[table[x].fd_inode].no = mem[table[x].fd_inode].no
  BY <1>3, <1>5
<1>9. \A i \in 1..Len(open_inodes) :
        /\ open_inodes[i] \in Addr /\ mem'[open_inodes[i]].no = mem[open_inodes[i]].no
        /\ mem'[open_inodes[i]].space = mem[open_inodes[i]].space
  BY <1>3, <1>5
<1>10. FdInv(fd, table, mem)'
  <2>1. ASSUME NEW r \in Proc, NEW j \in Fd, fd[r][j] # NoFd
        PROVE  LET x == fd[r][j].slot
               IN  /\ r \in alive /\ x \in Slot /\ table'[x].fd_inode # NULL /\ ~Creating(x)
                   /\ fd[r][j].file = IF table'[x].fd_flag = "pipe" THEN <<"pipe", table'[x].fd_inode>>
                                      ELSE <<"file", mem'[table'[x].fd_inode].no>>
    <3> DEFINE x == fd[r][j].slot
    <3>1. /\ r \in alive /\ x \in Slot /\ table[x].fd_inode # NULL /\ ~Creating(x)
          /\ fd[r][j].file = IF table[x].fd_flag = "pipe" THEN <<"pipe", table[x].fd_inode>>
                             ELSE <<"file", mem[table[x].fd_inode].no>>
      BY <1>1, <2>1 DEF FdInv
    <3> HIDE DEF x
    <3>2. /\ table'[x].fd_inode = table[x].fd_inode /\ table'[x].fd_flag = table[x].fd_flag
          /\ mem'[table[x].fd_inode].no = mem[table[x].fd_inode].no
      BY <1>5, <1>8, <3>1
    <3> QED BY <3>1, <3>2 DEF x
  <2>2. ASSUME NEW q \in Proc, NEW j \in Fd, fd'[q][j] # NoFd
        PROVE  LET x == fd'[q][j].slot
               IN  /\ q \in alive' /\ x \in Slot /\ table'[x].fd_inode # NULL /\ ~Creating(x)
                   /\ fd'[q][j].file = IF table'[x].fd_flag = "pipe" THEN <<"pipe", table'[x].fd_inode>>
                                       ELSE <<"file", mem'[table'[x].fd_inode].no>>
    <3>1. CASE q = child
      <4>1. fd'[q][j] = fd[p][j] /\ q \in alive'
        BY <1>2, <1>6, <3>1 DEF Copied
      <4> QED BY <2>1, <2>2, <4>1
    <3>2. CASE q # child
      <4>1. fd'[q][j] = fd[q][j]
        BY <1>6, <3>2 DEF Copied
      <4> QED BY <1>2, <2>1, <2>2, <4>1
    <3> QED BY <3>1, <3>2
  <2>3. pending' = pending
    BY <1>2
  <2> QED BY <2>2, <2>3 DEF FdInv, Creating
<1>11. SlotInv(table, mem, open_inodes)'
  <2>1. ASSUME NEW x \in Slot, table'[x].fd_inode # NULL
        PROVE  LET b == table'[x].fd_inode
               IN  /\ mem'[b].space # "free"
                   /\ table'[x].fd_flag = "pipe" =>
                        /\ ~At(open_inodes, b) /\ \A r \in Slot : table'[r].fd_inode = b => r = x
                        /\ \A q \in Proc : pending[q].addr # b
                   /\ table'[x].fd_flag # "pipe" => Creating(x) \/ At(open_inodes, b)
    <3>1. /\ table'[x].fd_inode = table[x].fd_inode /\ table'[x].fd_flag = table[x].fd_flag
          /\ mem'[table[x].fd_inode].space = mem[table[x].fd_inode].space
          /\ \A r \in Slot : table'[r].fd_inode = table[r].fd_inode
      BY <1>3, <1>5, <2>1
    <3> QED BY <1>1, <2>1, <3>1 DEF SlotInv
  <2> QED BY <1>2, <2>1 DEF SlotInv, Creating
<1>12. ListInv(mem, open_inodes)'
  BY <1>1, <1>2, <1>9 DEF ListInv
<1>13. MemInv(table, mem)'
  BY <1>1, <1>2, <1>5 DEF MemInv
<1>14. ASSUME NEW S \in SUBSET Slot
       PROVE  /\ Uses(fd', unfilled, S) = Uses(fd, unfilled, S) + Inherited(p, S)
              /\ Uses(fd, unfilled, S) \in Nat /\ Inherited(p, S) \in Nat
  <2>1. Uses(fd', unfilled, S) = Uses(fd, unfilled, S) + Inherited(p, S)
    BY <1>6, CopiedUses
  <2>2. Uses(fd, unfilled, S) \in Nat
    BY UsesFacts
  <2>3. Inherited(p, S) \in Nat
    BY InheritedFacts
  <2> QED BY <2>1, <2>2, <2>3
<1>15. CountInv(fd, table, mem, open_inodes)'
  <2>1. ASSUME NEW i \in 1..Len(open_inodes')
        PROVE  mem'[open_inodes'[i]].i_open_cnts
                 = Uses(fd', unfilled', Inodes(table', open_inodes'[i])) + Cardinality(Holders(open_inodes[i])')
    <3> DEFINE b == open_inodes[i]
               S == Inodes(table, b)
    <3>1. b \in Addr /\ mem'[b].i_open_cnts = mem[b].i_open_cnts + Inherited(p, S)
      BY <1>2, <1>4, <1>9 DEF Recounted
    <3>2. S \in SUBSET Slot /\ Inodes(table', b) = S
      BY <1>5 DEF Inodes
    <3>3. /\ Uses(fd', unfilled, S) = Uses(fd, unfilled, S) + Inherited(p, S)
          /\ Uses(fd, unfilled, S) \in Nat /\ Inherited(p, S) \in Nat
      <4> HIDE DEF S
      <4> QED BY <1>14, <3>2
    <3>4. mem[b].i_open_cnts = Uses(fd, unfilled, S) + Cardinality(Holders(b))
      BY <1>1, <1>2 DEF CountInv
    <3>5. Holders(open_inodes[i])' = Holders(b) /\ open_inodes'[i] = b /\ unfilled' = unfilled
      BY <1>2 DEF Holders
    <3>6. Cardinality(Holders(b)) \in Nat
      BY HoldersFacts
    <3> HIDE DEF b, S
    <3>7. mem'[b].i_open_cnts = Uses(fd', unfilled, S) + Cardinality(Holders(b))
      BY <3>1, <3>3, <3>4, <3>6
    <3> QED BY <3>2, <3>5, <3>7
  <2>2. ASSUME NEW x \in Slot, table'[x].fd_inode # NULL, table'[x].fd_flag = "pipe"
        PROVE  table'[x].fd_pos > 0 /\ table'[x].fd_pos = Uses(fd', unfilled', {x})
    <3>1. table'[x].fd_pos = table[x].fd_pos + Inherited(p, {x})
      BY <1>4, <2>2 DEF Recounted
    <3>2. table[x].fd_pos > 0 /\ table[x].fd_pos = Uses(fd, unfilled, {x})
      BY <1>1, <1>5, <2>2 DEF CountInv
    <3>3. /\ Uses(fd', unfilled, {x}) = Uses(fd, unfilled, {x}) + Inherited(p, {x})
          /\ Uses(fd, unfilled, {x}) \in Nat /\ Inherited(p, {x}) \in Nat
      BY <1>14
    <3> QED BY <1>2, <3>1, <3>2, <3>3
  <2> QED BY <2>1, <2>2 DEF CountInv, Inodes, Uses, Got, Missed
<1>16. UnfilledInv(fd, table)'
  <2>1. ASSUME NEW x \in Slot
        PROVE  (\E q \in Proc, j \in Fd : fd'[q][j].slot = x) <=> \E q \in Proc, j \in Fd : fd[q][j].slot = x
    <3>1. x # -1
      BY FileTableAssumption DEF Slot
    <3>2. ASSUME NEW q \in Proc, NEW j \in Fd, fd'[q][j].slot = x
          PROVE  \E r \in Proc, k \in Fd : fd[r][k].slot = x
      BY <1>6, <3>2 DEF Copied
    <3>3. ASSUME NEW q \in Proc, NEW j \in Fd, fd[q][j].slot = x
          PROVE  fd'[q][j].slot = x
      BY <1>6, <3>1, <3>3 DEF Copied, NoFd
    <3> QED BY <3>2, <3>3
  <2>2. ASSUME NEW x \in Slot
        PROVE  /\ unfilled[x] \in 0..2
               /\ table'[x].fd_inode = NULL \/ Creating(x) => unfilled[x] = 0
               /\ table'[x].fd_inode # NULL /\ table'[x].fd_flag # "pipe" /\ ~Creating(x) =>
                    IF unfilled[x] = 0 THEN \E q \in Proc, j \in Fd : fd'[q][j].slot = x
                    ELSE unfilled[x] = 1 /\ \A q \in Proc, j \in Fd : fd'[q][j].slot # x
    BY <1>1, <1>5, <2>1 DEF UnfilledInv
  <2> QED BY <1>2, <1>7, <2>2 DEF UnfilledInv
<1>17. PendInv(table, mem, open_inodes)'
  <2>1. ASSUME NEW q \in Proc PROVE CallInv(pending[q], table, mem, open_inodes)'
    <3>1. PICK c : c = pending[q]
      OBVIOUS
    <3>2. CallInv(c, table, mem, open_inodes)
      BY <1>1, <3>1 DEF PendInv
    <3>3. /\ c.op \in {"open", "create", "release"} =>
               mem'[c.addr].no = mem[c.addr].no /\ mem'[c.addr].space = mem[c.addr].space
          /\ c.op = "create" => table'[c.slot].fd_inode = table[c.slot].fd_inode
                                /\ table'[c.slot].fd_flag = table[c.slot].fd_flag
      BY <1>5, <3>2 DEF CallInv
    <3>4. \A x \in Slot : table'[x].fd_inode = table[x].fd_inode
      BY <1>5
    <3>5. \A i \in 1..Len(open_inodes) : mem'[open_inodes[i]].no = mem[open_inodes[i]].no
      BY <1>9
    <3>6. CallInv(c, table, mem, open_inodes)'
      BY <1>2, <3>2, <3>3, <3>4, <3>5 DEF CallInv
    <3>7. c = pending'[q]
      BY <1>2, <3>1
    <3> QED BY <3>6, <3>7 DEF CallInv
  <2> QED BY <1>1, <1>2, <2>1 DEF PendInv
<1>18. TableInv(fd, table, mem, open_inodes)'
  BY <1>10, <1>11, <1>12, <1>13, <1>15, <1>16, <1>17 DEF TableInv
<1>19. DirInv'
  BY <1>1, <1>2 DEF DirInv
<1>20. Typed(fd, table, mem, open_inodes)' /\ Around'
  BY <1>1, <1>2, <1>3, <1>5, <1>6 DEF Typed, Around
<1> QED BY <1>1, <1>2, <1>18, <1>19, <1>20 DEF Sound

-----------------------------------------------------------------------------
\* The boot state: nothing is open, and no call waits.
LEMMA InitInv ==
  ASSUME Init
  PROVE  FileInv
<1>1. /\ alive \subseteq Proc /\ fd = [p \in Proc |-> [i \in Fd |-> NoFd]]
      /\ table = [s \in Slot |-> [fd_inode |-> NULL, fd_flag |-> "none", fd_pos |-> 0]]
      /\ mem = [a \in Addr |-> Vacant] /\ open_inodes = <<>>
      /\ dir \in [Name -> {0} \cup Number] /\ inode_bitmap = {dir[n] : n \in Name} \ {0}
      /\ \A m, n \in Name : dir[m] = dir[n] /\ dir[m] # 0 => m = n
      /\ pending = [p \in Proc |-> NoCall] /\ unfilled = [s \in Slot |-> 0]
  BY DEF Init
<1>2. TypeOK
  <2>1. NoFd \in FdType /\ Vacant \in InodeType
    BY DEF NoFd, Nothing, FdType, Vacant, InodeType
  <2>2. [fd_inode |-> NULL, fd_flag |-> "none", fd_pos |-> 0] \in FileType
    BY DEF FileType
  <2>3. fd \in [Proc -> [Fd -> FdType]] /\ mem \in [Addr -> InodeType] /\ table \in [Slot -> FileType]
    BY <1>1, <2>1, <2>2
  <2>4. inode_bitmap \subseteq Number /\ open_inodes \in Seq(Addr)
    BY <1>1
  <2>5. pending \in [Proc -> CallType] /\ unfilled \in [Slot -> Nat]
    BY <1>1, IdleFacts
  <2> QED BY <1>1, <2>3, <2>4, <2>5 DEF TypeOK
<1>3. /\ \A q \in Proc : \A j \in Fd : fd[q][j] = NoFd
      /\ \A s \in Slot : table[s].fd_inode = NULL /\ unfilled[s] = 0
      /\ \A a \in Addr : mem[a].space = "free"
      /\ \A q \in Proc : pending[q] = NoCall /\ pending[q].op = "none"
      /\ Len(open_inodes) = 0 /\ 1..Len(open_inodes) = {}
  BY <1>1, IdleFacts DEF Vacant
<1>4. FdInv(fd, table, mem) /\ SlotInv(table, mem, open_inodes) /\ ListInv(mem, open_inodes) /\ MemInv(table, mem)
  BY <1>3 DEF FdInv, SlotInv, ListInv, MemInv
<1>5. CountInv(fd, table, mem, open_inodes) /\ UnfilledInv(fd, table)
  BY <1>3 DEF CountInv, UnfilledInv
<1>6. PendInv(table, mem, open_inodes)
  <2>1. CallInv(NoCall, table, mem, open_inodes)
    BY DEF CallInv, NoCall
  <2> QED BY <1>3, <2>1 DEF PendInv
<1>7. DirInv
  BY <1>1 DEF DirInv
<1> QED BY <1>2, <1>4, <1>5, <1>6, <1>7 DEF FileInv, TableInv

\* Every step keeps the invariant.
LEMMA NextInv ==
  ASSUME FileInv, [Next]_vars
  PROVE  FileInv'
<1>1. CASE UNCHANGED vars
  <2>1. /\ alive' = alive /\ fd' = fd /\ table' = table /\ mem' = mem /\ open_inodes' = open_inodes
        /\ dir' = dir /\ inode_bitmap' = inode_bitmap /\ pending' = pending /\ unfilled' = unfilled
        /\ spoiled' = spoiled
    BY <1>1 DEF vars
  <2>2. CASE spoiled = "no"
    <3>1. Sound
      BY <2>2, InvIsSound
    <3>2. TableInv(fd', table', mem', open_inodes') /\ UNCHANGED <<alive, dir, inode_bitmap, pending, unfilled>>
      BY <2>1, <3>1 DEF Sound
    <3>3. TableInv(fd, table, mem, open_inodes)'
      BY <3>2, TableMoves
    <3>4. Sound'
      BY <2>1, <3>1, <3>3 DEF Sound, Typed, Around, DirInv
    <3> QED BY <3>4, SoundIsInv
  <2>3. CASE spoiled # "no"
    BY <2>1, <2>3, SoundIsInv
  <2> QED BY <2>2, <2>3
<1>2. CASE Next
  <2>1. PICK p \in Proc :
          \/ \E name \in Name, flag \in Flag : file_open(p, name, flag) \/ file_create(p, name, flag)
          \/ file_open_read(p) \/ file_create_written(p)
          \/ \E name \in Name : sys_unlink(p, name)
          \/ sys_unlink_deleted(p) \/ sys_unlink_released(p)
          \/ \E i \in Fd : Close(p, i)
          \/ sys_pipe(p) \/ sys_exit(p)
          \/ \E child \in Proc : sys_fork(p, child)
    BY <1>2 DEF Next
  <2> SUFFICES ASSUME spoiled' = "no" PROVE Sound'
    BY SoundIsInv
  <2>2. ASSUME spoiled = "no" PROVE Sound
    BY <2>2, InvIsSound
  <2>3. ASSUME NEW name \in Name, NEW flag \in Flag, file_open(p, name, flag) PROVE Sound'
    <3>1. Sound
      BY <2>2, <2>3 DEF file_open, Ready
    <3>2. CASE FindInode(dir[name]) = {}
      BY <2>3, <3>1, <3>2, OpenUnlistedStep
    <3>3. CASE FindInode(dir[name]) # {}
      BY <2>3, <3>1, <3>3, OpenListedStep
    <3> QED BY <3>2, <3>3
  <2>4. ASSUME NEW name \in Name, NEW flag \in Flag, file_create(p, name, flag) PROVE Sound'
    <3>1. Sound
      BY <2>2, <2>4 DEF file_create, Ready
    <3> QED BY <2>4, <3>1, CreateStep
  <2>5. CASE file_open_read(p)
    <3>1. Sound
      BY <2>2, <2>5 DEF file_open_read
    <3> QED BY <2>5, <3>1, OpenReadStep
  <2>6. CASE file_create_written(p)
    <3>1. Sound
      BY <2>2, <2>6 DEF file_create_written
    <3> QED BY <2>6, <3>1, CreateWrittenStep
  <2>7. ASSUME NEW name \in Name, sys_unlink(p, name) PROVE Sound'
    <3>1. Sound
      BY <2>2, <2>7 DEF sys_unlink, Ready
    <3> QED BY <2>7, <3>1, UnlinkStep
  <2>8. CASE sys_unlink_deleted(p)
    <3>1. Sound
      BY <2>2, <2>8 DEF sys_unlink_deleted
    <3> QED BY <2>8, <3>1, DeletedStep
  <2>9. CASE sys_unlink_released(p)
    <3>1. Sound
      BY <2>2, <2>9 DEF sys_unlink_released
    <3> QED BY <2>9, <3>1, ReleasedStep
  <2>10. ASSUME NEW i \in Fd, Close(p, i) PROVE Sound'
    <3>1. Sound
      BY <2>2, <2>10 DEF Close, Ready
    <3> QED BY <2>10, <3>1, CloseStep
  <2>11. CASE sys_pipe(p)
    <3>1. Sound
      BY <2>2, <2>11 DEF sys_pipe, Ready
    <3> QED BY <2>11, <3>1, PipeStep
  <2>12. CASE sys_exit(p)
    <3>1. Sound
      BY <2>2, <2>12 DEF sys_exit, Ready
    <3> QED BY <2>12, <3>1, ExitStep
  <2>13. ASSUME NEW child \in Proc, sys_fork(p, child) PROVE Sound'
    <3>1. Sound
      BY <2>2, <2>13 DEF sys_fork, Ready
    <3> QED BY <2>13, <3>1, ForkStep
  <2> QED BY <2>1, <2>3, <2>4, <2>5, <2>6, <2>7, <2>8, <2>9, <2>10, <2>11, <2>12, <2>13
<1> QED BY <1>1, <1>2

\* FileInv, the invariant that open, create, unlink, close, pipe, fork and exit
\* keep between them, holds in every state there is.
THEOREM FileTableInvariant == Spec => []FileInv
<1>1. Init => FileInv
  BY InitInv
<1>2. FileInv /\ [Next]_vars => FileInv'
  BY NextInv
<1> QED BY <1>1, <1>2, PTL DEF Spec

\* The types, until the table is spoiled.
THEOREM FileTypeCorrect == Spec => []TypeOK
<1>1. FileInv => TypeOK
  BY DEF FileInv
<1> QED BY <1>1, FileTableInvariant, PTL

-----------------------------------------------------------------------------
\* What the invariant says of a slot of the table that is used.
FileSlot(s) ==
  /\ s \in Slot /\ table[s].fd_inode # NULL /\ table[s].fd_inode \in Addr /\ table[s].fd_flag # "pipe"
  /\ Target(s)[2] = mem[table[s].fd_inode].no
  /\ ~Creating(s) => \E i \in 1..Len(open_inodes) : open_inodes[i] = table[s].fd_inode

\* So in every state that is sound.
LEMMA TargetFacts ==
  ASSUME Sound
  PROVE  /\ \A s \in Slot : table[s].fd_inode # NULL => (s \in FileSlots <=> table[s].fd_flag # "pipe")
         /\ \A s \in FileSlots : FileSlot(s)
         /\ \A a : a \in ToSet(open_inodes) <=> \E i \in 1..Len(open_inodes) : open_inodes[i] = a
<1>1. ASSUME NEW s \in Slot, table[s].fd_inode # NULL
      PROVE  Target(s) = IF table[s].fd_flag = "pipe" THEN <<"pipe", table[s].fd_inode>>
                         ELSE <<"file", mem[table[s].fd_inode].no>>
  BY <1>1 DEF Target
<1>2. ASSUME NEW s \in Slot, table[s].fd_inode # NULL
      PROVE  s \in FileSlots <=> table[s].fd_flag # "pipe"
  <2>1. s \in FileSlots <=> Target(s)[1] = "file"
    BY <1>2 DEF FileSlots, UsedSlots
  <2> QED BY <1>1, <1>2, <2>1
<1>3. ASSUME NEW s \in FileSlots PROVE FileSlot(s)
  <2>1. s \in Slot /\ table[s].fd_inode # NULL
    BY DEF FileSlots, UsedSlots
  <2>2. table[s].fd_flag # "pipe" /\ Target(s)[2] = mem[table[s].fd_inode].no
    BY <1>1, <1>2, <2>1
  <2>3. table[s].fd_inode \in Addr
    BY <2>1 DEF Sound, Typed, FileType
  <2>4. Creating(s) \/ At(open_inodes, table[s].fd_inode)
    BY <2>1, <2>2 DEF Sound, TableInv, SlotInv
  <2> QED BY <2>1, <2>2, <2>3, <2>4 DEF FileSlot, At
<1>4. DOMAIN open_inodes = 1..Len(open_inodes)
  BY DEF Sound, Typed
<1>5. \A a : a \in ToSet(open_inodes) <=> \E i \in 1..Len(open_inodes) : open_inodes[i] = a
  BY <1>4 DEF ToSet
<1> QED BY <1>2, <1>3, <1>5

\* What file_create() is making has its inode number, and is not in the list yet.
LEMMA CreatingFacts ==
  ASSUME Sound, NEW s, Creating(s)
  PROVE  /\ mem[table[s].fd_inode].no \in inode_bitmap /\ ~At(open_inodes, table[s].fd_inode)
<1>1. PICK q \in Proc : pending[q].op = "create" /\ pending[q].slot = s
  BY DEF Creating
<1>2. CallInv(pending[q], table, mem, open_inodes)
  BY DEF Sound, TableInv, PendInv
<1> QED BY <1>1, <1>2 DEF CallInv

\* The inode of a slot belongs to no unlink() that waits.
LEMMA NotReleased ==
  ASSUME Sound, NEW s \in Slot, NEW q \in Proc, pending[q].op = "release"
  PROVE  pending[q].addr # table[s].fd_inode
<1>1. CallInv(pending[q], table, mem, open_inodes)
  BY DEF Sound, TableInv, PendInv
<1> QED BY <1>1 DEF CallInv

\* A file that is open keeps its name and its inode number, although unlink()
\* waits for the disk between looking at the table and removing them.
THEOREM OpenFilesExist == Spec => []OpenFileExists
<1>1. FileInv => OpenFileExists
  <2> SUFFICES ASSUME FileInv, spoiled = "no", NEW s \in FileSlots
               PROVE  /\ Target(s)[2] \in inode_bitmap
                      /\ Creating(s) \/ \E name \in Name : dir[name] = Target(s)[2]
    BY DEF OpenFileExists
  <2>1. Sound
    BY InvIsSound
  <2>2. FileSlot(s)
    BY <2>1, TargetFacts
  <2>3. s \in Slot /\ Target(s)[2] = mem[table[s].fd_inode].no
    BY <2>2 DEF FileSlot
  <2>4. CASE Creating(s)
    BY <2>1, <2>3, <2>4, CreatingFacts
  <2>5. CASE ~Creating(s)
    <3>1. PICK i \in 1..Len(open_inodes) : open_inodes[i] = table[s].fd_inode
      BY <2>2, <2>5 DEF FileSlot
    <3>2. /\ mem[open_inodes[i]].no \in inode_bitmap
          /\ \/ \E name \in Name : dir[name] = mem[open_inodes[i]].no
             \/ \E q \in Proc : pending[q].op = "release" /\ pending[q].addr = open_inodes[i]
      BY <2>1 DEF Sound, TableInv, ListInv
    <3>3. \A q \in Proc : ~(pending[q].op = "release" /\ pending[q].addr = open_inodes[i])
      BY <2>1, <2>3, <3>1, NotReleased
    <3> QED BY <2>3, <3>1, <3>2, <3>3
  <2> QED BY <2>4, <2>5
<1> QED BY <1>1, FileTableInvariant, PTL

\* There is one inode in memory for each open file, although inode_open() waits
\* for the disk between looking for it in the list and adding it.
THEOREM OneInodeEach == Spec => []InodeOnce
<1>1. FileInv => InodeOnce
  <2> SUFFICES ASSUME FileInv, spoiled = "no"
               PROVE  /\ \A i, j \in 1..Len(open_inodes) : mem[open_inodes[i]].no = mem[open_inodes[j]].no => i = j
                      /\ \A s \in FileSlots : Creating(s) \/ table[s].fd_inode \in ToSet(open_inodes)
    BY DEF InodeOnce
  <2>1. Sound
    BY InvIsSound
  <2>2. \A i, j \in 1..Len(open_inodes) : mem[open_inodes[i]].no = mem[open_inodes[j]].no => i = j
    BY <2>1 DEF Sound, TableInv, ListInv
  <2>3. ASSUME NEW s \in FileSlots PROVE Creating(s) \/ table[s].fd_inode \in ToSet(open_inodes)
    <3>1. FileSlot(s) /\ \A a : a \in ToSet(open_inodes) <=> \E i \in 1..Len(open_inodes) : open_inodes[i] = a
      BY <2>1, TargetFacts
    <3> QED BY <3>1 DEF FileSlot
  <2> QED BY <2>2, <2>3
<1> QED BY <1>1, FileTableInvariant, PTL

\* A pipe stays while one of its descriptors is open, whoever inherits them and
\* closes them in whatever order, and no longer; and memory that neither a slot,
\* the list nor a call has is free.
THEOREM PipesShared == Spec => []PipeShared
<1>1. FileInv => PipeShared
  <2> DEFINE waits(a) == \E p \in Proc : pending[p].op \in {"open", "create"} /\ pending[p].addr = a
  <2> SUFFICES ASSUME FileInv, spoiled = "no"
               PROVE  /\ \A p \in Proc, i \in Fd : fd[p][i].file[1] = "pipe" =>
                           p \in alive /\ Target(fd[p][i].slot) = fd[p][i].file
                      /\ \A s \in UsedSlots \ FileSlots : table[s].fd_pos = UsesOf({s})
                      /\ \A a \in Addr : \/ mem[a].space = "free" \/ waits(a) \/ a \in ToSet(open_inodes)
                                         \/ a \in {table[s].fd_inode : s \in UsedSlots}
    BY DEF PipeShared
  <2>1. Sound
    BY InvIsSound
  <2>2. \A S : UsesOf(S) = Uses(fd, unfilled, S)
    BY DEF UsesOf, Uses, Got, Missed
  <2>3. /\ \A s \in Slot : table[s].fd_inode # NULL => (s \in FileSlots <=> table[s].fd_flag # "pipe")
        /\ \A a : a \in ToSet(open_inodes) <=> \E i \in 1..Len(open_inodes) : open_inodes[i] = a
    BY <2>1, TargetFacts
  <2>4. ASSUME NEW p \in Proc, NEW i \in Fd, fd[p][i].file[1] = "pipe"
        PROVE  p \in alive /\ Target(fd[p][i].slot) = fd[p][i].file
    <3>1. fd[p][i] # NoFd
      BY <2>4 DEF NoFd, Nothing
    <3>2. FdInv(fd, table, mem)
      BY <2>1 DEF Sound, TableInv
    <3> QED BY <3>1, <3>2 DEF FdInv, Target
  <2>5. ASSUME NEW s \in UsedSlots \ FileSlots PROVE table[s].fd_pos = UsesOf({s})
    <3>1. s \in Slot /\ table[s].fd_inode # NULL /\ table[s].fd_flag = "pipe"
      BY <2>3 DEF UsedSlots
    <3>2. CountInv(fd, table, mem, open_inodes)
      BY <2>1 DEF Sound, TableInv
    <3> QED BY <2>2, <3>1, <3>2 DEF CountInv
  <2>6. ASSUME NEW a \in Addr, mem[a].space # "free"
        PROVE  waits(a) \/ a \in ToSet(open_inodes) \/ a \in {table[s].fd_inode : s \in UsedSlots}
    <3>1. a # NULL
      BY FileTableAssumption DEF Addr, NULL
    <3>2. CASE \E s \in Slot : table[s].fd_inode = a
      BY <3>1, <3>2 DEF UsedSlots
    <3>3. CASE \E q \in Proc : pending[q].addr = a
      <4>1. PICK q \in Proc : pending[q].addr = a
        BY <3>3
      <4>2. CallInv(pending[q], table, mem, open_inodes) /\ pending[q].op \in {"none", "open", "create", "delete", "release"}
        BY <2>1 DEF Sound, TableInv, PendInv, Around, CallType
      <4>3. CASE pending[q].op = "release"
        BY <2>3, <4>1, <4>2, <4>3 DEF CallInv, At
      <4>4. CASE pending[q].op \in {"open", "create"}
        BY <4>1, <4>4
      <4> QED BY <3>1, <4>1, <4>2, <4>3, <4>4 DEF CallInv
    <3>4. MemInv(table, mem)
      BY <2>1 DEF Sound, TableInv
    <3> QED BY <2>6, <3>2, <3>3, <3>4 DEF MemInv
  <2> HIDE DEF waits
  <2> QED BY <2>4, <2>5, <2>6
<1> QED BY <1>1, FileTableInvariant, PTL
=============================================================================
