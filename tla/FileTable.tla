----------------------------- MODULE FileTable -----------------------------
(***************************************************************************)
(* Open files: the descriptors of the processes, file_table (fs/file.c),   *)
(* the inodes in memory and their list open_inodes (fs/inode.c), and the   *)
(* calls that open, create, unlink and close files, make pipes             *)
(* (shell/pipe.c), fork (userprog/fork.c) and exit (userprog/wait_exit.c). *)
(*                                                                         *)
(* A system call runs with interrupts off and is left only where it waits  *)
(* for the disk.  The lock of the disk's channel passes to no other task   *)
(* before the call ends: who releases it takes it again before those who   *)
(* wait for it run.  So two calls that use the disk never overlap, but     *)
(* close, fork, exit and pipe, which do not, run while one waits.          *)
(*                                                                         *)
(* Five things spoil the table, and the model ends with the step that does *)
(* one of them:                                                            *)
(*   shared   a file is closed that another descriptor, got by fork, has:  *)
(*            its slot is free, and the other descriptor stands for none;  *)
(*   taken    sys_pipe() has the slot that a waiting file_open() chose,    *)
(*            and loses it;                                                *)
(*   foreign  a process uses an inode that file_create() has put in the    *)
(*            heap of another process, which is not mapped here;           *)
(*   heap     such an inode is freed, the last block of its arena, as if   *)
(*            it were the kernel's: a bit of the wrong bitmap is cleared;  *)
(*   no slot  sys_pipe() finds no free slot and writes to file_table[-1].  *)
(***************************************************************************)
EXTENDS Integers, Sequences, SequencesExt

CONSTANTS
  Proc,     \* processes
  Name,     \* names of files, all in the root
  NSlot,    \* slots of file_table for files and pipes (29 in the code)
  NFd,      \* descriptors of a process for them (5 in the code)
  NInode    \* inode numbers of files

ASSUME FileTableAssumption ==
  NSlot \in Nat \ {0} /\ NFd \in Nat \ {0} /\ NInode \in Nat \ {0}
ASSUME ProcAssumption ==
  IsFiniteSet(Proc) /\ \A p \in Proc : p \notin {"free", "kernel", "gone"}

VARIABLES
  alive,          \* the processes there are
  fd,             \* fd_table: slots, and the file each was got for (a history)
  table,          \* file_table: fd_inode, fd_flag and fd_pos of each slot
  mem,            \* what is at an address: an inode, a page of a pipe, nothing
  open_inodes,    \* cur_part->open_inodes
  dir,            \* the root: the inode number of each name, or 0
  inode_bitmap,   \* inode numbers in use
  pending,        \* the calls that wait for the disk
  unfilled,       \* history: uses of a slot for which no descriptor was left
  spoiled         \* "no", or what spoiled the table

vars == <<alive, fd, table, mem, open_inodes, dir, inode_bitmap, pending, unfilled, spoiled>>

-----------------------------------------------------------------------------
Slot == 1..NSlot
Fd == 1..NFd
Number == 1..NInode
Addr == 1..NSlot + 1
NULL == 0
Flag == {"read", "write"}

Nothing == <<"none", 0>>
NoFd == [slot |-> -1, file |-> Nothing]
NoCall == [op |-> "none", name |-> "", no |-> 0, slot |-> 0, addr |-> NULL, flag |-> "read"]

Vacant == [no |-> 0, i_open_cnts |-> 0, write_deny |-> FALSE, space |-> "free"]
Inode(no, cnts, space) == [no |-> no, i_open_cnts |-> cnts, write_deny |-> FALSE, space |-> space]
Page == [Vacant EXCEPT !.space = "kernel"]

Lowest(S) == CHOOSE n \in S : \A m \in S : n <= m
NewAddr == Lowest({a \in Addr : mem[a].space = "free"})

\* What a slot stands for.
Target(s) ==
  LET a == table[s].fd_inode
  IN  IF a = NULL THEN Nothing
      ELSE IF table[s].fd_flag = "pipe" THEN <<"pipe", a>> ELSE <<"file", mem[a].no>>

\* get_free_slot_in_global()
FreeSlots == {s \in Slot : table[s].fd_inode = NULL}

\* pcb_fd_install(); without a free descriptor there is no change.
pcb_fd_install(f, p, s, file) ==
  LET free == {i \in Fd : f[p][i] = NoFd}
  IN  IF free = {} THEN f ELSE [f EXCEPT ![p][Lowest(free)] = [slot |-> s, file |-> file]]

-----------------------------------------------------------------------------
\* Inodes that p cannot reach: those in the heap of another process.
Foreign(p, addrs) == \E a \in addrs : mem[a].space \notin {"free", "kernel", p}
Spoil(p, addrs) == IF Foreign(p, addrs) THEN "foreign" ELSE "no"

\* Mutant: the inodes that are open are not looked at.
FindInodeNever(no) == {}

\* inode_open() looks through the list from its head.
FindInode(no) == {i \in 1..Len(open_inodes) : mem[open_inodes[i]].no = no}
Visited(no) ==
  LET last == IF FindInode(no) = {} THEN Len(open_inodes) ELSE Lowest(FindInode(no))
  IN  {open_inodes[i] : i \in 1..last}
HeadOfList == {open_inodes[i] : i \in 1..Len(open_inodes) \cap {1}}

\* The state that closing a descriptor changes.
Files == [fd |-> fd, table |-> table, mem |-> mem, list |-> open_inodes, spoiled |-> "no"]
Become(st) ==
  /\ fd' = st.fd /\ table' = st.table /\ mem' = st.mem
  /\ open_inodes' = st.list /\ spoiled' = st.spoiled

\* Blocks of p's heap with an inode.  Some may be the last one used of their
\* arena (`last'), so that sys_free() gives the page back.
OwnInodes(p) == {a \in Addr : mem[a].space = p}

\* inode_close(): the last one takes the inode off the list, which writes to
\* its neighbours, and frees it as a block of the kernel's heap.
inode_close(st, p, a, last) ==
  LET at == CHOOSE i \in 1..Len(st.list) : st.list[i] = a
      near == {st.list[i] : i \in {at - 1, at, at + 1} \cap 1..Len(st.list)}
  IN  IF st.mem[a].i_open_cnts > 1
      THEN [st EXCEPT !.mem[a].i_open_cnts = @ - 1]
      ELSE [st EXCEPT !.mem[a] = Vacant, !.list = RemoveAt(@, at),
                      !.spoiled = IF Foreign(p, near) THEN "foreign"
                                  ELSE IF a \in last THEN "heap" ELSE @]

\* file_close()
file_close(st, p, s, last) ==
  LET a == st.table[s].fd_inode
      r == inode_close([st EXCEPT !.mem[a].write_deny = FALSE], p, a, last)
  IN  [r EXCEPT !.table[s].fd_inode = NULL,
                !.spoiled = IF Foreign(p, {a}) THEN "foreign" ELSE @]

\* Mutant: the last but one frees the page.
pipe_close_early(st, s) ==
  IF st.table[s].fd_pos > 2 THEN [st EXCEPT !.table[s].fd_pos = @ - 1]
  ELSE [st EXCEPT !.mem[st.table[s].fd_inode] = Vacant,
                  !.table[s].fd_pos = @ - 1, !.table[s].fd_inode = NULL]

\* A descriptor of a pipe is closed: the last one frees the page.
pipe_close(st, s) ==
  IF st.table[s].fd_pos > 1 THEN [st EXCEPT !.table[s].fd_pos = @ - 1]
  ELSE [st EXCEPT !.mem[st.table[s].fd_inode] = Vacant,
                  !.table[s].fd_pos = 0, !.table[s].fd_inode = NULL]

\* sys_close(): file_close() frees the slot, though other descriptors share it.
Shared(st, p, i) ==
  \E q \in Proc, j \in Fd : <<q, j>> # <<p, i>> /\ st.fd[q][j].slot = st.fd[p][i].slot
sys_close(st, p, i, last) ==
  LET s == st.fd[p][i].slot
      r == IF st.table[s].fd_flag = "pipe" THEN pipe_close(st, s)
           ELSE IF Shared(st, p, i)
           THEN [file_close(st, p, s, last) EXCEPT !.spoiled = IF @ = "no" THEN "shared" ELSE @]
           ELSE file_close(st, p, s, last)
  IN  [r EXCEPT !.fd[p][i] = NoFd]

-----------------------------------------------------------------------------
Init ==
  /\ \E p \in Proc : alive = {p}
  /\ fd = [p \in Proc |-> [i \in Fd |-> NoFd]]
  /\ table = [s \in Slot |-> [fd_inode |-> NULL, fd_flag |-> "none", fd_pos |-> 0]]
  /\ mem = [a \in Addr |-> Vacant]
  /\ open_inodes = <<>>
  /\ dir \in [Name -> {0} \cup Number] /\ inode_bitmap = {dir[n] : n \in Name} \ {0}
  /\ \A m, n \in Name : dir[m] = dir[n] /\ dir[m] # 0 => m = n
  /\ pending = [p \in Proc |-> NoCall]
  /\ unfilled = [s \in Slot |-> 0]
  /\ spoiled = "no"

\* p may make a call, and one that uses the disk.
Ready(p) == p \in alive /\ pending[p] = NoCall /\ spoiled = "no"
DiskFree == \A p \in Proc : pending[p] = NoCall
Waits(p, op, name, no, s, a, flag) ==
  pending' = [pending EXCEPT ![p] = [op |-> op, name |-> name, no |-> no, slot |-> s,
                                     addr |-> a, flag |-> flag]]
Returns(p) == pending' = [pending EXCEPT ![p] = NoCall]

\* The descriptor for slot s, or none if the call is refused.
Installs(p, s, no, refused) ==
  /\ fd' = IF refused THEN fd ELSE pcb_fd_install(fd, p, s, <<"file", no>>)
  /\ unfilled' = IF fd' = fd THEN [unfilled EXCEPT ![s] = @ + 1] ELSE unfilled

\* The end of file_open(), with the inode m[a].
file_open_end(p, s, a, flag, m) ==
  /\ table' = [table EXCEPT ![s] = [fd_inode |-> a, fd_flag |-> flag, fd_pos |-> 0]]
  /\ mem' = IF flag = "write" THEN [m EXCEPT ![a].write_deny = TRUE] ELSE m
  /\ Installs(p, s, m[a].no, flag = "write" /\ m[a].write_deny)

\* file_open() by sys_open(): a slot is chosen, and the inode is open already
\* or has to be read.
file_open(p, name, flag) ==
  /\ Ready(p) /\ DiskFree
  /\ dir[name] # 0 /\ FreeSlots # {}
  /\ LET no == dir[name]
         s == Lowest(FreeSlots)
     IN  /\ spoiled' = Spoil(p, Visited(no))
         /\ IF FindInode(no) = {}
            THEN /\ Waits(p, "open", name, no, s, NewAddr, flag)
                 /\ mem' = [mem EXCEPT ![NewAddr] = Inode(no, 0, "kernel")]
                 /\ UNCHANGED <<fd, table, unfilled>>
            ELSE LET a == open_inodes[Lowest(FindInode(no))]
                 IN  /\ file_open_end(p, s, a, flag, [mem EXCEPT ![a].i_open_cnts = @ + 1])
                     /\ UNCHANGED pending
  /\ UNCHANGED <<alive, open_inodes, dir, inode_bitmap>>

file_open_read(p) ==
  LET c == pending[p]
  IN  /\ c.op = "open" /\ spoiled = "no"
      /\ spoiled' = IF table[c.slot].fd_inode # NULL THEN "taken" ELSE Spoil(p, HeadOfList)
      /\ open_inodes' = <<c.addr>> \o open_inodes
      /\ file_open_end(p, c.slot, c.addr, c.flag, [mem EXCEPT ![c.addr].i_open_cnts = 1])
      /\ Returns(p)
      /\ UNCHANGED <<alive, dir, inode_bitmap>>

\* file_create() by sys_open(): the inode is in the heap of the process.
file_create(p, name, flag) ==
  /\ Ready(p) /\ DiskFree
  /\ dir[name] = 0 /\ FreeSlots # {} /\ inode_bitmap # Number
  /\ LET no == Lowest(Number \ inode_bitmap)
         s == Lowest(FreeSlots)
     IN  /\ inode_bitmap' = inode_bitmap \cup {no}
         /\ mem' = [mem EXCEPT ![NewAddr] = Inode(no, 0, p)]
         /\ table' = [table EXCEPT ![s] = [fd_inode |-> NewAddr, fd_flag |-> flag, fd_pos |-> 0]]
         /\ Waits(p, "create", name, no, s, NewAddr, flag)
  /\ UNCHANGED <<alive, fd, open_inodes, dir, unfilled, spoiled>>

file_create_written(p) ==
  LET c == pending[p]
  IN  /\ c.op = "create" /\ spoiled = "no"
      /\ spoiled' = Spoil(p, HeadOfList)
      /\ dir' = [dir EXCEPT ![c.name] = c.no]
      /\ open_inodes' = <<c.addr>> \o open_inodes
      /\ mem' = [mem EXCEPT ![c.addr].i_open_cnts = 1]
      /\ Installs(p, c.slot, c.no, FALSE)
      /\ Returns(p)
      /\ UNCHANGED <<alive, table, inode_bitmap>>

UsedSlots == {s \in Slot : table[s].fd_inode # NULL}

\* Mutant: a file that is open may be removed.
InUseNever(no) == FALSE

\* sys_unlink(): it looks for the file in the table, then removes its entry,
\* then its inode.  A page of a pipe begins with the address of a lock's
\* holder, which is no inode number.
InUse(no) == \E s \in UsedSlots : Target(s) = <<"file", no>>

sys_unlink(p, name) ==
  /\ Ready(p) /\ DiskFree
  /\ dir[name] # 0
  /\ spoiled' = Spoil(p, {table[s].fd_inode : s \in UsedSlots})
  /\ IF InUse(dir[name]) THEN UNCHANGED pending
     ELSE Waits(p, "delete", name, dir[name], 0, NULL, "read")
  /\ UNCHANGED <<alive, fd, table, mem, open_inodes, dir, inode_bitmap, unfilled>>

sys_unlink_deleted(p) ==
  LET c == pending[p]
      found == FindInode(c.no)
  IN  /\ c.op = "delete" /\ spoiled = "no"
      /\ dir' = [dir EXCEPT ![c.name] = 0]
      /\ spoiled' = Spoil(p, Visited(c.no))
      /\ IF found = {}
         THEN /\ mem' = [mem EXCEPT ![NewAddr] = Inode(c.no, 1, "kernel")]
              /\ open_inodes' = <<NewAddr>> \o open_inodes
              /\ Waits(p, "release", c.name, c.no, 0, NewAddr, "read")
         ELSE LET a == open_inodes[Lowest(found)]
              IN  /\ mem' = [mem EXCEPT ![a].i_open_cnts = @ + 1]
                  /\ Waits(p, "release", c.name, c.no, 0, a, "read")
                  /\ UNCHANGED open_inodes
      /\ UNCHANGED <<alive, fd, table, inode_bitmap, unfilled>>

sys_unlink_released(p) ==
  LET c == pending[p]
  IN  /\ c.op = "release" /\ spoiled = "no"
      /\ inode_bitmap' = inode_bitmap \ {c.no}
      /\ \E last \in SUBSET OwnInodes(p) : Become(inode_close(Files, p, c.addr, last))
      /\ Returns(p)
      /\ UNCHANGED <<alive, dir, unfilled>>

\* sys_close() by a program.
Close(p, i) ==
  /\ Ready(p) /\ fd[p][i] # NoFd
  /\ \E last \in SUBSET OwnInodes(p) : Become(sys_close(Files, p, i, last))
  /\ UNCHANGED <<alive, dir, inode_bitmap, pending, unfilled>>

\* sys_pipe(): two descriptors, if there are as many, are counted as two.
sys_pipe(p) ==
  /\ Ready(p)
  /\ IF FreeSlots = {}
     THEN spoiled' = "no slot" /\ UNCHANGED <<fd, table, mem, unfilled>>
     ELSE LET s == Lowest(FreeSlots)
              f == pcb_fd_install(fd, p, s, <<"pipe", NewAddr>>)
              g == pcb_fd_install(f, p, s, <<"pipe", NewAddr>>)
          IN  /\ mem' = [mem EXCEPT ![NewAddr] = Page]
              /\ table' = [table EXCEPT ![s] = [fd_inode |-> NewAddr, fd_flag |-> "pipe", fd_pos |-> 2]]
              /\ fd' = g
              /\ unfilled' = [unfilled EXCEPT ![s] = @ + (IF g # f THEN 0 ELSE IF f # fd THEN 1 ELSE 2)]
              /\ UNCHANGED spoiled
  /\ UNCHANGED <<alive, open_inodes, dir, inode_bitmap, pending>>

\* The descriptors of p for the slots S, which a child gets as well.
Inherited(p, S) == Cardinality({i \in Fd : fd[p][i].slot \in S})
SlotsAt(a) == {s \in Slot : table[s].fd_inode = a /\ table[s].fd_flag # "pipe"}

\* Mutant: an inode is counted once, however often it is inherited.
update_inode_open_cnts_once(p) ==
  /\ table' = [s \in Slot |-> [table[s] EXCEPT !.fd_pos =
                 @ + IF table[s].fd_flag = "pipe" THEN Inherited(p, {s}) ELSE 0]]
  /\ mem' = [a \in Addr |-> [mem[a] EXCEPT !.i_open_cnts =
                 @ + IF Inherited(p, SlotsAt(a)) = 0 THEN 0 ELSE 1]]

\* update_inode_open_cnts() counts the descriptors of the child, in fd_pos for
\* a pipe and in the inode for a file.
update_inode_open_cnts(p) ==
  /\ table' = [s \in Slot |-> [table[s] EXCEPT !.fd_pos =
                 @ + IF table[s].fd_flag = "pipe" THEN Inherited(p, {s}) ELSE 0]]
  /\ mem' = [a \in Addr |-> [mem[a] EXCEPT !.i_open_cnts = @ + Inherited(p, SlotsAt(a))]]

sys_fork(p, child) ==
  /\ Ready(p) /\ child \notin alive
  /\ alive' = alive \cup {child}
  /\ update_inode_open_cnts(p)
  /\ fd' = [fd EXCEPT ![child] = fd[p]]
  /\ spoiled' = Spoil(p, {table[fd[p][i].slot].fd_inode : i \in {i \in Fd : fd[p][i] # NoFd}})
  /\ UNCHANGED <<open_inodes, dir, inode_bitmap, pending, unfilled>>

\* sys_exit(): release_prog_resource() closes what is open, one descriptor
\* after the other.
release_prog_resource(p, last) ==
  LET closed[i \in 0..NFd] ==
        IF i = 0 THEN Files
        ELSE IF fd[p][i] = NoFd THEN closed[i - 1] ELSE sys_close(closed[i - 1], p, i, last)
  IN  closed[NFd]

sys_exit(p) ==
  /\ Ready(p)
  /\ alive' = alive \ {p}
  /\ \E last \in SUBSET OwnInodes(p) :
       LET st == release_prog_resource(p, last)
           lost(o) == IF o.space = p THEN [o EXCEPT !.space = "gone"] ELSE o
       IN  Become([st EXCEPT !.mem = [a \in Addr |-> lost(st.mem[a])]])
  /\ UNCHANGED <<dir, inode_bitmap, pending, unfilled>>

Next ==
  \E p \in Proc :
    \/ \E name \in Name, flag \in Flag : file_open(p, name, flag) \/ file_create(p, name, flag)
    \/ file_open_read(p) \/ file_create_written(p)
    \/ \E name \in Name : sys_unlink(p, name)
    \/ sys_unlink_deleted(p) \/ sys_unlink_released(p)
    \/ \E i \in Fd : Close(p, i)
    \/ sys_pipe(p) \/ sys_exit(p)
    \/ \E child \in Proc : sys_fork(p, child)

Spec == Init /\ [][Next]_vars

-----------------------------------------------------------------------------
FdType == [slot : {-1} \cup Slot, file : {"none", "pipe", "file"} \X Nat]
FileType == [fd_inode : {NULL} \cup Addr, fd_flag : Flag \cup {"none", "pipe"}, fd_pos : Nat]
InodeType == [no : {0} \cup Number, i_open_cnts : Nat, write_deny : BOOLEAN,
              space : Proc \cup {"free", "kernel", "gone"}]
CallType == [op : {"none", "open", "create", "delete", "release"}, name : Name \cup {""},
             no : {0} \cup Number, slot : {0} \cup Slot, addr : {NULL} \cup Addr, flag : Flag]

\* The types of the variables, until the table is spoiled.
TypeOK ==
  spoiled = "no" =>
    /\ alive \subseteq Proc /\ fd \in [Proc -> [Fd -> FdType]]
    /\ table \in [Slot -> FileType] /\ mem \in [Addr -> InodeType] /\ open_inodes \in Seq(Addr)
    /\ dir \in [Name -> {0} \cup Number] /\ inode_bitmap \subseteq Number
    /\ pending \in [Proc -> CallType] /\ unfilled \in [Slot -> Nat]

FileSlots == {s \in UsedSlots : Target(s)[1] = "file"}
Creating(s) == \E p \in Proc : pending[p].op = "create" /\ pending[p].slot = s

\* The descriptors for the slots S, and those that a call did not get.
UsesOf(S) ==
  Cardinality({d \in Proc \X Fd : fd[d[1]][d[2]].slot \in S})
    + Cardinality({u \in S \X {1, 2} : u[2] <= unfilled[u[1]]})

\* A pipe stays while one of its descriptors is open, inherited by fork() and
\* closed one by one in whatever order, and no longer: fd_pos counts them, each
\* stands for the page it was got for, and no page or inode is left in memory
\* that neither a slot nor the list of inodes nor a call has.
PipeShared ==
  LET waits(a) == \E p \in Proc : pending[p].op \in {"open", "create"} /\ pending[p].addr = a
  IN  spoiled = "no" =>
        /\ \A p \in Proc, i \in Fd : fd[p][i].file[1] = "pipe" =>
             p \in alive /\ Target(fd[p][i].slot) = fd[p][i].file
        /\ \A s \in UsedSlots \ FileSlots : table[s].fd_pos = UsesOf({s})
        /\ \A a \in Addr : \/ mem[a].space = "free" \/ waits(a)
                           \/ a \in ToSet(open_inodes) \/ a \in {table[s].fd_inode : s \in UsedSlots}

\* What is open is there: no file loses its name or its inode number while a
\* slot of the table has it, though unlink() looks at the table long before it
\* removes them.
OpenFileExists ==
  spoiled = "no" => \A s \in FileSlots :
    /\ Target(s)[2] \in inode_bitmap
    /\ Creating(s) \/ \E name \in Name : dir[name] = Target(s)[2]

\* There is one inode in memory for each file that is open, so that all who have
\* it open share its size and blocks, though inode_open() waits for the disk
\* between looking for it in the list and adding it.
InodeOnce ==
  spoiled = "no" =>
    /\ \A i, j \in 1..Len(open_inodes) : mem[open_inodes[i]].no = mem[open_inodes[j]].no => i = j
    /\ \A s \in FileSlots : Creating(s) \/ table[s].fd_inode \in ToSet(open_inodes)

\* i_open_cnts of an inode counts the descriptors that open(), create() and
\* fork() made for its file, and those that a call counted but did not get: close
\* and exit take back one for each, also where the slot is shared, which loses
\* the slot to the others but not the inode.
CountsExact ==
  LET got(a) == {d \in Proc \X Fd : fd[d[1]][d[2]].file = <<"file", mem[a].no>>}
      missed(a) == {s \in FileSlots : ~Creating(s) /\ table[s].fd_inode = a /\ unfilled[s] > 0}
      held(a) == {p \in Proc : pending[p].op = "release" /\ pending[p].addr = a}
  IN  spoiled \in {"no", "shared"} => \A a \in ToSet(open_inodes) :
        mem[a].i_open_cnts = Cardinality(got(a)) + Cardinality(missed(a)) + Cardinality(held(a))

\* Two processes do not have a file open for writing, each by an open() of its
\* own: the first one sets write_deny, "so that not several processes write this
\* file at a time".
WriterAlone ==
  LET writes(p, s) == table[s].fd_flag = "write" /\ \E i \in Fd : fd[p][i].slot = s
      apart(p, q, s, t) == writes(p, s) /\ ~writes(p, t) /\ writes(q, t) /\ ~writes(q, s)
  IN  spoiled = "no" => \A p, q \in Proc, s, t \in FileSlots :
        Target(s) = Target(t) => ~apart(p, q, s, t)
=============================================================================
