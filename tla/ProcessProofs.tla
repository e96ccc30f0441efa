--------------------------- MODULE ProcessProofs ----------------------------
(***************************************************************************)
(* Pids are unique, nobody is orphaned and no exit is missed, for every    *)
(* number of processes and every size of the pid pool.                     *)
(*                                                                         *)
(* The inductive invariant ProcessInv adds to the three properties what    *)
(* they rest on: the list of all tasks holds exactly the tasks that exist, *)
(* and a task's place in its system call and its status agree (PlaceInv).  *)
(* It holds until a fork finds no free pid and the machine stops; after    *)
(* that (Halted) nothing changes.                                          *)
(***************************************************************************)
EXTENDS Process, SchedProofs, FiniteSetTheorems, WellFoundedInduction

\* thread_all_list holds each task that exists, and no other, once.
ListInv ==
  /\ NoDuplicate(thread_all_list)
  /\ \A t \in Task : Exists(t) <=> k.status[t] # "FREE"

\* Where t is and its status: init and the shell never exit, a task that hangs
\* is never woken, and one that waits is in sys_wait().
PlaceInv ==
  /\ Exists(init) /\ pc[init] \in {"user", "wait"}
  /\ \A t \in Task : Exists(t) =>
       /\ k.status[t] \in Awake \cup Blocked
       /\ k.status[t] = "WAITING" => pc[t] = "wait"
       /\ k.status[t] = "BLOCKED" => pc[t] = "lock"
       /\ k.status[t] = "HANGING" <=> pc[t] = "hanging"

\* p is able to wait for t and is t's creator, or init.
Parent(p, t) ==
  /\ Exists(p) /\ pid[p] = parent_pid[t]
  /\ pc[p] \in {"user", "wait"}
  /\ p \in {creator[t], init}

FamilyInv == \A t \in Task : Exists(t) /\ t # init => \E p \in Task : Parent(p, t)

ProcessInv ==
  TypeOK /\ Running(k) /\ ListInv /\ PlaceInv /\ PidsUnique /\ FamilyInv /\ WaiterIsWoken

\* A fork that finds no free pid has stopped the machine; all stays as it was.
Halted ==
  k.panic /\ ~PidFree /\ TypeOK /\ PidsUnique /\ ParentIsFamily /\ WaiterIsWoken
-----------------------------------------------------------------------------
\* Every set of natural numbers that is not empty has a least one, so that
\* bitmap_scan() and the traversal of a list find the first of what they seek.
LEMMA Least ==
  ASSUME NEW S \in SUBSET Nat, S # {}
  PROVE  \E m \in S : \A n \in S : m <= n
<1> DEFINE R == OpToRel(<, Nat)
<1>1. IsWellFoundedOn(R, Nat)
  BY NatLessThanWellFounded
<1>2. \A x, y \in Nat : <<y, x>> \in R <=> y < x
  BY DEF OpToRel
<1> HIDE DEF R
<1>3. \E x \in S : \A y \in S : ~(<<y, x>> \in R)
  BY <1>1, WFMin
<1>4. \E x \in S : \A y \in S : ~(y < x)
  BY <1>2, <1>3, Zenon
<1> QED BY <1>4

\* allocate_pid() gives a pid of the pool that nobody has.
LEMMA AllocateFacts ==
  ASSUME PidFree
  PROVE  allocate_pid \in Pid /\ allocate_pid \notin pid_bitmap
<1>1. Pid \ pid_bitmap \in SUBSET Nat /\ Pid \ pid_bitmap # {}
  BY ProcessAssumption DEF Pid, PidFree
<1>2. \E p \in Pid \ pid_bitmap : \A q \in Pid \ pid_bitmap : p <= q
  BY <1>1, Least
<1>3. allocate_pid \in Pid \ pid_bitmap
  BY <1>2 DEF allocate_pid
<1> QED BY <1>3

\* The search of sys_wait() ends at a child that hangs.
LEMMA FirstHangingFacts ==
  ASSUME TypeOK, NEW t \in Task, Hanging(t) # {}
  PROVE  FirstHanging(t) \in Hanging(t)
<1> DEFINE I == {i \in 1..Len(thread_all_list) : thread_all_list[i] \in Hanging(t)}
<1>1. thread_all_list \in Seq(Task) /\ Len(thread_all_list) \in Nat
  BY DEF TypeOK
<1>2. I \in SUBSET Nat /\ I # {}
  BY <1>1 DEF Hanging, Children, Exists, elem_find
<1>3. PICK m \in I : \A n \in I : m <= n
  BY <1>2, Least
<1>4. \A j \in 1..m - 1 : thread_all_list[j] \notin Hanging(t)
  BY <1>1, <1>3
<1>5. \E i \in 1..Len(thread_all_list) :
        /\ thread_all_list[i] \in Hanging(t)
        /\ \A j \in 1..i - 1 : thread_all_list[j] \notin Hanging(t)
  BY <1>3, <1>4
<1> QED BY <1>5 DEF FirstHanging

\* The pool of pids is finite, so that its members can be counted.
LEMMA PoolFinite ==
  ASSUME TypeOK
  PROVE  IsFiniteSet(pid_bitmap) /\ Cardinality(pid_bitmap) \in Nat
<1>1. IsFiniteSet(Pid)
  BY FS_Interval, ProcessAssumption DEF Pid
<1>2. IsFiniteSet(pid_bitmap)
  BY <1>1, FS_Subset DEF TypeOK
<1> QED BY <1>2, FS_CardinalityType

-----------------------------------------------------------------------------
\* What thread_init() leaves satisfies the invariant.
LEMMA ProcessInit == Init => ProcessInv
<1> SUFFICES ASSUME Init PROVE ProcessInv
  OBVIOUS
<1> USE ProcessAssumption, SchedAssumption DEF Blocked, Status, Task
<1>1. /\ k.status = [t \in Thread |-> IF t = init THEN "RUNNING"
                        ELSE IF t = idle THEN "READY" ELSE "FREE"]
      /\ k.ready = <<idle>> /\ k.cur = init
      /\ k.ticks = Priority /\ k.panic = FALSE
  BY DEF Init
<1>2. k \in SchedState
  BY <1>1 DEF SchedState, Init
<1>3. k.ready \in Seq(Thread) /\ Len(k.ready) = 1 /\ k.ready[1] = idle
  BY <1>1
<1>4. \A t \in Thread : elem_find(k.ready, t) <=> t = idle
  BY <1>3 DEF elem_find
<1>5. Running(k)
  BY <1>1, <1>2, <1>3, <1>4 DEF Running, Sound, Exact, NoDuplicate
<1>6. TypeOK
  BY <1>2 DEF TypeOK, Init, Label, Pid
<1>7. /\ thread_all_list \in Seq(Task) /\ Len(thread_all_list) = 1
      /\ \A t \in Task : Exists(t) <=> t = init
  BY DEF Init, Exists, elem_find
<1>8. ListInv
  BY <1>1, <1>7 DEF ListInv, NoDuplicate
<1>9. PlaceInv
  BY <1>1, <1>7 DEF PlaceInv, Init, Awake
<1>10. PidsUnique
  <2>1. Cardinality(pid_bitmap) = 1 /\ pid_bitmap = {1} /\ leaked = 0
    BY FS_Singleton DEF Init
  <2> QED BY <1>7, <2>1 DEF PidsUnique, Init
<1>11. FamilyInv /\ WaiterIsWoken
  BY <1>1, <1>7 DEF FamilyInv, WaiterIsWoken
<1> QED BY <1>5, <1>6, <1>8, <1>9, <1>10, <1>11 DEF ProcessInv

\* A task u stays what it was to the others: it exists or not, hangs or not, can
\* be waited for by those that could, and starts to wait only with cause.
Quiet(u) ==
  /\ k'.status[u] = "FREE" <=> k.status[u] = "FREE"
  /\ k'.status[u] = "HANGING" <=> k.status[u] = "HANGING"
  /\ pc[u] \in {"user", "wait"} => pc'[u] \in {"user", "wait"}
  /\ k'.status[u] = "WAITING" /\ u # init =>
       k.status[u] = "WAITING" \/ (Children(pid[u]) # {} /\ Hanging(u) = {})

\* A step that changes no pid, no parent and no list, and where all are quiet.
LEMMA QuietKept ==
  ASSUME ProcessInv, UNCHANGED procvars, Running(k'), pc' \in [Task -> Label],
         PlaceInv', \A u \in Task : Quiet(u)
  PROVE  ProcessInv'
<1>1. TypeOK /\ ListInv /\ PlaceInv /\ PidsUnique /\ FamilyInv /\ WaiterIsWoken
  BY DEF ProcessInv
<1>2. UNCHANGED <<thread_all_list, pid_bitmap, pid, parent_pid, creator, leaked>>
  BY DEF procvars
<1>3. \A u \in Task : Exists(u)' <=> Exists(u)
  BY <1>2 DEF Exists
<1>4. \A u \in Task : Children(pid[u])' = Children(pid[u])
  BY <1>2, <1>3 DEF Children
<1>5. TypeOK'
  BY <1>1, <1>2 DEF TypeOK, Running, Sound
<1>6. ListInv'
  BY <1>1, <1>2, <1>3 DEF ListInv, Quiet
<1>7. PidsUnique'
  BY <1>1, <1>2 DEF PidsUnique, Exists
<1>8. FamilyInv'
  BY <1>1, <1>2, <1>3 DEF FamilyInv, Parent, Quiet
<1>9. \A u \in Task : Hanging(u)' = Hanging(u)
  BY <1>2, <1>4 DEF Hanging, Children, Quiet
<1>10. WaiterIsWoken'
  BY <1>1, <1>2, <1>4, <1>9 DEF WaiterIsWoken, Quiet
<1> QED BY <1>5, <1>6, <1>7, <1>8, <1>10 DEF ProcessInv

\* A task changes its place in a system call without blocking.
LEMMA PlaceSound ==
  ASSUME ProcessInv, NEW t \in Task, CallWait(t) \/ WaitFails(t)
  PROVE  ProcessInv'
<1>1. TypeOK /\ PlaceInv /\ Running(k) /\ UNCHANGED <<k, procvars>> /\ k.cur = t
  BY DEF ProcessInv, CallWait, WaitFails, At
<1>2. pc[t] \in {"user", "wait"} /\ \E l \in {"user", "wait"} : pc' = [pc EXCEPT ![t] = l]
  BY DEF CallWait, WaitFails, At
<1>3. pc' \in [Task -> Label] /\ k.status[t] = "RUNNING"
  BY <1>1, <1>2 DEF TypeOK, Label, Running
<1>4. \A u \in Task : Quiet(u)
  BY <1>1, <1>2 DEF Quiet, TypeOK
<1>5. PlaceInv'
  BY <1>1, <1>2, <1>3 DEF PlaceInv, TypeOK, Exists, procvars
<1> QED BY <1>1, <1>3, <1>4, <1>5, QuietKept

\* A task blocks: in sys_wait() with a child and none that hangs, or on a lock.
LEMMA BlocksSound ==
  ASSUME ProcessInv, NEW t \in Task, WaitBlocks(t) \/ ReleaseBlocks(t)
  PROVE  ProcessInv'
<1> USE ProcessAssumption, SchedAssumption DEF Task
<1>1. /\ TypeOK /\ PlaceInv /\ ListInv /\ Running(k) /\ UNCHANGED procvars
      /\ k.cur = t /\ k.status[t] = "RUNNING"
  BY DEF ProcessInv, WaitBlocks, ReleaseBlocks, At, Running
<1>2. PICK stat \in {"WAITING", "BLOCKED"} :
        /\ k' = thread_block(k, stat)
        /\ stat = "WAITING" => /\ pc[t] = "wait" /\ UNCHANGED pc
                               /\ Hanging(t) = {} /\ Children(pid[t]) # {}
        /\ stat = "BLOCKED" => pc[t] = "release" /\ pc' = [pc EXCEPT ![t] = "lock"]
  BY DEF WaitBlocks, ReleaseBlocks, At
<1>3. /\ Running(k')
      /\ \A u \in Task : IF u = t THEN k'.status[u] = stat ELSE Same(k, k', u)
  <2>1. LET r == thread_block(k, stat) IN
        /\ Running(r)
        /\ \A u \in Thread \ {idle} : IF u = k.cur THEN r.status[u] = stat ELSE Same(k, r, u)
    BY <1>1, BlockSound DEF Blocked
  <2> QED BY <1>1, <1>2, <2>1
<1>4. pc' \in [Task -> Label] /\ \A u \in Task : u # t => pc'[u] = pc[u]
  <2>1. pc \in [Task -> Label] /\ "lock" \in Label
    BY <1>1 DEF TypeOK, Label
  <2>2. pc' = pc \/ pc' = [pc EXCEPT ![t] = "lock"]
    BY <1>2
  <2> QED BY <2>1, <2>2
<1>5. ASSUME NEW u \in Task PROVE Quiet(u)
  <2>1. CASE u = t
    BY <1>1, <1>2, <1>3, <2>1 DEF Quiet
  <2>2. CASE u # t
    BY <1>3, <1>4, <2>2 DEF Quiet, Same, Awake
  <2> QED BY <2>1, <2>2
<1>6. PlaceInv'
  <2>1. \A u \in Task : Exists(u)' <=> Exists(u)
    BY <1>1 DEF Exists, procvars
  <2>2. ASSUME NEW u \in Task, Exists(u)
        PROVE  /\ k'.status[u] \in Awake \cup Blocked
               /\ k'.status[u] = "WAITING" => pc'[u] = "wait"
               /\ k'.status[u] = "BLOCKED" => pc'[u] = "lock"
               /\ k'.status[u] = "HANGING" <=> pc'[u] = "hanging"
    <3>1. CASE u = t
      BY <1>1, <1>2, <1>3, <3>1 DEF PlaceInv, TypeOK, Blocked
    <3>2. CASE u # t
      BY <1>1, <1>3, <1>4, <2>2, <3>2 DEF PlaceInv, Same, Awake, Blocked
    <3> QED BY <3>1, <3>2
  <2>3. pc'[init] \in {"user", "wait"}
    BY <1>1, <1>2, <1>4 DEF PlaceInv
  <2> QED BY <1>1, <2>1, <2>2, <2>3 DEF PlaceInv
<1> QED BY <1>1, <1>3, <1>4, <1>5, <1>6, QuietKept

\* The lock is granted.
LEMMA GrantSound ==
  ASSUME ProcessInv, NEW t \in Task, LockGranted(t)
  PROVE  ProcessInv'
<1> USE ProcessAssumption, SchedAssumption DEF Task
<1>1. /\ TypeOK /\ PlaceInv /\ ListInv /\ Running(k) /\ UNCHANGED procvars
      /\ k \in SchedState /\ pc[t] = "lock" /\ k.status[t] = "BLOCKED"
      /\ k' = thread_unblock(k, t) /\ pc' = [pc EXCEPT ![t] = "locked"]
  BY DEF ProcessInv, LockGranted, TypeOK
<1>2. k.status[t] \in Blocked /\ t \in Thread /\ Sound(k)
  BY <1>1 DEF Blocked, Running
<1>3. Running(k')
  BY <1>1, <1>2, UnblockRunning
<1>4. k'.status = [k.status EXCEPT ![t] = "READY"]
  BY <1>1, <1>2, UnblockSound
<1>5. \A u \in Task : k'.status[u] = IF u = t THEN "READY" ELSE k.status[u]
  BY <1>1, <1>4 DEF SchedState
<1>6. pc' \in [Task -> Label]
  BY <1>1 DEF TypeOK, Label
<1>7. \A u \in Task : Quiet(u)
  BY <1>1, <1>5 DEF Quiet, TypeOK
<1>8. PlaceInv'
  BY <1>1, <1>5 DEF PlaceInv, TypeOK, Exists, procvars, Awake
<1> QED BY <1>1, <1>3, <1>6, <1>7, <1>8, QuietKept

\* The timer and idle() move awake tasks only.
LEMMA TurnSound ==
  ASSUME ProcessInv, Preempt \/ IdleLoop
  PROVE  ProcessInv'
<1> USE ProcessAssumption, SchedAssumption DEF Task
<1>1. TypeOK /\ PlaceInv /\ ListInv /\ Running(k) /\ UNCHANGED <<procvars, pc>>
  BY DEF ProcessInv, Preempt, IdleLoop
<1>2. Running(k') /\ \A u \in Task : Same(k, k', u)
  <2>1. CASE Preempt
    BY <1>1, <2>1, TimerSound DEF Preempt, Shuffled
  <2>2. CASE IdleLoop
    <3>1. k.cur = idle /\ k' = thread_block(k, "BLOCKED")
      BY <2>2 DEF IdleLoop
    <3> QED BY <1>1, <3>1, BlockSound DEF Blocked
  <2> QED BY <2>1, <2>2
<1>3. \A u \in Task : Quiet(u)
  BY <1>1, <1>2 DEF Quiet, Same, Awake
<1>4. PlaceInv'
  <2>1. ASSUME NEW u \in Task, Exists(u)
        PROVE  /\ k'.status[u] \in Awake \cup Blocked
               /\ k'.status[u] = "WAITING" => pc[u] = "wait"
               /\ k'.status[u] = "BLOCKED" => pc[u] = "lock"
               /\ k'.status[u] = "HANGING" <=> pc[u] = "hanging"
    BY <1>1, <1>2, <2>1 DEF PlaceInv, Same, Awake
  <2> QED BY <1>1, <2>1 DEF PlaceInv, Exists, procvars
<1>5. pc' \in [Task -> Label]
  BY <1>1 DEF TypeOK
<1> QED BY <1>1, <1>2, <1>3, <1>4, <1>5, QuietKept

\* A fork that fails keeps the pid and counts it.
LEMMA ForkFailsSound ==
  ASSUME ProcessInv, NEW t \in Task, ForkFails(t)
  PROVE  ProcessInv'
<1>1. /\ TypeOK /\ ListInv /\ PlaceInv /\ PidsUnique /\ FamilyInv /\ WaiterIsWoken
      /\ Running(k) /\ UNCHANGED <<k, thread_all_list, pid, parent_pid, creator, pc>>
      /\ pid_bitmap' = pid_bitmap \cup {allocate_pid} /\ leaked' = leaked + 1 /\ leaked < MaxLeak
      /\ PidFree
  BY DEF ProcessInv, ForkFails
<1>2. allocate_pid \in Pid /\ allocate_pid \notin pid_bitmap
  BY <1>1, AllocateFacts
<1>3. Cardinality(pid_bitmap') = Cardinality(pid_bitmap) + 1
  BY <1>1, <1>2, PoolFinite, FS_AddElement
<1>4. Len(thread_all_list) \in Nat /\ leaked \in Nat /\ Cardinality(pid_bitmap) \in Nat
  BY <1>1, PoolFinite, ProcessAssumption DEF TypeOK
<1>5. TypeOK'
  BY <1>1, <1>2, <1>4, ProcessAssumption DEF TypeOK
<1>6. PidsUnique'
  <2>1. Cardinality(pid_bitmap') = Len(thread_all_list') + leaked'
    BY <1>1, <1>3, <1>4 DEF PidsUnique
  <2> QED BY <1>1, <2>1 DEF PidsUnique, Exists
<1>7. ListInv' /\ PlaceInv' /\ FamilyInv' /\ WaiterIsWoken'
  BY <1>1 DEF ListInv, PlaceInv, FamilyInv, Parent, WaiterIsWoken, Hanging, Children, Exists
<1> QED BY <1>1, <1>5, <1>6, <1>7 DEF ProcessInv

\* sys_fork(): the child gets a pid nobody has and a parent that exists, which
\* is the task that forks it.
LEMMA ForkSound ==
  ASSUME ProcessInv, NEW t \in Task, NEW child \in Task, sys_fork(t, child)
  PROVE  ProcessInv'
<1> USE ProcessAssumption, SchedAssumption DEF Task
<1> DEFINE new == allocate_pid
<1>1. /\ TypeOK /\ ListInv /\ PlaceInv /\ PidsUnique /\ FamilyInv /\ WaiterIsWoken
      /\ Running(k) /\ k \in SchedState /\ k.cur = t /\ pc[t] = "user"
      /\ k.status[child] = "FREE" /\ PidFree
  BY DEF ProcessInv, TypeOK, sys_fork, At
<1>2. /\ pid_bitmap' = pid_bitmap \cup {new} /\ pid' = [pid EXCEPT ![child] = new]
      /\ parent_pid' = [parent_pid EXCEPT ![child] = pid[t]]
      /\ creator' = [creator EXCEPT ![child] = t]
      /\ pc' = [pc EXCEPT ![child] = "user"] /\ k' = make_ready(k, child)
      /\ thread_all_list' = Append(thread_all_list, child) /\ UNCHANGED leaked
  BY DEF sys_fork
<1>3. new \in Pid /\ new \notin pid_bitmap
  BY <1>1, AllocateFacts
<1> HIDE DEF new
<1>4. Running(k') /\ k'.status = [k.status EXCEPT ![child] = "READY"]
  BY <1>1, <1>2, CreateSound
<1>5. k.status[t] = "RUNNING" /\ t # child /\ Exists(t) /\ ~Exists(child) /\ child # init
  BY <1>1 DEF Running, ListInv, PlaceInv
<1>6. /\ thread_all_list \in Seq(Thread) /\ thread_all_list \in Seq(Task)
      /\ NoDuplicate(thread_all_list) /\ ~elem_find(thread_all_list, child)
  BY <1>1, <1>5 DEF TypeOK, ListInv, Exists
<1>7. /\ NoDuplicate(thread_all_list')
      /\ \A u \in Thread : elem_find(thread_all_list', u) <=> u = child \/ elem_find(thread_all_list, u)
  BY <1>2, <1>6, AppendFacts
<1>8. \A u \in Task : Exists(u)' <=> u = child \/ Exists(u)
  BY <1>7 DEF Exists
<1>9. thread_all_list' \in Seq(Task) /\ Len(thread_all_list') = Len(thread_all_list) + 1
  BY <1>2, <1>6
<1>10. TypeOK'
  BY <1>1, <1>2, <1>3, <1>4, <1>9 DEF TypeOK, Label, Running, Sound
<1>11. \A u \in Task : k'.status[u] = IF u = child THEN "READY" ELSE k.status[u]
  BY <1>1, <1>4 DEF SchedState
<1>12. ListInv'
  BY <1>1, <1>7, <1>8, <1>11 DEF ListInv
<1>13. \A u \in Task : Exists(u) =>
         /\ u # child /\ pid'[u] = pid[u] /\ parent_pid'[u] = parent_pid[u]
         /\ creator'[u] = creator[u] /\ pc'[u] = pc[u] /\ k'.status[u] = k.status[u]
         /\ pid[u] \in pid_bitmap /\ pid[u] # new
  <2>1. ASSUME NEW u \in Task, Exists(u) PROVE u # child /\ pid[u] \in pid_bitmap
    BY <1>1, <1>5, <2>1 DEF PidsUnique
  <2>2. \A u \in Task \ {child} : /\ pid'[u] = pid[u] /\ parent_pid'[u] = parent_pid[u]
                                  /\ creator'[u] = creator[u] /\ pc'[u] = pc[u]
    BY <1>1, <1>2 DEF TypeOK
  <2> QED BY <1>3, <1>11, <2>1, <2>2
<1>14. pid'[child] = new /\ parent_pid'[child] = pid[t] /\ creator'[child] = t /\ pc'[child] = "user"
  BY <1>1, <1>2 DEF TypeOK
<1>15. PlaceInv'
  BY <1>1, <1>8, <1>11, <1>13, <1>14 DEF PlaceInv, Awake
<1>16. PidsUnique'
  <2>1. ASSUME NEW u \in Task, NEW v \in Task, Exists(u)', Exists(v)', pid'[u] = pid'[v]
        PROVE  u = v
    BY <1>1, <1>8, <1>13, <1>14, <2>1 DEF PidsUnique
  <2>2. \A u \in Task : Exists(u)' => pid'[u] \in pid_bitmap'
    BY <1>2, <1>8, <1>13, <1>14
  <2>3. Cardinality(pid_bitmap') = Cardinality(pid_bitmap) + 1
    BY <1>1, <1>2, <1>3, PoolFinite, FS_AddElement
  <2>4. Len(thread_all_list) \in Nat /\ leaked \in Nat /\ Cardinality(pid_bitmap) \in Nat
    BY <1>1, PoolFinite DEF TypeOK
  <2>5. Cardinality(pid_bitmap') = Len(thread_all_list') + leaked'
    BY <1>1, <1>2, <1>9, <2>3, <2>4 DEF PidsUnique
  <2> QED BY <2>1, <2>2, <2>5 DEF PidsUnique
<1>17. FamilyInv'
  <2> SUFFICES ASSUME NEW u \in Task, Exists(u)', u # init
               PROVE  \E p \in Task : Parent(p, u)'
    BY DEF FamilyInv
  <2>1. CASE u = child
    BY <1>1, <1>5, <1>8, <1>13, <1>14, <2>1 DEF Parent
  <2>2. CASE u # child
    <3>1. Exists(u)
      BY <1>8, <2>2
    <3>2. PICK p \in Task : Parent(p, u)
      BY <1>1, <3>1 DEF FamilyInv
    <3>3. Parent(p, u)'
      BY <1>8, <1>13, <3>1, <3>2 DEF Parent
    <3> QED BY <3>3
  <2> QED BY <2>1, <2>2
<1>18. WaiterIsWoken'
  <2> SUFFICES ASSUME NEW u \in Task \ {init}, k'.status[u] = "WAITING"
               PROVE  Children(pid[u])' # {} /\ Hanging(u)' = {}
    BY DEF WaiterIsWoken
  <2>1. u # child /\ k.status[u] = "WAITING" /\ Exists(u) /\ pid'[u] = pid[u]
    BY <1>1, <1>11, <1>13 DEF ListInv
  <2>2. Children(pid[u]) # {} /\ Hanging(u) = {}
    BY <1>1, <2>1 DEF WaiterIsWoken
  <2>3. Children(pid[u])' # {}
    BY <1>8, <1>13, <2>1, <2>2 DEF Children
  <2>4. ASSUME NEW c \in Hanging(u)' PROVE FALSE
    <3>1. c \in Task /\ Exists(c)' /\ parent_pid'[c] = pid[u] /\ k'.status[c] = "HANGING"
      BY <2>1, <2>4 DEF Hanging, Children
    <3>2. c # child /\ Exists(c)
      BY <1>8, <1>11, <3>1
    <3>3. c \in Hanging(u)
      BY <1>13, <3>1, <3>2 DEF Hanging, Children
    <3> QED BY <2>2, <3>3
  <2> QED BY <2>3, <2>4
<1> QED BY <1>4, <1>10, <1>12, <1>15, <1>16, <1>17, <1>18 DEF ProcessInv

\* sys_wait() reaps a child: it hangs, so that it is nobody's parent, and its
\* pid is free again.
LEMMA ReapSound ==
  ASSUME ProcessInv, NEW t \in Task, WaitReaps(t)
  PROVE  ProcessInv'
<1> USE ProcessAssumption, SchedAssumption DEF Task
<1> DEFINE child == FirstHanging(t)
<1>1. /\ TypeOK /\ ListInv /\ PlaceInv /\ PidsUnique /\ FamilyInv /\ WaiterIsWoken
      /\ Running(k) /\ k \in SchedState /\ k.cur = t /\ pc[t] = "wait" /\ Hanging(t) # {}
  BY DEF ProcessInv, TypeOK, WaitReaps, At
<1>2. /\ k' = thread_exit(k, child, "FREE", FALSE)
      /\ thread_all_list' = list_remove(thread_all_list, child)
      /\ pid_bitmap' = pid_bitmap \ {pid[child]}
      /\ pc' = [pc EXCEPT ![t] = "user"]
      /\ UNCHANGED <<pid, parent_pid, creator, leaked>>
  BY DEF WaitReaps
<1>3. child \in Hanging(t)
  BY <1>1, FirstHangingFacts
<1> HIDE DEF child
<1>4. /\ child \in Task /\ Exists(child) /\ k.status[child] = "HANGING"
      /\ parent_pid[child] = pid[t] /\ pc[child] = "hanging"
  BY <1>1, <1>3 DEF Hanging, Children, PlaceInv
<1>5. k.status[t] = "RUNNING" /\ t # child /\ Exists(t) /\ child # init
  BY <1>1, <1>4 DEF Running, ListInv, PlaceInv
<1>6. Running(k') /\ k'.status = [k.status EXCEPT ![child] = "FREE"]
  BY <1>1, <1>2, <1>4, <1>5, ExitSound
<1>7. \A u \in Task : k'.status[u] = IF u = child THEN "FREE" ELSE k.status[u]
  BY <1>1, <1>4, <1>6 DEF SchedState
<1>8. /\ thread_all_list' \in Seq(Task) /\ Len(thread_all_list') = Len(thread_all_list) - 1
      /\ \A u : elem_find(thread_all_list', u) <=> u # child /\ elem_find(thread_all_list, u)
      /\ NoDuplicate(thread_all_list')
  <2>1. thread_all_list \in Seq(Task) /\ elem_find(thread_all_list, child)
        /\ NoDuplicate(thread_all_list)
    BY <1>1, <1>4 DEF TypeOK, ListInv, Exists
  <2> QED BY <1>2, <2>1, RemoveFacts
<1>9. \A u \in Task : Exists(u)' <=> u # child /\ Exists(u)
  BY <1>8 DEF Exists
<1>10. TypeOK'
  BY <1>1, <1>2, <1>6, <1>8 DEF TypeOK, Label, Running, Sound
<1>11. ListInv'
  BY <1>1, <1>7, <1>8, <1>9 DEF ListInv
<1>12. pc'[t] = "user" /\ \A u \in Task : u # t => pc'[u] = pc[u]
  BY <1>1, <1>2 DEF TypeOK
<1>13. PlaceInv'
  BY <1>1, <1>4, <1>5, <1>7, <1>9, <1>12 DEF PlaceInv
<1>14. PidsUnique'
  <2>1. \A u, v \in Task : Exists(u)' /\ Exists(v)' /\ pid'[u] = pid'[v] => u = v
    BY <1>1, <1>2, <1>9 DEF PidsUnique
  <2>2. pid[child] \in pid_bitmap
    BY <1>1, <1>4 DEF PidsUnique
  <2>3. \A u \in Task : Exists(u)' => pid'[u] \in pid_bitmap'
    BY <1>1, <1>2, <1>4, <1>9 DEF PidsUnique
  <2>4. Cardinality(pid_bitmap') = Cardinality(pid_bitmap) - 1
    BY <1>1, <1>2, <2>2, PoolFinite, FS_RemoveElement
  <2>5. Len(thread_all_list) \in Nat /\ leaked \in Nat /\ Cardinality(pid_bitmap) \in Nat
    BY <1>1, PoolFinite DEF TypeOK
  <2>6. Cardinality(pid_bitmap') = Len(thread_all_list') + leaked'
    BY <1>1, <1>2, <1>8, <2>4, <2>5 DEF PidsUnique
  <2> QED BY <2>1, <2>3, <2>6 DEF PidsUnique
<1>15. FamilyInv'
  <2> SUFFICES ASSUME NEW u \in Task, Exists(u)', u # init
               PROVE  \E p \in Task : Parent(p, u)'
    BY DEF FamilyInv
  <2>1. PICK p \in Task : Parent(p, u)
    BY <1>1, <1>9 DEF FamilyInv
  <2>2. p # child
    BY <1>4, <2>1 DEF Parent
  <2>3. Parent(p, u)'
    BY <1>1, <1>2, <1>9, <1>12, <2>1, <2>2 DEF Parent
  <2> QED BY <2>3
<1>16. WaiterIsWoken'
  <2> SUFFICES ASSUME NEW u \in Task \ {init}, k'.status[u] = "WAITING"
               PROVE  Children(pid[u])' # {} /\ Hanging(u)' = {}
    BY DEF WaiterIsWoken
  <2>1. u # child /\ k.status[u] = "WAITING" /\ Exists(u) /\ u # t
    BY <1>1, <1>5, <1>7 DEF ListInv
  <2>2. Children(pid[u]) # {} /\ Hanging(u) = {} /\ pid[u] # pid[t]
    BY <1>1, <1>5, <2>1 DEF WaiterIsWoken, PidsUnique
  <2>3. Children(pid[u])' = Children(pid[u])
    BY <1>2, <1>4, <1>9, <2>2 DEF Children
  <2>4. Hanging(u)' = Hanging(u)
    BY <1>2, <1>4, <1>7, <2>2, <2>3 DEF Hanging, Children
  <2> QED BY <2>2, <2>3, <2>4
<1> QED BY <1>6, <1>10, <1>11, <1>13, <1>14, <1>15, <1>16 DEF ProcessInv

\* The first part of sys_exit(): the task has a parent, so that it does not
\* panic, and its children are init's.
LEMMA ExitStartSound ==
  ASSUME ProcessInv, NEW t \in Task, sys_exit(t)
  PROVE  ProcessInv'
<1> USE ProcessAssumption, SchedAssumption DEF Task
<1>1. /\ TypeOK /\ ListInv /\ PlaceInv /\ PidsUnique /\ FamilyInv /\ WaiterIsWoken
      /\ Running(k) /\ k.cur = t /\ pc[t] = "user" /\ t # init
      /\ parent_pid' = [c \in Task |-> IF c \in Children(pid[t]) THEN pid[init] ELSE parent_pid[c]]
      /\ pc' = [pc EXCEPT ![t] = "release"]
      /\ UNCHANGED <<thread_all_list, pid_bitmap, pid, creator, leaked>>
  BY DEF ProcessInv, sys_exit, At
<1>2. k.status[t] = "RUNNING" /\ Exists(t) /\ Exists(init) /\ init \in Task
  BY <1>1 DEF Running, ListInv, PlaceInv
<1>3. parent_pid[t] # NoParent
  <2>1. PICK p \in Task : Parent(p, t)
    BY <1>1, <1>2 DEF FamilyInv
  <2>2. parent_pid[t] \in Pid
    BY <1>1, <2>1 DEF Parent, TypeOK
  <2> QED BY <2>2 DEF NoParent, Pid
<1>4. UNCHANGED k
  BY <1>3 DEF sys_exit
<1>5. TypeOK'
  BY <1>1, <1>2, <1>4 DEF TypeOK, Label
<1>6. ListInv' /\ PidsUnique' /\ \A u \in Task : Exists(u)' <=> Exists(u)
  BY <1>1, <1>4 DEF ListInv, PidsUnique, Exists
<1>7. pc'[t] = "release" /\ \A u \in Task : u # t => pc'[u] = pc[u]
  BY <1>1 DEF TypeOK
<1>8. PlaceInv'
  BY <1>1, <1>2, <1>4, <1>6, <1>7 DEF PlaceInv
<1>9. FamilyInv'
  <2> SUFFICES ASSUME NEW u \in Task, Exists(u)', u # init
               PROVE  \E p \in Task : Parent(p, u)'
    BY DEF FamilyInv
  <2>1. Exists(u)
    BY <1>6
  <2>2. CASE u \in Children(pid[t])
    <3>1. parent_pid'[u] = pid[init]
      BY <1>1, <2>2
    <3>2. Parent(init, u)'
      BY <1>1, <1>2, <1>6, <1>7, <3>1 DEF Parent, PlaceInv
    <3> QED BY <1>2, <3>2
  <2>3. CASE u \notin Children(pid[t])
    <3>1. parent_pid'[u] = parent_pid[u] /\ parent_pid[u] # pid[t]
      BY <1>1, <2>1, <2>3 DEF Children
    <3>2. PICK p \in Task : Parent(p, u)
      BY <1>1, <2>1 DEF FamilyInv
    <3>3. p # t
      BY <3>1, <3>2 DEF Parent
    <3>4. Parent(p, u)'
      BY <1>1, <1>6, <1>7, <3>1, <3>2, <3>3 DEF Parent
    <3> QED BY <3>4
  <2> QED BY <2>2, <2>3
<1>10. WaiterIsWoken'
  <2> SUFFICES ASSUME NEW u \in Task \ {init}, k'.status[u] = "WAITING"
               PROVE  Children(pid[u])' # {} /\ Hanging(u)' = {}
    BY DEF WaiterIsWoken
  <2>1. k.status[u] = "WAITING" /\ Exists(u) /\ u # t
    BY <1>1, <1>2, <1>4 DEF ListInv
  <2>2. Children(pid[u]) # {} /\ Hanging(u) = {} /\ pid[u] # pid[t] /\ pid[u] # pid[init]
    BY <1>1, <1>2, <2>1 DEF WaiterIsWoken, PidsUnique
  <2>3. Children(pid[u])' = Children(pid[u])
    BY <1>1, <1>6, <2>2 DEF Children
  <2>4. Hanging(u)' = Hanging(u)
    BY <1>1, <1>4, <2>3 DEF Hanging
  <2> QED BY <2>2, <2>3, <2>4
<1> QED BY <1>1, <1>4, <1>5, <1>6, <1>8, <1>9, <1>10 DEF ProcessInv

\* The pid a task's parent_pid names belongs to one task.
LEMMA OneParent ==
  ASSUME ProcessInv, NEW t \in Task, Exists(t), t # init
  PROVE  \E p \in Task : Parent(p, t) /\ pid2thread(parent_pid[t]) = {p}
<1>1. PICK p \in Task : Parent(p, t)
  BY DEF ProcessInv, FamilyInv
<1>2. pid2thread(parent_pid[t]) = {p}
  BY <1>1 DEF ProcessInv, PidsUnique, Parent, pid2thread
<1> QED BY <1>1, <1>2

\* The last part of sys_exit(): the parent exists, it is woken when it waits, and
\* the task hangs.
LEMMA HangSound ==
  ASSUME ProcessInv, NEW t \in Task, ExitHangs(t)
  PROVE  ProcessInv'
<1> USE ProcessAssumption, SchedAssumption DEF Task
<1>1. /\ TypeOK /\ ListInv /\ PlaceInv /\ PidsUnique /\ FamilyInv /\ WaiterIsWoken
      /\ Running(k) /\ k \in SchedState /\ k.cur = t /\ pc[t] \in {"release", "locked"}
      /\ pc' = [pc EXCEPT ![t] = "hanging"]
      /\ UNCHANGED <<thread_all_list, pid_bitmap, pid, parent_pid, creator, leaked>>
  BY DEF ProcessInv, TypeOK, ExitHangs, At, procvars
<1>2. k.status[t] = "RUNNING" /\ Exists(t) /\ t # init
  BY <1>1 DEF Running, ListInv, PlaceInv
<1>3. PICK p \in Task : Parent(p, t) /\ pid2thread(parent_pid[t]) = {p}
  BY <1>2, OneParent
<1>4. p # t /\ pid[p] = parent_pid[t]
  BY <1>1, <1>3 DEF Parent
<1> DEFINE w == IF k.status[p] = "WAITING" THEN thread_unblock(k, p) ELSE k
<1>5. k' = thread_block(w, "HANGING")
  <2>1. (CHOOSE q \in {p} : TRUE) = p /\ {p} # {}
    OBVIOUS
  <2> QED BY <1>3, <2>1 DEF ExitHangs
<1>6. /\ Running(w) /\ w.cur = t
      /\ \A u \in Task : w.status[u] = IF u = p /\ k.status[p] = "WAITING" THEN "READY" ELSE k.status[u]
  <2>1. CASE k.status[p] = "WAITING"
    <3>1. p \in Thread /\ k.status[p] \in Blocked /\ Sound(k)
      BY <1>1, <2>1 DEF Blocked, Running
    <3>2. w = thread_unblock(k, p)
      BY <2>1
    <3>3. Running(w)
      BY <1>1, <3>1, <3>2, UnblockRunning
    <3>4. w.cur = k.cur /\ w.status = [k.status EXCEPT ![p] = "READY"]
      BY <3>1, <3>2, UnblockSound
    <3> HIDE DEF w
    <3> QED BY <1>1, <2>1, <3>3, <3>4 DEF SchedState
  <2>2. CASE k.status[p] # "WAITING"
    BY <1>1, <2>2
  <2> QED BY <2>1, <2>2
<1> HIDE DEF w
<1>7. /\ Running(k')
      /\ \A u \in Task : IF u = t THEN k'.status[u] = "HANGING" ELSE Same(w, k', u)
  <2>1. LET r == thread_block(w, "HANGING") IN
        /\ Running(r)
        /\ \A u \in Thread \ {idle} : IF u = w.cur THEN r.status[u] = "HANGING" ELSE Same(w, r, u)
    BY <1>6, BlockSound DEF Blocked
  <2> QED BY <1>5, <1>6, <2>1
<1>8. ASSUME NEW u \in Task, u # t
      PROVE  /\ k'.status[u] = "FREE" <=> k.status[u] = "FREE"
             /\ k'.status[u] = "HANGING" <=> k.status[u] = "HANGING"
             /\ k'.status[u] = "BLOCKED" <=> k.status[u] = "BLOCKED"
             /\ k'.status[u] = "WAITING" <=> k.status[u] = "WAITING" /\ u # p
             /\ k.status[u] \in Awake \cup Blocked => k'.status[u] \in Awake \cup Blocked
  BY <1>6, <1>7, <1>8 DEF Same, Awake, Blocked
<1>9. TypeOK'
  BY <1>1, <1>7 DEF TypeOK, Label, Running, Sound
<1>10. \A u \in Task : Exists(u)' <=> Exists(u)
  BY <1>1 DEF Exists
<1>11. ListInv'
  BY <1>1, <1>2, <1>7, <1>8, <1>10 DEF ListInv
<1>12. PidsUnique'
  BY <1>1, <1>10 DEF PidsUnique
<1>13. pc'[t] = "hanging" /\ \A u \in Task : u # t => pc'[u] = pc[u]
  BY <1>1 DEF TypeOK
<1>14. PlaceInv'
  <2>1. ASSUME NEW u \in Task, Exists(u)
        PROVE  /\ k'.status[u] \in Awake \cup Blocked
               /\ k'.status[u] = "WAITING" => pc'[u] = "wait"
               /\ k'.status[u] = "BLOCKED" => pc'[u] = "lock"
               /\ k'.status[u] = "HANGING" <=> pc'[u] = "hanging"
    <3>1. CASE u = t
      BY <1>7, <1>13, <3>1 DEF Blocked
    <3>2. CASE u # t
      BY <1>1, <1>8, <1>13, <2>1, <3>2 DEF PlaceInv
    <3> QED BY <3>1, <3>2
  <2> QED BY <1>1, <1>2, <1>10, <1>13, <2>1 DEF PlaceInv
<1>15. FamilyInv'
  <2> SUFFICES ASSUME NEW u \in Task, Exists(u)', u # init
               PROVE  \E q \in Task : Parent(q, u)'
    BY DEF FamilyInv
  <2>1. PICK q \in Task : Parent(q, u)
    BY <1>1, <1>10 DEF FamilyInv
  <2>2. q # t
    BY <1>1, <2>1 DEF Parent
  <2>3. Parent(q, u)'
    BY <1>1, <1>10, <1>13, <2>1, <2>2 DEF Parent
  <2> QED BY <2>3
<1>16. WaiterIsWoken'
  <2> SUFFICES ASSUME NEW u \in Task \ {init}, k'.status[u] = "WAITING"
               PROVE  Children(pid[u])' # {} /\ Hanging(u)' = {}
    BY DEF WaiterIsWoken
  <2>1. u # t /\ u # p /\ k.status[u] = "WAITING" /\ Exists(u)
    BY <1>1, <1>7, <1>8 DEF ListInv
  <2>2. Children(pid[u]) # {} /\ Hanging(u) = {} /\ pid[u] # parent_pid[t]
    BY <1>1, <1>3, <1>4, <2>1 DEF WaiterIsWoken, PidsUnique, Parent
  <2>3. Children(pid[u])' = Children(pid[u])
    BY <1>1, <1>10 DEF Children
  <2>4. ASSUME NEW c \in Hanging(u)' PROVE FALSE
    <3>1. c \in Children(pid[u]) /\ k'.status[c] = "HANGING"
      BY <1>1, <2>3, <2>4 DEF Hanging
    <3>2. c \in Task /\ c # t
      BY <2>2, <3>1 DEF Children
    <3>3. c \in Hanging(u)
      BY <1>8, <3>1, <3>2 DEF Hanging
    <3> QED BY <2>2, <3>3
  <2> QED BY <2>2, <2>3, <2>4
<1> QED BY <1>7, <1>9, <1>11, <1>12, <1>14, <1>15, <1>16 DEF ProcessInv

\* A machine that runs is safe: every task but init has a parent.
LEMMA RunningIsSafe ==
  ProcessInv => NoPanic /\ TypeOK /\ PidsUnique /\ ParentIsFamily /\ WaiterIsWoken
<1> SUFFICES ASSUME ProcessInv
             PROVE  NoPanic /\ TypeOK /\ PidsUnique /\ ParentIsFamily /\ WaiterIsWoken
  OBVIOUS
<1>1. NoPanic
  BY DEF ProcessInv, Running, Sound, NoPanic
<1>2. ASSUME NEW t \in Task, Exists(t), t # init
      PROVE  \E p \in Task : /\ pid2thread(parent_pid[t]) = {p}
                            /\ pc[p] \in {"user", "wait"} /\ p \in {creator[t], init}
  BY <1>2, OneParent DEF Parent
<1> QED BY <1>1, <1>2 DEF ParentIsFamily, ProcessInv

\* A fork without a free pid stops the machine and changes nothing else.
LEMMA ForkHaltsSound ==
  ASSUME ProcessInv, NEW t \in Task, ForkHalts(t)
  PROVE  Halted'
<1> USE ProcessAssumption, SchedAssumption DEF Task
<1>1. /\ TypeOK /\ PidsUnique /\ ParentIsFamily /\ WaiterIsWoken /\ k \in SchedState
      /\ k' = PANIC(k) /\ ~PidFree /\ UNCHANGED <<procvars, pc>>
  BY RunningIsSafe DEF ForkHalts, TypeOK
<1>2. k'.panic = TRUE /\ k'.status = k.status /\ k' \in SchedState
  BY <1>1 DEF PANIC, SchedState
<1>3. UNCHANGED <<thread_all_list, pid_bitmap, pid, parent_pid, creator, leaked, pc>>
  BY <1>1 DEF procvars
<1>4. \A u \in Task : Exists(u)' <=> Exists(u)
  BY <1>3 DEF Exists
<1>5. /\ \A u \in Task : Children(pid[u])' = Children(pid[u])
      /\ \A u \in Task : Hanging(u)' = Hanging(u)
      /\ \A u \in Task : pid2thread(parent_pid[u])' = pid2thread(parent_pid[u])
  BY <1>2, <1>3, <1>4 DEF Children, Hanging, pid2thread
<1>6. TypeOK' /\ PidsUnique' /\ (~PidFree)'
  BY <1>1, <1>2, <1>3, <1>4 DEF TypeOK, PidsUnique, PidFree
<1>7. ParentIsFamily'
  BY <1>1, <1>3, <1>4, <1>5, <1>6 DEF ParentIsFamily, NoPanic
<1>8. WaiterIsWoken'
  BY <1>1, <1>2, <1>3, <1>5 DEF WaiterIsWoken
<1> QED BY <1>2, <1>6, <1>7, <1>8 DEF Halted

-----------------------------------------------------------------------------
\* Every step keeps the invariant, or stops the machine for want of a pid.
LEMMA ProcessNext == ProcessInv /\ [Next]_vars => ProcessInv' \/ Halted'
<1> SUFFICES ASSUME ProcessInv, [Next]_vars PROVE ProcessInv' \/ Halted'
  OBVIOUS
<1>1. CASE UNCHANGED vars
  BY <1>1 DEF vars, procvars, ProcessInv, TypeOK, ListInv, PlaceInv, PidsUnique, FamilyInv,
              Parent, WaiterIsWoken, Hanging, Children, Exists
<1>2. ASSUME NEW t \in Task, NEW child \in Task, sys_fork(t, child)
      PROVE  ProcessInv'
  BY <1>2, ForkSound
<1>3. ASSUME NEW t \in Task,
             ForkFails(t) \/ CallWait(t) \/ sys_exit(t) \/ WaitReaps(t) \/ WaitFails(t)
               \/ WaitBlocks(t) \/ ReleaseBlocks(t) \/ LockGranted(t) \/ ExitHangs(t)
      PROVE  ProcessInv'
  BY <1>3, ForkFailsSound, PlaceSound, ExitStartSound, ReapSound, BlocksSound, GrantSound, HangSound
<1>4. ASSUME NEW t \in Task, ForkHalts(t)
      PROVE  Halted'
  BY <1>4, ForkHaltsSound
<1>5. CASE Preempt \/ IdleLoop
  BY <1>5, TurnSound
<1> QED BY <1>1, <1>2, <1>3, <1>4, <1>5 DEF Next

\* A machine that has stopped takes no step.
LEMMA HaltedNext == Halted /\ [Next]_vars => Halted'
<1> SUFFICES ASSUME Halted, [Next]_vars PROVE Halted'
  OBVIOUS
<1>1. k.panic
  BY DEF Halted
<1>2. ASSUME NEW t \in Task PROVE ~CallWait(t) /\ ~WaitReaps(t) /\ ~WaitFails(t) /\ ~WaitBlocks(t)
                                  /\ ~sys_exit(t) /\ ~ReleaseBlocks(t) /\ ~LockGranted(t)
                                  /\ ~ExitHangs(t) /\ ~ForkFails(t) /\ ~ForkHalts(t)
                                  /\ \A child \in Task : ~sys_fork(t, child)
  BY <1>1 DEF CallWait, WaitReaps, WaitFails, WaitBlocks, sys_exit, ReleaseBlocks, LockGranted,
              ExitHangs, ForkFails, ForkHalts, sys_fork, At
<1>3. ~Preempt /\ ~IdleLoop
  BY <1>1 DEF Preempt, IdleLoop
<1>4. UNCHANGED vars
  BY <1>2, <1>3 DEF Next
<1> QED BY <1>4 DEF vars, procvars, Halted, TypeOK, PidsUnique, PidFree, ParentIsFamily, NoPanic,
                    WaiterIsWoken, Hanging, Children, Exists, pid2thread

\* The invariant holds in every state the processes can reach, until the
\* machine stops.
LEMMA ProcessInvariant == Spec => [](ProcessInv \/ Halted)
<1> QED BY ProcessInit, ProcessNext, HaltedNext, PTL DEF Spec

\* The process variables always have their types: the pool gives out no pid
\* outside it.
THEOREM ProcessTypeCorrect == Spec => []TypeOK
<1>1. ProcessInv \/ Halted => TypeOK
  BY DEF ProcessInv, Halted
<1> QED BY <1>1, ProcessInvariant, PTL

\* No two tasks have one pid, and the pool accounts for every pid: one for each
\* task and one for each fork that failed.
THEOREM PidsAccounted == Spec => []PidsUnique
<1>1. ProcessInv \/ Halted => PidsUnique
  BY DEF ProcessInv, Halted
<1> QED BY <1>1, ProcessInvariant, PTL

\* The parent of every task is its creator or init, exists and can wait for it,
\* although pids are given out again; sys_exit() never panics, and nothing
\* stops the machine but a fork that finds no free pid.
THEOREM NobodyOrphaned == Spec => []ParentIsFamily
<1>1. ProcessInv \/ Halted => ParentIsFamily
  BY RunningIsSafe DEF Halted
<1> QED BY <1>1, ProcessInvariant, PTL

\* No process other than init sleeps in sys_wait() while a child of it hangs or
\* without a child.
THEOREM NoExitMissed == Spec => []WaiterIsWoken
<1>1. ProcessInv \/ Halted => WaiterIsWoken
  BY DEF ProcessInv, Halted
<1> QED BY <1>1, ProcessInvariant, PTL
=============================================================================
