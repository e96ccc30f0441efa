------------------------------ MODULE Process ------------------------------
(***************************************************************************)
(* The life of user processes: sys_fork() of userprog/fork.c, sys_wait()   *)
(* and sys_exit() of userprog/wait_exit.c, thread_exit() and the pid pool  *)
(* of thread/thread.c, and the program of init in kernel/main.c.           *)
(*                                                                         *)
(* System calls run with interrupts off; sys_exit() can block in the       *)
(* middle, on a lock of the memory manager, and sys_wait() blocks until a  *)
(* child exits.  Priority 0 makes every timer tick preempt.                *)
(***************************************************************************)
EXTENDS Sched, FiniteSets

CONSTANTS
  init,      \* the first user process
  shell,     \* its child, which runs my_shell() and never exits
  MaxPid,    \* bound: size of the pid pool (1024 in the code)
  MaxLeak    \* bound: forks that fail after they allocated a pid

ASSUME ProcessAssumption ==
  /\ {init, shell} \subseteq Thread \ {idle} /\ init # shell
  /\ MaxPid \in Nat /\ MaxPid >= 2
  /\ MaxLeak \in Nat

Task == Thread \ {idle}
Pid == 1..MaxPid
NoParent == 0   \* parent_pid = -1

VARIABLES
  k,                \* scheduler state
  thread_all_list,  \* the tasks that exist (idle and main left out)
  pid_bitmap,       \* the pids in use
  pid,              \* pid[t]
  parent_pid,       \* parent_pid[t]
  pc,               \* where each task is
  creator,          \* history: the task that forked t
  leaked            \* number of pids lost by failed forks

procvars == <<thread_all_list, pid_bitmap, pid, parent_pid, creator, leaked>>
vars == <<k, procvars, pc>>

\* user     in user mode
\* wait     in sys_wait(), at the top of its loop
\* release  in sys_exit(), in release_prog_resource()
\* lock     there, waiting for a lock
\* locked   there, after it got the lock
\* hanging  in sys_exit(), after thread_block(TASK_HANGING)
Label == {"user", "wait", "release", "lock", "locked", "hanging"}

At(t, l) == ~k.panic /\ k.cur = t /\ pc[t] = l

IntrOn(t) == t = idle \/ t \in {u \in Task : pc[u] = "user"}

Exists(t) == elem_find(thread_all_list, t)
Children(p) == {t \in Task : Exists(t) /\ parent_pid[t] = p}

\* allocate_pid(): bitmap_scan() finds the lowest free pid.
PidFree == Pid \ pid_bitmap # {}
allocate_pid == CHOOSE p \in Pid \ pid_bitmap : \A q \in Pid \ pid_bitmap : p <= q

\* pid2thread(): the tasks with that pid.
pid2thread(p) == {t \in Task : Exists(t) /\ pid[t] = p}

-----------------------------------------------------------------------------
\* thread_init() has created init and idle; init runs.
Init ==
  /\ k = [status |-> [t \in Thread |-> IF t = init THEN "RUNNING"
                        ELSE IF t = idle THEN "READY" ELSE "FREE"],
          ready  |-> <<idle>>,
          cur    |-> init,
          ticks  |-> Priority,
          panic  |-> FALSE]
  /\ thread_all_list = <<init>>
  /\ pid_bitmap = {1}
  /\ pid = [t \in Task |-> 1]
  /\ parent_pid = [t \in Task |-> NoParent]
  /\ pc = [t \in Task |-> "user"]
  /\ creator = [t \in Task |-> init]
  /\ leaked = 0

\* Who may fork: init forks the shell, first of all, and nothing else.
MayFork(t, child) == (t = init) <=> (child = shell)

sys_fork(t, child) ==
  /\ At(t, "user")
  /\ MayFork(t, child)
  /\ k.status[child] = "FREE"
  /\ PidFree
  /\ pid_bitmap' = pid_bitmap \cup {allocate_pid}
  /\ pid' = [pid EXCEPT ![child] = allocate_pid]
  /\ parent_pid' = [parent_pid EXCEPT ![child] = pid[t]]
  /\ creator' = [creator EXCEPT ![child] = t]
  /\ pc' = [pc EXCEPT ![child] = "user"]
  /\ k' = make_ready(k, child)
  /\ thread_all_list' = Append(thread_all_list, child)
  /\ UNCHANGED leaked

\* copy_process() runs out of memory after fork_pid(): sys_fork() returns -1
\* and the pid stays taken.
ForkFails(t) ==
  /\ At(t, "user")
  /\ t # init
  /\ PidFree /\ leaked < MaxLeak
  /\ pid_bitmap' = pid_bitmap \cup {allocate_pid}
  /\ leaked' = leaked + 1
  /\ UNCHANGED <<k, thread_all_list, pid, parent_pid, creator, pc>>

\* With no pid left, the ASSERT of bitmap_scan() stops the machine.
ForkHalts(t) ==
  /\ At(t, "user")
  /\ \E child \in Task : MayFork(t, child) /\ k.status[child] = "FREE"
  /\ ~PidFree
  /\ k' = PANIC(k)
  /\ UNCHANGED <<procvars, pc>>

\* wait() is called by any process; init calls it for ever once it has forked.
CallWait(t) ==
  /\ At(t, "user")
  /\ t = init => k.status[shell] # "FREE"
  /\ pc' = [pc EXCEPT ![t] = "wait"]
  /\ UNCHANGED <<k, procvars>>

\* list_traversal(find_hanging_child): the first in thread_all_list.
Hanging(t) == {c \in Children(pid[t]) : k.status[c] = "HANGING"}
FirstHanging(t) ==
  thread_all_list[CHOOSE i \in 1..Len(thread_all_list) :
    /\ thread_all_list[i] \in Hanging(t)
    /\ \A j \in 1..i - 1 : thread_all_list[j] \notin Hanging(t)]

\* Mutant: the pid of the reaped child is not released.
WaitReaps_keeps_pid(t) ==
  /\ At(t, "wait")
  /\ Hanging(t) # {}
  /\ k' = thread_exit(k, FirstHanging(t), "FREE", FALSE)
  /\ thread_all_list' = list_remove(thread_all_list, FirstHanging(t))
  /\ pc' = [pc EXCEPT ![t] = "user"]
  /\ UNCHANGED <<pid_bitmap, pid, parent_pid, creator, leaked>>

\* One turn of sys_wait()'s loop: reap a child that hangs, with thread_exit();
WaitReaps(t) ==
  /\ At(t, "wait")
  /\ Hanging(t) # {}
  /\ LET child == FirstHanging(t) IN
     /\ k' = thread_exit(k, child, "FREE", FALSE)
     /\ thread_all_list' = list_remove(thread_all_list, child)
     /\ pid_bitmap' = pid_bitmap \ {pid[child]}
  /\ pc' = [pc EXCEPT ![t] = "user"]
  /\ UNCHANGED <<pid, parent_pid, creator, leaked>>

\* or return -1 without children;
WaitFails(t) ==
  /\ At(t, "wait")
  /\ Children(pid[t]) = {}
  /\ pc' = [pc EXCEPT ![t] = "user"]
  /\ UNCHANGED <<k, procvars>>

\* or block until a child exits.
WaitBlocks(t) ==
  /\ At(t, "wait")
  /\ Hanging(t) = {} /\ Children(pid[t]) # {}
  /\ k' = thread_block(k, "WAITING")
  /\ UNCHANGED <<procvars, pc>>

-----------------------------------------------------------------------------
\* Mutant: the children keep the pid of a parent that is gone.
sys_exit_abandons(t) ==
  /\ At(t, "user")
  /\ t \notin {init, shell}
  /\ pc' = [pc EXCEPT ![t] = "release"]
  /\ UNCHANGED <<k, procvars>>

\* sys_exit(), up to release_prog_resource(): a task without parent panics,
\* the children are handed to init.
sys_exit(t) ==
  /\ At(t, "user")
  /\ t \notin {init, shell}
  /\ k' = IF parent_pid[t] = NoParent THEN PANIC(k) ELSE k
  /\ parent_pid' = [c \in Task |-> IF c \in Children(pid[t]) THEN pid[init]
                                   ELSE parent_pid[c]]
  /\ pc' = [pc EXCEPT ![t] = "release"]
  /\ UNCHANGED <<thread_all_list, pid_bitmap, pid, creator, leaked>>

\* release_prog_resource() meets a lock that another task holds, and gets it.
ReleaseBlocks(t) ==
  /\ At(t, "release")
  /\ k' = thread_block(k, "BLOCKED")
  /\ pc' = [pc EXCEPT ![t] = "lock"]
  /\ UNCHANGED procvars

LockGranted(t) ==
  /\ ~k.panic
  /\ IntrOn(k.cur)
  /\ pc[t] = "lock" /\ k.status[t] = "BLOCKED"
  /\ k' = thread_unblock(k, t)
  /\ pc' = [pc EXCEPT ![t] = "locked"]
  /\ UNCHANGED procvars

\* Mutant: the parent is not woken.
ExitHangs_silent(t) ==
  /\ At(t, "release") \/ At(t, "locked")
  /\ k' = thread_block(k, "HANGING")
  /\ pc' = [pc EXCEPT ![t] = "hanging"]
  /\ UNCHANGED procvars

\* sys_exit(), after release_prog_resource(): wake the parent if it waits, and
\* hang.
ExitHangs(t) ==
  /\ At(t, "release") \/ At(t, "locked")
  /\ LET parent == pid2thread(parent_pid[t]) IN
     k' = IF parent = {} THEN PANIC(k)
          ELSE LET p == CHOOSE p \in parent : TRUE
                   woken == IF k.status[p] = "WAITING" THEN thread_unblock(k, p) ELSE k
               IN  thread_block(woken, "HANGING")
  /\ pc' = [pc EXCEPT ![t] = "hanging"]
  /\ UNCHANGED procvars

-----------------------------------------------------------------------------
Preempt ==
  /\ ~k.panic
  /\ IntrOn(k.cur)
  /\ k' = intr_timer_handler(k)
  /\ UNCHANGED <<procvars, pc>>

IdleLoop ==
  /\ ~k.panic
  /\ k.cur = idle
  /\ k' = thread_block(k, "BLOCKED")
  /\ UNCHANGED <<procvars, pc>>

Next ==
  \/ \E t \in Task :
       \/ \E child \in Task : sys_fork(t, child)
       \/ ForkFails(t) \/ ForkHalts(t) \/ CallWait(t) \/ sys_exit(t)
       \/ WaitReaps(t) \/ WaitFails(t) \/ WaitBlocks(t)
       \/ ReleaseBlocks(t) \/ LockGranted(t) \/ ExitHangs(t)
  \/ Preempt \/ IdleLoop

Spec == Init /\ [][Next]_vars

\* What the kernel does inside the system call of the running task.
KernelStep ==
  \E t \in Task : WaitReaps(t) \/ WaitFails(t) \/ WaitBlocks(t) \/ ExitHangs(t)

\* A tick that is due is taken when interrupts are next on (module Scheduler),
\* idle and the kernel run, and locks are released.
Fairness ==
  /\ SF_vars(Preempt) /\ WF_vars(IdleLoop) /\ WF_vars(KernelStep)
  /\ \A t \in Task \ {init, shell} : SF_vars(LockGranted(t))

FairSpec == Spec /\ Fairness

\* Moreover init, whenever it gets the processor, executes its program.
InitSpec == FairSpec /\ SF_vars(sys_fork(init, shell) \/ CallWait(init))

-----------------------------------------------------------------------------
\* The types of the process variables.
TypeOK ==
  /\ k \in SchedState
  /\ thread_all_list \in Seq(Task)
  /\ pid_bitmap \subseteq Pid
  /\ pid \in [Task -> Pid]
  /\ parent_pid \in [Task -> Pid \cup {NoParent}]
  /\ pc \in [Task -> Label]
  /\ creator \in [Task -> Task]
  /\ leaked \in 0..MaxLeak

\* No PANIC of sys_exit() or ASSERT of the scheduler fires, and sys_exit()
\* never follows the null pointer pid2thread() gives for a pid nobody has: the
\* machine stops only where a fork finds every pid in use.
NoPanic == k.panic => ~PidFree

\* Tasks that exist have different pids, all of them marked in the pool, and
\* the pool holds nothing else but what failed forks lost.
PidsUnique ==
  /\ \A t, u \in Task : Exists(t) /\ Exists(u) /\ pid[t] = pid[u] => t = u
  /\ {pid[t] : t \in {u \in Task : Exists(u)}} \subseteq pid_bitmap
  /\ Cardinality(pid_bitmap) = Len(thread_all_list) + leaked

\* A task's parent_pid is the pid of a task that is still able to wait for it,
\* and that task is the one that forked it or init: a pid that is given out
\* again never makes a stranger the parent.  So sys_exit() always finds a
\* parent, and only a fork without a free pid stops the machine.
ParentIsFamily ==
  /\ NoPanic
  /\ \A t \in Task : Exists(t) /\ t # init =>
       \E p \in Task :
         /\ pid2thread(parent_pid[t]) = {p}
         /\ pc[p] \in {"user", "wait"}
         /\ p \in {creator[t], init}

\* No exit is missed: a process other than init that sleeps in sys_wait() has
\* a child, and none that already hangs.
WaiterIsWoken ==
  \A t \in Task \ {init} : k.status[t] = "WAITING" =>
    Children(pid[t]) # {} /\ Hanging(t) = {}

\* A wait() by a process other than init returns once one of its children
\* hangs, unless the machine stops for want of a pid.
WaitReturns ==
  \A t \in Task \ {init} :
    (pc[t] = "wait" /\ Hanging(t) # {}) ~> (pc[t] = "user" \/ k.panic)

\* "init keeps reaping zombie processes here" (main.c): a zombie whose parent
\* is init is reaped.
InitReapsZombies ==
  \A t \in Task : (k.status[t] = "HANGING" /\ parent_pid[t] = pid[init])
                    ~> k.status[t] = "FREE"
=============================================================================
