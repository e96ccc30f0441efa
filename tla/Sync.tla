------------------------------- MODULE Sync --------------------------------
(***************************************************************************)
(* One struct lock of thread/sync.c, used by kernel threads, which run     *)
(* with interrupts on and can be preempted between any two statements of   *)
(* lock_acquire() and lock_release(), and by user processes, which use it  *)
(* inside system calls and leave the processor only by blocking, be it on  *)
(* the lock or, while they hold it, on a device.                           *)
(*                                                                         *)
(* The timer is abstracted: with Priority 0 every tick preempts, and a     *)
(* tick may come whenever interrupts are on.                               *)
(***************************************************************************)
EXTENDS Semaphore

CONSTANTS
  main,       \* main_thread, the kernel thread that starts the others
  Kernel,     \* the kernel threads among the tasks that use the lock
  User,       \* the user processes among them
  NULL,       \* no holder
  MaxDepth    \* bound: how often the client takes the lock recursively

ASSUME SyncAssumption ==
  /\ Thread = Kernel \cup User \cup {idle}
  /\ Kernel \cap User = {} /\ idle \notin Kernel \cup User
  /\ main \in Kernel
  /\ NULL \notin Thread
  /\ MaxDepth \in Nat \ {0}

VARIABLES
  k,                 \* scheduler state
  semaphore,         \* plock->semaphore
  holder,            \* plock->holder
  holder_repeat_nr,  \* plock->holder_repeat_nr
  pc,                \* the statement each client is at
  depth              \* acquires of each client that it has not released

lockvars == <<semaphore, holder, holder_repeat_nr>>
vars == <<k, semaphore, holder, holder_repeat_nr, pc, depth>>

Client == Kernel \cup User

\* out      outside the lock; a user process is in user mode
\* acquire  lock_acquire(): the test of holder
\* down     sema_down(): the first turn of the loop
\* wait     sema_down(): back in the loop after thread_block()
\* own      lock_acquire(): holder = running_thread()
\* count    lock_acquire(): holder_repeat_nr = 1
\* cs       between lock_acquire() and lock_release()
\* io       in cs, blocked on a device
\* release  lock_release(): the tests and holder = NULL
\* clear    lock_release(): holder_repeat_nr = 0
\* up       lock_release(): sema_up()
Label == {"out", "acquire", "down", "wait", "own", "count", "cs", "io",
          "release", "clear", "up"}

\* The client t is on the processor and at label l.
At(t, l) == ~k.panic /\ k.cur = t /\ pc[t] = l

Goto(t, l) == pc' = [pc EXCEPT ![t] = l]

\* IF while t is on the processor.
IntrOn(t) == t \in Kernel \cup {idle} \cup {u \in User : pc[u] = "out"}

-----------------------------------------------------------------------------
\* main runs, idle is ready and no other task exists yet.
Init ==
  /\ k = [status |-> [t \in Thread |-> IF t = main THEN "RUNNING"
                        ELSE IF t = idle THEN "READY" ELSE "FREE"],
          ready  |-> <<idle>>,
          cur    |-> main,
          ticks  |-> Priority,
          panic  |-> FALSE]
  /\ semaphore = sema_init(1)
  /\ holder = NULL
  /\ holder_repeat_nr = 0
  /\ pc = [t \in Client |-> "out"]
  /\ depth = [t \in Client |-> 0]

\* The running task starts another one.
Start(t) ==
  /\ ~k.panic
  /\ k.cur \in Client /\ pc[k.cur] = "out"
  /\ k.status[t] = "FREE"
  /\ k' = make_ready(k, t)
  /\ UNCHANGED <<lockvars, pc, depth>>

Call(t) ==
  /\ At(t, "out")
  /\ Goto(t, "acquire")
  /\ UNCHANGED <<k, lockvars, depth>>

\* if (plock->holder != running_thread()) ... else holder_repeat_nr++
AcquireTest(t) ==
  /\ At(t, "acquire")
  /\ IF holder # t
     THEN Goto(t, "down") /\ UNCHANGED <<holder_repeat_nr, depth>>
     ELSE /\ holder_repeat_nr' = holder_repeat_nr + 1
          /\ depth' = [depth EXCEPT ![t] = @ + 1]
          /\ Goto(t, "cs")
  /\ UNCHANGED <<k, semaphore, holder>>

\* One turn of sema_down()'s loop.
SemaDown(t) ==
  /\ At(t, "down") \/ At(t, "wait")
  /\ IF sema_must_wait(semaphore)
     THEN /\ k' = sema_wait_sched(k, semaphore)
          /\ semaphore' = sema_wait(k, semaphore)
          /\ Goto(t, "wait")
          /\ UNCHANGED depth
     ELSE /\ k' = sema_take_sched(k, semaphore)
          /\ semaphore' = sema_take(semaphore)
          /\ depth' = [depth EXCEPT ![t] = 1]
          /\ Goto(t, "own")
  /\ UNCHANGED <<holder, holder_repeat_nr>>

SetHolder(t) ==
  /\ At(t, "own")
  /\ holder' = t
  /\ Goto(t, "count")
  /\ UNCHANGED <<k, semaphore, holder_repeat_nr, depth>>

SetRepeat(t) ==
  /\ At(t, "count")
  /\ k' = IF holder_repeat_nr = 0 THEN k ELSE PANIC(k)
  /\ holder_repeat_nr' = 1
  /\ Goto(t, "cs")
  /\ UNCHANGED <<semaphore, holder, depth>>

\* In the critical section: take the lock again, wait for a device (a user
\* process does that with the channel's lock held), or release.
AcquireAgain(t) ==
  /\ At(t, "cs")
  /\ depth[t] < MaxDepth
  /\ Goto(t, "acquire")
  /\ UNCHANGED <<k, lockvars, depth>>

DeviceWait(t) ==
  /\ At(t, "cs")
  /\ k' = thread_block(k, "BLOCKED")
  /\ Goto(t, "io")
  /\ UNCHANGED <<lockvars, depth>>

DeviceDone(t) ==
  /\ ~k.panic
  /\ IntrOn(k.cur)
  /\ pc[t] = "io" /\ k.status[t] = "BLOCKED"
  /\ k' = thread_unblock(k, t)
  /\ Goto(t, "cs")
  /\ UNCHANGED <<lockvars, depth>>

Release(t) ==
  /\ At(t, "cs")
  /\ Goto(t, "release")
  /\ UNCHANGED <<k, lockvars, depth>>

\* Mutant: the first release gives the lock back, however often it was taken.
ReleaseTest_ignores_count(t) ==
  /\ At(t, "release")
  /\ holder' = NULL
  /\ Goto(t, "clear")
  /\ UNCHANGED <<k, semaphore, holder_repeat_nr, depth>>

\* ASSERT(holder == cur); one release less, or ASSERT(nr == 1), holder = NULL
ReleaseTest(t) ==
  /\ At(t, "release")
  /\ IF holder # t \/ holder_repeat_nr = 0
     THEN k' = PANIC(k) /\ UNCHANGED <<lockvars, pc, depth>>
     ELSE /\ IF holder_repeat_nr > 1
             THEN /\ holder_repeat_nr' = holder_repeat_nr - 1
                  /\ depth' = [depth EXCEPT ![t] = @ - 1]
                  /\ Goto(t, "cs")
                  /\ UNCHANGED holder
             ELSE /\ holder' = NULL
                  /\ Goto(t, "clear")
                  /\ UNCHANGED <<holder_repeat_nr, depth>>
          /\ UNCHANGED <<k, semaphore>>

\* Mutant: holder_repeat_nr is not reset.
ClearRepeat_skips(t) ==
  /\ At(t, "clear")
  /\ Goto(t, "up")
  /\ UNCHANGED <<k, lockvars, depth>>

ClearRepeat(t) ==
  /\ At(t, "clear")
  /\ holder_repeat_nr' = 0
  /\ Goto(t, "up")
  /\ UNCHANGED <<k, semaphore, holder, depth>>

\* Mutant: nobody is woken.
SemaUp_silent(t) ==
  /\ At(t, "up")
  /\ semaphore' = [semaphore EXCEPT !.value = @ + 1]
  /\ depth' = [depth EXCEPT ![t] = 0]
  /\ Goto(t, "out")
  /\ UNCHANGED <<k, holder, holder_repeat_nr>>

SemaUp(t) ==
  /\ At(t, "up")
  /\ k' = sema_up_sched(k, semaphore)
  /\ semaphore' = sema_up(semaphore)
  /\ depth' = [depth EXCEPT ![t] = 0]
  /\ Goto(t, "out")
  /\ UNCHANGED <<holder, holder_repeat_nr>>

-----------------------------------------------------------------------------
\* The timer preempts the running task.
Preempt ==
  /\ ~k.panic
  /\ IntrOn(k.cur)
  /\ k' = intr_timer_handler(k)
  /\ UNCHANGED <<lockvars, pc, depth>>

\* idle() blocks itself again once an interrupt has ended its hlt.
IdleLoop ==
  /\ ~k.panic
  /\ k.cur = idle
  /\ k' = thread_block(k, "BLOCKED")
  /\ UNCHANGED <<lockvars, pc, depth>>

Step(t) ==
  \/ Call(t) \/ AcquireTest(t) \/ SemaDown(t) \/ SetHolder(t) \/ SetRepeat(t)
  \/ AcquireAgain(t) \/ DeviceWait(t) \/ Release(t)
  \/ ReleaseTest(t) \/ ClearRepeat(t) \/ SemaUp(t)

Next ==
  \/ \E t \in Client : Start(t) \/ Step(t) \/ DeviceDone(t)
  \/ Preempt \/ IdleLoop

Spec == Init /\ [][Next]_vars

\* A client that gets the processor again and again executes its statements (a
\* time slice is many instructions), except that it need not call
\* lock_acquire(), take the lock again or wait for a device; devices answer,
\* the timer ticks and idle runs.
Progress(t) ==
  \/ AcquireTest(t) \/ SemaDown(t) \/ SetHolder(t) \/ SetRepeat(t)
  \/ Release(t) \/ ReleaseTest(t) \/ ClearRepeat(t) \/ SemaUp(t)

Fairness ==
  /\ \A t \in Client : SF_vars(Progress(t)) /\ SF_vars(DeviceDone(t))
  /\ WF_vars(Preempt) /\ WF_vars(IdleLoop)

FairSpec == Spec /\ Fairness

-----------------------------------------------------------------------------
\* The types of the lock's fields and of the clients' state.
TypeOK ==
  /\ k \in SchedState
  /\ semaphore \in SemaState
  /\ holder \in Client \cup {NULL}
  /\ holder_repeat_nr \in Nat
  /\ pc \in [Client -> Label]
  /\ depth \in [Client -> 0..MaxDepth]

\* The clients that got past sema_down() and have not reached the end of
\* sema_up().
Owners == {t \in Client : depth[t] > 0}

\* No ASSERT of sync.c fires: value is 0 or 1, holder_repeat_nr is 0 when a new
\* holder sets it, the releasing task is the holder, nobody waits twice, and
\* every task sema_up() wakes is blocked.
NoPanic == ~k.panic

\* The waiters are exactly the tasks blocked in sema_down(), each once.
WaitersExact ==
  /\ NoDuplicate(semaphore.waiters)
  /\ \A t \in Client : elem_find(semaphore.waiters, t)
                         <=> pc[t] = "wait" /\ k.status[t] = "BLOCKED"

\* No wakeup is lost: whoever sleeps in sema_down() stands in the list, and
\* when the semaphore is free and a task still waits for it, another one has
\* been woken and is on its way back into the loop.
NoLostWakeup ==
  /\ WaitersExact
  /\ semaphore.value > 0 /\ semaphore.waiters # << >> =>
       \E t \in Client : pc[t] = "wait" /\ k.status[t] \in {"READY", "RUNNING"}

\* The holder test of lock_acquire() recognises the task's own lock and nobody
\* else's, even though holder is set after the semaphore is taken and cleared
\* before it is given back.
HolderIsOwner ==
  /\ holder # NULL => depth[holder] > 0
  /\ \A t \in Client : pc[t] \in {"cs", "io"} =>
       holder = t /\ holder_repeat_nr = depth[t]

\* Two tasks are never both between lock_acquire() and lock_release(), and the
\* holder field never makes one of them believe otherwise.
MutualExclusion == HolderIsOwner /\ \A t, u \in Owners : t = u

\* The lock implements the abstract mutex.
M == INSTANCE Mutex WITH Owner <- Client, owners <- Owners
Implements == M!Spec

\* A lock that is free while tasks wait for it is taken again.
FreeLockIsTaken ==
  semaphore.value > 0 /\ semaphore.waiters # << >> ~> semaphore.value = 0
=============================================================================
