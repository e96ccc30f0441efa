----------------------------- MODULE SyncProofs -----------------------------
(***************************************************************************)
(* The lock of module Sync is exclusive, loses no wakeup, trips no ASSERT  *)
(* and implements the abstract mutex, for every number of kernel threads   *)
(* and user processes and every depth of recursion.                        *)
(*                                                                         *)
(* The inductive invariant SyncInv has three parts beside the types: what  *)
(* the scheduler guarantees (Running), what the lock's fields are for each *)
(* statement its owner can be at (LockInv), and who is in the list of      *)
(* waiters (WaitInv).                                                      *)
(***************************************************************************)
EXTENDS Sync, SchedProofs

\* What the fields are when client t is at a statement.  holder and
\* holder_repeat_nr are right between SetRepeat and ReleaseTest only.
AtStatement(t) ==
  /\ pc[t] \in {"out", "down", "wait"} => depth[t] = 0
  /\ pc[t] = "acquire" => depth[t] < MaxDepth
  /\ pc[t] = "acquire" /\ depth[t] > 0 => holder = t /\ holder_repeat_nr = depth[t]
  /\ pc[t] \in {"own", "count"} => depth[t] = 1 /\ holder_repeat_nr = 0
  /\ pc[t] = "own" => holder = NULL
  /\ pc[t] = "count" => holder = t
  /\ pc[t] \in {"cs", "io", "release"} =>
       depth[t] > 0 /\ holder = t /\ holder_repeat_nr = depth[t]
  /\ pc[t] \in {"clear", "up"} => depth[t] = 1 /\ holder = NULL
  /\ pc[t] = "up" => holder_repeat_nr = 0

LockInv ==
  /\ \A t \in Client : AtStatement(t)
  /\ \A t, u \in Client : depth[t] > 0 /\ depth[u] > 0 => t = u
  /\ semaphore.value \in {0, 1}
  /\ semaphore.value = 1 => \A t \in Client : depth[t] = 0
  /\ holder # NULL => depth[holder] > 0
  /\ (\A t \in Client : depth[t] = 0) => holder_repeat_nr = 0

WaitInv ==
  /\ NoLostWakeup
  /\ ~elem_find(semaphore.waiters, idle)
  /\ \A t \in Client : pc[t] = "wait" => k.status[t] # "FREE"

SyncInv == TypeOK /\ Running(k) /\ LockInv /\ WaitInv

-----------------------------------------------------------------------------
\* What sync_init() and thread_init() leave satisfies the invariant.
LEMMA SyncInit == Init => SyncInv
<1> SUFFICES ASSUME Init PROVE SyncInv
  OBVIOUS
<1> USE SyncAssumption, SchedAssumption DEF Blocked, Status, Client
<1>1. /\ k.status = [t \in Thread |-> IF t = main THEN "RUNNING"
                        ELSE IF t = idle THEN "READY" ELSE "FREE"]
      /\ k.ready = <<idle>> /\ k.cur = main
      /\ k.ticks = Priority /\ k.panic = FALSE
      /\ semaphore.value = 1 /\ semaphore.waiters = << >>
  BY DEF Init, sema_init
<1>2. main \in Thread /\ main # idle
  OBVIOUS
<1>3. k \in SchedState
  BY <1>1, <1>2 DEF SchedState, Init
<1>4. k.ready \in Seq(Thread) /\ Len(k.ready) = 1 /\ k.ready[1] = idle
  BY <1>1
<1>5. \A t \in Thread : elem_find(k.ready, t) <=> t = idle
  BY <1>4 DEF elem_find
<1>6. NoDuplicate(k.ready)
  BY <1>4 DEF NoDuplicate
<1>7. Running(k)
  BY <1>1, <1>2, <1>3, <1>5, <1>6 DEF Running, Sound, Exact
<1>8. TypeOK
  BY <1>3 DEF TypeOK, Init, sema_init, SemaState, Label
<1>9. LockInv
  BY <1>1 DEF LockInv, AtStatement, Init
<1>10. WaitInv
  BY <1>1 DEF WaitInv, NoLostWakeup, WaitersExact, elem_find, NoDuplicate, Init
<1> QED BY <1>7, <1>8, <1>9, <1>10 DEF SyncInv

\* A step that leaves the semaphore alone and neither sends a client into
\* sema_down()'s loop nor takes one out of it keeps the list of waiters right.
LEMMA WaitKept ==
  ASSUME WaitInv, UNCHANGED semaphore,
         \A t \in Client : \/ Same(k, k', t) /\ (pc'[t] = "wait" <=> pc[t] = "wait")
                           \/ pc[t] # "wait" /\ pc'[t] # "wait"
  PROVE  WaitInv'
<1>1. ASSUME NEW t \in Client, pc[t] = "wait"
      PROVE  /\ pc'[t] = "wait"
             /\ k.status[t] = "BLOCKED" <=> k'.status[t] = "BLOCKED"
             /\ k.status[t] \in {"READY", "RUNNING"} => k'.status[t] \in {"READY", "RUNNING"}
             /\ k.status[t] # "FREE" => k'.status[t] # "FREE"
  BY <1>1 DEF Same, Awake
<1>2. ASSUME NEW t \in Client, pc'[t] = "wait"
      PROVE  pc[t] = "wait"
  BY <1>2
<1>3. WaitersExact'
  BY <1>1, <1>2 DEF WaitInv, NoLostWakeup, WaitersExact
<1> QED BY <1>1, <1>2, <1>3 DEF WaitInv, NoLostWakeup

\* The statements of lock_acquire() and lock_release() that touch neither the
\* scheduler nor the semaphore.
LEMMA StatementSound ==
  ASSUME SyncInv, NEW t \in Client,
         Call(t) \/ AcquireTest(t) \/ SetHolder(t) \/ AcquireAgain(t) \/ Release(t) \/ ClearRepeat(t)
  PROVE  SyncInv'
<1> USE SyncAssumption DEF At, Goto, lockvars
<1>1. UNCHANGED <<k, semaphore>>
  BY DEF Call, AcquireTest, SetHolder, AcquireAgain, Release, ClearRepeat
<1>2. TypeOK /\ LockInv /\ WaitInv /\ Running(k) /\ AtStatement(t)
  BY DEF SyncInv, LockInv
<1>3. pc[t] # "wait" /\ \A u \in Client : pc'[u] = "wait" <=> pc[u] = "wait"
  BY <1>2 DEF Call, AcquireTest, SetHolder, AcquireAgain, Release, ClearRepeat, TypeOK
<1>4. WaitInv'
  BY <1>1, <1>2, <1>3, WaitKept DEF Same
<1>5. TypeOK'
  BY <1>1, <1>2 DEF Call, AcquireTest, SetHolder, AcquireAgain, Release, ClearRepeat,
                    TypeOK, Label, AtStatement
<1>6. LockInv'
  <2>1. CASE Call(t)
    BY <1>1, <1>2, <2>1 DEF Call, TypeOK, LockInv, AtStatement
  <2>2. CASE AcquireTest(t)
    <3>1. CASE holder # t
      BY <1>1, <1>2, <2>2, <3>1 DEF AcquireTest, TypeOK, LockInv, AtStatement
    <3>2. CASE holder = t
      <4>1. /\ depth[t] > 0 /\ holder_repeat_nr = depth[t]
            /\ \A u \in Client : u # t => depth[u] = 0
        BY <1>2, <2>2, <3>2 DEF AcquireTest, TypeOK, LockInv, AtStatement, Client
      <4>2. /\ depth' = [depth EXCEPT ![t] = depth[t] + 1]
            /\ holder_repeat_nr' = holder_repeat_nr + 1
            /\ pc' = [pc EXCEPT ![t] = "cs"] /\ UNCHANGED holder
        BY <2>2, <3>2 DEF AcquireTest
      <4>3. ASSUME NEW u \in Client PROVE AtStatement(u)'
        BY <1>2, <3>2, <4>1, <4>2 DEF TypeOK, LockInv, AtStatement
      <4> QED BY <1>1, <1>2, <3>2, <4>1, <4>2, <4>3 DEF TypeOK, LockInv
    <3> QED BY <3>1, <3>2
  <2>3. CASE SetHolder(t)
    BY <1>1, <1>2, <2>3 DEF SetHolder, TypeOK, LockInv, AtStatement
  <2>4. CASE AcquireAgain(t)
    BY <1>1, <1>2, <2>4 DEF AcquireAgain, TypeOK, LockInv, AtStatement
  <2>5. CASE Release(t)
    BY <1>1, <1>2, <2>5 DEF Release, TypeOK, LockInv, AtStatement
  <2>6. CASE ClearRepeat(t)
    BY <1>1, <1>2, <2>6 DEF ClearRepeat, TypeOK, LockInv, AtStatement
  <2> QED BY <2>1, <2>2, <2>3, <2>4, <2>5, <2>6
<1> QED BY <1>1, <1>2, <1>4, <1>5, <1>6 DEF SyncInv

\* The ASSERTs of lock_acquire() and lock_release() on holder and
\* holder_repeat_nr hold.
LEMMA AssertSound ==
  ASSUME SyncInv, NEW t \in Client, SetRepeat(t) \/ ReleaseTest(t)
  PROVE  SyncInv'
<1> USE SyncAssumption DEF At, Goto, lockvars
<1>1. TypeOK /\ LockInv /\ WaitInv /\ Running(k) /\ AtStatement(t)
  BY DEF SyncInv, LockInv
<1>2. UNCHANGED <<k, semaphore>>
  BY <1>1 DEF SetRepeat, ReleaseTest, AtStatement
<1>3. pc[t] # "wait" /\ \A u \in Client : pc'[u] = "wait" <=> pc[u] = "wait"
  BY <1>1 DEF SetRepeat, ReleaseTest, TypeOK
<1>4. WaitInv'
  BY <1>1, <1>2, <1>3, WaitKept DEF Same
<1>5. TypeOK'
  BY <1>1, <1>2 DEF SetRepeat, ReleaseTest, TypeOK, Label, AtStatement
<1>6. LockInv'
  <2>1. CASE SetRepeat(t)
    BY <1>1, <1>2, <2>1 DEF SetRepeat, TypeOK, LockInv, AtStatement
  <2>2. CASE ReleaseTest(t)
    BY <1>1, <1>2, <2>2 DEF ReleaseTest, TypeOK, LockInv, AtStatement
  <2> QED BY <2>1, <2>2
<1> QED BY <1>1, <1>2, <1>4, <1>5, <1>6 DEF SyncInv

\* One turn of sema_down()'s loop: the client waits, or becomes the owner.
LEMMA SemaDownSound ==
  ASSUME SyncInv, NEW t \in Client, SemaDown(t)
  PROVE  SyncInv'
<1> USE SyncAssumption DEF At, Goto, lockvars, Client
<1>1. /\ TypeOK /\ LockInv /\ WaitInv /\ Running(k)
      /\ k.cur = t /\ t # idle /\ pc[t] \in {"down", "wait"}
      /\ semaphore \in SemaState /\ k \in SchedState
      /\ UNCHANGED <<holder, holder_repeat_nr>>
  BY DEF SyncInv, SemaDown, TypeOK
<1>2. NoDuplicate(semaphore.waiters) /\ ~elem_find(semaphore.waiters, t)
  BY <1>1 DEF WaitInv, NoLostWakeup, WaitersExact, Running
<1>3. CASE semaphore.value = 0
  <2>1. /\ k' = sema_wait_sched(k, semaphore)
        /\ semaphore' = sema_wait(k, semaphore)
        /\ pc' = [pc EXCEPT ![t] = "wait"] /\ UNCHANGED depth
    BY <1>3 DEF SemaDown, sema_must_wait
  <2>2. /\ Running(k')
        /\ k'.status[t] = "BLOCKED"
        /\ \A u \in Client : u # t => Same(k, k', u)
        /\ semaphore' \in SemaState /\ semaphore'.value = 0
        /\ NoDuplicate(semaphore'.waiters)
        /\ \A u \in Thread : elem_find(semaphore'.waiters, u)
                               <=> u = t \/ elem_find(semaphore.waiters, u)
    <3>1. Running(k) /\ k.cur # idle /\ semaphore \in SemaState
          /\ NoDuplicate(semaphore.waiters) /\ ~elem_find(semaphore.waiters, k.cur)
      BY <1>1, <1>2
    <3>2. /\ Running(k')
          /\ \A u \in Thread \ {idle} :
                  IF u = k.cur THEN k'.status[u] = "BLOCKED" ELSE Same(k, k', u)
          /\ semaphore' \in SemaState /\ semaphore'.value = semaphore.value
          /\ NoDuplicate(semaphore'.waiters)
          /\ \A u \in Thread : elem_find(semaphore'.waiters, u)
                               <=> u = k.cur \/ elem_find(semaphore.waiters, u)
      BY <2>1, <3>1, SemaWaitSound
    <3> QED BY <1>1, <1>3, <3>2
  <2>3. TypeOK'
    BY <1>1, <2>1, <2>2 DEF TypeOK, Label, Running, Sound
  <2>4. LockInv'
    BY <1>1, <1>3, <2>1, <2>2 DEF LockInv, AtStatement, TypeOK
  <2>5. ASSUME NEW u \in Client, u # t
        PROVE  /\ k'.status[u] = "BLOCKED" <=> k.status[u] = "BLOCKED"
               /\ k.status[u] # "FREE" => k'.status[u] # "FREE"
    BY <2>2, <2>5 DEF Same, Awake
  <2>6. WaitInv'
    BY <1>1, <2>1, <2>2, <2>5, SchedAssumption DEF WaitInv, NoLostWakeup, WaitersExact, TypeOK
  <2> QED BY <2>2, <2>3, <2>4, <2>6 DEF SyncInv
<1>4. CASE semaphore.value # 0
  <2>1. semaphore.value = 1 /\ \A u \in Client : depth[u] = 0
    BY <1>1, <1>4 DEF LockInv
  <2>2. /\ k' = k /\ semaphore' \in SemaState
        /\ semaphore'.value = 0 /\ semaphore'.waiters = semaphore.waiters
        /\ depth' = [depth EXCEPT ![t] = 1] /\ pc' = [pc EXCEPT ![t] = "own"]
    BY <1>1, <1>4, <2>1, SemaTakeSound DEF SemaDown, sema_must_wait
  <2>3. TypeOK'
    BY <1>1, <2>2 DEF TypeOK, Label
  <2>4. holder = NULL /\ holder_repeat_nr = 0
    BY <1>1, <2>1 DEF LockInv, TypeOK
  <2>5. LockInv'
    BY <1>1, <2>1, <2>2, <2>4 DEF LockInv, AtStatement, TypeOK
  <2>6. WaitInv'
    BY <1>1, <2>2 DEF WaitInv, NoLostWakeup, WaitersExact, TypeOK, Running
  <2> QED BY <1>1, <2>2, <2>3, <2>5, <2>6 DEF SyncInv
<1> QED BY <1>3, <1>4

\* The end of lock_release(): the semaphore is free again and the first of the
\* waiters, if there is one, is awake.
LEMMA SemaUpStepSound ==
  ASSUME SyncInv, NEW t \in Client, SemaUp(t)
  PROVE  SyncInv'
<1> USE SyncAssumption DEF At, Goto, lockvars, Client
<1>1. /\ TypeOK /\ LockInv /\ WaitInv /\ Running(k)
      /\ k.cur = t /\ pc[t] = "up"
      /\ semaphore \in SemaState /\ k \in SchedState
      /\ UNCHANGED <<holder, holder_repeat_nr>>
      /\ k' = sema_up_sched(k, semaphore) /\ semaphore' = sema_up(semaphore)
      /\ depth' = [depth EXCEPT ![t] = 0] /\ pc' = [pc EXCEPT ![t] = "out"]
  BY DEF SyncInv, SemaUp, TypeOK
<1>2. depth[t] = 1 /\ holder = NULL /\ holder_repeat_nr = 0
  BY <1>1 DEF LockInv, AtStatement
<1>3. semaphore.value = 0 /\ \A u \in Client : u # t => depth[u] = 0
  BY <1>1, <1>2 DEF LockInv, TypeOK
<1>4. NoDuplicate(semaphore.waiters)
  BY <1>1 DEF WaitInv, NoLostWakeup, WaitersExact
<1>5. \A u \in Thread : elem_find(semaphore.waiters, u) =>
        u \in Client /\ pc[u] = "wait" /\ k.status[u] = "BLOCKED"
  BY <1>1 DEF WaitInv, NoLostWakeup, WaitersExact
<1>6. /\ Running(k') /\ k'.cur = k.cur
      /\ semaphore' \in SemaState /\ semaphore'.value = 1 /\ NoDuplicate(semaphore'.waiters)
      /\ Woke(k, semaphore, k', semaphore')
  BY <1>1, <1>3, <1>4, <1>5, SemaUpSound
<1>7. TypeOK'
  BY <1>1, <1>6 DEF TypeOK, Label, Running, Sound
<1>8. LockInv'
  BY <1>1, <1>2, <1>3, <1>6 DEF LockInv, AtStatement, TypeOK
<1>9. WaitInv'
  <2>1. CASE semaphore.waiters = << >> /\ k' = k /\ semaphore'.waiters = << >>
    BY <1>1, <1>5, <1>6, <2>1
       DEF WaitInv, NoLostWakeup, WaitersExact, TypeOK, elem_find, NoDuplicate
  <2>2. ASSUME NEW h \in Thread, WokeTask(k, semaphore, k', semaphore', h)
        PROVE  WaitInv'
    <3> USE <2>2 DEF WokeTask
    <3>1. h \in Client /\ pc[h] = "wait" /\ h # t
      BY <1>1, <1>5
    <3>2. k'.status[h] = "READY" /\ pc'[h] = "wait"
          /\ \A u \in Client : u # h => k'.status[u] = k.status[u]
      BY <1>1, <2>2, <3>1 DEF TypeOK, SchedState
    <3>3. WaitersExact'
      BY <1>1, <1>6, <2>2, <3>1, <3>2 DEF WaitInv, NoLostWakeup, WaitersExact, TypeOK
    <3>4. ~elem_find(semaphore'.waiters, idle)
      BY <1>1, <2>2, SchedAssumption DEF WaitInv
    <3>5. \A u \in Client : pc'[u] = "wait" => k'.status[u] # "FREE"
      BY <1>1, <3>1, <3>2 DEF WaitInv, TypeOK
    <3> QED BY <3>1, <3>2, <3>3, <3>4, <3>5 DEF WaitInv, NoLostWakeup
  <2> QED BY <1>6, <2>1, <2>2 DEF Woke
<1> QED BY <1>6, <1>7, <1>8, <1>9 DEF SyncInv

\* The steps that only move tasks between the processor, the ready list and a
\* device: no client enters or leaves sema_down() and the lock is as it was.
LEMMA MoveSound ==
  ASSUME SyncInv, Preempt \/ IdleLoop \/ \E t \in Client : Start(t) \/ DeviceWait(t) \/ DeviceDone(t)
  PROVE  SyncInv'
<1> USE SyncAssumption DEF At, Goto, lockvars, Client
<1>1. /\ TypeOK /\ LockInv /\ WaitInv /\ Running(k)
      /\ UNCHANGED <<semaphore, holder, holder_repeat_nr, depth>>
  BY DEF SyncInv, Preempt, IdleLoop, Start, DeviceWait, DeviceDone
<1>2. CASE Preempt
  <2>1. /\ Running(k') /\ UNCHANGED pc
        /\ \A u \in Thread \ {idle} : Same(k, k', u)
    BY <1>1, <1>2, TimerSound DEF Preempt, Shuffled
  <2>2. WaitInv'
    BY <1>1, <2>1, WaitKept
  <2> QED BY <1>1, <2>1, <2>2 DEF SyncInv, TypeOK, LockInv, AtStatement, Running, Sound
<1>3. CASE IdleLoop
  <2>1. /\ Running(k') /\ UNCHANGED pc
        /\ \A u \in Thread \ {idle} : IF u = k.cur THEN k'.status[u] = "BLOCKED" ELSE Same(k, k', u)
    BY <1>1, <1>3, BlockSound DEF IdleLoop, Blocked
  <2>2. WaitInv'
    BY <1>1, <1>3, <2>1, WaitKept DEF IdleLoop
  <2> QED BY <1>1, <2>1, <2>2 DEF SyncInv, TypeOK, LockInv, AtStatement, Running, Sound
<1>4. ASSUME NEW t \in Client, Start(t)
      PROVE  SyncInv'
  <2>1. Running(k') /\ k'.status = [k.status EXCEPT ![t] = "READY"] /\ UNCHANGED pc
    BY <1>1, <1>4, CreateSound DEF Start
  <2>2. pc[t] # "wait" /\ \A u \in Client : u # t => Same(k, k', u)
    BY <1>1, <1>4, <2>1 DEF Start, WaitInv, Same, TypeOK, SchedState
  <2>3. WaitInv'
    BY <1>1, <2>1, <2>2, WaitKept
  <2> QED BY <1>1, <2>1, <2>3 DEF SyncInv, TypeOK, LockInv, AtStatement, Running, Sound
<1>5. ASSUME NEW t \in Client, DeviceWait(t)
      PROVE  SyncInv'
  <2>1. k.cur = t /\ pc[t] = "cs" /\ pc' = [pc EXCEPT ![t] = "io"] /\ t # idle
    BY <1>5 DEF DeviceWait
  <2>2. /\ Running(k')
        /\ \A u \in Thread \ {idle} : IF u = k.cur THEN k'.status[u] = "BLOCKED" ELSE Same(k, k', u)
    BY <1>1, <1>5, <2>1, BlockSound DEF DeviceWait, Blocked
  <2>3. WaitInv'
    BY <1>1, <2>1, <2>2, WaitKept DEF TypeOK
  <2>4. TypeOK'
    BY <1>1, <2>1, <2>2 DEF TypeOK, Label, Running, Sound
  <2>5. LockInv'
    BY <1>1, <2>1 DEF LockInv, AtStatement, TypeOK
  <2> QED BY <2>2, <2>3, <2>4, <2>5 DEF SyncInv
<1>6. ASSUME NEW t \in Client, DeviceDone(t)
      PROVE  SyncInv'
  <2>1. pc[t] = "io" /\ pc' = [pc EXCEPT ![t] = "cs"] /\ k.status[t] = "BLOCKED"
    BY <1>6 DEF DeviceDone
  <2>2. Running(k') /\ k'.status = [k.status EXCEPT ![t] = "READY"]
    <3>1. k.status[t] \in Blocked /\ t \in Thread /\ Sound(k)
      BY <1>1, <2>1 DEF Blocked, Running
    <3>2. k' = thread_unblock(k, t)
      BY <1>6 DEF DeviceDone
    <3>3. Running(k')
      BY <1>1, <3>1, <3>2, UnblockRunning
    <3> QED BY <3>1, <3>2, <3>3, UnblockSound
  <2>3. WaitInv'
    <3>1. \A u \in Client : u # t => Same(k, k', u) /\ pc'[u] = pc[u]
      BY <1>1, <2>1, <2>2 DEF Same, TypeOK, SchedState
    <3>2. pc[t] # "wait" /\ pc'[t] # "wait"
      BY <1>1, <2>1 DEF TypeOK
    <3> QED BY <1>1, <3>1, <3>2, WaitKept
  <2>4. TypeOK'
    BY <1>1, <2>1, <2>2 DEF TypeOK, Label, Running, Sound
  <2>5. LockInv'
    BY <1>1, <2>1 DEF LockInv, AtStatement, TypeOK
  <2> QED BY <2>2, <2>3, <2>4, <2>5 DEF SyncInv
<1> QED BY <1>2, <1>3, <1>4, <1>5, <1>6

-----------------------------------------------------------------------------
\* Every step keeps the invariant.
LEMMA SyncNext == SyncInv /\ [Next]_vars => SyncInv'
<1> SUFFICES ASSUME SyncInv, [Next]_vars PROVE SyncInv'
  OBVIOUS
<1>1. CASE UNCHANGED vars
  BY <1>1 DEF vars, SyncInv, TypeOK, LockInv, AtStatement, WaitInv, NoLostWakeup, WaitersExact
<1>2. ASSUME NEW t \in Client, Start(t) \/ Step(t) \/ DeviceDone(t)
      PROVE  SyncInv'
  BY <1>2, StatementSound, AssertSound, SemaDownSound, SemaUpStepSound, MoveSound DEF Step
<1>3. CASE Preempt \/ IdleLoop
  BY <1>3, MoveSound
<1> QED BY <1>1, <1>2, <1>3 DEF Next

\* The invariant holds in every state the lock and its clients can reach.
LEMMA SyncInvariant == Spec => []SyncInv
<1> QED BY SyncInit, SyncNext, PTL DEF Spec

\* The lock's fields, the scheduler and the clients always have their types; in
\* particular no client's count of acquires passes what it took.
THEOREM SyncTypeCorrect == Spec => []TypeOK
<1>1. SyncInv => TypeOK
  BY DEF SyncInv
<1> QED BY <1>1, SyncInvariant, PTL

\* lock_acquire() and lock_release() exclude: two tasks are never both past
\* sema_down(), although holder is set after it and cleared before sema_up(), and
\* the holder field never takes a task for another.
THEOREM LockExcludes == Spec => []MutualExclusion
<1>1. SyncInv => MutualExclusion
  BY DEF SyncInv, LockInv, MutualExclusion, HolderIsOwner, Owners, AtStatement
<1> QED BY <1>1, SyncInvariant, PTL

\* No ASSERT of sync.c, and none of the scheduler's that it reaches, ever fires.
THEOREM LockNeverPanics == Spec => []NoPanic
<1>1. SyncInv => NoPanic
  BY DEF SyncInv, Running, Sound, NoPanic
<1> QED BY <1>1, SyncInvariant, PTL

\* Every task that sleeps in sema_down() is in the list, and a semaphore that is
\* free with tasks in the list has one of them on its way.
THEOREM NoWakeupLost == Spec => []NoLostWakeup
<1>1. SyncInv => NoLostWakeup
  BY DEF SyncInv, WaitInv
<1> QED BY <1>1, SyncInvariant, PTL

\* Every step of the lock is a step of the abstract mutex or changes neither its
\* owners nor their counts: sema_down() that gets the value is Acquire, the
\* count up is AcquireAgain, and the count down and sema_up() are Release.
THEOREM LockImplementsMutex == Spec => Implements
<1>1. Init => M!Init
  BY SyncAssumption DEF Init, M!Init, Owners
<1>2. SyncInv /\ [Next]_vars => [M!Next]_(M!vars)
  <2> SUFFICES ASSUME SyncInv, [Next]_vars PROVE [M!Next]_(M!vars)
    OBVIOUS
  <2>1. TypeOK /\ LockInv
    BY DEF SyncInv
  <2>2. CASE UNCHANGED depth
    BY <2>2 DEF M!vars, Owners
  <2>3. ASSUME NEW t \in Client, AcquireTest(t), depth' # depth
        PROVE  M!AcquireAgain(t)
    <3>1. depth' = [depth EXCEPT ![t] = @ + 1] /\ depth[t] > 0
      BY <2>1, <2>3, SyncAssumption DEF AcquireTest, LockInv, TypeOK, Client
    <3>2. Owners' = Owners /\ t \in Owners
      BY <2>1, <3>1 DEF Owners, TypeOK
    <3> QED BY <3>1, <3>2 DEF M!AcquireAgain
  <2>4. ASSUME NEW t \in Client, SemaDown(t), depth' # depth
        PROVE  M!Acquire(t)
    <3>1. depth' = [depth EXCEPT ![t] = 1] /\ semaphore.value # 0
      BY <2>4 DEF SemaDown, sema_must_wait
    <3>2. \A u \in Client : depth[u] = 0
      BY <2>1, <3>1 DEF LockInv
    <3>3. Owners = {} /\ Owners' = {t}
      BY <2>1, <3>1, <3>2 DEF Owners, TypeOK
    <3> QED BY <3>1, <3>3 DEF M!Acquire
  <2>5. ASSUME NEW t \in Client, ReleaseTest(t), depth' # depth
        PROVE  M!Release(t)
    <3>1. depth' = [depth EXCEPT ![t] = @ - 1] /\ depth[t] > 1
      BY <2>1, <2>5 DEF ReleaseTest, At, LockInv, AtStatement
    <3>2. Owners' = Owners /\ t \in Owners
      BY <2>1, <3>1 DEF Owners, TypeOK
    <3> QED BY <3>1, <3>2 DEF M!Release
  <2>6. ASSUME NEW t \in Client, SemaUp(t)
        PROVE  M!Release(t)
    <3>1. depth' = [depth EXCEPT ![t] = 0] /\ depth[t] = 1
      BY <2>1, <2>6 DEF SemaUp, At, LockInv, AtStatement
    <3>2. \A u \in Client : u # t => depth[u] = 0
      BY <2>1, <3>1 DEF LockInv, TypeOK
    <3>3. Owners = {t} /\ Owners' = {}
      BY <2>1, <3>1, <3>2 DEF Owners, TypeOK
    <3> QED BY <3>1, <3>3 DEF M!Release
  <2>7. ASSUME depth' # depth
        PROVE  \E t \in Client : AcquireTest(t) \/ SemaDown(t) \/ ReleaseTest(t) \/ SemaUp(t)
    BY <2>7 DEF Next, Step, vars, Start, Call, SetHolder, SetRepeat, AcquireAgain, DeviceWait,
                DeviceDone, Release, ClearRepeat, Preempt, IdleLoop
  <2> QED BY <2>2, <2>3, <2>4, <2>5, <2>6, <2>7 DEF M!Next
<1> QED BY <1>1, <1>2, SyncInvariant, PTL DEF Spec, Implements, M!Spec
=============================================================================
