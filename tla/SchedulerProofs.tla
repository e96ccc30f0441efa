-------------------------- MODULE SchedulerProofs --------------------------
(***************************************************************************)
(* The safety properties of module Scheduler, for every set of tasks and   *)
(* every priorities.  The inductive invariant is SInv: the type invariant  *)
(* and Running(k), which says that the ready list is exact, that the       *)
(* current task and no other is RUNNING, that idle can be woken and that   *)
(* no ASSERT has failed.                                                   *)
(***************************************************************************)
EXTENDS Scheduler, SchedProofs

SInv == TypeOK /\ Running(k)

\* What thread_init() leaves satisfies the invariant.
LEMMA InitSound == Init => SInv
<1> SUFFICES ASSUME Init PROVE SInv
  OBVIOUS
<1> USE MainAssumption, SchedAssumption DEF Blocked, Status
<1>1. /\ k.status = [t \in Thread |-> IF t = main THEN "RUNNING"
                        ELSE IF t \in {init, idle} THEN "READY" ELSE "FREE"]
      /\ k.ready = <<init, idle>> /\ k.cur = main
      /\ k.ticks = Priority /\ k.panic = FALSE
  BY DEF Init
<1>2. k \in SchedState
  BY <1>1 DEF SchedState, Init
<1>3. /\ k.ready \in Seq(Thread) /\ Len(k.ready) = 2
      /\ k.ready[1] = init /\ k.ready[2] = idle
  BY <1>1
<1>4. \A t \in Thread : elem_find(k.ready, t) <=> t \in {init, idle}
  <2>1. 1..2 = {1, 2}
    OBVIOUS
  <2> QED BY <1>3, <2>1 DEF elem_find
<1>5. NoDuplicate(k.ready)
  BY <1>3 DEF NoDuplicate
<1>6. Exact(k)
  BY <1>1, <1>4, <1>5 DEF Exact
<1>7. Running(k)
  BY <1>1, <1>2, <1>6 DEF Running, Sound
<1>8. TypeOK
  BY <1>2 DEF TypeOK, Init
<1> QED BY <1>7, <1>8 DEF SInv

\* Every step of the kernel keeps the invariant.
LEMMA NextSound == SInv /\ [Next]_vars => SInv'
<1> SUFFICES ASSUME SInv, [Next]_vars PROVE SInv'
  OBVIOUS
<1> USE MainAssumption, SchedAssumption
<1>0. TypeOK /\ Running(k) /\ k.cur \in Thread
  BY DEF SInv, TypeOK, SchedState
<1>K. Running(k') => k' \in SchedState
  BY DEF Running, Sound
<1>1. ASSUME NEW t \in Thread, Create(t) PROVE SInv'
  <2>1. Running(k')
    BY <1>0, <1>1, CreateSound DEF Create
  <2> QED BY <1>0, <1>1, <1>K, <2>1 DEF SInv, TypeOK, Create
<1>2. ASSUME NEW t \in Thread, Unblock(t) PROVE SInv'
  <2>1. k.status[t] \in Blocked /\ t # k.cur
    BY <1>0, <1>2 DEF Unblock, Blocked, Running
  <2>2. Running(k')
    BY <1>0, <1>2, <2>1, UnblockRunning DEF Unblock
  <2> QED BY <1>0, <1>2, <1>K, <2>2 DEF SInv, TypeOK, Unblock
<1>3. ASSUME NEW t \in Thread, Reap(t) PROVE SInv'
  <2>1. t # idle /\ t # k.cur /\ k.status[t] # "READY"
    BY <1>0, <1>3 DEF Reap, Running, Sound
  <2>2. Running(k')
    BY <1>0, <1>3, <2>1, ExitSound DEF Reap
  <2> QED BY <1>0, <1>3, <1>K, <2>2 DEF SInv, TypeOK, Reap
<1>4. ASSUME NEW t \in Thread, DeviceInterrupt(t) PROVE SInv'
  <2>1. k.status[t] \in Blocked /\ t # k.cur
    BY <1>0, <1>4 DEF DeviceInterrupt, Blocked, Running
  <2>2. Running(k')
    BY <1>0, <1>4, <2>1, UnblockRunning DEF DeviceInterrupt
  <2> QED BY <1>0, <1>4, <1>K, <2>2 DEF SInv, TypeOK, DeviceInterrupt, EndHlt
<1>5. ASSUME NEW stat \in Blocked, Block(stat) PROVE SInv'
  <2>1. k.cur # idle
    BY <1>5 DEF Block, InKernel, cur
  <2>2. Running(k')
    BY <1>0, <1>5, <2>1, BlockSound DEF Block
  <2> QED BY <1>0, <1>5, <1>K, <2>2 DEF SInv, TypeOK, Block
<1>6. ASSUME Yield PROVE SInv'
  <2>1. Running(k')
    BY <1>0, <1>6, YieldSound DEF Yield
  <2> QED BY <1>0, <1>6, <1>K, <2>1 DEF SInv, TypeOK, Yield
<1>7. ASSUME ExitMain PROVE SInv'
  <2>1. k.status[main] # "READY"
    BY <1>0, <1>7 DEF ExitMain, Running, cur
  <2>2. Running(k')
    BY <1>0, <1>7, <2>1, ExitSound DEF ExitMain
  <2> QED BY <1>0, <1>7, <1>K, <2>2 DEF SInv, TypeOK, ExitMain
<1>8. ASSUME SysEnter \/ SysReturn PROVE SInv'
  BY <1>0, <1>8 DEF SInv, TypeOK, SysEnter, SysReturn, cur
<1>9. ASSUME IdleBlock PROVE SInv'
  <2>1. Running(k')
    BY <1>0, <1>9, BlockSound DEF IdleBlock, Blocked
  <2> QED BY <1>0, <1>9, <1>K, <2>1 DEF SInv, TypeOK, IdleBlock
<1>10. ASSUME IdleHlt \/ TimerRaise PROVE SInv'
  BY <1>0, <1>10 DEF SInv, TypeOK, IdleHlt, TimerRaise
<1>11. ASSUME TimerInterrupt PROVE SInv'
  <2>1. Running(k')
    BY <1>0, <1>11, TimerSound DEF TimerInterrupt
  <2> QED BY <1>0, <1>11, <1>K, <2>1 DEF SInv, TypeOK, TimerInterrupt, EndHlt
<1>12. CASE UNCHANGED vars
  BY <1>0, <1>12 DEF SInv, TypeOK, vars
<1> QED
  BY <1>1, <1>2, <1>3, <1>4, <1>5, <1>6, <1>7, <1>8, <1>9, <1>10, <1>11, <1>12
     DEF Next

\* The inductive invariant holds in every reachable state.
LEMMA Invariant == Spec => []SInv
BY InitSound, NextSound, PTL DEF Spec

\* The scheduler's variables keep their types.
THEOREM TypeCorrect == Spec => []TypeOK
<1>1. SInv => TypeOK
  BY DEF SInv
<1> QED BY Invariant, <1>1, PTL

\* thread_ready_list always holds exactly the READY tasks, each once.
THEOREM ReadyListIsExact == Spec => []ReadyListExact
<1>1. SInv => ReadyListExact
  BY DEF SInv, Running, Sound, Exact, ReadyListExact
<1> QED BY Invariant, <1>1, PTL

\* Exactly the task on the processor is RUNNING.
THEOREM OneTaskRuns == Spec => []OneRunning
<1>1. SInv => OneRunning
  BY DEF SInv, Running, Sound, OneRunning
<1> QED BY Invariant, <1>1, PTL

\* No ASSERT of the scheduler fires, the one on thread_unblock(idle_thread) in
\* schedule() included.
THEOREM SchedulerNeverPanics == Spec => []NoPanic
<1>1. SInv => NoPanic
  BY DEF SInv, Running, Sound, NoPanic
<1> QED BY Invariant, <1>1, PTL
=============================================================================
