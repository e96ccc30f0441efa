----------------------------- MODULE Scheduler -----------------------------
(***************************************************************************)
(* The scheduler of thread/thread.c with the timer interrupt of            *)
(* device/timer.c and the most general client: any task may block, wake,   *)
(* create or reap any other whenever the code's own conditions let it.     *)
(*                                                                         *)
(* Interrupts.  Every gate of the IDT, int 0x80 included, clears IF, so a  *)
(* task inside a system call or a handler is not preempted; a task in user *)
(* mode, or a kernel thread, runs with IF set.  intr[t] is the IF the task *)
(* has when it is on the processor: thread_block() and thread_yield() save *)
(* and restore it, and a preempted task irets to IF set.                   *)
(***************************************************************************)
EXTENDS Sched

CONSTANTS main, init    \* main_thread and the first user process

ASSUME MainAssumption ==
  /\ {main, init} \subseteq Thread
  /\ main # init /\ main # idle /\ init # idle

VARIABLES
  k,         \* the scheduler state of module Sched
  intr,      \* intr[t]: t runs with interrupts enabled
  irq,       \* the timer interrupt is pending in the 8259A
  idle_pc    \* where idle() is: "block", "hlt" (about to halt) or "halted"

vars == <<k, intr, irq, idle_pc>>

cur == k.cur

\* The processor executes the next instruction of the running task: it has not
\* stopped in panic_spin() and no interrupt is accepted before it.
Executes == ~k.panic /\ ~(irq /\ intr[cur])

\* The running task executes kernel code of its own: a user process does so
\* inside a system call, with interrupts off, and main always.
InKernel == Executes /\ cur # idle /\ (cur = main \/ ~intr[cur])

-----------------------------------------------------------------------------
\* The state thread_init() leaves: main runs with interrupts still off, init
\* and idle are ready, in the order they were created.
Init ==
  /\ k = [status |-> [t \in Thread |->
                        CASE t = main -> "RUNNING"
                          [] t \in {init, idle} -> "READY"
                          [] OTHER -> "FREE"],
          ready  |-> <<init, idle>>,
          cur    |-> main,
          ticks  |-> Priority,
          panic  |-> FALSE]
  /\ intr = [t \in Thread |-> t # main]
  /\ irq = FALSE
  /\ idle_pc = "block"

\* thread_start(), process_execute() and sys_fork(): a task_struct is filled
\* in and put on the ready list; its first instructions enable interrupts.
Create(t) ==
  /\ InKernel
  /\ k.status[t] = "FREE"
  /\ k' = make_ready(k, t)
  /\ intr' = [intr EXCEPT ![t] = TRUE]
  /\ UNCHANGED <<irq, idle_pc>>

\* sema_down() and ioq_wait() block as BLOCKED, sys_wait() as WAITING,
\* sys_exit() as HANGING.  The last two are system calls, so not for main, and
\* neither main nor init, which have no parent, calls sys_exit().
Block(stat) ==
  /\ InKernel
  /\ stat = "WAITING" => cur # main
  /\ stat = "HANGING" => cur \notin {main, init}
  /\ k' = thread_block(k, stat)
  /\ UNCHANGED <<intr, irq, idle_pc>>

\* sema_up() and wakeup() wake a BLOCKED task, sys_exit() a WAITING one.
Unblock(t) ==
  /\ InKernel
  /\ t # idle
  /\ k.status[t] \in {"BLOCKED", "WAITING"}
  /\ k' = thread_unblock(k, t)
  /\ UNCHANGED <<intr, irq, idle_pc>>

Yield ==
  /\ InKernel
  /\ k' = thread_yield(k)
  /\ UNCHANGED <<intr, irq, idle_pc>>

\* main() ends with thread_exit(running_thread(), true), init_all() having
\* enabled interrupts; thread_exit disables them.
ExitMain ==
  /\ InKernel
  /\ cur = main
  /\ intr[main]
  /\ k' = thread_exit(k, main, "DIED", TRUE)
  /\ intr' = [intr EXCEPT ![main] = FALSE]
  /\ UNCHANGED <<irq, idle_pc>>

\* sys_wait() reaps a child that hangs.
Reap(t) ==
  /\ InKernel
  /\ cur # main
  /\ k.status[t] = "HANGING"
  /\ k' = thread_exit(k, t, "FREE", FALSE)
  /\ UNCHANGED <<intr, irq, idle_pc>>

\* int 0x80: the gate clears IF.
SysEnter ==
  /\ Executes
  /\ cur \notin {main, idle}
  /\ intr[cur]
  /\ intr' = [intr EXCEPT ![cur] = FALSE]
  /\ UNCHANGED <<k, irq, idle_pc>>

\* The iret of a system call, or main's intr_enable().
SysReturn ==
  /\ InKernel
  /\ ~intr[cur]
  /\ intr' = [intr EXCEPT ![cur] = TRUE]
  /\ UNCHANGED <<k, irq, idle_pc>>

-----------------------------------------------------------------------------
\* idle(): thread_block(TASK_BLOCKED), then sti; hlt, for ever.
IdleBlock ==
  /\ Executes
  /\ cur = idle /\ idle_pc = "block"
  /\ k' = thread_block(k, "BLOCKED")
  /\ idle_pc' = "hlt"
  /\ UNCHANGED <<intr, irq>>

IdleHlt ==
  /\ Executes
  /\ cur = idle /\ idle_pc = "hlt"
  /\ idle_pc' = "halted"
  /\ UNCHANGED <<k, intr, irq>>

\* Any interrupt ends a hlt.
EndHlt == idle_pc' = IF idle_pc = "halted" THEN "block" ELSE idle_pc

\* The 8253 raises IRQ0; the request stays pending while IF is clear.
TimerRaise ==
  /\ ~k.panic
  /\ ~irq
  /\ irq' = TRUE
  /\ UNCHANGED <<k, intr, idle_pc>>

TimerInterrupt ==
  /\ ~k.panic
  /\ irq /\ intr[cur]
  /\ irq' = FALSE
  /\ k' = intr_timer_handler(k)
  /\ EndHlt
  /\ UNCHANGED intr

\* intr_hd_handler() and intr_keyboard_handler() wake a BLOCKED task.
DeviceInterrupt(t) ==
  /\ ~k.panic
  /\ intr[cur]
  /\ t # idle
  /\ k.status[t] = "BLOCKED"
  /\ k' = thread_unblock(k, t)
  /\ EndHlt
  /\ UNCHANGED <<intr, irq>>

Next ==
  \/ \E t \in Thread : Create(t) \/ Unblock(t) \/ Reap(t) \/ DeviceInterrupt(t)
  \/ \E stat \in Blocked : Block(stat)
  \/ Yield \/ ExitMain \/ SysEnter \/ SysReturn
  \/ IdleBlock \/ IdleHlt
  \/ TimerRaise \/ TimerInterrupt

Spec == Init /\ [][Next]_vars

\* The 8253 never stops, an accepted interrupt is handled, idle executes its
\* loop, and the kernel does not stay inside system calls for ever.
Fairness ==
  /\ WF_vars(TimerRaise) /\ WF_vars(TimerInterrupt)
  /\ WF_vars(IdleBlock) /\ WF_vars(IdleHlt)
  /\ WF_vars(SysReturn)

FairSpec == Spec /\ Fairness

-----------------------------------------------------------------------------
\* The types of the scheduler's variables.
TypeOK ==
  /\ k \in SchedState
  /\ intr \in [Thread -> BOOLEAN]
  /\ irq \in BOOLEAN
  /\ idle_pc \in {"block", "hlt", "halted"}

\* thread_ready_list holds exactly the READY tasks, each of them once: what
\* the ASSERTs on general_tag before every list_append and list_push rely on.
ReadyListExact ==
  /\ \A t \in Thread : k.status[t] = "READY" <=> elem_find(k.ready, t)
  /\ NoDuplicate(k.ready)

\* The processor runs one task, and only that task is RUNNING.
OneRunning == \A t \in Thread : k.status[t] = "RUNNING" <=> t = k.cur

\* No ASSERT or PANIC of schedule(), thread_block(), thread_unblock(),
\* thread_yield() or thread_start() ever fires.
NoPanic == ~k.panic

\* A ready task runs again, however the others wake each other ahead of it:
\* thread_unblock() puts a woken task first, but with the rest of its old
\* slice, and schedule() puts a task whose slice is over last.
ReadyRuns == \A t \in Thread : k.status[t] = "READY" ~> k.cur = t
=============================================================================
