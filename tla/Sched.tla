------------------------------- MODULE Sched -------------------------------
(***************************************************************************)
(* The scheduling primitives of thread/thread.c as functions of the        *)
(* scheduler's state.  A scheduler state is a record                       *)
(*   status  the status field of every task_struct ("FREE": no such task)  *)
(*   ready   thread_ready_list, head first                                 *)
(*   cur     the task whose kernel stack is in use (running_thread())      *)
(*   ticks   what is left of every task's time slice                       *)
(*   panic   an ASSERT or PANIC was met; panic_spin() halts the machine    *)
(* The kernel calls these functions with interrupts off, on one processor, *)
(* so each is one atomic step of the modules that use them.                *)
(***************************************************************************)
EXTENDS Naturals, Sequences

CONSTANTS
  Thread,     \* the task_structs there can be
  idle,       \* idle_thread
  Priority    \* the priority field: the length of a time slice in ticks

ASSUME SchedAssumption ==
  /\ idle \in Thread
  /\ Priority \in [Thread -> Nat]

\* enum task_status, and "FREE" for a task_struct that is not in use.
Blocked == {"BLOCKED", "WAITING", "HANGING"}
Status == {"FREE", "RUNNING", "READY", "DIED"} \cup Blocked

SchedState ==
  [status : [Thread -> Status], ready : Seq(Thread), cur : Thread,
   ticks : [Thread -> Nat], panic : BOOLEAN]

\* lib/kernel/list.c: elem_find, list_push and list_remove on a list of tasks.
elem_find(l, t) == \E i \in 1..Len(l) : l[i] = t
list_push(l, t) == <<t>> \o l
list_remove(l, t) ==
  LET i == CHOOSE i \in 1..Len(l) : l[i] = t
  IN  SubSeq(l, 1, i - 1) \o SubSeq(l, i + 1, Len(l))

\* No task is in the list twice.
NoDuplicate(l) == \A i, j \in 1..Len(l) : l[i] = l[j] => i = j

\* ASSERT(FALSE): the machine stops in the state it is in.
PANIC(s) == [s EXCEPT !.panic = TRUE]

-----------------------------------------------------------------------------
\* Mutant: a woken task gets a new slice.
thread_unblock_refills(s, t) ==
  IF s.status[t] \in Blocked /\ ~elem_find(s.ready, t)
  THEN [s EXCEPT !.ready = list_push(s.ready, t), !.status[t] = "READY",
                 !.ticks[t] = Priority[t]]
  ELSE PANIC(s)

\* A blocked task goes to the front of the ready list, with the ticks it had.
thread_unblock(s, t) ==
  IF s.status[t] \in Blocked /\ ~elem_find(s.ready, t)
  THEN [s EXCEPT !.ready = list_push(s.ready, t), !.status[t] = "READY"]
  ELSE PANIC(s)

\* Mutant: the status of the task that is put back is not changed.
requeue_current_keeps_status(s) ==
  IF s.status[s.cur] # "RUNNING" THEN s
  ELSE IF elem_find(s.ready, s.cur) THEN PANIC(s)
  ELSE [s EXCEPT !.ready = Append(s.ready, s.cur), !.ticks[s.cur] = Priority[s.cur]]

\* schedule(), first part: a task that is still RUNNING used up its slice; it
\* gets a new one and goes to the tail of the ready list.
requeue_current(s) ==
  IF s.status[s.cur] # "RUNNING" THEN s
  ELSE IF elem_find(s.ready, s.cur) THEN PANIC(s)
  ELSE [s EXCEPT !.ready = Append(s.ready, s.cur),
                 !.ticks[s.cur] = Priority[s.cur],
                 !.status[s.cur] = "READY"]

\* Mutant: the idle task is not woken.
wake_idle_never(s) == s

\* schedule(), second part: with nothing to run, wake the idle task.
wake_idle(s) ==
  IF s.ready = << >> THEN thread_unblock(s, idle) ELSE s

\* Mutant: the next task is looked up but not removed from the list.
dispatch_peeks(s) ==
  IF s.ready = << >> THEN PANIC(s)
  ELSE [s EXCEPT !.status[Head(s.ready)] = "RUNNING", !.cur = Head(s.ready)]

\* schedule(), third part: switch to the head of the ready list.
dispatch(s) ==
  IF s.ready = << >> THEN PANIC(s)
  ELSE [s EXCEPT !.ready = Tail(s.ready),
                 !.status[Head(s.ready)] = "RUNNING",
                 !.cur = Head(s.ready)]

schedule(s) == dispatch(wake_idle(requeue_current(s)))

\* The running task blocks itself in one of the three blocked states.
thread_block(s, stat) == schedule([s EXCEPT !.status[s.cur] = stat])

\* The running task goes to the tail and keeps what is left of its slice.
thread_yield(s) ==
  IF elem_find(s.ready, s.cur) THEN PANIC(s)
  ELSE schedule([s EXCEPT !.ready = Append(s.ready, s.cur),
                          !.status[s.cur] = "READY"])

\* A new task enters the ready list (thread_start, process_execute, sys_fork).
make_ready(s, t) ==
  IF elem_find(s.ready, t) THEN PANIC(s)
  ELSE [s EXCEPT !.ready = Append(s.ready, t),
                 !.ticks[t] = Priority[t],
                 !.status[t] = "READY"]

\* thread_exit(): the task leaves the ready list if it is there; its
\* task_struct ends up as gone, "FREE" when its page is given back and "DIED"
\* for main's, which is not in the heap.
thread_exit(s, t, gone, need_schedule) ==
  LET over == [s EXCEPT !.status[t] = gone,
                        !.ready = IF elem_find(s.ready, t)
                                  THEN list_remove(s.ready, t) ELSE s.ready]
  IN  IF need_schedule THEN schedule(over) ELSE over

\* Mutant: the tick is counted down without the test for 0.
intr_timer_handler_underflows(s) == [s EXCEPT !.ticks[s.cur] = s.ticks[s.cur] - 1]

\* intr_timer_handler(): count a tick down, or schedule when none is left.
intr_timer_handler(s) ==
  IF s.ticks[s.cur] = 0 THEN schedule(s)
  ELSE [s EXCEPT !.ticks[s.cur] = s.ticks[s.cur] - 1]
=============================================================================
