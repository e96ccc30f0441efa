----------------------------- MODULE Semaphore -----------------------------
(***************************************************************************)
(* struct semaphore of thread/sync.h and the bodies of sema_down() and     *)
(* sema_up() of thread/sync.c, which run with interrupts off.  A semaphore *)
(* is a record of its value and its list of waiters.  An operation is a    *)
(* pair of functions: what it does to the scheduler state s of module      *)
(* Sched, and what it does to the semaphore.  sema_down() is a loop; one   *)
(* turn of it either waits or takes the semaphore.                         *)
(***************************************************************************)
EXTENDS Sched

SemaState == [value : Nat, waiters : Seq(Thread)]

sema_init(value) == [value |-> value, waiters |-> << >>]

\* while (psema->value == 0): the turn that appends to waiters and blocks.
sema_must_wait(sema) == sema.value = 0

sema_wait_sched(s, sema) ==
  IF elem_find(sema.waiters, s.cur) THEN PANIC(s) ELSE thread_block(s, "BLOCKED")

sema_wait(s, sema) == [sema EXCEPT !.waiters = Append(sema.waiters, s.cur)]

\* The turn that leaves the loop: value--, ASSERT(value == 0).
sema_take_sched(s, sema) == IF sema.value = 1 THEN s ELSE PANIC(s)

\* Mutant: sema_down() leaves the value alone.
sema_take_nothing(sema) == sema

sema_take(sema) == [sema EXCEPT !.value = sema.value - 1]

\* sema_up(): wake the first waiter, if there is one, and add one.
sema_up_sched(s, sema) ==
  IF sema.value # 0 THEN PANIC(s)
  ELSE IF sema.waiters = << >> THEN s
  ELSE thread_unblock(s, Head(sema.waiters))

sema_up(sema) ==
  [value   |-> sema.value + 1,
   waiters |-> IF sema.waiters = << >> THEN << >> ELSE Tail(sema.waiters)]
=============================================================================
