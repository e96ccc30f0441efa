------------------------------ MODULE IoQueue ------------------------------
(***************************************************************************)
(* struct ioqueue of device/ioqueue.c: a ring buffer with one lock, one    *)
(* waiting producer and one waiting consumer.  The tasks that use it do so *)
(* inside system calls, with interrupts off (every function asserts it),   *)
(* so they leave the processor only where they block; module Streams adds  *)
(* the callers.                                                            *)
(***************************************************************************)
EXTENDS Semaphore

CONSTANTS
  Task,       \* the user processes
  Byte,       \* the bytes they exchange
  bufsize,    \* size of the ring, one more than it can hold
  NULL        \* the null pointer

ASSUME IoQueueAssumption ==
  /\ Thread = Task \cup {idle} /\ idle \notin Task
  /\ bufsize \in Nat \ {0, 1}
  /\ NULL \notin Thread

VARIABLES
  k,          \* scheduler state
  ioq,        \* the ring buffer, its two waiters and its lock
  pc,         \* where each task is in ioq_getchar() or ioq_putchar()
  left        \* bytes each task's system call still has to move

vars == <<k, ioq, pc, left>>

\* out       in user mode
\* get, put  at the loop test of ioq_getchar(), ioq_putchar()
\* _lock     in lock_acquire(&ioq->lock)
\* _wait     in ioq_wait()
Label == {"out", "get", "get_lock", "get_wait", "put", "put_lock", "put_wait"}

IoqState ==
  [buf : [0..bufsize - 1 -> Byte \cup {NULL}],
   head : 0..bufsize - 1, tail : 0..bufsize - 1,
   producer : Task \cup {NULL}, consumer : Task \cup {NULL},
   semaphore : SemaState, holder : Task \cup {NULL}]

\* ioqueue_init() on memory that was zero, so tail is 0 as well.
ioqueue_init ==
  [buf |-> [i \in 0..bufsize - 1 |-> NULL], head |-> 0, tail |-> 0,
   producer |-> NULL, consumer |-> NULL,
   semaphore |-> sema_init(1), holder |-> NULL]

next_pos(pos) == (pos + 1) % bufsize

ioq_full == next_pos(ioq.head) = ioq.tail

ioq_empty == ioq.head = ioq.tail

ioq_length ==
  IF ioq.head >= ioq.tail THEN ioq.head - ioq.tail
  ELSE bufsize - (ioq.tail - ioq.head)

\* wakeup(waiter) if there is one: what it does to the scheduler.
wakeup(s, waiter) == IF waiter = NULL THEN s ELSE thread_unblock(s, waiter)

\* Interrupts are on while a task is in user mode and while idle runs.
IntrOn(t) == t = idle \/ t \in {u \in Task : pc[u] = "out"}

At(t, l) == ~k.panic /\ k.cur = t /\ pc[t] = l

\* Mutant: the byte is not counted.
Moved_uncounted(t, again) ==
  /\ pc' = [pc EXCEPT ![t] = again]
  /\ UNCHANGED left

\* The system call has moved a byte: it is over, or starts on the next one.
Moved(t, again) ==
  /\ left' = [left EXCEPT ![t] = @ - 1]
  /\ pc' = [pc EXCEPT ![t] = IF left[t] = 1 THEN "out" ELSE again]

-----------------------------------------------------------------------------
\* ioq_getchar(): with a byte in the buffer, take it and wake a producer.
ioq_getchar(t) ==
  /\ At(t, "get")
  /\ ~ioq_empty
  /\ ioq' = [ioq EXCEPT !.tail = next_pos(@), !.producer = NULL]
  /\ k' = wakeup(k, ioq.producer)
  /\ Moved(t, "get")

\* Mutant: the consumer is forgotten and not woken.
put_byte_drops_consumer(b) ==
  /\ ioq' = [ioq EXCEPT !.buf[ioq.head] = b, !.head = next_pos(@), !.consumer = NULL]
  /\ UNCHANGED k

\* What ioq_putchar() does once there is room, for a task and for the keyboard.
put_byte(b) ==
  /\ ioq' = [ioq EXCEPT !.buf[ioq.head] = b, !.head = next_pos(@), !.consumer = NULL]
  /\ k' = wakeup(k, ioq.consumer)

ioq_putchar(t, b) ==
  /\ At(t, "put")
  /\ ~ioq_full
  /\ put_byte(b)
  /\ Moved(t, "put")

\* The loop's body: lock_acquire() first.
MustWait(t) ==
  /\ \/ At(t, "get") /\ ioq_empty /\ pc' = [pc EXCEPT ![t] = "get_lock"]
     \/ At(t, "put") /\ ioq_full /\ pc' = [pc EXCEPT ![t] = "put_lock"]
  /\ UNCHANGED <<k, ioq, left>>

\* lock_acquire() finds the lock taken and blocks.
LockBlocks(t) ==
  /\ At(t, "get_lock") \/ At(t, "put_lock")
  /\ sema_must_wait(ioq.semaphore)
  /\ k' = sema_wait_sched(k, ioq.semaphore)
  /\ ioq' = [ioq EXCEPT !.semaphore = sema_wait(k, @)]
  /\ UNCHANGED <<pc, left>>

\* lock_acquire() takes the lock, then ioq_wait() blocks.
GetWait(t) ==
  /\ At(t, "get_lock")
  /\ ~sema_must_wait(ioq.semaphore)
  /\ ioq' = [ioq EXCEPT !.semaphore = sema_take(@), !.holder = t, !.consumer = t]
  /\ k' = IF ioq.consumer = NULL THEN thread_block(k, "BLOCKED") ELSE PANIC(k)
  /\ pc' = [pc EXCEPT ![t] = "get_wait"]
  /\ UNCHANGED left

PutWait(t) ==
  /\ At(t, "put_lock")
  /\ ~sema_must_wait(ioq.semaphore)
  /\ ioq' = [ioq EXCEPT !.semaphore = sema_take(@), !.holder = t, !.producer = t]
  /\ k' = IF ioq.producer = NULL THEN thread_block(k, "BLOCKED") ELSE PANIC(k)
  /\ pc' = [pc EXCEPT ![t] = "put_wait"]
  /\ UNCHANGED left

\* Back from ioq_wait(): lock_release(), then the loop test again.
Woken(t) ==
  /\ \/ At(t, "get_wait") /\ pc' = [pc EXCEPT ![t] = "get"]
     \/ At(t, "put_wait") /\ pc' = [pc EXCEPT ![t] = "put"]
  /\ k' = IF ioq.holder = t THEN sema_up_sched(k, ioq.semaphore) ELSE PANIC(k)
  /\ ioq' = [ioq EXCEPT !.semaphore = sema_up(@), !.holder = NULL]
  /\ UNCHANGED left

-----------------------------------------------------------------------------
\* The timer preempts a task in user mode (module Sync explains Priority 0).
Preempt ==
  /\ ~k.panic
  /\ IntrOn(k.cur)
  /\ k' = intr_timer_handler(k)
  /\ UNCHANGED <<ioq, pc, left>>

IdleLoop ==
  /\ ~k.panic
  /\ k.cur = idle
  /\ k' = thread_block(k, "BLOCKED")
  /\ UNCHANGED <<ioq, pc, left>>

QueueStep(t) ==
  \/ ioq_getchar(t) \/ \E b \in Byte : ioq_putchar(t, b)
  \/ MustWait(t) \/ LockBlocks(t) \/ GetWait(t) \/ PutWait(t) \/ Woken(t)

\* One task runs, the others are ready behind it, idle last.
InitQueue(first, others) ==
  /\ k = [status |-> [t \in Thread |-> IF t = first THEN "RUNNING" ELSE "READY"],
          ready  |-> Append(others, idle),
          cur    |-> first,
          ticks  |-> Priority,
          panic  |-> FALSE]
  /\ ioq = ioqueue_init
  /\ pc = [t \in Task |-> "out"]
  /\ left = [t \in Task |-> 0]

-----------------------------------------------------------------------------
\* The types of the queue's variables.
TypeOK ==
  /\ k \in SchedState
  /\ ioq \in IoqState
  /\ pc \in [Task -> Label]
  /\ left \in [Task -> Nat]

\* No ASSERT of ioqueue.c, sync.c or thread.c fires: nobody overwrites a
\* waiting producer or consumer, and whoever is woken is blocked.
NoPanic == ~k.panic

\* Whoever is recorded as the waiting producer or consumer is blocked in
\* ioq_wait() and holds the queue's lock, so there is at most one of the two.
WaiterHoldsLock ==
  \A t \in Task :
    /\ ioq.consumer = t => ioq.holder = t /\ pc[t] = "get_wait" /\ k.status[t] = "BLOCKED"
    /\ ioq.producer = t => ioq.holder = t /\ pc[t] = "put_wait" /\ k.status[t] = "BLOCKED"

\* No wakeup is lost and none is given to the wrong task: a task blocked in
\* ioq_wait() is the one the queue will wake, a task blocked on the lock is in
\* the list of its waiters, and whoever is recorded is blocked, so that none
\* of the ASSERTs on the waiters fires.
BlockedIsRecorded ==
  /\ NoPanic
  /\ WaiterHoldsLock
  /\ \A t \in Task : k.status[t] = "BLOCKED" =>
       \/ ioq.consumer = t
       \/ ioq.producer = t
       \/ pc[t] \in {"get_lock", "put_lock"} /\ elem_find(ioq.semaphore.waiters, t)

\* The bytes in the buffer, oldest first.
Contents == [i \in 1..ioq_length |-> ioq.buf[(ioq.tail + i - 1) % bufsize]]

\* The ring implements a FIFO queue of bufsize - 1 bytes.
F == INSTANCE Fifo WITH Capacity <- bufsize - 1, queue <- Contents
IsFifo == F!Spec
=============================================================================
