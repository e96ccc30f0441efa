--------------------------- MODULE StreamsProofs ----------------------------
(***************************************************************************)
(* The ioqueue of modules IoQueue and Streams loses no wakeup and trips no *)
(* ASSERT, whether it is the keyboard's buffer or a pipe, and its ring is  *)
(* a FIFO queue, for every number of tasks and every size of the ring.     *)
(*                                                                         *)
(* The inductive invariant StreamsInv ties, for every task, the place in   *)
(* ioq_getchar() or ioq_putchar() to the scheduler's status and to the     *)
(* four places where the queue can have recorded the task: the holder of   *)
(* the lock, its waiters, the producer and the consumer.                   *)
(***************************************************************************)
EXTENDS Streams, SchedProofs

\* Where the queue has recorded task t.
Recorded(t) ==
  /\ k.status[t] \in Awake \cup {"BLOCKED"}
  /\ k.status[t] = "BLOCKED" => pc[t] \in {"get_lock", "put_lock", "get_wait", "put_wait"}
  /\ ioq.holder = t <=> pc[t] \in {"get_wait", "put_wait"}
  /\ ioq.consumer = t <=> pc[t] = "get_wait" /\ k.status[t] = "BLOCKED"
  /\ ioq.producer = t <=> pc[t] = "put_wait" /\ k.status[t] = "BLOCKED"
  /\ elem_find(ioq.semaphore.waiters, t)
       <=> pc[t] \in {"get_lock", "put_lock"} /\ k.status[t] = "BLOCKED"
  /\ pc[t] # "out" => left[t] > 0

QueueInv ==
  /\ \A t \in Task : Recorded(t)
  /\ ioq.semaphore.value \in {0, 1}
  /\ ioq.semaphore.value = 1 <=> ioq.holder = NULL
  /\ NoDuplicate(ioq.semaphore.waiters)
  /\ ~elem_find(ioq.semaphore.waiters, idle)

StreamsInv == TypeOK /\ Running(k) /\ QueueInv

-----------------------------------------------------------------------------
\* The ring's arithmetic: a position less than two turns away is found by at
\* most one subtraction.
LEMMA Turn ==
  ASSUME NEW a \in Nat, a < bufsize + bufsize
  PROVE  a % bufsize = IF a < bufsize THEN a ELSE a - bufsize
<1> USE IoQueueAssumption
<1>1. CASE a < bufsize
  BY <1>1
<1>2. CASE ~(a < bufsize)
  BY <1>2
<1> QED BY <1>1, <1>2

\* next_pos() of ioqueue.c stays in the ring and wraps at its end.
LEMMA NextPos ==
  ASSUME NEW pos \in 0..bufsize - 1
  PROVE  /\ next_pos(pos) \in 0..bufsize - 1
         /\ next_pos(pos) = IF pos + 1 < bufsize THEN pos + 1 ELSE 0
<1> USE IoQueueAssumption
<1>1. pos + 1 \in Nat /\ pos + 1 < bufsize + bufsize
  OBVIOUS
<1>2. next_pos(pos) = IF pos + 1 < bufsize THEN pos + 1 ELSE pos + 1 - bufsize
  BY <1>1, Turn DEF next_pos
<1> QED BY <1>2

-----------------------------------------------------------------------------
\* The tasks as they are created and the empty queue satisfy the invariant.
LEMMA StreamsInit == Init => StreamsInv
<1> SUFFICES ASSUME Init PROVE StreamsInv
  OBVIOUS
<1> USE IoQueueAssumption, StreamsAssumption, SchedAssumption DEF Blocked, Status
<1>1. /\ k.status = [t \in Thread |-> IF t = First THEN "RUNNING" ELSE "READY"]
      /\ k.ready = Append(Others, idle) /\ k.cur = First
      /\ k.ticks = Priority /\ k.panic = FALSE
      /\ ioq = ioqueue_init
      /\ pc = [t \in Task |-> "out"] /\ left = [t \in Task |-> 0]
  BY DEF Init, InitQueue
<1>2. Others \in Seq(Thread) /\ ~elem_find(Others, idle) /\ idle \in Thread
  BY DEF elem_find
<1>3. /\ k.ready \in Seq(Thread) /\ NoDuplicate(k.ready)
      /\ \A t \in Thread : elem_find(k.ready, t) <=> t = idle \/ elem_find(Others, t)
  BY <1>1, <1>2, AppendFacts
<1>4. k \in SchedState
  BY <1>1, <1>3 DEF SchedState, Init, InitQueue
<1>5. Running(k)
  BY <1>1, <1>2, <1>3, <1>4 DEF Running, Sound, Exact
<1>6. ioq \in IoqState
  <2>1. sema_init(1) \in SemaState
    BY DEF sema_init, SemaState
  <2> QED BY <1>1, <2>1 DEF ioqueue_init, IoqState
<1>7. TypeOK
  BY <1>1, <1>4, <1>6 DEF TypeOK, Label
<1>8. /\ ioq.semaphore.value = 1 /\ ioq.semaphore.waiters = << >>
      /\ ioq.holder = NULL /\ ioq.consumer = NULL /\ ioq.producer = NULL
  BY <1>1 DEF ioqueue_init, sema_init
<1>9. QueueInv
  BY <1>1, <1>8 DEF QueueInv, Recorded, Awake, elem_find, NoDuplicate
<1> QED BY <1>5, <1>7, <1>9 DEF StreamsInv

\* wakeup() finds its waiter blocked, so that the ASSERTs of thread_unblock()
\* hold, and makes it READY.
LEMMA WakeupSound ==
  ASSUME StreamsInv, NEW w \in {ioq.consumer, ioq.producer}
  PROVE  LET r == wakeup(k, w) IN
         /\ Running(r) /\ r.cur = k.cur
         /\ \A u \in Task : r.status[u] = IF u = w THEN "READY" ELSE k.status[u]
<1> USE IoQueueAssumption
<1>1. TypeOK /\ Running(k) /\ QueueInv /\ w \in Task \cup {NULL} /\ k \in SchedState
  BY DEF StreamsInv, TypeOK, IoqState
<1>2. CASE w = NULL
  BY <1>1, <1>2 DEF wakeup
<1>3. CASE w \in Task
  <2>1. w \in Thread /\ k.status[w] \in Blocked /\ w # NULL
    BY <1>1, <1>3 DEF QueueInv, Recorded, Blocked
  <2>2. wakeup(k, w) = thread_unblock(k, w)
    BY <2>1 DEF wakeup
  <2>3. Running(thread_unblock(k, w))
    BY <1>1, <2>1, UnblockRunning
  <2>4. LET r == thread_unblock(k, w) IN
        r.cur = k.cur /\ r.status = [k.status EXCEPT ![w] = "READY"]
    BY <1>1, <2>1, UnblockSound DEF Running
  <2>5. k.status \in [Thread -> Status]
    BY <1>1 DEF SchedState
  <2> QED BY <2>2, <2>3, <2>4, <2>5
<1> QED BY <1>1, <1>2, <1>3

\* The task on the processor is in no list of the queue.
LEMMA RunnerUnrecorded ==
  ASSUME StreamsInv, NEW t \in Task, k.cur = t
  PROVE  /\ k.status[t] = "RUNNING"
         /\ ioq.consumer # t /\ ioq.producer # t
         /\ ~elem_find(ioq.semaphore.waiters, t)
BY DEF StreamsInv, Running, QueueInv, Recorded

\* The call has moved a byte: the task is in user mode or has another to move.
LEMMA MovedSound ==
  ASSUME TypeOK, QueueInv, NEW t \in Task, NEW again \in {"get", "put"},
         pc[t] = again, Moved(t, again)
  PROVE  /\ pc' \in [Task -> Label] /\ left' \in [Task -> Nat]
         /\ pc'[t] \in {"out", again} /\ (pc'[t] # "out" => left'[t] > 0)
         /\ \A u \in Task : u # t => pc'[u] = pc[u] /\ left'[u] = left[u]
<1>1. left[t] \in Nat /\ left[t] > 0
  BY DEF TypeOK, QueueInv, Recorded
<1> QED BY <1>1 DEF Moved, TypeOK, Label

\* A task takes a byte, which wakes the producer and changes nothing else of what
\* the queue has recorded.
LEMMA GetSound ==
  ASSUME StreamsInv, NEW t \in Task, ioq_getchar(t)
  PROVE  StreamsInv'
<1> USE IoQueueAssumption DEF At
<1>1. /\ TypeOK /\ QueueInv /\ k.cur = t /\ pc[t] = "get" /\ ioq \in IoqState
      /\ ioq' = [ioq EXCEPT !.tail = next_pos(@), !.producer = NULL]
      /\ k' = wakeup(k, ioq.producer) /\ Moved(t, "get")
  BY DEF StreamsInv, TypeOK, ioq_getchar
<1>2. /\ Running(k')
      /\ \A u \in Task : k'.status[u] = IF u = ioq.producer THEN "READY" ELSE k.status[u]
  BY <1>1, WakeupSound
<1>3. /\ pc' \in [Task -> Label] /\ left' \in [Task -> Nat]
      /\ pc'[t] \in {"out", "get"} /\ (pc'[t] # "out" => left'[t] > 0)
      /\ \A u \in Task : u # t => pc'[u] = pc[u] /\ left'[u] = left[u]
  BY <1>1, MovedSound
<1>4. k.status[t] = "RUNNING" /\ t # ioq.producer
  BY <1>1, RunnerUnrecorded
<1>5. /\ ioq'.producer = NULL /\ ioq'.consumer = ioq.consumer
      /\ ioq'.holder = ioq.holder /\ ioq'.semaphore = ioq.semaphore
      /\ ioq' \in IoqState
  BY <1>1, NextPos DEF IoqState
<1>6. ASSUME NEW u \in Task PROVE Recorded(u)'
  <2>1. Recorded(u) /\ Recorded(t)
    BY <1>1 DEF QueueInv
  <2>2. CASE u = t
    BY <1>1, <1>2, <1>3, <1>4, <1>5, <2>1, <2>2 DEF Recorded, Awake
  <2>3. CASE u # t
    BY <1>1, <1>2, <1>3, <1>4, <1>5, <2>1, <2>3 DEF Recorded, Awake
  <2> QED BY <2>2, <2>3
<1>7. QueueInv'
  BY <1>1, <1>5, <1>6 DEF QueueInv
<1>8. TypeOK'
  BY <1>2, <1>3, <1>5 DEF TypeOK, Running, Sound
<1> QED BY <1>2, <1>7, <1>8 DEF StreamsInv

\* What a byte put into the ring leaves of the queue's records.
LEMMA PutByteSound ==
  ASSUME StreamsInv, NEW b \in Byte, put_byte(b)
  PROVE  /\ Running(k')
         /\ \A u \in Task : k'.status[u] = IF u = ioq.consumer THEN "READY" ELSE k.status[u]
         /\ ioq'.consumer = NULL /\ ioq'.producer = ioq.producer
         /\ ioq'.holder = ioq.holder /\ ioq'.semaphore = ioq.semaphore
         /\ ioq' \in IoqState
<1> USE IoQueueAssumption
<1>1. /\ ioq \in IoqState /\ k' = wakeup(k, ioq.consumer)
      /\ ioq' = [ioq EXCEPT !.buf[ioq.head] = b, !.head = next_pos(@), !.consumer = NULL]
  BY DEF StreamsInv, TypeOK, put_byte
<1>2. ioq'.buf = [ioq.buf EXCEPT ![ioq.head] = b]
  BY <1>1 DEF IoqState
<1>3. ioq'.buf \in [0..bufsize - 1 -> Byte \cup {NULL}]
  BY <1>1, <1>2 DEF IoqState
<1>4. next_pos(ioq.head) \in 0..bufsize - 1
  BY <1>1, NextPos DEF IoqState
<1>5. /\ ioq'.consumer = NULL /\ ioq'.producer = ioq.producer
      /\ ioq'.holder = ioq.holder /\ ioq'.semaphore = ioq.semaphore
      /\ ioq' \in IoqState
  BY <1>1, <1>3, <1>4 DEF IoqState
<1>6. /\ Running(k')
      /\ \A u \in Task : k'.status[u] = IF u = ioq.consumer THEN "READY" ELSE k.status[u]
  BY <1>1, WakeupSound
<1> QED BY <1>5, <1>6

\* A task puts a byte.
LEMMA PutSound ==
  ASSUME StreamsInv, NEW t \in Task, NEW b \in Byte, ioq_putchar(t, b)
  PROVE  StreamsInv'
<1> USE IoQueueAssumption DEF At
<1>1. /\ TypeOK /\ QueueInv /\ k.cur = t /\ pc[t] = "put"
      /\ put_byte(b) /\ Moved(t, "put")
  BY DEF StreamsInv, ioq_putchar
<1>2. /\ Running(k')
      /\ \A u \in Task : k'.status[u] = IF u = ioq.consumer THEN "READY" ELSE k.status[u]
      /\ ioq'.consumer = NULL /\ ioq'.producer = ioq.producer
      /\ ioq'.holder = ioq.holder /\ ioq'.semaphore = ioq.semaphore
      /\ ioq' \in IoqState
  BY <1>1, PutByteSound
<1>3. /\ pc' \in [Task -> Label] /\ left' \in [Task -> Nat]
      /\ pc'[t] \in {"out", "put"} /\ (pc'[t] # "out" => left'[t] > 0)
      /\ \A u \in Task : u # t => pc'[u] = pc[u] /\ left'[u] = left[u]
  BY <1>1, MovedSound
<1>4. k.status[t] = "RUNNING" /\ t # ioq.consumer
  BY <1>1, RunnerUnrecorded
<1>5. ASSUME NEW u \in Task PROVE Recorded(u)'
  <2>1. Recorded(u) /\ Recorded(t)
    BY <1>1 DEF QueueInv
  <2>2. CASE u = t
    BY <1>1, <1>2, <1>3, <1>4, <2>1, <2>2 DEF Recorded, Awake
  <2>3. CASE u # t
    BY <1>1, <1>2, <1>3, <1>4, <2>1, <2>3 DEF Recorded, Awake
  <2> QED BY <2>2, <2>3
<1>6. QueueInv'
  BY <1>1, <1>2, <1>5 DEF QueueInv
<1>7. TypeOK'
  BY <1>2, <1>3 DEF TypeOK, Running, Sound
<1> QED BY <1>2, <1>6, <1>7 DEF StreamsInv

\* The keyboard's handler puts a byte.
LEMMA KeySound ==
  ASSUME StreamsInv, NEW b \in Byte, KeyPress(b)
  PROVE  StreamsInv'
<1> USE IoQueueAssumption
<1>1. TypeOK /\ QueueInv /\ put_byte(b) /\ UNCHANGED <<pc, left>>
  BY DEF StreamsInv, KeyPress
<1>2. /\ Running(k')
      /\ \A u \in Task : k'.status[u] = IF u = ioq.consumer THEN "READY" ELSE k.status[u]
      /\ ioq'.consumer = NULL /\ ioq'.producer = ioq.producer
      /\ ioq'.holder = ioq.holder /\ ioq'.semaphore = ioq.semaphore
      /\ ioq' \in IoqState
  BY <1>1, PutByteSound
<1>3. ASSUME NEW u \in Task PROVE Recorded(u)'
  <2>1. Recorded(u)
    BY <1>1 DEF QueueInv
  <2> QED BY <1>1, <1>2, <2>1 DEF Recorded, Awake
<1>4. QueueInv'
  BY <1>1, <1>2, <1>3 DEF QueueInv
<1>5. TypeOK'
  BY <1>1, <1>2 DEF TypeOK, Running, Sound
<1> QED BY <1>2, <1>4, <1>5 DEF StreamsInv

\* A system call starts, or finds that it must wait: no list changes.
LEMMA EnterSound ==
  ASSUME StreamsInv, NEW t \in Task,
         MustWait(t) \/ \E n \in 1..MaxCount : sys_read(t, n) \/ pipe_read(t, n) \/ pipe_write(t, n)
  PROVE  StreamsInv'
<1> USE IoQueueAssumption, StreamsAssumption DEF At
<1>1. TypeOK /\ QueueInv /\ Running(k) /\ ioq \in IoqState /\ Recorded(t)
  BY DEF StreamsInv, TypeOK, QueueInv
<1>2. ioq_length \in Nat /\ bufsize - ioq_length \in Nat
  BY <1>1 DEF ioq_length, IoqState
<1> DEFINE Enters(l, size) ==
      /\ k.cur = t /\ UNCHANGED <<k, ioq>>
      /\ pc[t] \in {"out", "get", "put"}
      /\ pc' = [pc EXCEPT ![t] = l] /\ left' = [left EXCEPT ![t] = size]
      /\ l # "out" => size > 0
<1>3. \E l \in Label \ {"get_wait", "put_wait"}, size \in Nat : Enters(l, size)
  <2>1. CASE MustWait(t)
    <3>1. left' = [left EXCEPT ![t] = left[t]] /\ left[t] \in Nat /\ pc[t] \in {"get", "put"}
      BY <1>1, <2>1 DEF MustWait, TypeOK
    <3>2. left[t] > 0
      BY <1>1, <3>1 DEF Recorded
    <3>3. \E l \in {"get_lock", "put_lock"} : Enters(l, left[t])
      BY <2>1, <3>1, <3>2 DEF MustWait
    <3> QED BY <3>1, <3>3 DEF Label
  <2>2. ASSUME NEW l \in {"get", "put"}, NEW size \in Nat, Begin(t, l, size), At(t, "out")
        PROVE  \E m \in Label \ {"get_wait", "put_wait"}, n \in Nat : Enters(m, n)
    <3>1. CASE size = 0
      <4>1. Enters("out", 0) /\ "out" \in Label \ {"get_wait", "put_wait"} /\ 0 \in Nat
        BY <2>2, <3>1 DEF Begin, Label
      <4> QED BY <4>1
    <3>2. CASE size # 0
      <4>1. Enters(l, size) /\ l \in Label \ {"get_wait", "put_wait"}
        BY <2>2, <3>2 DEF Begin, Label
      <4> QED BY <4>1
    <3> QED BY <3>1, <3>2
  <2>3. ASSUME NEW n \in 1..MaxCount, sys_read(t, n) \/ pipe_read(t, n) \/ pipe_write(t, n)
        PROVE  \E l \in {"get", "put"}, size \in Nat : Begin(t, l, size) /\ At(t, "out")
    <3>1. n \in Nat
      OBVIOUS
    <3>2. CASE sys_read(t, n)
      BY <3>1, <3>2 DEF sys_read
    <3>3. CASE pipe_read(t, n)
      BY <1>2, <3>1, <3>3 DEF pipe_read
    <3>4. CASE pipe_write(t, n)
      BY <1>2, <3>1, <3>4 DEF pipe_write
    <3> QED BY <2>3, <3>2, <3>3, <3>4
  <2> QED BY <2>1, <2>2, <2>3
<1>4. k.status[t] = "RUNNING"
  BY <1>3, RunnerUnrecorded
<1>5. ASSUME NEW u \in Task PROVE Recorded(u)'
  <2>1. Recorded(u)
    BY <1>1 DEF QueueInv
  <2> QED BY <1>1, <1>3, <1>4, <2>1 DEF Recorded, TypeOK, Label
<1>6. TypeOK'
  BY <1>1, <1>3 DEF TypeOK
<1>7. QueueInv'
  BY <1>1, <1>3, <1>5 DEF QueueInv
<1> QED BY <1>1, <1>3, <1>6, <1>7 DEF StreamsInv

\* lock_acquire() finds the lock taken: the task blocks as one of the waiters.
LEMMA LockBlocksSound ==
  ASSUME StreamsInv, NEW t \in Task, LockBlocks(t)
  PROVE  StreamsInv'
<1> USE IoQueueAssumption, SchedAssumption DEF At
<1> DEFINE sema == ioq.semaphore
<1>1. /\ TypeOK /\ QueueInv /\ Running(k) /\ ioq \in IoqState /\ sema \in SemaState
      /\ k.cur = t /\ t # idle /\ pc[t] \in {"get_lock", "put_lock"}
      /\ k' = sema_wait_sched(k, sema)
      /\ ioq' = [ioq EXCEPT !.semaphore = sema_wait(k, sema)]
      /\ UNCHANGED <<pc, left>>
  BY DEF StreamsInv, TypeOK, LockBlocks, IoqState
<1>2. NoDuplicate(sema.waiters) /\ ~elem_find(sema.waiters, k.cur) /\ k.status[t] = "RUNNING"
  BY <1>1, RunnerUnrecorded DEF QueueInv
<1>3. LET q == sema_wait(k, sema)
      IN  /\ Running(k')
          /\ \A u \in Thread \ {idle} :
                  IF u = k.cur THEN k'.status[u] = "BLOCKED" ELSE Same(k, k', u)
          /\ q \in SemaState /\ q.value = sema.value /\ NoDuplicate(q.waiters)
          /\ \A u \in Thread : elem_find(q.waiters, u) <=> u = k.cur \/ elem_find(sema.waiters, u)
  <2>1. Running(k) /\ k.cur # idle /\ sema \in SemaState
        /\ NoDuplicate(sema.waiters) /\ ~elem_find(sema.waiters, k.cur)
    BY <1>1, <1>2
  <2> HIDE DEF sema
  <2> QED BY <1>1, <2>1, SemaWaitSound
<1>4. /\ ioq'.semaphore = sema_wait(k, sema)
      /\ ioq'.holder = ioq.holder /\ ioq'.consumer = ioq.consumer /\ ioq'.producer = ioq.producer
      /\ ioq' \in IoqState
  BY <1>1, <1>3 DEF IoqState
<1>5. ASSUME NEW u \in Task PROVE Recorded(u)'
  <2>1. Recorded(u) /\ u \in Thread \ {idle}
    BY <1>1 DEF QueueInv
  <2>2. CASE u = t
    BY <1>1, <1>2, <1>3, <1>4, <2>1, <2>2 DEF Recorded
  <2>3. CASE u # t
    BY <1>1, <1>3, <1>4, <2>1, <2>3 DEF Recorded, Same, Awake
  <2> QED BY <2>2, <2>3
<1>6. QueueInv'
  BY <1>1, <1>3, <1>4, <1>5 DEF QueueInv
<1>7. TypeOK'
  BY <1>1, <1>3, <1>4 DEF TypeOK, Running, Sound
<1> QED BY <1>3, <1>6, <1>7 DEF StreamsInv

\* lock_acquire() gets the lock and ioq_wait() blocks: nobody was recorded as
\* the consumer, or the producer, since nobody held the lock.
LEMMA WaitSound ==
  ASSUME StreamsInv, NEW t \in Task, GetWait(t) \/ PutWait(t)
  PROVE  StreamsInv'
<1> USE IoQueueAssumption, SchedAssumption DEF At
<1> DEFINE sema == ioq.semaphore
<1>1. /\ TypeOK /\ QueueInv /\ Running(k) /\ ioq \in IoqState /\ sema \in SemaState
      /\ k.cur = t /\ t # idle /\ sema.value = 1 /\ UNCHANGED left
  BY DEF StreamsInv, TypeOK, GetWait, PutWait, IoqState, sema_must_wait, QueueInv
<1>2. ioq.holder = NULL /\ \A u \in Task : pc[u] \notin {"get_wait", "put_wait"}
  BY <1>1 DEF QueueInv, Recorded
<1>3. ioq.consumer = NULL /\ ioq.producer = NULL
  BY <1>1, <1>2 DEF QueueInv, Recorded, IoqState
<1>4. k.status[t] = "RUNNING" /\ ~elem_find(sema.waiters, t)
  BY <1>1, RunnerUnrecorded
<1>5. k' = thread_block(k, "BLOCKED")
  BY <1>3 DEF GetWait, PutWait
<1>6. /\ Running(k')
      /\ \A u \in Thread \ {idle} : IF u = k.cur THEN k'.status[u] = "BLOCKED" ELSE Same(k, k', u)
  BY <1>1, <1>5, BlockSound DEF Blocked
<1>7. /\ sema_take(sema) \in SemaState /\ sema_take(sema).value = 0
      /\ sema_take(sema).waiters = sema.waiters
  <2> HIDE DEF sema
  <2> QED BY <1>1, SemaTakeSound
<1>8. /\ ioq'.semaphore = sema_take(sema) /\ ioq'.holder = t /\ ioq' \in IoqState
      /\ \/ /\ pc[t] = "get_lock" /\ pc' = [pc EXCEPT ![t] = "get_wait"]
            /\ ioq'.consumer = t /\ ioq'.producer = NULL
         \/ /\ pc[t] = "put_lock" /\ pc' = [pc EXCEPT ![t] = "put_wait"]
            /\ ioq'.producer = t /\ ioq'.consumer = NULL
  <2> HIDE DEF sema
  <2>1. CASE GetWait(t)
    <3>1. /\ ioq' = [ioq EXCEPT !.semaphore = sema_take(sema), !.holder = t, !.consumer = t]
          /\ pc[t] = "get_lock" /\ pc' = [pc EXCEPT ![t] = "get_wait"]
      BY <2>1 DEF GetWait, sema
    <3> QED BY <1>1, <1>3, <1>7, <3>1 DEF IoqState
  <2>2. CASE PutWait(t)
    <3>1. /\ ioq' = [ioq EXCEPT !.semaphore = sema_take(sema), !.holder = t, !.producer = t]
          /\ pc[t] = "put_lock" /\ pc' = [pc EXCEPT ![t] = "put_wait"]
      BY <2>2 DEF PutWait, sema
    <3> QED BY <1>1, <1>3, <1>7, <3>1 DEF IoqState
  <2> QED BY <2>1, <2>2
<1>9. ASSUME NEW u \in Task PROVE Recorded(u)'
  <2>1. Recorded(u) /\ u \in Thread \ {idle} /\ Recorded(t)
    BY <1>1 DEF QueueInv
  <2>2. CASE u = t
    BY <1>1, <1>4, <1>6, <1>7, <1>8, <2>1, <2>2 DEF Recorded, TypeOK
  <2>3. CASE u # t
    BY <1>1, <1>2, <1>3, <1>6, <1>7, <1>8, <2>1, <2>3 DEF Recorded, TypeOK, Same, Awake
  <2> QED BY <2>2, <2>3
<1>10. QueueInv'
  BY <1>1, <1>7, <1>8, <1>9 DEF QueueInv
<1>11. TypeOK'
  BY <1>1, <1>6, <1>8 DEF TypeOK, Running, Sound, Label
<1> QED BY <1>6, <1>10, <1>11 DEF StreamsInv

\* Back from ioq_wait(): the task still holds the lock, and giving it back wakes
\* the first task that waits for it.
LEMMA WokenSound ==
  ASSUME StreamsInv, NEW t \in Task, Woken(t)
  PROVE  StreamsInv'
<1> USE IoQueueAssumption, SchedAssumption DEF At
<1> DEFINE sema == ioq.semaphore
           q    == sema_up(sema)
<1>1. /\ TypeOK /\ QueueInv /\ Running(k) /\ ioq \in IoqState /\ sema \in SemaState
      /\ k.cur = t /\ k \in SchedState /\ UNCHANGED left
      /\ pc[t] \in {"get_wait", "put_wait"}
      /\ \E l \in {"get", "put"} : pc' = [pc EXCEPT ![t] = l]
      /\ ioq' = [ioq EXCEPT !.semaphore = q, !.holder = NULL]
  BY DEF StreamsInv, TypeOK, Woken, IoqState
<1>2. ioq.holder = t /\ k.status[t] = "RUNNING"
  BY <1>1, RunnerUnrecorded DEF QueueInv, Recorded
<1>3. sema.value = 0 /\ k' = sema_up_sched(k, sema)
  BY <1>1, <1>2 DEF QueueInv, Woken
<1>4. /\ NoDuplicate(sema.waiters)
      /\ \A u \in Thread : elem_find(sema.waiters, u) =>
            u \in Task /\ pc[u] \in {"get_lock", "put_lock"} /\ k.status[u] = "BLOCKED"
  BY <1>1 DEF QueueInv, Recorded
<1>5. /\ Running(k') /\ q \in SemaState /\ q.value = 1 /\ NoDuplicate(q.waiters)
      /\ Woke(k, sema, k', q)
  <2> HIDE DEF sema
  <2> QED BY <1>1, <1>3, <1>4, SemaUpSound
<1> HIDE DEF q
<1>6. /\ ioq'.semaphore = q /\ ioq'.holder = NULL /\ ioq' \in IoqState
      /\ ioq'.consumer = ioq.consumer /\ ioq'.producer = ioq.producer
  BY <1>1, <1>5 DEF IoqState
<1>7. /\ pc' \in [Task -> Label] /\ pc'[t] \in {"get", "put"}
      /\ \A u \in Task : u # t => pc'[u] = pc[u]
  BY <1>1 DEF TypeOK, Label
<1>8. TypeOK'
  BY <1>1, <1>5, <1>6, <1>7 DEF TypeOK, Running, Sound
<1>9. \A u \in Task : u # t => pc[u] \notin {"get_wait", "put_wait"}
  BY <1>1, <1>2 DEF QueueInv, Recorded
<1>10. Recorded(t)
  BY <1>1 DEF QueueInv
<1>11. CASE sema.waiters = << >> /\ k' = k /\ q.waiters = << >>
  <2>1. ASSUME NEW u \in Task PROVE Recorded(u)'
    <3>1. Recorded(u)
      BY <1>1 DEF QueueInv
    <3> QED BY <1>1, <1>2, <1>6, <1>7, <1>9, <1>10, <1>11, <3>1 DEF Recorded
  <2>2. QueueInv'
    BY <1>1, <1>5, <1>6, <1>11, <2>1 DEF QueueInv
  <2> QED BY <1>5, <1>8, <2>2 DEF StreamsInv
<1>12. ASSUME NEW h \in Thread, WokeTask(k, sema, k', q, h)
       PROVE  StreamsInv'
  <2>1. h \in Task /\ pc[h] \in {"get_lock", "put_lock"} /\ h # t
    BY <1>1, <1>4, <1>12 DEF WokeTask
  <2>2. \A u \in Task : k'.status[u] = IF u = h THEN "READY" ELSE k.status[u]
    BY <1>1, <1>12 DEF WokeTask, SchedState
  <2>3. \A u \in Thread : elem_find(q.waiters, u) <=> u # h /\ elem_find(sema.waiters, u)
    BY <1>12 DEF WokeTask
  <2>4. ASSUME NEW u \in Task PROVE Recorded(u)'
    <3>1. Recorded(u) /\ u \in Thread
      BY <1>1 DEF QueueInv
    <3>2. CASE u = t
      BY <1>1, <1>2, <1>6, <1>7, <1>10, <2>1, <2>2, <2>3, <3>1, <3>2 DEF Recorded, Awake
    <3>3. CASE u # t
      BY <1>1, <1>2, <1>6, <1>7, <1>9, <2>1, <2>2, <2>3, <3>1, <3>3 DEF Recorded, Awake
    <3> QED BY <3>2, <3>3
  <2>5. ~elem_find(q.waiters, idle)
    BY <1>1, <2>3 DEF QueueInv
  <2>6. QueueInv'
    BY <1>5, <1>6, <2>4, <2>5 DEF QueueInv
  <2> QED BY <1>5, <1>8, <2>6 DEF StreamsInv
<1> QED BY <1>5, <1>11, <1>12 DEF Woke

\* The timer and idle() move awake tasks only.
LEMMA ShuffleSound ==
  ASSUME StreamsInv, Preempt \/ IdleLoop
  PROVE  StreamsInv'
<1> USE IoQueueAssumption
<1>1. TypeOK /\ QueueInv /\ Running(k) /\ UNCHANGED <<ioq, pc, left>>
  BY DEF StreamsInv, Preempt, IdleLoop
<1>2. Running(k') /\ \A u \in Task : Same(k, k', u)
  <2>1. CASE Preempt
    BY <1>1, <2>1, TimerSound DEF Preempt, Shuffled
  <2>2. CASE IdleLoop
    <3>1. k.cur = idle /\ k' = thread_block(k, "BLOCKED")
      BY <2>2 DEF IdleLoop
    <3> QED BY <1>1, <3>1, BlockSound DEF Blocked
  <2> QED BY <2>1, <2>2
<1>3. ASSUME NEW u \in Task PROVE Recorded(u)'
  <2>1. Recorded(u) /\ Same(k, k', u)
    BY <1>1, <1>2 DEF QueueInv
  <2> QED BY <1>1, <2>1 DEF Recorded, Same, Awake
<1>4. QueueInv'
  BY <1>1, <1>3 DEF QueueInv
<1> QED BY <1>1, <1>2, <1>4 DEF StreamsInv, TypeOK, Running, Sound

-----------------------------------------------------------------------------
\* Every step of the tasks, the keyboard, the timer and idle keeps the invariant.
LEMMA StreamsNext == StreamsInv /\ [Next]_svars => StreamsInv'
<1> SUFFICES ASSUME StreamsInv, [Next]_svars PROVE StreamsInv'
  OBVIOUS
<1>1. CASE UNCHANGED svars
  BY <1>1 DEF svars, vars, StreamsInv, TypeOK, QueueInv, Recorded
<1>2. ASSUME NEW t \in Task, Move(t)
      PROVE  StreamsInv'
  BY <1>2, GetSound, PutSound, EnterSound, LockBlocksSound, WaitSound, WokenSound
     DEF Move, QueueStep
<1>3. ASSUME NEW t \in Task,
             \E n \in 1..MaxCount : sys_read(t, n) \/ pipe_read(t, n) \/ pipe_write(t, n)
      PROVE  StreamsInv'
  BY <1>3, EnterSound
<1>4. ASSUME NEW b \in Byte, KeyPress(b)
      PROVE  StreamsInv'
  BY <1>4, KeySound
<1>5. CASE Tick \/ Idles
  BY <1>5, ShuffleSound DEF Tick, Idles
<1> QED BY <1>1, <1>2, <1>3, <1>4, <1>5 DEF Next

\* The invariant holds in every state the queue and its callers can reach.
LEMMA StreamsInvariant == Spec => []StreamsInv
<1> QED BY StreamsInit, StreamsNext, PTL DEF Spec

\* The ioqueue loses no wakeup, gives none to the wrong task and trips no ASSERT
\* of ioqueue.c, sync.c or thread.c, with one producer and one consumer field
\* for any number of readers and writers.
THEOREM NoWaiterForgotten == Spec => []BlockedIsRecorded
<1>1. StreamsInv => BlockedIsRecorded
  <2> SUFFICES ASSUME StreamsInv PROVE BlockedIsRecorded
    OBVIOUS
  <2>1. NoPanic
    BY DEF StreamsInv, Running, Sound, NoPanic
  <2>2. WaiterHoldsLock
    BY DEF StreamsInv, QueueInv, Recorded, WaiterHoldsLock
  <2>3. ASSUME NEW t \in Task, k.status[t] = "BLOCKED"
        PROVE  \/ ioq.consumer = t \/ ioq.producer = t
               \/ pc[t] \in {"get_lock", "put_lock"} /\ elem_find(ioq.semaphore.waiters, t)
    BY <2>3 DEF StreamsInv, QueueInv, Recorded
  <2> QED BY <2>1, <2>2, <2>3 DEF BlockedIsRecorded
<1> QED BY <1>1, StreamsInvariant, PTL

-----------------------------------------------------------------------------
\* The ring of a queue q: the slot of its i-th byte, how many bytes it has, and
\* the bytes.
Slot(q, i) == (q.tail + i - 1) % bufsize
LengthOf(q) == IF q.head >= q.tail THEN q.head - q.tail ELSE bufsize - (q.tail - q.head)
ContentsOf(q) == [i \in 1..LengthOf(q) |-> q.buf[Slot(q, i)]]

\* A slot is found by at most one subtraction.
LEMMA SlotFacts ==
  ASSUME NEW q \in IoqState, NEW i \in 1..bufsize
  PROVE  /\ Slot(q, i) \in 0..bufsize - 1
         /\ Slot(q, i) = IF q.tail + i - 1 < bufsize THEN q.tail + i - 1
                         ELSE q.tail + i - 1 - bufsize
<1> USE IoQueueAssumption
<1> DEFINE a == q.tail + i - 1
<1>1. a \in Nat /\ a < bufsize + bufsize
  BY DEF IoqState
<1> HIDE DEF a
<1>2. a % bufsize = IF a < bufsize THEN a ELSE a - bufsize
  BY <1>1, Turn
<1>3. Slot(q, i) = a % bufsize
  BY DEF Slot, a
<1>4. a % bufsize \in 0..bufsize - 1
  BY <1>1, <1>2
<1>5. Slot(q, i) = IF a < bufsize THEN a ELSE a - bufsize
  BY <1>2, <1>3
<1>6. q.tail \in Nat
  BY DEF IoqState
<1> QED BY <1>3, <1>4, <1>5, <1>6 DEF a

\* The bytes are in the slots from tail up to head, and none of them in head.
LEMMA ContentsFacts ==
  ASSUME NEW q \in IoqState
  PROVE  /\ LengthOf(q) \in 0..bufsize - 1
         /\ \A i \in 1..LengthOf(q) : Slot(q, i) # q.head
         /\ Slot(q, LengthOf(q) + 1) = q.head
         /\ ContentsOf(q) \in Seq(Byte \cup {NULL}) /\ Len(ContentsOf(q)) = LengthOf(q)
         /\ \A i \in 1..LengthOf(q) : ContentsOf(q)[i] = q.buf[Slot(q, i)]
<1> USE IoQueueAssumption
<1>1. q.tail \in 0..bufsize - 1 /\ q.head \in 0..bufsize - 1
      /\ q.buf \in [0..bufsize - 1 -> Byte \cup {NULL}]
  BY DEF IoqState
<1>2. LengthOf(q) \in 0..bufsize - 1
  BY <1>1 DEF LengthOf
<1>3. ASSUME NEW i \in 1..LengthOf(q) PROVE Slot(q, i) # q.head /\ Slot(q, i) \in 0..bufsize - 1
  <2>1. i \in 1..bufsize
    BY <1>2
  <2>2. /\ Slot(q, i) \in 0..bufsize - 1
        /\ Slot(q, i) = IF q.tail + i - 1 < bufsize THEN q.tail + i - 1
                        ELSE q.tail + i - 1 - bufsize
    BY <2>1, SlotFacts
  <2> QED BY <1>1, <2>1, <2>2 DEF LengthOf
<1>4. Slot(q, LengthOf(q) + 1) = q.head
  <2> DEFINE i == LengthOf(q) + 1
  <2>1. i \in 1..bufsize
    BY <1>2
  <2> HIDE DEF i
  <2>2. Slot(q, i) = IF q.tail + i - 1 < bufsize THEN q.tail + i - 1
                     ELSE q.tail + i - 1 - bufsize
    BY <2>1, SlotFacts
  <2>3. q.tail + i - 1 = IF q.head >= q.tail THEN q.head ELSE q.head + bufsize
    <3>1. CASE q.head >= q.tail
      BY <1>1, <3>1 DEF i, LengthOf
    <3>2. CASE ~(q.head >= q.tail)
      BY <1>1, <3>2 DEF i, LengthOf
    <3> QED BY <3>1, <3>2
  <2>4. Slot(q, i) = q.head
    BY <1>1, <2>1, <2>2, <2>3
  <2> QED BY <2>4 DEF i
<1>5. \A i \in 1..LengthOf(q) : q.buf[Slot(q, i)] \in Byte \cup {NULL}
  BY <1>1, <1>3
<1>6. /\ ContentsOf(q) \in Seq(Byte \cup {NULL}) /\ Len(ContentsOf(q)) = LengthOf(q)
      /\ \A i \in 1..LengthOf(q) : ContentsOf(q)[i] = q.buf[Slot(q, i)]
  BY <1>2, <1>5 DEF ContentsOf
<1> QED BY <1>2, <1>3, <1>4, <1>6

\* ioq_getchar() takes the oldest byte.
LEMMA GetIsGet ==
  ASSUME NEW q \in IoqState, NEW r \in IoqState, q.head # q.tail,
         r = [q EXCEPT !.tail = next_pos(q.tail), !.producer = NULL]
  PROVE  ContentsOf(q) # << >> /\ ContentsOf(r) = Tail(ContentsOf(q))
<1> USE IoQueueAssumption
<1>1. /\ q.tail \in 0..bufsize - 1 /\ q.head \in 0..bufsize - 1
      /\ r.head = q.head /\ r.buf = q.buf
      /\ r.tail = IF q.tail + 1 < bufsize THEN q.tail + 1 ELSE 0
  BY NextPos DEF IoqState
<1> DEFINE c == ContentsOf(q)
           d == ContentsOf(r)
<1>2. /\ LengthOf(q) \in 0..bufsize - 1
      /\ c \in Seq(Byte \cup {NULL}) /\ Len(c) = LengthOf(q)
      /\ \A i \in 1..LengthOf(q) : c[i] = q.buf[Slot(q, i)]
  BY ContentsFacts
<1>3. /\ d \in Seq(Byte \cup {NULL}) /\ Len(d) = LengthOf(r)
      /\ \A i \in 1..LengthOf(r) : d[i] = r.buf[Slot(r, i)]
  BY ContentsFacts
<1>4. LengthOf(q) \in Nat \ {0} /\ LengthOf(r) = LengthOf(q) - 1
  BY <1>1 DEF LengthOf
<1>5. ASSUME NEW i \in 1..LengthOf(r) PROVE Slot(r, i) = Slot(q, i + 1)
  <2>1. i \in 1..bufsize /\ i + 1 \in 1..bufsize
    BY <1>2, <1>4
  <2> DEFINE j == i + 1
  <2>2. j \in 1..bufsize
    BY <2>1
  <2> HIDE DEF j
  <2>3. Slot(q, j) = IF q.tail + j - 1 < bufsize THEN q.tail + j - 1
                     ELSE q.tail + j - 1 - bufsize
    BY <2>2, SlotFacts
  <2>4. Slot(r, i) = IF r.tail + i - 1 < bufsize THEN r.tail + i - 1
                     ELSE r.tail + i - 1 - bufsize
    BY <2>1, SlotFacts
  <2>5. Slot(r, i) = Slot(q, j)
    BY <1>1, <2>1, <2>3, <2>4 DEF j
  <2> QED BY <2>5 DEF j
<1> HIDE DEF c, d
<1>6. \A i \in 1..LengthOf(r) : i + 1 \in 1..LengthOf(q) /\ d[i] = c[i + 1]
  BY <1>1, <1>2, <1>3, <1>4, <1>5
<1>7. c # << >> /\ d = Tail(c)
  BY <1>2, <1>3, <1>4, <1>6
<1> QED BY <1>7 DEF c, d

\* A byte put into the ring is the last one of the queue.
LEMMA PutIsPut ==
  ASSUME NEW q \in IoqState, NEW r \in IoqState, next_pos(q.head) # q.tail, NEW b \in Byte,
         r = [q EXCEPT !.buf[q.head] = b, !.head = next_pos(q.head), !.consumer = NULL]
  PROVE  Len(ContentsOf(q)) < bufsize - 1 /\ ContentsOf(r) = Append(ContentsOf(q), b)
<1> USE IoQueueAssumption
<1>1. /\ q.tail \in 0..bufsize - 1 /\ q.head \in 0..bufsize - 1
      /\ q.buf \in [0..bufsize - 1 -> Byte \cup {NULL}]
      /\ r.tail = q.tail /\ r.buf = [q.buf EXCEPT ![q.head] = b]
      /\ r.head = IF q.head + 1 < bufsize THEN q.head + 1 ELSE 0
      /\ r.head # q.tail
  BY NextPos DEF IoqState
<1> DEFINE c == ContentsOf(q)
           d == ContentsOf(r)
           n == LengthOf(q)
<1>2. /\ n \in 0..bufsize - 1
      /\ \A i \in 1..n : Slot(q, i) # q.head
      /\ Slot(q, n + 1) = q.head
      /\ c \in Seq(Byte \cup {NULL}) /\ Len(c) = n
      /\ \A i \in 1..n : c[i] = q.buf[Slot(q, i)]
  BY ContentsFacts
<1>3. /\ d \in Seq(Byte \cup {NULL}) /\ Len(d) = LengthOf(r)
      /\ \A i \in 1..LengthOf(r) : d[i] = r.buf[Slot(r, i)]
  BY ContentsFacts
<1>4. LengthOf(r) = n + 1 /\ n < bufsize - 1
  <2>1. CASE q.head + 1 < bufsize
    BY <1>1, <2>1 DEF LengthOf
  <2>2. CASE ~(q.head + 1 < bufsize)
    BY <1>1, <2>2 DEF LengthOf
  <2> QED BY <2>1, <2>2
<1>5. \A i \in 1..bufsize : Slot(r, i) = Slot(q, i)
  BY <1>1 DEF Slot
<1> HIDE DEF c, d, n
<1>6. ASSUME NEW i \in 1..n PROVE d[i] = c[i]
  <2>1. i \in 1..bufsize /\ i \in 1..LengthOf(r)
    BY <1>2, <1>4
  <2>2. d[i] = r.buf[Slot(q, i)] /\ c[i] = q.buf[Slot(q, i)] /\ Slot(q, i) # q.head
    BY <1>2, <1>3, <1>5, <2>1
  <2>3. Slot(q, i) \in 0..bufsize - 1
    BY <2>1, SlotFacts
  <2> QED BY <1>1, <2>2, <2>3
<1>7. d[n + 1] = b
  <2>1. n + 1 \in 1..bufsize /\ n + 1 \in 1..LengthOf(r)
    BY <1>2, <1>4
  <2>2. d[n + 1] = r.buf[q.head]
    BY <1>2, <1>3, <1>5, <2>1
  <2> QED BY <1>1, <2>2
<1>8. d = Append(c, b)
  <2> DEFINE e == Append(c, b)
  <2>1. e \in Seq(Byte \cup {NULL}) /\ Len(e) = n + 1
        /\ e[n + 1] = b /\ \A i \in 1..n : e[i] = c[i]
    BY <1>2
  <2> HIDE DEF e
  <2>2. \A i \in 1..Len(e) : e[i] = d[i]
    BY <1>2, <1>6, <1>7, <2>1
  <2> QED BY <1>2, <1>3, <1>4, <2>1, <2>2 DEF e
<1> QED BY <1>2, <1>4, <1>8 DEF c, d

\* The ring implements a FIFO queue of bufsize - 1 bytes: no byte is lost,
\* doubled or reordered, whoever puts and takes them and wherever head and tail
\* wrap.
THEOREM RingIsFifo == Spec => IsFifo
<1>1. Init => F!Init
  <2> SUFFICES ASSUME Init PROVE F!Init
    OBVIOUS
  <2>1. ioq \in IoqState /\ ioq.head = 0 /\ ioq.tail = 0
    BY StreamsInit DEF StreamsInv, TypeOK, Init, InitQueue, ioqueue_init
  <2>2. LengthOf(ioq) = 0
    BY <2>1 DEF LengthOf
  <2>3. Contents = ContentsOf(ioq)
    BY DEF Contents, ContentsOf, ioq_length, LengthOf, Slot
  <2> QED BY <2>1, <2>2, <2>3, ContentsFacts DEF F!Init
<1>2. StreamsInv /\ StreamsInv' /\ [Next]_svars => [F!Next]_Contents
  <2> SUFFICES ASSUME StreamsInv, StreamsInv', [Next]_svars PROVE [F!Next]_Contents
    OBVIOUS
  <2>1. ioq \in IoqState /\ ioq' \in IoqState
    BY DEF StreamsInv, TypeOK
  <2>0. Contents = ContentsOf(ioq) /\ Contents' = ContentsOf(ioq')
    BY DEF Contents, ContentsOf, ioq_length, LengthOf, Slot
  <2>2. CASE UNCHANGED svars
    BY <2>2 DEF svars, vars, Contents, ioq_length
  <2>3. ASSUME UNCHANGED <<ioq.buf, ioq.head, ioq.tail>>
        PROVE  UNCHANGED Contents
    BY <2>3 DEF Contents, ioq_length
  <2>4. ASSUME NEW t \in Task, ioq_getchar(t)
        PROVE  F!Next
    <3>1. /\ ioq.head # ioq.tail
          /\ ioq' = [ioq EXCEPT !.tail = next_pos(ioq.tail), !.producer = NULL]
      BY <2>4 DEF ioq_getchar, ioq_empty
    <3>2. ContentsOf(ioq) # << >> /\ ContentsOf(ioq') = Tail(ContentsOf(ioq))
      BY <2>1, <3>1, GetIsGet
    <3> QED BY <2>0, <3>2 DEF F!Next, F!Get
  <2>5. ASSUME NEW b \in Byte, KeyPress(b) \/ \E t \in Task : ioq_putchar(t, b)
        PROVE  F!Next
    <3>1. /\ next_pos(ioq.head) # ioq.tail
          /\ ioq' = [ioq EXCEPT !.buf[ioq.head] = b, !.head = next_pos(ioq.head), !.consumer = NULL]
      BY <2>5 DEF KeyPress, ioq_putchar, ioq_full, put_byte
    <3>2. Len(ContentsOf(ioq)) < bufsize - 1 /\ ContentsOf(ioq') = Append(ContentsOf(ioq), b)
      BY <2>1, <3>1, PutIsPut
    <3> QED BY <2>0, <3>2 DEF F!Next, F!Put
  <2>6. ASSUME NEW t \in Task, MustWait(t) \/ LockBlocks(t) \/ GetWait(t) \/ PutWait(t) \/ Woken(t)
        PROVE  UNCHANGED <<ioq.buf, ioq.head, ioq.tail>>
    BY <2>1, <2>6 DEF MustWait, LockBlocks, GetWait, PutWait, Woken, IoqState
  <2>7. ASSUME NEW t \in Task, NEW n \in 1..MaxCount,
               sys_read(t, n) \/ pipe_read(t, n) \/ pipe_write(t, n)
        PROVE  UNCHANGED ioq
    BY <2>7 DEF sys_read, pipe_read, pipe_write, Begin
  <2>8. CASE Tick \/ Idles
    BY <2>3, <2>8 DEF Tick, Idles, Preempt, IdleLoop
  <2> QED BY <2>2, <2>3, <2>4, <2>5, <2>6, <2>7, <2>8 DEF Next, Move, QueueStep
<1> QED BY <1>1, <1>2, StreamsInvariant, PTL DEF Spec, IsFifo, F!Spec
=============================================================================
