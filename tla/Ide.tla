-------------------------------- MODULE Ide --------------------------------
(***************************************************************************)
(* One channel of device/ide.c: ide_read() and ide_write() with the        *)
(* channel's lock, the semaphore disk_done, the flag expecting_intr, the   *)
(* interrupt handler and busy_wait(), which sleeps with mtime_sleep() of   *)
(* device/timer.c.  main runs with interrupts on, user processes call the  *)
(* driver inside system calls, with interrupts off.                        *)
(*                                                                         *)
(* The disk is external.  It follows ATA: a command makes it busy; a read  *)
(* raises an interrupt when a sector is ready; a write asks for data       *)
(* without one and raises it when a sector has been taken.  With more than *)
(* one sector in a command there is an interrupt for each of them; a       *)
(* command sent to a busy disk takes the place of the one it works on.     *)
(* The 8259A keeps one request while interrupts are off.                   *)
(***************************************************************************)
EXTENDS Semaphore

CONSTANTS
  main,       \* main_thread
  User,       \* user processes that read or write files
  NULL,
  MaxSec,     \* bound: sectors of one command
  MaxChunk,   \* bound: commands of one ide_read() or ide_write()
  TimeLimit,  \* 30 * 1000, where time_limit of busy_wait() starts
  Slow,       \* a disk may still be busy when busy_wait() looks at it
  Order       \* the order of the user processes in the ready list

ASSUME IdeAssumption ==
  /\ Thread = User \cup {main, idle} /\ main # idle
  /\ User \cap {main, idle} = {}
  /\ NULL \notin Thread
  /\ MaxSec \in Nat \ {0} /\ MaxChunk \in Nat \ {0}
  /\ TimeLimit \in Nat \ {0}
  /\ Slow \in BOOLEAN
  /\ Order \in Seq(User) /\ NoDuplicate(Order)
  /\ \A u \in User : elem_find(Order, u)

Client == User \cup {main}

VARIABLES
  k,               \* scheduler state
  lock,            \* my_channel->lock: its semaphore
  disk_done,       \* my_channel->disk_done
  expecting_intr,  \* my_channel->expecting_intr
  disk,            \* the disk: its stage, and for whom and how many sectors
  irq,             \* an interrupt is pending in the 8259A
  pc,              \* where each client is
  op,              \* its call: kind, commands left and sectors of a command
  time_limit,      \* time_limit of its busy_wait()
  ticked,          \* a timer tick came since the client began to sleep
  age              \* history: ticks since its busy_wait() began, up to TimeLimit

chanvars == <<lock, disk_done, expecting_intr>>
timevars == <<time_limit, ticked, age>>
vars == <<k, lock, disk_done, expecting_intr, disk, irq, pc, op, time_limit, ticked, age>>

\* lock    lock_acquire()
\* cmd     select_sector() and cmd_out()
\* down    sema_down(&disk_done)
\* busy    busy_wait()
\* sleep   mtime_sleep() in busy_wait()
\* data    read_from_sector() or write2sector()
\* unlock  lock_release()
Label == {"out", "lock", "cmd", "down", "busy", "sleep", "data", "unlock"}

Idle == [stage |-> "none", for |-> NULL, sec |-> 0]

NoCall == [kind |-> "read", chunks |-> 0, sec |-> 1]

At(t, l) == ~k.panic /\ k.cur = t /\ pc[t] = l
Goto(t, l) == pc' = [pc EXCEPT ![t] = l]

\* IF while t is on the processor.
IntrOn(t) == t \in {main, idle} \cup {u \in User : pc[u] = "out"}

-----------------------------------------------------------------------------
\* main runs, the user processes and idle are ready.
Init ==
  /\ k = [status |-> [t \in Thread |-> IF t = main THEN "RUNNING" ELSE "READY"],
          ready  |-> Append(Order, idle),
          cur    |-> main,
          ticks  |-> Priority,
          panic  |-> FALSE]
  /\ lock = sema_init(1)
  /\ disk_done = sema_init(0)
  /\ expecting_intr = FALSE
  /\ disk = Idle
  /\ irq = FALSE
  /\ pc = [t \in Client |-> "out"]
  /\ op = [t \in Client |-> NoCall]
  /\ time_limit = [t \in Client |-> 0]
  /\ ticked = [t \in Client |-> FALSE]
  /\ age = [t \in Client |-> 0]

\* ide_read() or ide_write() of a number of commands of sec sectors.
Call(t, kind, chunks, sec) ==
  /\ At(t, "out")
  /\ op' = [op EXCEPT ![t] = [kind |-> kind, chunks |-> chunks, sec |-> sec]]
  /\ Goto(t, "lock")
  /\ UNCHANGED <<k, chanvars, disk, irq, timevars>>

\* Mutant: the channel's lock is not waited for.
lock_acquire_skips(t) ==
  /\ At(t, "lock")
  /\ Goto(t, "cmd")
  /\ lock' = [lock EXCEPT !.value = 0]
  /\ UNCHANGED <<k, disk_done, expecting_intr, disk, irq, op, timevars>>

lock_acquire(t) ==
  /\ At(t, "lock")
  /\ IF sema_must_wait(lock)
     THEN /\ k' = sema_wait_sched(k, lock)
          /\ lock' = sema_wait(k, lock)
          /\ UNCHANGED pc
     ELSE /\ k' = sema_take_sched(k, lock)
          /\ lock' = sema_take(lock)
          /\ Goto(t, "cmd")
  /\ UNCHANGED <<disk_done, expecting_intr, disk, irq, op, timevars>>

\* The call of busy_wait().
BeginBusyWait(t) ==
  /\ Goto(t, "busy")
  /\ time_limit' = [time_limit EXCEPT ![t] = TimeLimit]
  /\ age' = [age EXCEPT ![t] = 0]
  /\ ticked' = [ticked EXCEPT ![t] = FALSE]

\* It is over, and its variables with it.
EndBusyWait(t) ==
  /\ Goto(t, "data")
  /\ time_limit' = [time_limit EXCEPT ![t] = 0]
  /\ age' = [age EXCEPT ![t] = 0]

\* Mutant: the flag is not set.
cmd_out_unflagged(t) ==
  /\ At(t, "cmd")
  /\ disk' = [stage |-> IF op[t].kind = "write" /\ ~Slow THEN "data" ELSE "prepare",
              for |-> t, sec |-> op[t].sec]
  /\ IF op[t].kind = "read" THEN Goto(t, "down") /\ UNCHANGED timevars
     ELSE BeginBusyWait(t)
  /\ UNCHANGED <<k, chanvars, irq, op>>

\* expecting_intr = true; the command goes to the disk, whatever it is doing.
cmd_out(t) ==
  /\ At(t, "cmd")
  /\ expecting_intr' = TRUE
  /\ disk' = [stage |-> IF op[t].kind = "write" /\ ~Slow THEN "data" ELSE "prepare",
              for |-> t, sec |-> op[t].sec]
  /\ IF op[t].kind = "read" THEN Goto(t, "down") /\ UNCHANGED timevars
     ELSE BeginBusyWait(t)
  /\ UNCHANGED <<k, lock, disk_done, irq, op>>

\* The loop of ide_read() or ide_write() after a command is done.
NextChunk(t) ==
  /\ op' = [op EXCEPT ![t].chunks = @ - 1]
  /\ Goto(t, IF op[t].chunks = 1 THEN "unlock" ELSE "cmd")

\* A read goes on to busy_wait(), a write is done.
sema_down(t) ==
  /\ At(t, "down")
  /\ IF sema_must_wait(disk_done)
     THEN /\ k' = sema_wait_sched(k, disk_done)
          /\ disk_done' = sema_wait(k, disk_done)
          /\ UNCHANGED <<pc, op, timevars>>
     ELSE /\ k' = sema_take_sched(k, disk_done)
          /\ disk_done' = sema_take(disk_done)
          /\ IF op[t].kind = "read" THEN BeginBusyWait(t) /\ UNCHANGED op
             ELSE NextChunk(t) /\ UNCHANGED timevars
  /\ UNCHANGED <<lock, expecting_intr, disk, irq>>

\* The status register: BSY.
Busy == disk.stage \in {"prepare", "working"}

\* Mutant: the status is not looked at.
busy_wait_blindly(t) ==
  /\ At(t, "busy")
  /\ EndBusyWait(t)
  /\ UNCHANGED <<k, chanvars, disk, irq, op, ticked>>

\* A turn of busy_wait()'s loop.  "time_limit -= 10 >= 0" takes 1 away, the
\* value of the comparison, and the loop ends at 0: false.  Otherwise sleep
\* while BSY is set, else return DRQ.  The callers PANIC when it is false.
busy_wait(t) ==
  /\ At(t, "busy")
  /\ IF time_limit[t] > 1 /\ disk.stage = "data" THEN EndBusyWait(t) /\ UNCHANGED k
     ELSE /\ time_limit' = [time_limit EXCEPT ![t] = @ - 1]
          /\ IF time_limit[t] > 1 /\ Busy THEN Goto(t, "sleep") /\ UNCHANGED k
             ELSE k' = PANIC(k) /\ UNCHANGED pc
          /\ UNCHANGED age
  /\ UNCHANGED <<chanvars, disk, irq, op, ticked>>

\* ticks_to_sleep(1): yield until a tick has been counted.
ticks_to_sleep(t) ==
  /\ At(t, "sleep")
  /\ IF ticked[t]
     THEN Goto(t, "busy") /\ ticked' = [ticked EXCEPT ![t] = FALSE] /\ UNCHANGED k
     ELSE k' = thread_yield(k) /\ UNCHANGED <<pc, ticked>>
  /\ UNCHANGED <<chanvars, disk, irq, op, time_limit, age>>

\* All sectors of the command are moved.  For the sectors after the first the
\* disk raises further interrupts.
transfer(t) ==
  /\ At(t, "data")
  /\ irq' = (irq \/ disk.sec > 1)
  /\ IF op[t].kind = "read"
     THEN disk' = Idle /\ NextChunk(t)
     ELSE disk' = [disk EXCEPT !.stage = "working"] /\ Goto(t, "down") /\ UNCHANGED op
  /\ UNCHANGED <<k, chanvars, timevars>>

lock_release(t) ==
  /\ At(t, "unlock")
  /\ k' = sema_up_sched(k, lock)
  /\ lock' = sema_up(lock)
  /\ Goto(t, "out")
  /\ op' = [op EXCEPT ![t] = NoCall]
  /\ UNCHANGED <<disk_done, expecting_intr, disk, irq, timevars>>

-----------------------------------------------------------------------------
\* The disk: a read has data, a write wants data; a write is done.
DiskReady ==
  /\ disk.stage = "prepare"
  /\ disk' = [disk EXCEPT !.stage = "data"]
  /\ irq' = (irq \/ op[disk.for].kind = "read")
  /\ UNCHANGED <<k, chanvars, pc, op, timevars>>

DiskDone ==
  /\ disk.stage = "working"
  /\ disk' = Idle
  /\ irq' = TRUE
  /\ UNCHANGED <<k, chanvars, pc, op, timevars>>

\* Mutant: the flag stays set.
intr_hd_handler_keeps_flag ==
  /\ ~k.panic
  /\ irq /\ IntrOn(k.cur)
  /\ irq' = FALSE
  /\ k' = sema_up_sched(k, disk_done)
  /\ disk_done' = sema_up(disk_done)
  /\ UNCHANGED <<lock, expecting_intr, disk, pc, op, timevars>>

\* intr_hd_handler(): an interrupt that is not expected is ignored.
intr_hd_handler ==
  /\ ~k.panic
  /\ irq /\ IntrOn(k.cur)
  /\ irq' = FALSE
  /\ IF expecting_intr
     THEN /\ expecting_intr' = FALSE
          /\ k' = sema_up_sched(k, disk_done)
          /\ disk_done' = sema_up(disk_done)
     ELSE UNCHANGED <<k, expecting_intr, disk_done>>
  /\ UNCHANGED <<lock, disk, pc, op, timevars>>

\* The timer: every sleeper's tick count has moved on; the task is preempted.
Tick ==
  /\ ~k.panic
  /\ IntrOn(k.cur)
  /\ k' = intr_timer_handler(k)
  /\ ticked' = [t \in Client |-> pc[t] = "sleep"]
  /\ age' = [t \in Client |->
              IF pc[t] \in {"busy", "sleep"} /\ age[t] < TimeLimit THEN age[t] + 1
              ELSE age[t]]
  /\ UNCHANGED <<chanvars, disk, irq, pc, op, time_limit>>

IdleLoop ==
  /\ ~k.panic
  /\ k.cur = idle
  /\ k' = thread_block(k, "BLOCKED")
  /\ UNCHANGED <<chanvars, disk, irq, pc, op, timevars>>

Driver(t) ==
  \/ lock_acquire(t) \/ cmd_out(t) \/ sema_down(t) \/ busy_wait(t)
  \/ ticks_to_sleep(t) \/ transfer(t) \/ lock_release(t)

Next ==
  \/ \E t \in Client :
       \/ Driver(t)
       \/ \E kind \in {"read", "write"}, n \in 1..MaxChunk, sec \in 1..MaxSec :
            Call(t, kind, n, sec)
  \/ DiskReady \/ DiskDone \/ intr_hd_handler \/ Tick \/ IdleLoop

Spec == Init /\ [][Next]_vars

\* The disk works, the 8259A keeps the interrupts until IF is set, and a task
\* that is given the processor again and again gets on.
FairSpec ==
  /\ Spec
  /\ WF_vars(DiskReady) /\ WF_vars(DiskDone) /\ WF_vars(IdleLoop)
  /\ SF_vars(intr_hd_handler) /\ SF_vars(Tick)
  /\ \A t \in Client : SF_vars(Driver(t))

-----------------------------------------------------------------------------
\* The types of the channel's variables.
TypeOK ==
  /\ k \in SchedState
  /\ lock \in SemaState /\ disk_done \in SemaState
  /\ expecting_intr \in BOOLEAN
  /\ disk \in [stage : {"none", "prepare", "data", "working"},
               for : Client \cup {NULL}, sec : 0..MaxSec]
  /\ irq \in BOOLEAN
  /\ pc \in [Client -> Label]
  /\ op \in [Client -> [kind : {"read", "write"}, chunks : 0..MaxChunk, sec : 1..MaxSec]]
  /\ time_limit \in [Client -> 0..TimeLimit]
  /\ ticked \in [Client -> BOOLEAN]
  /\ age \in [Client -> 0..TimeLimit]

\* The machine stops in the driver in one case only: a PANIC of ide_read() or
\* ide_write() after busy_wait() has looked time_limit - 1 times at a disk that
\* stayed busy, and let a tick pass after each look.  No ASSERT of sync.c fires,
\* the disk is not found without data when it is not busy, and the driver does
\* not give up sooner, whatever the others do while it sleeps.
StopsOnlyLate ==
  k.panic => \E t \in Client : pc[t] = "busy" /\ time_limit[t] = 0 /\ age[t] >= TimeLimit - 1

\* A command's completion is not lost, whether the interrupt comes before or
\* after sema_down(), nor counted twice: as long as it is expected the disk works
\* or an interrupt is pending, and then it is in the semaphore, which is 0 again
\* whenever no command is out.  This holds for commands of several sectors, whose
\* later interrupts may be taken for the completion of a later command.
DoneOnce ==
  /\ \A t \in Client : pc[t] = "down" =>
       IF expecting_intr
       THEN disk_done.value = 0 /\ (irq \/ Busy)
       ELSE disk_done.value = 1 /\ k.status[t] # "BLOCKED"
  /\ (\A t \in Client : pc[t] \in {"out", "lock", "cmd", "unlock"}) =>
       disk_done = sema_init(0)

\* Data are moved only when the disk is ready for them, and for the command of
\* the client that moves them: an interrupt of an earlier command, taken for the
\* completion of this one, makes ide_read() go on too early, but busy_wait() then
\* holds it up.
DataIsOwn == \A t \in Client : pc[t] = "data" => disk.stage = "data" /\ disk.for = t

\* "no need to worry whether this interrupt belongs to this expecting_intr: a
\* read or write takes the lock, which guarantees consistency" (comment in
\* intr_hd_handler): who holds the lock to send a command finds no command of
\* another, or an earlier one of its own, still at work in the disk.
NoCommandWhileBusy ==
  \A t \in Client : pc[t] = "cmd" => ~Busy

\* The disk's interrupt is not missed: a client that waits for it goes on.  A
\* whole call of main, which sleeps with interrupts on, returns once it has the
\* channel, or the machine has stopped.  (The sleep of a user process, which
\* yields with interrupts off, does not end while no other task is ready.)
CallReturns ==
  /\ \A t \in Client : pc[t] = "down" ~> pc[t] # "down"
  /\ pc[main] \notin {"out", "lock"} ~> pc[main] = "out" \/ k.panic
=============================================================================
