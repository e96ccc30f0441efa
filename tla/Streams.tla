------------------------------ MODULE Streams ------------------------------
(***************************************************************************)
(* The two uses of an ioqueue.                                             *)
(*                                                                         *)
(* kbd_buf of device/keyboard.c: the interrupt handler produces and user   *)
(* processes consume through sys_read(stdin_no).  The handler runs on the  *)
(* stack of whatever task it interrupts and must not block; it drops a key *)
(* when the buffer is full.                                                *)
(*                                                                         *)
(* A pipe of shell/pipe.c: user processes read and write through           *)
(* pipe_read() and pipe_write(), which limit a call to what the buffer     *)
(* holds, or has room for, when the call starts.                           *)
(***************************************************************************)
EXTENDS IoQueue

CONSTANTS
  Reader, Writer,  \* the tasks that have either end of the pipe open
  First, Others,   \* the order in which the tasks are created
  MaxCount         \* bound: bytes asked for by one call

ASSUME StreamsAssumption ==
  /\ First \in Task
  /\ Others \in Seq(Task) /\ NoDuplicate(Others)
  /\ \A t \in Task : elem_find(Others, t) <=> t # First
  /\ Reader \cup Writer \subseteq Task
  /\ MaxCount \in Nat

VARIABLE use       \* what the ioqueue is, "keyboard" or "pipe"

svars == <<vars, use>>

Init ==
  /\ InitQueue(First, Others)
  /\ use \in {"keyboard", "pipe"}

\* Begin to move size bytes; a call for none returns at once.
Begin(t, l, size) ==
  /\ pc' = [pc EXCEPT ![t] = IF size = 0 THEN "out" ELSE l]
  /\ left' = [left EXCEPT ![t] = size]
  /\ UNCHANGED <<k, ioq, use>>

\* sys_read(stdin_no, buf, count)
sys_read(t, count) ==
  /\ use = "keyboard"
  /\ At(t, "out")
  /\ Begin(t, "get", count)

\* Mutant: the handler does not look whether the buffer is full.
KeyPress_overwrites(b) ==
  /\ use = "keyboard"
  /\ ~k.panic
  /\ IntrOn(k.cur)
  /\ put_byte(b)
  /\ UNCHANGED <<pc, left, use>>

\* A key with a character: ioq_putchar() if the buffer is not full.
KeyPress(b) ==
  /\ use = "keyboard"
  /\ ~k.panic
  /\ IntrOn(k.cur)
  /\ ~ioq_full
  /\ put_byte(b)
  /\ UNCHANGED <<pc, left, use>>

pipe_read(t, count) ==
  /\ use = "pipe"
  /\ At(t, "out") /\ t \in Reader
  /\ Begin(t, "get", IF ioq_length > count THEN count ELSE ioq_length)

pipe_write(t, count) ==
  /\ use = "pipe"
  /\ At(t, "out") /\ t \in Writer
  /\ LET ioq_left == bufsize - ioq_length
     IN  Begin(t, "put", IF ioq_left > count THEN count ELSE ioq_left)

\* The steps of module IoQueue.
Move(t) == QueueStep(t) /\ UNCHANGED use
Tick == Preempt /\ UNCHANGED use
Idles == IdleLoop /\ UNCHANGED use

Next ==
  \/ \E t \in Task :
       Move(t) \/ \E n \in 1..MaxCount : sys_read(t, n) \/ pipe_read(t, n) \/ pipe_write(t, n)
  \/ \E b \in Byte : KeyPress(b)
  \/ Tick \/ Idles

Spec == Init /\ [][Next]_svars

\* The timer ticks, idle and the kernel run.  Keys go on being pressed.
FairSpec ==
  /\ Spec
  /\ WF_svars(Tick) /\ WF_svars(Idles)
  /\ \A t \in Task : WF_svars(Move(t))
  /\ SF_svars(\E b \in Byte : KeyPress(b))

-----------------------------------------------------------------------------
\* When keys go on being pressed, not all of the tasks that read the keyboard
\* stay in their calls, though one wakeup may find the key taken by another task.
SomeoneReturns ==
  (use = "keyboard" /\ \A t \in Task : pc[t] # "out") ~> (\E t \in Task : pc[t] = "out")

\* pipe_write() takes "the smaller amount, to avoid blocking" (pipe.c:63): what
\* it has counted has room, so that it never waits.
WriteNeverWaits ==
  use = "pipe" => \A t \in Task : pc[t] \notin {"put_lock", "put_wait"}
=============================================================================
