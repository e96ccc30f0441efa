------------------------------ MODULE DeviceProofs -----------------------------
(***************************************************************************)
(* The devices: the disk driver of module Ide, and the keyboard and the    *)
(* shell of module Terminal.                                               *)
(*                                                                         *)
(* The driver stops the machine for no disk that answers in time, counts   *)
(* every completion once, and hands over no data but those of its own      *)
(* command, for every number of user processes, every number of sectors in *)
(* a command, and every time the disk takes.  IdeInv is inductive: the     *)
(* lock has one owner, disk_done and expecting_intr agree with the         *)
(* statement it is at, and the disk is in a stage that this statement and  *)
(* what busy_wait() has seen allow.  OwnInv adds which command the disk is *)
(* at, and whether the owner has waited for it; Stopped says with which    *)
(* patience a call gave up.                                                *)
(*                                                                         *)
(* The theorems about the terminal hold for every keyboard, every size of  *)
(* kbd_buf and every length of cmd_line and argv.  ModifiersExact speaks   *)
(* of the moments at which no byte is on its way.  Between them the        *)
(* keyboard has already changed what is held and the handler has not:      *)
(* KeyboardInv says which bytes there can be then and what they will make  *)
(* of each modifier.  LineExact says nothing of the characters in kbd_buf, *)
(* but readline() takes a backspace in buf[0] for the sign of an empty     *)
(* line, and the byte 0 for its end: ShellInv keeps both out of the edited *)
(* line.  cmd_parse() is a recursive function; ParseSteps shows that it    *)
(* exists and ParseExact what each of its states is, from the least number *)
(* of characters for which it would not.                                   *)
(***************************************************************************)
EXTENDS Ide, Terminal, SchedProofs, FiniteSetTheorems, WellFoundedInduction

\* Between lock_acquire() and lock_release().
Inside == {"cmd", "down", "busy", "sleep", "data", "unlock"}

\* Where the scheduler and the two lists have client t.
Listed(t) ==
  /\ k.status[t] \in Awake \cup {"BLOCKED"}
  /\ k.status[t] = "BLOCKED" => pc[t] \in {"lock", "down"}
  /\ elem_find(lock.waiters, t) <=> pc[t] = "lock" /\ k.status[t] = "BLOCKED"
  /\ elem_find(disk_done.waiters, t) <=> pc[t] = "down" /\ k.status[t] = "BLOCKED"
  /\ k.status[t] = "BLOCKED" /\ pc[t] = "down" => disk_done.value = 0
  /\ pc[t] \notin {"out", "unlock"} => op[t].chunks > 0

\* What the completion and the disk are when client t is at a statement.
AtStatement(t) ==
  /\ pc[t] \in {"cmd", "unlock"} => ~expecting_intr /\ disk_done.value = 0
  /\ pc[t] = "down" => (expecting_intr <=> disk_done.value = 0)
  /\ pc[t] \in {"busy", "sleep", "data"} =>
       IF op[t].kind = "read" THEN ~expecting_intr /\ disk_done.value = 0
       ELSE expecting_intr <=> disk_done.value = 0
  /\ pc[t] \in {"busy", "sleep"} \/ (pc[t] = "down" /\ op[t].kind = "read") =>
       disk.stage \in {"prepare", "data"}
  /\ pc[t] = "data" => disk.stage = "data"

ChannelInv ==
  /\ \A t \in Client : Listed(t) /\ AtStatement(t)
  /\ \A t, u \in Client : pc[t] \in Inside /\ pc[u] \in Inside => t = u
  /\ lock.value \in {0, 1}
  /\ lock.value = 1 <=> \A t \in Client : pc[t] \notin Inside
  /\ disk_done.value \in {0, 1}
  /\ expecting_intr => disk_done.value = 0
  /\ lock.value = 1 => ~expecting_intr /\ disk_done.value = 0
  /\ NoDuplicate(lock.waiters) /\ ~elem_find(lock.waiters, idle)
  /\ NoDuplicate(disk_done.waiters) /\ ~elem_find(disk_done.waiters, idle)

IdeInv == TypeOK /\ Running(k) /\ ChannelInv

\* The disk and its interrupt for client t: what the disk holds is for the client
\* that has the channel, and an expected interrupt is pending or comes.
DiskAt(t) ==
  /\ pc[t] \in {"down", "busy", "sleep", "data"} /\ disk.stage # "none" => disk.for = t
  /\ pc[t] = "down" /\ op[t].kind = "write" => disk.stage \in {"working", "none"}
  /\ pc[t] = "down" /\ expecting_intr => irq \/ Busy

\* The time client t has spent in busy_wait(): a tick for each turn of the loop
\* that is over.
Waited(t) ==
  /\ pc[t] \in {"busy", "sleep"} => time_limit[t] > 0
  /\ pc[t] = "busy" => ~ticked[t]
  /\ pc[t] = "busy" \/ (pc[t] = "sleep" /\ ticked[t]) => age[t] + time_limit[t] >= TimeLimit
  /\ pc[t] = "sleep" => age[t] + time_limit[t] + 1 >= TimeLimit

OwnInv == \A t \in Client : DiskAt(t) /\ Waited(t)

\* busy_wait() has given up, and the machine stands still.
GaveUp(t) ==
  /\ pc[t] = "busy" /\ time_limit[t] = 0 /\ age[t] >= TimeLimit - 1
  /\ \A u \in Client : u # t => pc[u] \notin Inside

Stopped == k.panic /\ \E t \in Client : GaveUp(t)

DriverInv == (IdeInv /\ OwnInv) \/ Stopped

-----------------------------------------------------------------------------
\* The tasks as they are created and a channel at rest satisfy the invariants.
LEMMA IdeInit == Init => IdeInv /\ OwnInv
<1> SUFFICES ASSUME Init PROVE IdeInv /\ OwnInv
  OBVIOUS
<1> USE IdeAssumption, SchedAssumption DEF Blocked, Status, Client
<1>1. /\ k.status = [t \in Thread |-> IF t = main THEN "RUNNING" ELSE "READY"]
      /\ k.ready = Append(Order, idle) /\ k.cur = main
      /\ k.ticks = Priority /\ k.panic = FALSE
      /\ lock = sema_init(1) /\ disk_done = sema_init(0) /\ expecting_intr = FALSE
      /\ disk = Idle /\ irq = FALSE
      /\ pc = [t \in Client |-> "out"]
      /\ op = [t \in Client |-> NoCall]
      /\ time_limit = [t \in Client |-> 0] /\ age = [t \in Client |-> 0]
      /\ ticked = [t \in Client |-> FALSE]
  BY DEF Init
<1>2. /\ Order \in Seq(Thread) /\ ~elem_find(Order, idle) /\ idle \in Thread
      /\ \A t \in Thread : elem_find(Order, t) <=> t \in User
  <2>1. Order \in Seq(Thread) /\ \A i \in 1..Len(Order) : Order[i] \in User
    OBVIOUS
  <2>2. \A t \in Thread : elem_find(Order, t) => t \in User
    BY <2>1 DEF elem_find
  <2> QED BY <2>1, <2>2
<1>3. /\ k.ready \in Seq(Thread) /\ NoDuplicate(k.ready)
      /\ \A t \in Thread : elem_find(k.ready, t) <=> t = idle \/ elem_find(Order, t)
  <2>1. k.ready = Append(Order, idle)
    BY <1>1
  <2> QED BY <1>2, <2>1, AppendFacts
<1>4. k \in SchedState
  BY <1>1, <1>3 DEF SchedState, Init
<1>5. Running(k)
  BY <1>1, <1>2, <1>3, <1>4 DEF Running, Sound, Exact
<1>6. TypeOK
  <2>1. sema_init(1) \in SemaState /\ sema_init(0) \in SemaState
    BY DEF sema_init, SemaState
  <2>2. Idle \in [stage : {"none", "prepare", "data", "working"},
                  for : Client \cup {NULL}, sec : 0..MaxSec]
    BY DEF Idle
  <2>3. NoCall \in [kind : {"read", "write"}, chunks : 0..MaxChunk, sec : 1..MaxSec]
    BY DEF NoCall
  <2>4. op \in [Client -> [kind : {"read", "write"}, chunks : 0..MaxChunk, sec : 1..MaxSec]]
    BY <1>1, <2>3
  <2>5. /\ time_limit \in [Client -> 0..TimeLimit] /\ age \in [Client -> 0..TimeLimit]
        /\ ticked \in [Client -> BOOLEAN] /\ irq \in BOOLEAN
    <3>1. 0 \in 0..TimeLimit /\ FALSE \in BOOLEAN
      OBVIOUS
    <3>2. time_limit = [t \in Client |-> 0] /\ age = [t \in Client |-> 0]
      BY <1>1
    <3>3. ticked = [t \in Client |-> FALSE] /\ irq = FALSE
      BY <1>1
    <3>4. time_limit \in [Client -> 0..TimeLimit] /\ age \in [Client -> 0..TimeLimit]
      BY <3>1, <3>2
    <3> QED BY <3>3, <3>4
  <2> QED BY <1>1, <1>4, <2>1, <2>2, <2>4, <2>5 DEF TypeOK, Label
<1>7. /\ lock.value = 1 /\ lock.waiters = << >> /\ disk_done.value = 0
      /\ disk_done.waiters = << >> /\ disk.stage = "none"
  BY <1>1 DEF sema_init, Idle
<1>8. ChannelInv
  <2>1. /\ \A t \in Client : pc[t] = "out" /\ k.status[t] \in {"RUNNING", "READY"}
        /\ ~expecting_intr /\ lock.value = 1 /\ lock.waiters = << >>
        /\ disk_done.value = 0 /\ disk_done.waiters = << >>
    BY <1>1, <1>7
  <2>2. \A t \in Thread : ~elem_find(lock.waiters, t) /\ ~elem_find(disk_done.waiters, t)
    BY <2>1 DEF elem_find
  <2>3. NoDuplicate(lock.waiters) /\ NoDuplicate(disk_done.waiters)
    BY <2>1 DEF NoDuplicate
  <2>4. \A t \in Client : Listed(t) /\ AtStatement(t)
    BY <2>1, <2>2 DEF Listed, AtStatement, Awake
  <2> QED BY <2>1, <2>2, <2>3, <2>4 DEF ChannelInv, Inside
<1>9. OwnInv
  BY <1>1 DEF OwnInv, DiskAt, Waited
<1> QED BY <1>5, <1>6, <1>8, <1>9 DEF IdeInv

\* The client on the processor is RUNNING and in neither list.
LEMMA RunnerListed ==
  ASSUME IdeInv, NEW t \in Client, k.cur = t
  PROVE  /\ k.status[t] = "RUNNING" /\ t # idle /\ t \in Thread
         /\ ~elem_find(lock.waiters, t) /\ ~elem_find(disk_done.waiters, t)
BY IdeAssumption DEF IdeInv, Running, ChannelInv, Listed, Client

\* The loop of ide_read() or ide_write() counts its commands down to 0.
LEMMA NextChunkSound ==
  ASSUME TypeOK, NEW t \in Client, op[t].chunks > 0, NextChunk(t)
  PROVE  /\ op' \in [Client -> [kind : {"read", "write"}, chunks : 0..MaxChunk, sec : 1..MaxSec]]
         /\ op'[t].kind = op[t].kind
         /\ pc'[t] \in {"cmd", "unlock"} /\ (pc'[t] # "unlock" => op'[t].chunks > 0)
         /\ pc' \in [Client -> Label]
         /\ \A u \in Client : u # t => op'[u] = op[u] /\ pc'[u] = pc[u]
<1> USE IdeAssumption
<1> DEFINE Op == [kind : {"read", "write"}, chunks : 0..MaxChunk, sec : 1..MaxSec]
           o == [op[t] EXCEPT !.chunks = op[t].chunks - 1]
<1>1. op \in [Client -> Op] /\ op[t] \in Op /\ op[t].chunks \in 1..MaxChunk
  BY DEF TypeOK
<1>2. o \in Op /\ o.kind = op[t].kind /\ o.chunks = op[t].chunks - 1
  <2>1. op[t].chunks - 1 \in 0..MaxChunk
    BY <1>1
  <2> DEFINE r == op[t]
             n == r.chunks - 1
  <2>2. r \in Op /\ n \in 0..MaxChunk
    BY <1>1, <2>1
  <2> HIDE DEF r, n
  <2>3. [r EXCEPT !.chunks = n] \in Op /\ [r EXCEPT !.chunks = n].kind = r.kind
        /\ [r EXCEPT !.chunks = n].chunks = n
    BY <2>2
  <2> QED BY <2>3 DEF r, n
<1>3. op' = [op EXCEPT ![t] = o]
  BY <1>1 DEF NextChunk
<1> HIDE DEF o
<1>4. /\ op' \in [Client -> Op] /\ op'[t] = o
      /\ \A u \in Client : u # t => op'[u] = op[u]
  BY <1>1, <1>2, <1>3
<1>5. pc' = [pc EXCEPT ![t] = IF op[t].chunks = 1 THEN "unlock" ELSE "cmd"]
  BY DEF NextChunk, Goto
<1> QED BY <1>1, <1>2, <1>4, <1>5 DEF TypeOK, Label

\* The steps of the client with the processor that leave the scheduler and the
\* two semaphores alone.
LEMMA StatementSound ==
  ASSUME IdeInv, NEW t \in Client,
         \/ \E kind \in {"read", "write"}, n \in 1..MaxChunk, sec \in 1..MaxSec : Call(t, kind, n, sec)
         \/ cmd_out(t) \/ (busy_wait(t) /\ time_limit[t] > 1) \/ transfer(t)
  PROVE  IdeInv'
<1> USE IdeAssumption DEF At, Goto, BeginBusyWait, EndBusyWait
<1>1. TypeOK /\ Running(k) /\ ChannelInv /\ Listed(t) /\ AtStatement(t) /\ k.cur = t
  BY DEF IdeInv, ChannelInv, Call, cmd_out, busy_wait, transfer
<1>2. k.status[t] = "RUNNING"
  BY <1>1, RunnerListed
<1>3. UNCHANGED <<lock, disk_done>>
  BY DEF Call, cmd_out, busy_wait, transfer, chanvars
<1>4. UNCHANGED k
  BY <1>1 DEF Call, cmd_out, busy_wait, transfer, AtStatement, Busy
<1>5. CASE \E kind \in {"read", "write"}, n \in 1..MaxChunk, sec \in 1..MaxSec : Call(t, kind, n, sec)
  <2>1. PICK kind \in {"read", "write"}, n \in 1..MaxChunk, sec \in 1..MaxSec : Call(t, kind, n, sec)
    BY <1>5
  <2>2. /\ pc[t] = "out" /\ pc' = [pc EXCEPT ![t] = "lock"]
        /\ op' = [op EXCEPT ![t] = [kind |-> kind, chunks |-> n, sec |-> sec]]
        /\ UNCHANGED <<expecting_intr, disk, irq, time_limit, ticked, age>>
    BY <2>1 DEF Call, chanvars, timevars
  <2>3. TypeOK'
    <3>1. [kind |-> kind, chunks |-> n, sec |-> sec] \in
            [kind : {"read", "write"}, chunks : 0..MaxChunk, sec : 1..MaxSec]
      OBVIOUS
    <3>2. op' \in [Client -> [kind : {"read", "write"}, chunks : 0..MaxChunk, sec : 1..MaxSec]]
      BY <1>1, <2>2, <3>1 DEF TypeOK
    <3>3. pc' \in [Client -> Label]
      BY <1>1, <2>2 DEF TypeOK, Label
    <3> QED BY <1>1, <1>3, <1>4, <2>2, <3>2, <3>3 DEF TypeOK
  <2>4. /\ op'[t].chunks > 0 /\ pc'[t] = "lock"
        /\ \A u \in Client : u # t => op'[u] = op[u] /\ pc'[u] = pc[u]
    BY <1>1, <2>2 DEF TypeOK
  <2>5. ASSUME NEW u \in Client PROVE Listed(u)' /\ AtStatement(u)'
    BY <1>1, <1>2, <1>3, <1>4, <2>2, <2>4 DEF ChannelInv, Listed, AtStatement
  <2>6. \A u \in Client : pc'[u] \in Inside <=> pc[u] \in Inside
    BY <2>2, <2>4 DEF Inside
  <2>7. ChannelInv'
    BY <1>1, <1>3, <2>2, <2>5, <2>6 DEF ChannelInv
  <2> QED BY <1>1, <1>4, <2>3, <2>7 DEF IdeInv
<1>6. CASE cmd_out(t) \/ (busy_wait(t) /\ time_limit[t] > 1) \/ transfer(t)
  <2>1. pc[t] \in {"cmd", "busy", "data"} /\ pc'[t] \in Inside /\ \A u \in Client : u # t => pc'[u] = pc[u]
    BY <1>1, <1>6 DEF cmd_out, busy_wait, transfer, NextChunk, TypeOK, Inside
  <2>2. \A u \in Client : u # t => pc[u] \notin Inside
    BY <1>1, <2>1 DEF ChannelInv, Inside
  <2>3. \A u \in Client : pc'[u] \in Inside <=> pc[u] \in Inside
    BY <2>1 DEF Inside
  <2>4. \A u \in Client : u # t => op'[u] = op[u]
    BY <1>1, <1>6 DEF cmd_out, busy_wait, transfer, NextChunk, TypeOK
  <2>5. /\ op[t].chunks > 0 /\ op'[t].kind = op[t].kind
        /\ pc'[t] # "unlock" => op'[t].chunks > 0
        /\ op' \in [Client -> [kind : {"read", "write"}, chunks : 0..MaxChunk, sec : 1..MaxSec]]
    <3>1. op[t].chunks > 0
      BY <1>1, <2>1 DEF Listed
    <3>2. CASE op' = op
      BY <1>1, <3>1, <3>2 DEF TypeOK
    <3>3. CASE NextChunk(t)
      BY <1>1, <3>1, <3>3, NextChunkSound
    <3> QED BY <1>6, <3>2, <3>3 DEF cmd_out, busy_wait, transfer
  <2>6. disk' \in [stage : {"none", "prepare", "data", "working"}, for : Client \cup {NULL}, sec : 0..MaxSec]
    <3>1. CASE cmd_out(t)
      BY <1>1, <3>1 DEF cmd_out, TypeOK
    <3>2. CASE busy_wait(t)
      BY <1>1, <3>2 DEF busy_wait, TypeOK
    <3>3. CASE transfer(t)
      <4>1. disk \in [stage : {"none", "prepare", "data", "working"}, for : Client \cup {NULL}, sec : 0..MaxSec]
        BY <1>1 DEF TypeOK
      <4>2. disk' = Idle \/ disk' = [disk EXCEPT !.stage = "working"]
        BY <3>3 DEF transfer
      <4> QED BY <4>1, <4>2 DEF Idle
    <3> QED BY <1>6, <3>1, <3>2, <3>3
  <2>7. TypeOK'
    <3>1. \E l \in Label : pc' = [pc EXCEPT ![t] = l]
      <4>1. CASE cmd_out(t)
        BY <4>1 DEF cmd_out, Label
      <4>2. CASE busy_wait(t) /\ time_limit[t] > 1
        BY <1>1, <4>2 DEF busy_wait, Label, AtStatement, Busy
      <4>3. CASE transfer(t)
        BY <4>3 DEF transfer, NextChunk, Label
      <4> QED BY <1>6, <4>1, <4>2, <4>3
    <3>2. pc' \in [Client -> Label]
      BY <1>1, <3>1 DEF TypeOK
    <3>3. expecting_intr' \in BOOLEAN /\ irq' \in BOOLEAN
      BY <1>1, <1>6 DEF TypeOK, cmd_out, busy_wait, transfer, chanvars
    <3>4. /\ ticked' \in [Client -> BOOLEAN]
          /\ time_limit' \in [Client -> 0..TimeLimit] /\ age' \in [Client -> 0..TimeLimit]
      <4>1. /\ time_limit \in [Client -> 0..TimeLimit] /\ age \in [Client -> 0..TimeLimit]
            /\ ticked \in [Client -> BOOLEAN] /\ 0 \in 0..TimeLimit /\ TimeLimit \in 0..TimeLimit
        BY <1>1 DEF TypeOK
      <4>2. time_limit[t] > 1 => time_limit[t] - 1 \in 0..TimeLimit
        BY <4>1
      <4> QED BY <1>6, <4>1, <4>2 DEF cmd_out, busy_wait, transfer, timevars
    <3> QED BY <1>1, <1>3, <1>4, <2>5, <2>6, <3>2, <3>3, <3>4 DEF TypeOK
  <2>8. ASSUME NEW u \in Client PROVE Listed(u)'
    <3>1. Listed(u)
      BY <1>1 DEF ChannelInv
    <3> QED BY <1>2, <1>3, <1>4, <2>1, <2>4, <2>5, <3>1 DEF Listed
  <2>9. AtStatement(t)'
    <3>1. CASE cmd_out(t)
      BY <1>1, <1>3, <2>5, <3>1 DEF cmd_out, AtStatement, TypeOK
    <3>2. CASE busy_wait(t)
      BY <1>1, <1>3, <2>5, <3>2 DEF busy_wait, AtStatement, TypeOK, Busy, chanvars
    <3>3. CASE transfer(t)
      <4>1. pc[t] = "data" /\ UNCHANGED <<disk_done, expecting_intr>> /\ disk_done.value = disk_done'.value
        BY <3>3 DEF transfer, chanvars
      <4>2. IF op[t].kind = "read" THEN pc'[t] \in {"unlock", "cmd"} ELSE pc'[t] = "down"
        BY <1>1, <3>3 DEF transfer, NextChunk, TypeOK
      <4> QED BY <1>1, <2>5, <4>1, <4>2 DEF AtStatement
    <3> QED BY <1>6, <3>1, <3>2, <3>3
  <2>10. ASSUME NEW u \in Client PROVE AtStatement(u)'
    BY <2>1, <2>2, <2>9 DEF AtStatement, Inside
  <2>11. lock.value = 0 /\ (expecting_intr' => disk_done'.value = 0)
    <3>1. lock.value = 0
      BY <1>1, <2>1 DEF ChannelInv, Inside
    <3>2. expecting_intr' => disk_done'.value = 0
      BY <1>1, <1>3, <1>6 DEF ChannelInv, cmd_out, busy_wait, transfer, chanvars, AtStatement
    <3> QED BY <3>1, <3>2
  <2>12. ChannelInv'
    BY <1>1, <1>3, <2>3, <2>8, <2>10, <2>11 DEF ChannelInv
  <2> QED BY <1>1, <1>4, <2>7, <2>12 DEF IdeInv
<1> QED BY <1>5, <1>6

\* The steps that move awake tasks and leave the channel alone.
LEMMA ShuffleSound ==
  ASSUME IdeInv, Tick \/ IdleLoop \/ \E t \in Client : ticks_to_sleep(t)
  PROVE  IdeInv'
<1> USE IdeAssumption, SchedAssumption DEF Client
<1>1. /\ TypeOK /\ Running(k) /\ ChannelInv
      /\ UNCHANGED <<lock, disk_done, expecting_intr, disk, irq, op>>
  BY DEF IdeInv, Tick, IdleLoop, ticks_to_sleep, chanvars
<1>2. Running(k') /\ \A u \in Client : Same(k, k', u)
  <2>1. CASE Tick
    BY <1>1, <2>1, TimerSound DEF Tick, Shuffled
  <2>2. CASE IdleLoop
    <3>1. k.cur = idle /\ k' = thread_block(k, "BLOCKED")
      BY <2>2 DEF IdleLoop
    <3> QED BY <1>1, <3>1, BlockSound DEF Blocked
  <2>3. ASSUME NEW t \in Client, ticks_to_sleep(t)
        PROVE  Running(k') /\ \A u \in Client : Same(k, k', u)
    <3>1. CASE k' = k
      BY <1>1, <3>1 DEF Same
    <3>2. CASE k' = thread_yield(k)
      BY <1>1, <3>2, YieldSound DEF Shuffled
    <3> QED BY <2>3, <3>1, <3>2 DEF ticks_to_sleep
  <2> QED BY <2>1, <2>2, <2>3
<1>3. /\ pc' \in [Client -> Label] /\ ticked' \in [Client -> BOOLEAN]
      /\ \A u \in Client : pc'[u] = pc[u] \/ (pc[u] = "sleep" /\ pc'[u] = "busy")
      /\ time_limit' \in [Client -> 0..TimeLimit] /\ age' \in [Client -> 0..TimeLimit]
  <2>1. /\ pc \in [Client -> Label] /\ ticked \in [Client -> BOOLEAN]
        /\ time_limit \in [Client -> 0..TimeLimit] /\ age \in [Client -> 0..TimeLimit]
    BY <1>1 DEF TypeOK
  <2>2. CASE Tick
    <3>1. /\ UNCHANGED <<pc, time_limit>> /\ ticked' = [u \in Client |-> pc[u] = "sleep"]
          /\ age' = [u \in Client |->
                      IF pc[u] \in {"busy", "sleep"} /\ age[u] < TimeLimit THEN age[u] + 1
                      ELSE age[u]]
      BY <2>2 DEF Tick
    <3>2. \A u \in Client : age[u] < TimeLimit => age[u] + 1 \in 0..TimeLimit
      BY <2>1
    <3>3. age' \in [Client -> 0..TimeLimit]
      BY <2>1, <3>1, <3>2
    <3>4. ticked' \in [Client -> BOOLEAN]
      BY <3>1, Zenon
    <3> QED BY <2>1, <3>1, <3>3, <3>4
  <2>3. CASE IdleLoop
    BY <2>1, <2>3 DEF IdleLoop, timevars
  <2>4. ASSUME NEW t \in Client, ticks_to_sleep(t)
        PROVE  /\ pc' \in [Client -> Label] /\ ticked' \in [Client -> BOOLEAN]
               /\ \A u \in Client : pc'[u] = pc[u] \/ (pc[u] = "sleep" /\ pc'[u] = "busy")
               /\ UNCHANGED <<time_limit, age>>
    BY <2>1, <2>4 DEF ticks_to_sleep, At, Goto, Label
  <2> QED BY <2>1, <2>2, <2>3, <2>4
<1>4. TypeOK'
  BY <1>1, <1>2, <1>3 DEF TypeOK, Running, Sound
<1>5. ASSUME NEW u \in Client PROVE Listed(u)' /\ AtStatement(u)'
  <2>1. Listed(u) /\ AtStatement(u) /\ Same(k, k', u)
    BY <1>1, <1>2 DEF ChannelInv
  <2>2. Listed(u)'
    BY <1>1, <1>3, <2>1 DEF Listed, Same, Awake
  <2>3. AtStatement(u)'
    BY <1>1, <1>3, <2>1 DEF AtStatement
  <2> QED BY <2>2, <2>3
<1>6. \A u \in Client : pc'[u] \in Inside <=> pc[u] \in Inside
  BY <1>3 DEF Inside
<1>7. ChannelInv'
  BY <1>1, <1>5, <1>6 DEF ChannelInv
<1> QED BY <1>2, <1>4, <1>7 DEF IdeInv

\* The disk goes on, and the controller keeps its interrupt.
LEMMA DiskSound ==
  ASSUME IdeInv, DiskReady \/ DiskDone
  PROVE  IdeInv'
<1>1. /\ TypeOK /\ Running(k) /\ ChannelInv
      /\ UNCHANGED <<k, lock, disk_done, expecting_intr, pc, op, time_limit, ticked, age>>
  BY DEF IdeInv, DiskReady, DiskDone, chanvars, timevars
<1>2. /\ disk' \in [stage : {"none", "prepare", "data", "working"}, for : Client \cup {NULL}, sec : 0..MaxSec]
      /\ (disk.stage = "prepare" /\ disk'.stage = "data") \/ disk.stage = "working"
      /\ irq' \in BOOLEAN
  <2>1. /\ disk \in [stage : {"none", "prepare", "data", "working"}, for : Client \cup {NULL}, sec : 0..MaxSec]
        /\ irq \in BOOLEAN /\ 0 \in 0..MaxSec
    BY <1>1, IdeAssumption DEF TypeOK
  <2>2. CASE DiskReady
    BY <2>1, <2>2 DEF DiskReady
  <2>3. CASE DiskDone
    BY <2>1, <2>3 DEF DiskDone, Idle
  <2> QED BY <2>2, <2>3
<1>3. TypeOK'
  BY <1>1, <1>2 DEF TypeOK
<1>4. ASSUME NEW u \in Client PROVE Listed(u)' /\ AtStatement(u)'
  <2>1. Listed(u) /\ AtStatement(u)
    BY <1>1 DEF ChannelInv
  <2> QED BY <1>1, <1>2, <2>1 DEF Listed, AtStatement
<1>5. ChannelInv'
  BY <1>1, <1>4 DEF ChannelInv
<1> QED BY <1>1, <1>3, <1>5 DEF IdeInv

\* A turn of sema_down(), for lock or for disk_done: client t waits.
LEMMA WaitSound ==
  ASSUME IdeInv, NEW t \in Client, NEW sema \in {lock, disk_done}, k.cur = t,
         sema.value = 0
  PROVE  LET q == sema_wait(k, sema)
             r == sema_wait_sched(k, sema)
         IN  /\ Running(r)
             /\ \A u \in Client : IF u = t THEN r.status[u] = "BLOCKED" ELSE Same(k, r, u)
             /\ q \in SemaState /\ q.value = 0 /\ NoDuplicate(q.waiters)
             /\ ~elem_find(q.waiters, idle)
             /\ \A u \in Client : elem_find(q.waiters, u) <=> u = t \/ elem_find(sema.waiters, u)
<1> USE IdeAssumption, SchedAssumption DEF Client
<1>1. /\ Running(k) /\ k.cur # idle /\ sema \in SemaState
      /\ NoDuplicate(sema.waiters) /\ ~elem_find(sema.waiters, k.cur) /\ ~elem_find(sema.waiters, idle)
  BY RunnerListed DEF IdeInv, TypeOK, ChannelInv
<1>2. LET q == sema_wait(k, sema)
          r == sema_wait_sched(k, sema)
      IN  /\ Running(r)
          /\ \A u \in Thread \ {idle} :
                  IF u = k.cur THEN r.status[u] = "BLOCKED" ELSE Same(k, r, u)
          /\ q \in SemaState /\ q.value = sema.value /\ NoDuplicate(q.waiters)
          /\ \A u \in Thread : elem_find(q.waiters, u) <=> u = k.cur \/ elem_find(sema.waiters, u)
  BY <1>1, SemaWaitSound
<1> QED BY <1>1, <1>2

\* lock_acquire() waits, or gets the channel: disk_done is 0, no interrupt is
\* expected and the list of disk_done is empty then.
LEMMA AcquireSound ==
  ASSUME IdeInv, NEW t \in Client, lock_acquire(t)
  PROVE  IdeInv'
<1> USE IdeAssumption DEF At, Goto
<1>1. /\ TypeOK /\ Running(k) /\ ChannelInv /\ k.cur = t /\ pc[t] = "lock" /\ lock \in SemaState
      /\ UNCHANGED <<disk_done, expecting_intr, disk, irq, op, time_limit, ticked, age>>
  BY DEF IdeInv, lock_acquire, TypeOK, timevars
<1>2. k.status[t] = "RUNNING" /\ ~elem_find(lock.waiters, t) /\ ~elem_find(disk_done.waiters, t)
  BY <1>1, RunnerListed
<1>3. CASE lock.value = 0
  <2>1. k' = sema_wait_sched(k, lock) /\ lock' = sema_wait(k, lock) /\ UNCHANGED pc
    BY <1>3 DEF lock_acquire, sema_must_wait
  <2>2. /\ Running(k')
        /\ \A u \in Client : IF u = t THEN k'.status[u] = "BLOCKED" ELSE Same(k, k', u)
        /\ lock' \in SemaState /\ lock'.value = 0 /\ NoDuplicate(lock'.waiters)
        /\ ~elem_find(lock'.waiters, idle)
        /\ \A u \in Client : elem_find(lock'.waiters, u) <=> u = t \/ elem_find(lock.waiters, u)
    BY <1>1, <1>3, <2>1, WaitSound
  <2>3. TypeOK'
    BY <1>1, <2>1, <2>2 DEF TypeOK, Running, Sound
  <2>4. ASSUME NEW u \in Client PROVE Listed(u)' /\ AtStatement(u)'
    <3>1. Listed(u) /\ AtStatement(u)
      BY <1>1 DEF ChannelInv
    <3>2. AtStatement(u)'
      BY <1>1, <2>1, <3>1 DEF AtStatement
    <3>3. ASSUME u = t PROVE Listed(u)'
      <4>1. k'.status[u] = "BLOCKED" /\ elem_find(lock'.waiters, u) /\ ~elem_find(disk_done'.waiters, u)
        BY <1>1, <1>2, <2>2, <3>3
      <4> QED BY <1>1, <2>1, <3>1, <3>3, <4>1 DEF Listed
    <3>4. ASSUME u # t PROVE Listed(u)'
      <4>1. Same(k, k', u) /\ (elem_find(lock'.waiters, u) <=> elem_find(lock.waiters, u))
        BY <2>2, <3>4
      <4> QED BY <1>1, <2>1, <3>1, <4>1 DEF Listed, Same, Awake
    <3> QED BY <3>2, <3>3, <3>4
  <2>5. ChannelInv'
    BY <1>1, <1>3, <2>1, <2>2, <2>4 DEF ChannelInv
  <2> QED BY <2>2, <2>3, <2>5 DEF IdeInv
<1>4. CASE lock.value # 0
  <2>1. lock.value = 1 /\ \A u \in Client : pc[u] \notin Inside
    BY <1>1, <1>4 DEF ChannelInv
  <2>2. /\ k' = k /\ lock' \in SemaState /\ lock'.value = 0 /\ lock'.waiters = lock.waiters
        /\ pc' = [pc EXCEPT ![t] = "cmd"]
    BY <1>1, <1>4, <2>1, SemaTakeSound DEF lock_acquire, sema_must_wait
  <2>3. TypeOK'
    BY <1>1, <2>2 DEF TypeOK, Label
  <2>4. pc'[t] = "cmd" /\ \A u \in Client : u # t => pc'[u] = pc[u]
    BY <1>1, <2>2 DEF TypeOK
  <2>5. ASSUME NEW u \in Client PROVE Listed(u)' /\ AtStatement(u)'
    <3>1. Listed(u) /\ AtStatement(u) /\ ~expecting_intr /\ disk_done.value = 0
      BY <1>1, <2>1 DEF ChannelInv
    <3> QED BY <1>1, <1>2, <2>2, <2>4, <3>1 DEF Listed, AtStatement
  <2>6. ChannelInv'
    BY <1>1, <2>1, <2>2, <2>4, <2>5 DEF ChannelInv, Inside
  <2> QED BY <1>1, <2>2, <2>3, <2>6 DEF IdeInv
<1> QED BY <1>3, <1>4

\* sema_down(&disk_done) waits, or takes the completion.
LEMMA DownSound ==
  ASSUME IdeInv, NEW t \in Client, sema_down(t)
  PROVE  IdeInv'
<1> USE IdeAssumption DEF At, Goto, BeginBusyWait
<1>1. /\ TypeOK /\ Running(k) /\ ChannelInv /\ k.cur = t /\ pc[t] = "down" /\ disk_done \in SemaState
      /\ UNCHANGED <<lock, expecting_intr, disk, irq>>
  BY DEF IdeInv, sema_down, TypeOK
<1>2. k.status[t] = "RUNNING" /\ ~elem_find(lock.waiters, t) /\ ~elem_find(disk_done.waiters, t)
  BY <1>1, RunnerListed
<1>3. lock.value = 0 /\ \A u \in Client : u # t => pc[u] \notin Inside
  BY <1>1 DEF ChannelInv, Inside
<1>4. AtStatement(t) /\ Listed(t) /\ op[t].chunks > 0
  BY <1>1 DEF ChannelInv, Listed
<1>5. CASE disk_done.value = 0
  <2>1. /\ k' = sema_wait_sched(k, disk_done) /\ disk_done' = sema_wait(k, disk_done)
        /\ UNCHANGED <<pc, op, time_limit, ticked, age>>
    BY <1>5 DEF sema_down, sema_must_wait, timevars
  <2>2. /\ Running(k')
        /\ \A u \in Client : IF u = t THEN k'.status[u] = "BLOCKED" ELSE Same(k, k', u)
        /\ disk_done' \in SemaState /\ disk_done'.value = 0 /\ NoDuplicate(disk_done'.waiters)
        /\ ~elem_find(disk_done'.waiters, idle)
        /\ \A u \in Client : elem_find(disk_done'.waiters, u) <=> u = t \/ elem_find(disk_done.waiters, u)
    BY <1>1, <1>5, <2>1, WaitSound
  <2>3. TypeOK'
    BY <1>1, <2>1, <2>2 DEF TypeOK, Running, Sound
  <2>4. ASSUME NEW u \in Client PROVE Listed(u)' /\ AtStatement(u)'
    <3>1. Listed(u) /\ AtStatement(u)
      BY <1>1 DEF ChannelInv
    <3>2. AtStatement(u)'
      BY <1>1, <1>5, <2>1, <2>2, <3>1 DEF AtStatement
    <3>3. ASSUME u = t PROVE Listed(u)'
      <4>1. k'.status[u] = "BLOCKED" /\ elem_find(disk_done'.waiters, u) /\ ~elem_find(lock'.waiters, u)
        BY <1>1, <1>2, <2>2, <3>3
      <4> QED BY <1>1, <2>1, <2>2, <3>1, <3>3, <4>1 DEF Listed
    <3>4. ASSUME u # t PROVE Listed(u)'
      <4>1. Same(k, k', u) /\ (elem_find(disk_done'.waiters, u) <=> elem_find(disk_done.waiters, u))
        BY <2>2, <3>4
      <4> QED BY <1>1, <2>1, <2>2, <3>1, <4>1 DEF Listed, Same, Awake
    <3> QED BY <3>2, <3>3, <3>4
  <2>5. ChannelInv'
    BY <1>1, <1>5, <2>1, <2>2, <2>4 DEF ChannelInv
  <2> QED BY <2>2, <2>3, <2>5 DEF IdeInv
<1>6. CASE disk_done.value # 0
  <2>1. disk_done.value = 1 /\ ~expecting_intr
    BY <1>1, <1>6 DEF ChannelInv
  <2>2. /\ k' = k /\ disk_done' \in SemaState /\ disk_done'.value = 0
        /\ disk_done'.waiters = disk_done.waiters
    BY <1>1, <1>6, <2>1, SemaTakeSound DEF sema_down, sema_must_wait
  <2>3. /\ op' \in [Client -> [kind : {"read", "write"}, chunks : 0..MaxChunk, sec : 1..MaxSec]]
        /\ op'[t].kind = op[t].kind /\ (pc'[t] # "unlock" => op'[t].chunks > 0)
        /\ IF op[t].kind = "read" THEN pc'[t] = "busy" ELSE pc'[t] \in {"cmd", "unlock"}
        /\ pc' \in [Client -> Label]
        /\ \A u \in Client : u # t => op'[u] = op[u] /\ pc'[u] = pc[u]
    <3>1. CASE op[t].kind = "read"
      BY <1>1, <1>4, <1>6, <3>1 DEF sema_down, sema_must_wait, TypeOK, Label
    <3>2. CASE op[t].kind # "read"
      <4>1. NextChunk(t)
        BY <1>6, <3>2 DEF sema_down, sema_must_wait
      <4> QED BY <1>1, <1>4, <3>2, <4>1, NextChunkSound
    <3> QED BY <3>1, <3>2
  <2>4. TypeOK'
    <3>1. /\ time_limit' \in [Client -> 0..TimeLimit] /\ age' \in [Client -> 0..TimeLimit]
          /\ ticked' \in [Client -> BOOLEAN]
      <4>1. /\ time_limit \in [Client -> 0..TimeLimit] /\ age \in [Client -> 0..TimeLimit]
            /\ ticked \in [Client -> BOOLEAN] /\ 0 \in 0..TimeLimit /\ TimeLimit \in 0..TimeLimit
        BY <1>1 DEF TypeOK
      <4> QED BY <1>6, <4>1 DEF sema_down, sema_must_wait, timevars
    <3> QED BY <1>1, <2>2, <2>3, <3>1 DEF TypeOK
  <2>5. AtStatement(t)'
    BY <1>1, <1>4, <2>1, <2>2, <2>3 DEF AtStatement
  <2>6. ASSUME NEW u \in Client PROVE Listed(u)' /\ AtStatement(u)'
    <3>1. Listed(u) /\ AtStatement(u)
      BY <1>1 DEF ChannelInv
    <3>2. CASE u = t
      BY <1>1, <1>2, <2>2, <2>3, <2>5, <3>1, <3>2 DEF Listed
    <3>3. CASE u # t
      BY <1>1, <1>3, <2>2, <2>3, <3>1, <3>3 DEF Listed, AtStatement, Inside
    <3> QED BY <3>2, <3>3
  <2>7. \A u \in Client : pc'[u] \in Inside <=> pc[u] \in Inside
    BY <1>1, <2>3 DEF Inside
  <2>8. ChannelInv'
    BY <1>1, <1>3, <2>1, <2>2, <2>6, <2>7 DEF ChannelInv
  <2> QED BY <1>1, <2>2, <2>4, <2>8 DEF IdeInv
<1> QED BY <1>5, <1>6

\* sema_up() of lock or of disk_done: the client it wakes leaves the list, and
\* one that stays there is not the first.
LEMMA UpSound ==
  ASSUME IdeInv, NEW sema \in {lock, disk_done}, sema.value = 0
  PROVE  LET q == sema_up(sema)
             r == sema_up_sched(k, sema)
         IN  /\ Running(r) /\ r.cur = k.cur
             /\ q \in SemaState /\ q.value = 1 /\ NoDuplicate(q.waiters)
             /\ ~elem_find(q.waiters, idle)
             /\ \A u \in Client :
                  \/ r.status[u] = k.status[u] /\ (elem_find(q.waiters, u) <=> elem_find(sema.waiters, u))
                  \/ r.status[u] = "READY" /\ elem_find(sema.waiters, u) /\ ~elem_find(q.waiters, u)
             /\ \A u \in Client : elem_find(q.waiters, u) =>
                  \E h \in Client \ {u} : elem_find(sema.waiters, h)
<1> USE IdeAssumption, SchedAssumption DEF Client
<1> DEFINE q == sema_up(sema)
           r == sema_up_sched(k, sema)
<1>1. /\ Running(k) /\ sema \in SemaState /\ NoDuplicate(sema.waiters)
      /\ ~elem_find(sema.waiters, idle)
  BY DEF IdeInv, TypeOK, ChannelInv
<1>2. \A u \in Thread : elem_find(sema.waiters, u) => k.status[u] = "BLOCKED"
  BY <1>1 DEF IdeInv, ChannelInv, Listed
<1>3. /\ Running(r) /\ r.cur = k.cur
      /\ q \in SemaState /\ q.value = 1 /\ NoDuplicate(q.waiters)
      /\ Woke(k, sema, r, q)
  BY <1>1, <1>2, SemaUpSound
<1> HIDE DEF q, r
<1>4. CASE sema.waiters = << >> /\ r = k /\ q.waiters = << >>
  BY <1>1, <1>3, <1>4 DEF q, r, elem_find
<1>5. CASE \E h \in Thread : WokeTask(k, sema, r, q, h)
  <2>1. PICK h \in Thread : WokeTask(k, sema, r, q, h)
    BY <1>5
  <2>2. /\ elem_find(sema.waiters, h) /\ h # idle /\ h \in Client
        /\ r.status = [k.status EXCEPT ![h] = "READY"]
        /\ \A u \in Thread : elem_find(q.waiters, u) <=> u # h /\ elem_find(sema.waiters, u)
    BY <1>1, <2>1 DEF WokeTask
  <2>3. k.status \in [Thread -> Status]
    BY <1>1 DEF Running, Sound, SchedState
  <2>4. /\ r.status[h] = "READY" /\ ~elem_find(q.waiters, h) /\ ~elem_find(q.waiters, idle)
        /\ \A u \in Client : u # h =>
             r.status[u] = k.status[u] /\ (elem_find(q.waiters, u) <=> elem_find(sema.waiters, u))
    BY <1>1, <2>2, <2>3
  <2> QED BY <1>3, <2>2, <2>4 DEF q, r
<1> QED BY <1>3, <1>4, <1>5 DEF Woke

\* lock_release() gives the channel up at rest: disk_done is 0 and no interrupt
\* is expected.
LEMMA ReleaseSound ==
  ASSUME IdeInv, NEW t \in Client, lock_release(t)
  PROVE  IdeInv'
<1> USE IdeAssumption DEF At, Goto
<1>1. /\ TypeOK /\ Running(k) /\ ChannelInv /\ k.cur = t /\ pc[t] = "unlock"
      /\ k' = sema_up_sched(k, lock) /\ lock' = sema_up(lock)
      /\ pc' = [pc EXCEPT ![t] = "out"]
      /\ op' = [op EXCEPT ![t] = NoCall]
      /\ UNCHANGED <<disk_done, expecting_intr, disk, irq, time_limit, ticked, age>>
  BY DEF IdeInv, lock_release, TypeOK, timevars
<1>2. /\ k.status[t] = "RUNNING" /\ ~elem_find(lock.waiters, t)
  BY <1>1, RunnerListed
<1>3. /\ lock.value = 0 /\ \A u \in Client : u # t => pc[u] \notin Inside
      /\ ~expecting_intr /\ disk_done.value = 0
  BY <1>1 DEF ChannelInv, Inside, AtStatement
<1>4. /\ Running(k')
      /\ lock' \in SemaState /\ lock'.value = 1 /\ NoDuplicate(lock'.waiters)
      /\ ~elem_find(lock'.waiters, idle)
      /\ \A u \in Client :
           \/ k'.status[u] = k.status[u] /\ (elem_find(lock'.waiters, u) <=> elem_find(lock.waiters, u))
           \/ k'.status[u] = "READY" /\ elem_find(lock.waiters, u) /\ ~elem_find(lock'.waiters, u)
  BY <1>1, <1>3, UpSound
<1>5. /\ pc' \in [Client -> Label] /\ pc'[t] = "out" /\ \A u \in Client : u # t => pc'[u] = pc[u]
  BY <1>1 DEF TypeOK, Label
<1>6. TypeOK' /\ \A u \in Client : u # t => op'[u] = op[u]
  <2>1. NoCall \in [kind : {"read", "write"}, chunks : 0..MaxChunk, sec : 1..MaxSec]
    BY DEF NoCall
  <2>2. /\ op' \in [Client -> [kind : {"read", "write"}, chunks : 0..MaxChunk, sec : 1..MaxSec]]
        /\ \A u \in Client : u # t => op'[u] = op[u]
    BY <1>1, <2>1 DEF TypeOK
  <2> QED BY <1>1, <1>4, <1>5, <2>2 DEF TypeOK, Running, Sound
<1>7. \A u \in Client : pc'[u] \notin Inside
  BY <1>3, <1>5 DEF Inside
<1>8. ASSUME NEW u \in Client PROVE Listed(u)' /\ AtStatement(u)'
  <2>1. Listed(u) /\ AtStatement(u)
    BY <1>1 DEF ChannelInv
  <2>2. AtStatement(u)'
    BY <1>7 DEF AtStatement, Inside
  <2>3. CASE u = t
    <3>1. k'.status[u] = k.status[u] /\ ~elem_find(lock'.waiters, u)
      BY <1>2, <1>4, <2>3
    <3> QED BY <1>1, <1>2, <1>5, <2>1, <2>2, <2>3, <3>1 DEF Listed
  <2>4. CASE u # t /\ k'.status[u] = k.status[u] /\ (elem_find(lock'.waiters, u) <=> elem_find(lock.waiters, u))
    BY <1>1, <1>5, <1>6, <2>1, <2>2, <2>4 DEF Listed
  <2>5. CASE u # t /\ k'.status[u] = "READY" /\ elem_find(lock.waiters, u) /\ ~elem_find(lock'.waiters, u)
    BY <1>1, <1>5, <1>6, <2>1, <2>2, <2>5 DEF Listed, Awake
  <2> QED BY <1>4, <2>3, <2>4, <2>5
<1>9. ChannelInv'
  BY <1>1, <1>3, <1>4, <1>7, <1>8 DEF ChannelInv
<1> QED BY <1>4, <1>6, <1>9 DEF IdeInv

\* The interrupt: an expected one takes the flag down and disk_done to 1, and
\* wakes the client that waits for it, if there is one.
LEMMA InterruptSound ==
  ASSUME IdeInv, intr_hd_handler
  PROVE  IdeInv'
<1> USE IdeAssumption
<1>1. /\ TypeOK /\ Running(k) /\ ChannelInv
      /\ irq' = FALSE /\ UNCHANGED <<lock, disk, pc, op, time_limit, ticked, age>>
  BY DEF IdeInv, intr_hd_handler, timevars
<1>2. CASE ~expecting_intr
  <2>1. UNCHANGED <<k, expecting_intr, disk_done>>
    BY <1>2 DEF intr_hd_handler
  <2>2. TypeOK'
    BY <1>1, <2>1 DEF TypeOK
  <2>3. ASSUME NEW u \in Client PROVE Listed(u)' /\ AtStatement(u)'
    BY <1>1, <2>1 DEF ChannelInv, Listed, AtStatement
  <2>4. ChannelInv'
    BY <1>1, <2>1, <2>3 DEF ChannelInv
  <2> QED BY <1>1, <2>1, <2>2, <2>4 DEF IdeInv
<1>3. CASE expecting_intr
  <2>1. /\ expecting_intr' = FALSE /\ k' = sema_up_sched(k, disk_done) /\ disk_done' = sema_up(disk_done)
    BY <1>3 DEF intr_hd_handler
  <2>2. disk_done.value = 0 /\ lock.value = 0
    BY <1>1, <1>3 DEF ChannelInv
  <2>3. /\ Running(k')
        /\ disk_done' \in SemaState /\ disk_done'.value = 1 /\ NoDuplicate(disk_done'.waiters)
        /\ ~elem_find(disk_done'.waiters, idle)
        /\ \A u \in Client :
             \/ k'.status[u] = k.status[u] /\ (elem_find(disk_done'.waiters, u) <=> elem_find(disk_done.waiters, u))
             \/ k'.status[u] = "READY" /\ elem_find(disk_done.waiters, u) /\ ~elem_find(disk_done'.waiters, u)
        /\ \A u \in Client : elem_find(disk_done'.waiters, u) =>
             \E h \in Client \ {u} : elem_find(disk_done.waiters, h)
    BY <2>1, <2>2, UpSound
  <2>4. TypeOK'
    BY <1>1, <2>1, <2>3 DEF TypeOK, Running, Sound
  <2>5. ASSUME NEW u \in Client PROVE ~elem_find(disk_done'.waiters, u)
    <3>1. SUFFICES ASSUME elem_find(disk_done'.waiters, u) PROVE FALSE
      OBVIOUS
    <3>2. PICK h \in Client \ {u} : elem_find(disk_done.waiters, h)
      BY <2>3, <3>1
    <3>3. elem_find(disk_done.waiters, u)
      BY <2>3, <3>1
    <3>4. pc[u] = "down" /\ pc[h] = "down"
      BY <1>1, <3>2, <3>3 DEF ChannelInv, Listed
    <3> QED BY <1>1, <3>2, <3>4 DEF ChannelInv, Inside
  <2>6. ASSUME NEW u \in Client PROVE Listed(u)' /\ AtStatement(u)'
    <3>1. Listed(u) /\ AtStatement(u)
      BY <1>1 DEF ChannelInv
    <3>2. AtStatement(u)'
      BY <1>1, <1>3, <2>1, <2>3, <3>1 DEF AtStatement
    <3>3. CASE k'.status[u] = k.status[u] /\ (elem_find(disk_done'.waiters, u) <=> elem_find(disk_done.waiters, u))
      BY <1>1, <2>5, <3>1, <3>2, <3>3 DEF Listed
    <3>4. CASE k'.status[u] = "READY" /\ elem_find(disk_done.waiters, u) /\ ~elem_find(disk_done'.waiters, u)
      BY <1>1, <3>1, <3>2, <3>4 DEF Listed, Awake
    <3> QED BY <2>3, <3>3, <3>4
  <2>7. ChannelInv'
    BY <1>1, <2>1, <2>2, <2>3, <2>6 DEF ChannelInv
  <2> QED BY <2>3, <2>4, <2>7 DEF IdeInv
<1> QED BY <1>2, <1>3

-----------------------------------------------------------------------------
\* The step with which busy_wait() gives up: the time it was to wait has passed.
LEMMA GivesUp ==
  ASSUME IdeInv, OwnInv, NEW t \in Client, busy_wait(t), ~(time_limit[t] > 1)
  PROVE  Stopped'
<1> USE IdeAssumption DEF At
<1>1. /\ TypeOK /\ ChannelInv /\ Waited(t) /\ pc[t] = "busy"
      /\ time_limit' = [time_limit EXCEPT ![t] = @ - 1]
      /\ k' = PANIC(k) /\ UNCHANGED <<pc, age>>
  BY DEF IdeInv, OwnInv, busy_wait
<1>2. time_limit[t] = 1 /\ age[t] + time_limit[t] >= TimeLimit /\ time_limit'[t] = 0
      /\ age[t] \in Nat /\ time_limit[t] \in Nat
  BY <1>1 DEF Waited, TypeOK
<1>3. \A u \in Client : u # t => pc[u] \notin Inside
  BY <1>1 DEF ChannelInv, Inside
<1>4. k'.panic
  <2>1. k \in SchedState
    BY <1>1 DEF TypeOK
  <2> QED BY <1>1, <2>1 DEF PANIC, SchedState
<1> QED BY <1>1, <1>2, <1>3, <1>4 DEF Stopped, GaveUp

\* Every step keeps IdeInv, or is that one.
LEMMA IdeNext == IdeInv /\ OwnInv /\ [Next]_vars => IdeInv' \/ Stopped'
<1> SUFFICES ASSUME IdeInv, OwnInv, [Next]_vars PROVE IdeInv' \/ Stopped'
  OBVIOUS
<1>1. CASE UNCHANGED vars
  BY <1>1 DEF vars, IdeInv, TypeOK, ChannelInv, Listed, AtStatement
<1>2. ASSUME NEW t \in Client,
             \/ Driver(t)
             \/ \E kind \in {"read", "write"}, n \in 1..MaxChunk, sec \in 1..MaxSec : Call(t, kind, n, sec)
      PROVE  IdeInv' \/ Stopped'
  <2>1. CASE lock_acquire(t)
    BY <2>1, AcquireSound
  <2>2. CASE sema_down(t)
    BY <2>2, DownSound
  <2>3. CASE ticks_to_sleep(t)
    BY <2>3, ShuffleSound
  <2>4. CASE lock_release(t)
    BY <2>4, ReleaseSound
  <2>5. CASE \/ \E kind \in {"read", "write"}, n \in 1..MaxChunk, sec \in 1..MaxSec : Call(t, kind, n, sec)
             \/ cmd_out(t) \/ (busy_wait(t) /\ time_limit[t] > 1) \/ transfer(t)
    BY <2>5, StatementSound
  <2>6. CASE busy_wait(t) /\ ~(time_limit[t] > 1)
    BY <2>6, GivesUp
  <2> QED BY <1>2, <2>1, <2>2, <2>3, <2>4, <2>5, <2>6 DEF Driver
<1>3. CASE DiskReady \/ DiskDone
  BY <1>3, DiskSound
<1>4. CASE intr_hd_handler
  BY <1>4, InterruptSound
<1>5. CASE Tick \/ IdleLoop
  BY <1>5, ShuffleSound
<1> QED BY <1>1, <1>2, <1>3, <1>4, <1>5 DEF Next

\* The steps of a client keep what the disk and the clock are to each of them.
LEMMA OwnDriver ==
  ASSUME IdeInv, OwnInv, NEW t \in Client, IdeInv',
         \/ Driver(t)
         \/ \E kind \in {"read", "write"}, n \in 1..MaxChunk, sec \in 1..MaxSec : Call(t, kind, n, sec)
  PROVE  OwnInv'
<1> USE IdeAssumption DEF At, Goto
<1>1. /\ TypeOK /\ ChannelInv /\ Listed(t) /\ AtStatement(t) /\ DiskAt(t) /\ Waited(t)
      /\ TypeOK' /\ pc \in [Client -> Label]
  BY DEF IdeInv, ChannelInv, TypeOK, OwnInv
<1>2. CASE \/ \E kind \in {"read", "write"}, n \in 1..MaxChunk, sec \in 1..MaxSec : Call(t, kind, n, sec)
           \/ lock_acquire(t) \/ lock_release(t)
  <2>1. /\ UNCHANGED <<expecting_intr, disk, irq, time_limit, ticked, age>>
        /\ \A u \in Client : u # t => op'[u] = op[u] /\ pc'[u] = pc[u]
        /\ pc'[t] \notin {"down", "busy", "sleep", "data"}
    BY <1>1, <1>2 DEF Call, lock_acquire, lock_release, chanvars, timevars, TypeOK
  <2> QED BY <2>1 DEF OwnInv, DiskAt, Waited, Busy
<1>3. CASE cmd_out(t) \/ sema_down(t) \/ busy_wait(t) \/ ticks_to_sleep(t) \/ transfer(t)
  <2>1. pc[t] \in Inside /\ \A u \in Client : u # t => pc[u] \notin Inside
    <3>1. pc[t] \in Inside
      BY <1>3 DEF cmd_out, sema_down, busy_wait, ticks_to_sleep, transfer, Inside
    <3> QED BY <1>1, <3>1 DEF ChannelInv
  <2>2. \A u \in Client : u # t => pc'[u] = pc[u]
    BY <1>1, <1>3 DEF cmd_out, sema_down, busy_wait, ticks_to_sleep, transfer, NextChunk, BeginBusyWait, EndBusyWait
  <2>3. ASSUME NEW u \in Client, u # t PROVE DiskAt(u)' /\ Waited(u)'
    <3>1. pc'[u] \notin {"down", "busy", "sleep", "data"}
      BY <2>1, <2>2, <2>3 DEF Inside
    <3> QED BY <3>1 DEF DiskAt, Waited
  <2>4. op'[t].kind = op[t].kind /\ op[t].kind \in {"read", "write"}
    <3>1. CASE op' = op
      BY <1>1, <3>1 DEF TypeOK
    <3>2. CASE NextChunk(t)
      <4>1. op[t].chunks > 0
        BY <1>1, <1>3 DEF Listed, cmd_out, sema_down, busy_wait, ticks_to_sleep, transfer
      <4> QED BY <1>1, <3>2, <4>1, NextChunkSound DEF TypeOK
    <3> QED BY <1>3, <3>1, <3>2 DEF cmd_out, sema_down, busy_wait, ticks_to_sleep, transfer
  <2>5. DiskAt(t)'
    <3>1. CASE cmd_out(t)
      <4>1. disk'.for = t /\ (op[t].kind = "read" => disk'.stage = "prepare")
        BY <3>1 DEF cmd_out
      <4>2. pc'[t] = IF op[t].kind = "read" THEN "down" ELSE "busy"
        BY <1>1, <2>4, <3>1 DEF cmd_out, BeginBusyWait
      <4> QED BY <2>4, <4>1, <4>2 DEF DiskAt, Busy
    <3>2. CASE sema_down(t)
      <4>1. UNCHANGED <<disk, irq, expecting_intr>> /\ pc[t] = "down"
        BY <3>2 DEF sema_down
      <4>2. pc'[t] \in {"down", "busy", "cmd", "unlock"}
        BY <1>1, <3>2 DEF sema_down, NextChunk, BeginBusyWait
      <4> QED BY <1>1, <2>4, <4>1, <4>2 DEF DiskAt, Busy
    <3>3. CASE busy_wait(t) \/ ticks_to_sleep(t)
      <4>1. /\ pc[t] \in {"busy", "sleep"} /\ pc'[t] \in {"busy", "sleep", "data"}
            /\ UNCHANGED <<disk, irq, expecting_intr>>
        BY <1>1, <3>3 DEF busy_wait, EndBusyWait, ticks_to_sleep, chanvars
      <4> QED BY <1>1, <4>1 DEF DiskAt
    <3>4. CASE transfer(t)
      <4>1. pc[t] = "data" /\ disk.stage = "data" /\ disk.for = t
        BY <1>1, <3>4 DEF transfer, AtStatement, DiskAt
      <4>2. CASE op[t].kind = "read"
        <5>1. pc'[t] \in {"cmd", "unlock"}
          BY <1>1, <3>4, <4>2 DEF transfer, NextChunk
        <5> QED BY <5>1 DEF DiskAt
      <4>3. CASE op[t].kind = "write"
        <5>1. pc'[t] = "down" /\ disk'.stage = "working" /\ disk'.for = t
          BY <1>1, <3>4, <4>1, <4>3 DEF transfer, TypeOK
        <5> QED BY <2>4, <4>3, <5>1 DEF DiskAt, Busy
      <4> QED BY <2>4, <4>2, <4>3
    <3> QED BY <1>3, <3>1, <3>2, <3>3, <3>4
  <2>6. Waited(t)'
    <3>1. /\ time_limit \in [Client -> 0..TimeLimit] /\ age \in [Client -> 0..TimeLimit]
          /\ ticked \in [Client -> BOOLEAN]
      BY <1>1 DEF TypeOK
    <3>2. CASE UNCHANGED pc \/ pc'[t] \notin {"busy", "sleep"}
      <4>1. UNCHANGED pc => UNCHANGED timevars \/ pc[t] \notin {"busy", "sleep"} \/ k' = PANIC(k)
        BY <1>1, <1>3 DEF cmd_out, sema_down, busy_wait, ticks_to_sleep, transfer, NextChunk, BeginBusyWait, EndBusyWait, timevars
      <4>2. k' # PANIC(k)
        <5>1. ~k'.panic /\ k \in SchedState
          BY <1>1 DEF IdeInv, Running, Sound, TypeOK
        <5> QED BY <5>1 DEF PANIC, SchedState
      <4> QED BY <1>1, <3>2, <4>1, <4>2 DEF Waited, timevars
    <3>3. CASE BeginBusyWait(t)
      BY <1>1, <3>1, <3>3 DEF BeginBusyWait, Waited
    <3>4. CASE busy_wait(t) /\ pc'[t] = "sleep"
      <4>1. /\ pc[t] = "busy" /\ time_limit[t] > 1 /\ UNCHANGED age
            /\ time_limit'[t] = time_limit[t] - 1 /\ UNCHANGED ticked
        BY <1>1, <3>1, <3>4 DEF busy_wait, EndBusyWait
      <4>2. age[t] + time_limit[t] >= TimeLimit /\ age[t] \in Nat /\ time_limit[t] \in Nat
        BY <1>1, <3>1, <4>1 DEF Waited
      <4>3. ~ticked[t]
        BY <1>1, <4>1 DEF Waited
      <4> QED BY <3>4, <4>1, <4>2, <4>3 DEF Waited
    <3>5. CASE ticks_to_sleep(t) /\ pc'[t] = "busy"
      BY <1>1, <3>1, <3>5 DEF ticks_to_sleep, Waited
    <3> QED BY <1>1, <1>3, <3>2, <3>3, <3>4, <3>5
          DEF cmd_out, sema_down, busy_wait, ticks_to_sleep, transfer, NextChunk, EndBusyWait, BeginBusyWait
  <2> QED BY <2>3, <2>5, <2>6 DEF OwnInv
<1> QED BY <1>2, <1>3 DEF Driver

\* The disk, the interrupt and the clock keep it.
LEMMA OwnOthers ==
  ASSUME IdeInv, OwnInv, DiskReady \/ DiskDone \/ intr_hd_handler \/ Tick \/ IdleLoop
  PROVE  OwnInv'
<1> USE IdeAssumption
<1>1. TypeOK /\ ChannelInv /\ UNCHANGED <<pc, op>>
  BY DEF IdeInv, DiskReady, DiskDone, intr_hd_handler, Tick, IdleLoop, chanvars
<1>2. SUFFICES ASSUME NEW t \in Client PROVE DiskAt(t)' /\ Waited(t)'
  BY DEF OwnInv
<1>3. DiskAt(t) /\ Waited(t) /\ AtStatement(t) /\ op[t].kind \in {"read", "write"}
  BY <1>1 DEF OwnInv, ChannelInv, TypeOK
<1>4. DiskAt(t)'
  <2>1. CASE DiskReady
    <3>1. /\ disk.stage = "prepare" /\ disk'.stage = "data" /\ disk'.for = disk.for
          /\ irq' = (irq \/ op[disk.for].kind = "read") /\ UNCHANGED expecting_intr
      BY <1>1, <2>1 DEF DiskReady, TypeOK, chanvars
    <3> QED BY <1>1, <1>3, <3>1 DEF DiskAt
  <2>2. CASE DiskDone
    BY <1>1, <1>3, <2>2 DEF DiskDone, DiskAt, Idle, chanvars
  <2>3. CASE intr_hd_handler
    <3>1. UNCHANGED disk /\ ~expecting_intr'
      BY <2>3 DEF intr_hd_handler
    <3> QED BY <1>1, <1>3, <3>1 DEF DiskAt
  <2>4. CASE Tick \/ IdleLoop
    <3>1. UNCHANGED <<disk, irq, expecting_intr>>
      BY <2>4 DEF Tick, IdleLoop, chanvars
    <3> QED BY <1>1, <1>3, <3>1 DEF DiskAt, Busy
  <2> QED BY <2>1, <2>2, <2>3, <2>4
<1>5. Waited(t)'
  <2>1. CASE DiskReady \/ DiskDone \/ intr_hd_handler \/ IdleLoop
    <3>1. UNCHANGED timevars
      BY <2>1 DEF DiskReady, DiskDone, intr_hd_handler, IdleLoop
    <3> QED BY <1>1, <1>3, <3>1 DEF Waited, timevars
  <2>2. CASE Tick
    <3>1. /\ time_limit[t] \in Nat /\ age[t] \in 0..TimeLimit /\ UNCHANGED time_limit
          /\ age'[t] = IF pc[t] \in {"busy", "sleep"} /\ age[t] < TimeLimit THEN age[t] + 1 ELSE age[t]
      BY <1>1, <2>2 DEF TypeOK, Tick
    <3>2. pc[t] = "busy" => ~ticked'[t]
      <4>1. ticked' = [u \in Client |-> pc[u] = "sleep"]
        BY <2>2 DEF Tick
      <4>2. ticked'[t] = (pc[t] = "sleep")
        BY <4>1, Zenon
      <4> QED BY <4>2
    <3>3. pc'[t] = pc[t]
      BY <1>1
    <3>4. CASE pc[t] \in {"busy", "sleep"}
      <4>1. age[t] < TimeLimit => age'[t] = age[t] + 1
        BY <3>1, <3>4
      <4>2. ~(age[t] < TimeLimit) => age'[t] = TimeLimit
        BY <3>1
      <4>3. age[t] + time_limit[t] + 1 >= TimeLimit
        BY <1>3, <3>1, <3>4 DEF Waited
      <4>4. age'[t] + time_limit'[t] >= TimeLimit /\ time_limit'[t] > 0 /\ age'[t] \in Nat
        BY <1>3, <3>1, <3>4, <4>1, <4>2, <4>3 DEF Waited
      <4> QED BY <3>1, <3>2, <3>3, <4>4 DEF Waited
    <3>5. CASE pc[t] \notin {"busy", "sleep"}
      BY <3>3, <3>5 DEF Waited
    <3> QED BY <3>4, <3>5
  <2> QED BY <2>1, <2>2
<1> QED BY <1>4, <1>5

\* The driver's states satisfy both, until busy_wait() gives up.
LEMMA DriverInvariant == Spec => []DriverInv
<1>1. Init => DriverInv
  BY IdeInit DEF DriverInv
<1>2. DriverInv /\ [Next]_vars => DriverInv'
  <2> SUFFICES ASSUME DriverInv, [Next]_vars PROVE DriverInv'
    OBVIOUS
  <2>1. CASE Stopped
    <3>1. UNCHANGED <<k, pc, time_limit, age>>
      BY <2>1 DEF Stopped, Next, vars, Driver, Call, lock_acquire, cmd_out, sema_down, busy_wait, ticks_to_sleep,
         transfer, lock_release, DiskReady, DiskDone, intr_hd_handler, Tick, IdleLoop, At, timevars
    <3> QED BY <2>1, <3>1 DEF DriverInv, Stopped, GaveUp
  <2>2. CASE IdeInv /\ OwnInv
    <3>1. IdeInv' \/ Stopped'
      BY <2>2, IdeNext
    <3>2. ASSUME IdeInv' PROVE OwnInv'
      <4>1. CASE UNCHANGED vars
        BY <2>2, <4>1 DEF vars, OwnInv, DiskAt, Waited, Busy
      <4>2. ASSUME NEW t \in Client,
                   \/ Driver(t)
                   \/ \E kind \in {"read", "write"}, n \in 1..MaxChunk, sec \in 1..MaxSec : Call(t, kind, n, sec)
            PROVE  OwnInv'
        BY <2>2, <3>2, <4>2, OwnDriver
      <4>3. CASE DiskReady \/ DiskDone \/ intr_hd_handler \/ Tick \/ IdleLoop
        BY <2>2, <4>3, OwnOthers
      <4> QED BY <4>1, <4>2, <4>3 DEF Next
    <3> QED BY <3>1, <3>2 DEF DriverInv
  <2> QED BY <2>1, <2>2 DEF DriverInv
<1> QED BY <1>1, <1>2, PTL DEF Spec

\* The machine stops in the driver only when busy_wait() has seen time_limit - 1
\* ticks pass while the disk was busy: no ASSERT of sync.c fires and the disk is
\* never without data when it is not busy, for any number of processes, commands
\* and sectors, and any time_limit.
THEOREM DriverStopsOnlyLate == Spec => []StopsOnlyLate
<1>1. DriverInv => StopsOnlyLate
  BY DEF DriverInv, IdeInv, Running, Sound, Stopped, GaveUp, StopsOnlyLate
<1> QED BY <1>1, DriverInvariant, PTL

\* A completion is neither lost nor counted twice: an interrupt that is expected
\* is pending or comes, one that has been counted is in disk_done for the client
\* at sema_down(), and disk_done is 0 between commands.
THEOREM CompletionCountedOnce == Spec => []DoneOnce
<1>1. ASSUME IdeInv, OwnInv PROVE DoneOnce
  <2>1. TypeOK /\ ChannelInv
    BY <1>1 DEF IdeInv
  <2>2. ASSUME NEW t \in Client, pc[t] = "down"
        PROVE  IF expecting_intr THEN disk_done.value = 0 /\ (irq \/ Busy)
               ELSE disk_done.value = 1 /\ k.status[t] # "BLOCKED"
    BY <1>1, <2>1, <2>2 DEF ChannelInv, OwnInv, Listed, AtStatement, DiskAt
  <2>3. ASSUME \A t \in Client : pc[t] \in {"out", "lock", "cmd", "unlock"}
        PROVE  disk_done = sema_init(0)
    <3>1. disk_done.value = 0
      <4>1. CASE lock.value = 1
        BY <2>1, <4>1 DEF ChannelInv
      <4>2. CASE lock.value # 1
        <5>1. PICK t \in Client : pc[t] \in Inside
          BY <2>1, <4>2 DEF ChannelInv
        <5>2. pc[t] \in {"cmd", "unlock"} /\ AtStatement(t)
          BY <2>1, <2>3, <5>1 DEF ChannelInv, Inside
        <5> QED BY <5>2 DEF AtStatement
      <4> QED BY <4>1, <4>2
    <3>2. \A t \in Thread : ~elem_find(disk_done.waiters, t)
      BY <2>1, <2>3, IdeAssumption DEF ChannelInv, Listed, Client
    <3>3. disk_done \in [value : Nat, waiters : Seq(Thread)]
      BY <2>1 DEF TypeOK, SemaState
    <3>4. disk_done.waiters = << >>
      BY <3>2, <3>3 DEF elem_find
    <3> QED BY <3>1, <3>3, <3>4 DEF sema_init
  <2> QED BY <2>2, <2>3 DEF DoneOnce
<1>2. ASSUME Stopped PROVE DoneOnce
  BY <1>2 DEF Stopped, GaveUp, DoneOnce, Inside
<1> QED BY <1>1, <1>2, DriverInvariant, PTL DEF DriverInv

\* A client moves data only when the disk has them ready for its own command,
\* although the interrupts of a command of several sectors may let a later
\* command go on too early.
THEOREM DataAreOwn == Spec => []DataIsOwn
<1>1. ASSUME IdeInv, OwnInv PROVE DataIsOwn
  BY <1>1 DEF IdeInv, ChannelInv, AtStatement, OwnInv, DiskAt, DataIsOwn
<1>2. ASSUME Stopped PROVE DataIsOwn
  BY <1>2 DEF Stopped, GaveUp, DataIsOwn, Inside
<1> QED BY <1>1, <1>2, DriverInvariant, PTL DEF DriverInv

-----------------------------------------------------------------------------
\* What the keyboard's handler keeps.
Kbd == [ctrl : BOOLEAN, shift : BOOLEAN, alt : BOOLEAN, caps_lock : BOOLEAN, ext_scancode : BOOLEAN]

\* What the handler has recorded of modifier m is right.
Right(m) ==
  IF m \in mixed THEN ~kbd[m] ELSE kbd[m] = (KeysOf[m] \cap down # {})

\* The handler has yet to see that key was pressed or released: it is right
\* about the other modifiers, and will be about this one.
Underway(key, break) ==
  \A m \in Modifier :
    IF key \notin KeysOf[m] THEN Right(m)
    ELSE IF break THEN m \in mixed \/ KeysOf[m] \cap down = {}
    ELSE m \notin mixed /\ key \in down

\* The bytes of a key that are still to come, the first of them handled or not.
Coming(key, break) ==
  LET byte == [key |-> key, break |-> break]
  IN  \/ sent = <<byte>> /\ (kbd.ext_scancode <=> key \in Extended)
      \/ sent = <<E0, byte>> /\ key \in Extended /\ ~kbd.ext_scancode

KeyboardInv ==
  /\ kbd \in Kbd
  /\ down \subseteq ModifierKey
  /\ \/ sent = << >> /\ ~kbd.ext_scancode /\ \A m \in Modifier : Right(m)
     \/ \E key \in Key, break \in BOOLEAN : Underway(key, break) /\ Coming(key, break)

\* The characters that come from the keyboard, and those a line is made of.
Typed == Char \ {End}
Kept == Typed \ {"BS", "^l", "^u", "NL"}

ShellInv ==
  /\ kbd_buf \in Seq(Typed) /\ line \in Seq(Kept)
  /\ buf \in [0..Count -> Char]
  /\ shell \in {"read", "parse", "over", "null"}
  /\ shell \in {"read", "parse"} =>
       /\ Len(line) <= Count /\ pos = Len(line)
       /\ \A i \in 1..Len(line) : buf[i - 1] = line[i]
  /\ shell = "parse" => Len(line) < Count /\ buf[Len(line)] = End
  /\ shell = "over" <=> buf[Count] # End

-----------------------------------------------------------------------------
\* The three modifiers of keyboard.c and their keys.
LEMMA Modifiers ==
  /\ Modifier = {"ctrl", "shift", "alt"}
  /\ KeysOf["ctrl"] = {"ctrl_l", "ctrl_r"}
  /\ KeysOf["shift"] = {"shift_l", "shift_r"}
  /\ KeysOf["alt"] = {"alt_l", "alt_r"}
<1>1. Modifier = {"ctrl", "shift", "alt"}
  BY DEF Modifier, KeysOf
<1> QED BY <1>1 DEF KeysOf

\* No key with a character is a modifier, or sends 0xe0 first; no key is 0xe0.
LEMMA Keys ==
  /\ ModifierKey = {"ctrl_l", "ctrl_r", "shift_l", "shift_r", "alt_l", "alt_r"}
  /\ DOMAIN keymap = {"a", "l", "u", "one", "space", "enter", "backspace"}
  /\ "e0" \notin Key
<1>1. ModifierKey = {"ctrl_l", "ctrl_r", "shift_l", "shift_r", "alt_l", "alt_r"}
  BY Modifiers DEF ModifierKey
<1>2. DOMAIN keymap = {"a", "l", "u", "one", "space", "enter", "backspace"}
  BY DEF keymap
<1> QED BY <1>1, <1>2, TerminalAssumption

\* The handler's character is never the byte 0.
LEMMA CharacterTyped ==
  ASSUME NEW key \in DOMAIN keymap
  PROVE  character(key) \in Typed
<1>1. keymap[key][1] \in Char /\ keymap[key][2] \in Char /\ {"^l", "^u"} \subseteq Typed
  BY DEF Char, Typed, End
<1>2. keymap[key][1] # End /\ keymap[key][2] # End
  <2>1. key \in {"a", "l", "u", "one", "space", "enter", "backspace"}
    BY Keys
  <2>2. keymap[key] \in {<<"a", "A">>, <<"l", "L">>, <<"u", "U">>, <<"1", "!">>,
                       <<"SP", "SP">>, <<"NL", "NL">>, <<"BS", "BS">>}
    BY <2>1 DEF keymap
  <2> QED BY <2>2 DEF End
<1>3. character(key) \in {keymap[key][1], keymap[key][2], "^l", "^u"}
  BY DEF character
<1> QED BY <1>1, <1>2, <1>3 DEF Typed

\* A keyboard at rest and an empty line satisfy the invariants.
LEMMA TerminalStarts == TerminalInit => KeyboardInv /\ ShellInv
<1> SUFFICES ASSUME TerminalInit PROVE KeyboardInv /\ ShellInv
  OBVIOUS
<1>1. KeyboardInv
  <2>1. /\ kbd = [ctrl |-> FALSE, shift |-> FALSE, alt |-> FALSE, caps_lock |-> FALSE, ext_scancode |-> FALSE]
        /\ sent = << >> /\ down = {} /\ mixed = {}
    BY DEF TerminalInit
  <2>2. kbd \in Kbd /\ ~kbd.ext_scancode
    BY <2>1 DEF Kbd
  <2>3. kbd["ctrl"] = FALSE /\ kbd["shift"] = FALSE /\ kbd["alt"] = FALSE
    BY <2>1
  <2>4. \A m \in Modifier : Right(m)
    BY <2>1, <2>3, Modifiers DEF Right
  <2> QED BY <2>1, <2>2, <2>4 DEF KeyboardInv
<1>2. ShellInv
  <2>1. Count \in Nat \ {0} /\ End \in Char
    BY TerminalAssumption DEF Char
  <2> QED BY <2>1 DEF TerminalInit, ShellInv, Clear
<1> QED BY <1>1, <1>2

\* A key that is pressed or released sends its bytes, and those bytes will make
\* the handler right again.
LEMMA KeySound ==
  ASSUME KeyboardInv, NEW key \in Key, Press(key) \/ Release(key)
  PROVE  KeyboardInv'
<1>1. PICK break \in BOOLEAN : /\ Sends(key, break)
                               /\ break => Release(key)
                               /\ ~break => Press(key)
  BY DEF Press, Release
<1>2. /\ sent = << >> /\ UNCHANGED kbd /\ kbd \in Kbd /\ down \subseteq ModifierKey
  BY DEF Press, Release, KeyboardInv
<1>3. ~kbd.ext_scancode /\ \A m \in Modifier : Right(m)
  BY <1>2 DEF KeyboardInv, Coming
<1>4. Coming(key, break)'
  <2>1. CASE key \in Extended
    <3>1. sent' = <<E0, [key |-> key, break |-> break]>>
      BY <1>1, <2>1 DEF Sends
    <3> QED BY <1>2, <1>3, <2>1, <3>1 DEF Coming
  <2>2. CASE key \notin Extended
    <3>1. sent' = <<[key |-> key, break |-> break]>>
      BY <1>1, <2>2 DEF Sends
    <3> QED BY <1>2, <1>3, <2>2, <3>1 DEF Coming
  <2> QED BY <2>1, <2>2
<1>5. ASSUME NEW m \in Modifier, key \notin KeysOf[m] PROVE Right(m)'
  <2>1. Right(m)
    BY <1>3
  <2>2. KeysOf[m] \cap down' = KeysOf[m] \cap down
    BY <1>5 DEF Press, Release
  <2>3. m \in mixed' <=> m \in mixed
    BY <1>5 DEF Press, Release
  <2> QED BY <1>2, <2>1, <2>2, <2>3 DEF Right
<1>6. ASSUME NEW m \in Modifier, key \in KeysOf[m]
      PROVE  IF break THEN m \in mixed' \/ KeysOf[m] \cap down' = {} ELSE m \notin mixed' /\ key \in down'
  <2>1. key \in ModifierKey
    BY <1>6 DEF ModifierKey
  <2>2. CASE break
    BY <1>1, <1>6, <2>2 DEF Release
  <2>3. CASE ~break
    BY <1>1, <1>6, <2>1, <2>3 DEF Press
  <2> QED BY <2>2, <2>3
<1>7. Underway(key, break)'
  BY <1>5, <1>6 DEF Underway
<1>8. down' \subseteq ModifierKey
  BY <1>2 DEF Press, Release
<1> QED BY <1>2, <1>4, <1>7, <1>8 DEF KeyboardInv

\* What the handler records of modifier m when it sees the last byte of a key.
LEMMA RecordedModifier ==
  ASSUME NEW s \in Kbd, NEW key, NEW ext \in BOOLEAN, NEW m \in Modifier
  PROVE  /\ Pressed(s, key, ext) \in Kbd /\ Released(s, key, ext) \in Kbd
         /\ Pressed(s, key, ext).ext_scancode = s.ext_scancode
         /\ Released(s, key, ext).ext_scancode = s.ext_scancode
         /\ Pressed(s, key, ext)[m] = (s[m] \/ IsOf(m, key, ext))
         /\ Released(s, key, ext)[m] = (s[m] /\ ~IsOf(m, key, ext))
<1> DEFINE is(n) == IsOf(n, key, ext)
<1>1. m \in {"ctrl", "shift", "alt"}
  BY Modifiers
<1>2. \A n : is(n) \in BOOLEAN
  BY DEF IsOf
<1> HIDE DEF is
<1>3. /\ Pressed(s, key, ext) = [s EXCEPT !.ctrl = @ \/ is("ctrl"), !.shift = @ \/ is("shift"),
                                          !.alt = @ \/ is("alt"), !.caps_lock = (@ # (key = "caps_lock"))]
      /\ Released(s, key, ext) = [s EXCEPT !.ctrl = @ /\ ~is("ctrl"), !.shift = @ /\ ~is("shift"),
                                           !.alt = @ /\ ~is("alt")]
  BY DEF Pressed, Released, is
<1>4. Pressed(s, key, ext) \in Kbd /\ Pressed(s, key, ext).ext_scancode = s.ext_scancode
  BY <1>2, <1>3 DEF Kbd
<1>5. Released(s, key, ext) \in Kbd /\ Released(s, key, ext).ext_scancode = s.ext_scancode
  BY <1>2, <1>3 DEF Kbd
<1>6. Pressed(s, key, ext)[m] = (s[m] \/ is(m))
  BY <1>1, <1>2, <1>3 DEF Kbd
<1>7. Released(s, key, ext)[m] = (s[m] /\ ~is(m))
  BY <1>1, <1>2, <1>3 DEF Kbd
<1> QED BY <1>4, <1>5, <1>6, <1>7 DEF is

\* Only the modifiers count for Right().
LEMMA ExactAgain ==
  ASSUME NEW m \in Modifier, Right(m), kbd'[m] = kbd[m], UNCHANGED <<down, mixed>>
  PROVE  Right(m)'
BY DEF Right

\* intr_keyboard_handler() sees the byte 0xe0 and remembers it, or the last byte
\* of a key and forgets it.
LEMMA HandlerSound ==
  ASSUME KeyboardInv, intr_keyboard_handler
  PROVE  KeyboardInv'
<1>1. /\ kbd \in Kbd /\ down \subseteq ModifierKey /\ sent # << >>
      /\ UNCHANGED <<down, mixed>> /\ sent' = Tail(sent)
  BY DEF KeyboardInv, intr_keyboard_handler
<1>2. PICK key \in Key, break \in BOOLEAN : Underway(key, break) /\ Coming(key, break)
  BY <1>1 DEF KeyboardInv
<1> DEFINE byte == [key |-> key, break |-> break]
           s == [kbd EXCEPT !.ext_scancode = FALSE]
           e == [kbd EXCEPT !.ext_scancode = TRUE]
<1>3. byte # E0 /\ byte.key = key /\ byte.break = break
  BY Keys DEF E0
<1>4. /\ s \in Kbd /\ ~s.ext_scancode /\ e \in Kbd /\ e.ext_scancode
      /\ \A m \in Modifier : s[m] = kbd[m] /\ e[m] = kbd[m]
  <2>1. s \in Kbd /\ ~s.ext_scancode /\ e \in Kbd /\ e.ext_scancode
    BY <1>1 DEF Kbd
  <2>2. \A m \in {"ctrl", "shift", "alt"} : s[m] = kbd[m] /\ e[m] = kbd[m]
    BY <1>1 DEF Kbd
  <2> QED BY <2>1, <2>2, Modifiers
<1>5. kbd.ext_scancode \in BOOLEAN
  BY <1>1 DEF Kbd
<1>6. intr_keyboard_handler =>
        LET b == Head(sent) IN
        IF b = E0 THEN kbd' = e
        ELSE IF b.break THEN kbd' = Released(s, b.key, kbd.ext_scancode)
        ELSE (kbd' = s /\ b.key \in DOMAIN keymap) \/ kbd' = Pressed(s, b.key, kbd.ext_scancode)
  BY DEF intr_keyboard_handler
<1> HIDE DEF byte, s, e
<1>7. CASE sent = <<E0, byte>> /\ key \in Extended /\ ~kbd.ext_scancode
  <2>1. kbd' = e /\ sent' = <<byte>>
    BY <1>1, <1>6, <1>7
  <2>2. ASSUME NEW m \in Modifier, key \notin KeysOf[m] PROVE Right(m)'
    BY <1>1, <1>2, <1>4, <2>1, <2>2, ExactAgain DEF Underway
  <2>3. Underway(key, break)'
    BY <1>1, <1>2, <2>2 DEF Underway
  <2>4. Coming(key, break)'
    BY <1>4, <1>7, <2>1 DEF Coming, byte
  <2> QED BY <1>1, <1>4, <2>1, <2>3, <2>4 DEF KeyboardInv
<1>8. CASE sent = <<byte>> /\ (kbd.ext_scancode <=> key \in Extended)
  <2>1. sent' = << >> /\ Head(sent) = byte
    BY <1>1, <1>8
  <2>2. \A m \in Modifier : IsOf(m, key, kbd.ext_scancode) <=> key \in KeysOf[m]
    BY <1>5, <1>8 DEF IsOf
  <2>3. kbd' \in Kbd /\ ~kbd'.ext_scancode /\ \A m \in Modifier : Right(m)'
    <3>1. CASE break
      <4>1. kbd' = Released(s, key, kbd.ext_scancode)
        BY <1>3, <1>6, <2>1, <3>1
      <4>2. \A m \in Modifier : kbd'[m] = (kbd[m] /\ ~IsOf(m, key, kbd.ext_scancode))
        BY <1>4, <1>5, <4>1, RecordedModifier
      <4>3. kbd' \in Kbd /\ ~kbd'.ext_scancode
        <5>1. "ctrl" \in Modifier
          BY Modifiers
        <5> QED BY <1>4, <1>5, <4>1, <5>1, RecordedModifier
      <4>4. ASSUME NEW m \in Modifier PROVE Right(m)'
        <5>1. kbd[m] \in BOOLEAN
          BY <1>1, Modifiers DEF Kbd
        <5>2. CASE key \in KeysOf[m]
          <6>1. ~kbd'[m]
            BY <2>2, <4>2, <5>2
          <6>2. m \in mixed \/ KeysOf[m] \cap down = {}
            BY <1>2, <3>1, <5>2 DEF Underway
          <6>3. kbd'[m] = FALSE
            BY <4>2, <6>1
          <6> QED BY <1>1, <6>2, <6>3 DEF Right
        <5>3. CASE key \notin KeysOf[m]
          <6>1. kbd'[m] = kbd[m]
            BY <2>2, <4>2, <5>1, <5>3
          <6> QED BY <1>1, <1>2, <5>3, <6>1, ExactAgain DEF Underway
        <5> QED BY <5>2, <5>3
      <4> QED BY <4>3, <4>4
    <3>2. CASE ~break /\ kbd' = s /\ key \in DOMAIN keymap
      <4>1. ASSUME NEW m \in Modifier PROVE Right(m)'
        <5>1. key \notin KeysOf[m]
          BY <3>2, Keys, Modifiers
        <5> QED BY <1>1, <1>2, <1>4, <3>2, <5>1, ExactAgain DEF Underway
      <4> QED BY <1>4, <3>2, <4>1
    <3>3. CASE ~break /\ kbd' = Pressed(s, key, kbd.ext_scancode)
      <4>2. \A m \in Modifier : kbd'[m] = (kbd[m] \/ IsOf(m, key, kbd.ext_scancode))
        BY <1>4, <1>5, <3>3, RecordedModifier
      <4>3. kbd' \in Kbd /\ ~kbd'.ext_scancode
        <5>1. "ctrl" \in Modifier
          BY Modifiers
        <5> QED BY <1>4, <1>5, <3>3, <5>1, RecordedModifier
      <4>4. ASSUME NEW m \in Modifier PROVE Right(m)'
        <5>1. kbd[m] \in BOOLEAN
          BY <1>1, Modifiers DEF Kbd
        <5>2. CASE key \in KeysOf[m]
          <6>1. kbd'[m] = TRUE
            BY <2>2, <4>2, <5>1, <5>2
          <6>2. m \notin mixed /\ key \in down
            BY <1>2, <3>3, <5>2 DEF Underway
          <6> QED BY <1>1, <5>2, <6>1, <6>2 DEF Right
        <5>3. CASE key \notin KeysOf[m]
          <6>1. kbd'[m] = kbd[m]
            BY <2>2, <4>2, <5>1, <5>3
          <6> QED BY <1>1, <1>2, <5>3, <6>1, ExactAgain DEF Underway
        <5> QED BY <5>2, <5>3
      <4> QED BY <4>3, <4>4
    <3> QED BY <1>3, <1>6, <2>1, <3>1, <3>2, <3>3
  <2> QED BY <1>1, <2>1, <2>3 DEF KeyboardInv
<1> QED BY <1>2, <1>7, <1>8 DEF Coming, byte

-----------------------------------------------------------------------------
\* Typing into kbd_buf leaves the line alone.
LEMMA TypedSound ==
  ASSUME ShellInv, intr_keyboard_handler
  PROVE  ShellInv'
<1>1. UNCHANGED <<buf, pos, shell, line>>
  BY DEF intr_keyboard_handler
<1>2. kbd_buf' \in Seq(Typed)
  <2>1. kbd_buf \in Seq(Typed)
    BY DEF ShellInv
  <2>2. CASE kbd_buf' = kbd_buf
    BY <2>1, <2>2
  <2>3. ASSUME NEW key \in DOMAIN keymap, kbd_buf' = Append(kbd_buf, character(key))
        PROVE  kbd_buf' \in Seq(Typed)
    BY <2>1, <2>3, CharacterTyped
  <2> QED BY <2>2, <2>3 DEF intr_keyboard_handler
<1> QED BY <1>1, <1>2 DEF ShellInv

\* A turn of readline() edits the buffer as the line is meant to be edited,
\* whichever character it reads: a backspace finds buf[0] other than a backspace
\* just when there is a character to take back.
LEMMA ReadlineSound ==
  ASSUME ShellInv, readline
  PROVE  ShellInv'
<1> DEFINE c == Head(kbd_buf)
           b == [buf EXCEPT ![pos] = c]
<1>1. /\ Count \in Nat \ {0} /\ End \in Char /\ Typed \subseteq Char
      /\ shell = "read" /\ kbd_buf # << >> /\ kbd_buf' = Tail(kbd_buf)
      /\ kbd_buf \in Seq(Typed) /\ line \in Seq(Kept) /\ buf \in [0..Count -> Char]
      /\ Len(line) <= Count /\ pos = Len(line) /\ pos \in 0..Count
      /\ \A i \in 1..Len(line) : buf[i - 1] = line[i]
      /\ buf[Count] = End
  <2>1. Count \in Nat \ {0}
    BY TerminalAssumption
  <2>2. End \in Char /\ Typed \subseteq Char
    BY DEF Char, Typed
  <2>3. shell = "read" /\ kbd_buf # << >> /\ kbd_buf' = Tail(kbd_buf)
    BY DEF readline
  <2>4. line \in Seq(Kept) /\ Len(line) \in Nat
    BY DEF ShellInv
  <2> QED BY <2>1, <2>2, <2>3, <2>4 DEF ShellInv
<1>2. c \in Typed /\ c # End /\ kbd_buf' \in Seq(Typed)
  BY <1>1 DEF Typed
<1>3. IF pos >= Count THEN shell' = "over" /\ buf' = b /\ UNCHANGED <<pos, line>>
      ELSE IF c = "NL"
      THEN shell' = "parse" /\ buf' = [buf EXCEPT ![pos] = End] /\ UNCHANGED <<pos, line>>
      ELSE /\ buf' = Edited(b, pos).buf /\ pos' = Edited(b, pos).pos
           /\ line' = Meant(line, c)
           /\ UNCHANGED shell
  BY DEF readline
<1> HIDE DEF c
<1>4. /\ b \in [0..Count -> Char] /\ b[pos] = c
      /\ \A i \in 0..Count : i # pos => b[i] = buf[i]
  BY <1>1, <1>2
<1> HIDE DEF b
<1>5. CASE pos >= Count
  BY <1>1, <1>2, <1>3, <1>4, <1>5 DEF ShellInv
<1>6. CASE pos < Count /\ c = "NL"
  <2>0. buf' = [buf EXCEPT ![pos] = End] /\ shell' = "parse" /\ UNCHANGED <<pos, line>>
    BY <1>1, <1>3, <1>6
  <2>1. /\ buf' \in [0..Count -> Char] /\ buf'[pos] = End
        /\ \A i \in 0..Count : i # pos => buf'[i] = buf[i]
    BY <1>1, <2>0
  <2> QED BY <1>1, <1>2, <1>6, <2>0, <2>1 DEF ShellInv
<1>7. ASSUME pos < Count, c # "NL", line' \in Seq(Kept),
             buf' \in [0..Count -> Char], buf'[Count] = End,
             Len(line') <= Count, pos' = Len(line'), \A i \in 1..Len(line') : buf'[i - 1] = line'[i]
      PROVE  ShellInv'
  <2>1. shell' = "read"
    BY <1>1, <1>3, <1>7
  <2> QED BY <1>2, <1>7, <2>1 DEF ShellInv
<1>8. ASSUME pos < Count, c = "BS" PROVE ShellInv'
  <2>1. /\ buf' = b /\ pos' = (IF b[0] # "BS" THEN pos - 1 ELSE pos)
        /\ line' = (IF line = << >> THEN line ELSE Front(line))
    BY <1>1, <1>3, <1>4, <1>8 DEF Edited, Meant
  <2>2. b[Count] = End
    BY <1>1, <1>4, <1>8
  <2>3. CASE line = << >>
    <3>1. Len(line) = 0 /\ line' = line
      BY <2>1, <2>3
    <3>2. pos' = 0
      BY <1>1, <1>4, <1>8, <2>1, <3>1
    <3>3. Len(line') = 0 /\ line' \in Seq(Kept)
      BY <1>1, <3>1
    <3>4. Len(line') <= Count /\ pos' = Len(line') /\ \A i \in 1..Len(line') : buf'[i - 1] = line'[i]
      BY <1>1, <3>2, <3>3
    <3>5. buf' \in [0..Count -> Char] /\ buf'[Count] = End
      BY <1>4, <2>1, <2>2
    <3> QED BY <1>7, <1>8, <3>3, <3>4, <3>5
  <2>4. CASE line # << >>
    <3> DEFINE l == SubSeq(line, 1, Len(line) - 1)
    <3>1. Len(line) \in Nat \ {0}
      BY <1>1, <2>4
    <3>2. l \in Seq(Kept) /\ Len(l) = Len(line) - 1 /\ \A i \in 1..Len(l) : l[i] = line[i]
      BY <1>1, <3>1
    <3>3. line' = l
      BY <2>1, <2>4 DEF Front
    <3> HIDE DEF l
    <3>4. line[1] \in Kept /\ line[1] # "BS"
      BY <1>1, <3>1 DEF Kept
    <3>5. b[0] = line[1]
      <4>1. 1 \in 1..Len(line) /\ 0 \in 0..Count /\ 0 # pos /\ 1 - 1 = 0
        BY <1>1, <3>1
      <4>2. buf[1 - 1] = line[1] /\ b[0] = buf[0]
        BY <1>1, <1>4, <4>1
      <4> QED BY <4>1, <4>2
    <3>6. pos' = pos - 1
      BY <2>1, <3>4, <3>5
    <3>7. ASSUME NEW i \in 1..Len(l) PROVE b[i - 1] = l[i]
      <4>1. i \in 1..Len(line) /\ i - 1 \in 0..Count /\ i - 1 # pos /\ l[i] = line[i]
        BY <1>1, <3>1, <3>2
      <4> QED BY <1>1, <1>4, <4>1
    <3> QED BY <1>1, <1>4, <1>7, <1>8, <2>1, <2>2, <3>1, <3>2, <3>3, <3>6, <3>7
  <2> QED BY <2>3, <2>4
<1>9. ASSUME pos < Count, c = "^l" PROVE ShellInv'
  <2> DEFINE d == [b EXCEPT ![pos] = End]
  <2>1. buf' = d /\ pos' = pos /\ line' = line
    BY <1>1, <1>3, <1>4, <1>9 DEF Edited, Meant
  <2>2. d \in [0..Count -> Char] /\ d[Count] = End /\ \A i \in 1..Len(line) : d[i - 1] = line[i]
    BY <1>1, <1>4, <1>9
  <2> HIDE DEF d
  <2> QED BY <1>1, <1>7, <1>9, <2>1, <2>2
<1>10. ASSUME pos < Count, c = "^u" PROVE ShellInv'
  <2> DEFINE d == [i \in 0..Count |-> IF i \in 1..pos THEN End ELSE b[i]]
  <2>1. buf' = d /\ pos' = 0 /\ line' = << >>
    BY <1>1, <1>3, <1>4, <1>10 DEF Edited, Meant, erase
  <2>2. d \in [0..Count -> Char] /\ d[Count] = End
    BY <1>1, <1>4, <1>10
  <2>3. << >> \in Seq(Kept) /\ Len(<< >>) = 0
    OBVIOUS
  <2> HIDE DEF d
  <2> QED BY <1>1, <1>7, <1>10, <2>1, <2>2, <2>3
<1>11. ASSUME pos < Count, c \notin {"NL", "BS", "^l", "^u"} PROVE ShellInv'
  <2> DEFINE l == Append(line, c)
  <2>1. buf' = b /\ pos' = pos + 1 /\ line' = l
    BY <1>1, <1>3, <1>4, <1>11 DEF Edited, Meant
  <2>2. c \in Kept
    BY <1>2, <1>11 DEF Kept
  <2>3. l \in Seq(Kept) /\ Len(l) = Len(line) + 1 /\ l[Len(line) + 1] = c /\ \A i \in 1..Len(line) : l[i] = line[i]
    BY <1>1, <2>2
  <2> HIDE DEF l
  <2>4. \A i \in 1..Len(l) : b[i - 1] = l[i]
    <3> SUFFICES ASSUME NEW i \in 1..Len(l) PROVE b[i - 1] = l[i]
      OBVIOUS
    <3>1. CASE i = Len(line) + 1
      BY <1>1, <1>4, <2>3, <3>1
    <3>2. CASE i \in 1..Len(line)
      BY <1>1, <1>4, <2>3, <3>2
    <3> QED BY <1>1, <2>3, <3>1, <3>2
  <2>5. b[Count] = End /\ Len(l) <= Count /\ pos + 1 = Len(l)
    BY <1>1, <1>4, <1>11, <2>3
  <2> QED BY <1>1, <1>4, <1>7, <1>11, <2>1, <2>3, <2>4, <2>5
<1> QED BY <1>1, <1>5, <1>6, <1>8, <1>9, <1>10, <1>11

-----------------------------------------------------------------------------
\* Every step keeps both invariants.
LEMMA TerminalStep == KeyboardInv /\ ShellInv /\ [TerminalNext]_terminal_vars => (KeyboardInv /\ ShellInv)'
<1> SUFFICES ASSUME KeyboardInv, ShellInv, [TerminalNext]_terminal_vars PROVE KeyboardInv' /\ ShellInv'
  OBVIOUS
<1>1. CASE UNCHANGED terminal_vars
  BY <1>1 DEF terminal_vars, KeyboardInv, Underway, Coming, Right, ShellInv
<1>2. ASSUME NEW key \in Key, Press(key) \/ Release(key) PROVE KeyboardInv' /\ ShellInv'
  <2>1. ShellInv'
    BY <1>2 DEF Press, Release, ShellInv
  <2> QED BY <1>2, <2>1, KeySound
<1>3. CASE intr_keyboard_handler
  BY <1>3, HandlerSound, TypedSound
<1>4. ASSUME readline \/ my_shell PROVE KeyboardInv'
  BY <1>4 DEF readline, my_shell, KeyboardInv, Underway, Coming, Right
<1>5. CASE readline
  BY <1>4, <1>5, ReadlineSound
<1>6. CASE my_shell
  <2>1. /\ shell' \in {"null", "read"} /\ buf' = Clear /\ pos' = 0 /\ line' = << >> /\ UNCHANGED kbd_buf
    BY <1>6 DEF my_shell
  <2>2. Count \in Nat \ {0} /\ Clear \in [0..Count -> Char] /\ Clear[Count] = End
    BY TerminalAssumption DEF Clear, Char
  <2>3. ShellInv'
    BY <2>1, <2>2 DEF ShellInv
  <2> QED BY <1>4, <1>6, <2>3
<1> QED BY <1>1, <1>2, <1>3, <1>5, <1>6 DEF TerminalNext

\* The states of the terminal satisfy both invariants.
LEMMA TerminalInvariant == TerminalSpec => [](KeyboardInv /\ ShellInv)
BY TerminalStarts, TerminalStep, PTL DEF TerminalSpec

\* Whatever keys are pressed, held and released, in any order and by either of
\* the two keys of a modifier, the handler knows which modifiers are held when
\* it has seen the bytes, but for those of which one key was released.
THEOREM ModifiersTracked == TerminalSpec => []ModifiersExact
<1>1. ASSUME KeyboardInv PROVE ModifiersExact
  <2> SUFFICES ASSUME sent = << >>
               PROVE  ~kbd.ext_scancode /\ \A m \in Modifier : Right(m)
    BY DEF ModifiersExact, Right
  <2>1. \A key, break : ~Coming(key, break)
    BY DEF Coming
  <2> QED BY <1>1, <2>1 DEF KeyboardInv
<1> QED BY <1>1, TerminalInvariant, PTL

\* As long as the line fits, readline() has it in its buffer as it was edited,
\* and ends it where the line ends.
THEOREM LineKept == TerminalSpec => []LineExact
<1>1. ASSUME ShellInv PROVE LineExact
  <2>1. line \in Seq(Kept) /\ Len(line) \in Nat /\ Count \in Nat \ {0}
    BY <1>1, TerminalAssumption DEF ShellInv
  <2>2. ASSUME shell \in {"read", "parse"}
        PROVE  pos = Len(line) /\ \A i \in 1..pos : buf[i - 1] = line[i]
    BY <1>1, <2>2 DEF ShellInv
  <2>3. ASSUME shell = "parse" PROVE Length = Len(line)
    <3> DEFINE ends(n) == buf[n] = End /\ \A i \in 0..n - 1 : buf[i] # End
    <3>1. Len(line) \in 0..Count /\ buf[Len(line)] = End
      BY <1>1, <2>1, <2>3 DEF ShellInv
    <3>2. ASSUME NEW i \in 0..Len(line) - 1 PROVE buf[i] # End
      <4>1. i + 1 \in 1..Len(line) /\ line[i + 1] \in Kept
        BY <2>1
      <4>2. buf[(i + 1) - 1] = line[i + 1]
        BY <2>2, <2>3, <4>1
      <4> QED BY <4>1, <4>2 DEF Kept, Typed
    <3>3. ends(Len(line))
      BY <3>1, <3>2
    <3>4. ASSUME NEW n \in 0..Count, ends(n) PROVE n = Len(line)
      BY <2>1, <3>1, <3>3, <3>4
    <3> HIDE DEF ends
    <3>5. (CHOOSE n \in 0..Count : ends(n)) = Len(line)
      BY <3>1, <3>3, <3>4
    <3> QED BY <3>5 DEF ends, Length
  <2> QED BY <2>2, <2>3 DEF LineExact
<1> QED BY <1>1, TerminalInvariant, PTL

-----------------------------------------------------------------------------
\* A set of natural numbers that is not empty has a least one.
LEMMA LeastOf ==
  ASSUME NEW S \in SUBSET Nat, S # {}
  PROVE  \E x \in S : \A y \in S : x <= y
<1> DEFINE R == OpToRel(<, Nat)
<1>1. IsWellFoundedOn(R, Nat)
  BY NatLessThanWellFounded
<1>2. \A x, y \in Nat : <<y, x>> \in R <=> y < x
  BY DEF OpToRel
<1> HIDE DEF R
<1>3. \E x \in S : \A y \in S : ~(<<y, x>> \in R)
  BY <1>1, WFMin
<1>4. \E x \in S : \A y \in S : ~(y < x)
  BY <1>2, <1>3, Zenon
<1> QED BY <1>4

\* cmd_parse() goes through states, each of which comes from the one before by
\* a character.
LEMMA ParseSteps ==
  ASSUME NEW L \in Nat, Length = L
  PROVE  \E r : /\ r[0] = [argc |-> 0, in_word |-> FALSE, argv |-> << >>] /\ cmd_parse = r[L]
                /\ \A n \in 1..L : r[n] = parse_step(r[n - 1], n - 1)
<1> DEFINE Start == [argc |-> 0, in_word |-> FALSE, argv |-> << >>]
           Step(f, i) == IF i = 0 THEN Start ELSE parse_step(f[i - 1], i - 1)
           Good(f, n) == f = [i \in 0..n |-> Step(f, i)]
           Bad == {n \in Nat : ~\E f : Good(f, n)}
<1>1. Bad = {}
  <2> SUFFICES ASSUME Bad # {} PROVE FALSE
    OBVIOUS
  <2>1. PICK n \in Bad : \A b \in Bad : n <= b
    BY LeastOf
  <2>2. n # 0
    <3>1. Good([i \in 0..0 |-> Start], 0)
      OBVIOUS
    <3> QED BY <2>1, <3>1
  <2>3. n \in Nat /\ n - 1 \in Nat /\ n - 1 \notin Bad
    <3>1. n \in Nat
      OBVIOUS
    <3> HIDE DEF Bad
    <3> QED BY <2>1, <2>2, <3>1
  <2>4. PICK f : Good(f, n - 1)
    BY <2>3
  <2> DEFINE g == [i \in 0..n |-> Step(f, i)]
  <2>5. Good(g, n)
    <3>1. \A i \in 0..n - 1 : g[i] = f[i]
      <4>1. ASSUME NEW i \in 0..n - 1 PROVE f[i] = Step(f, i) /\ i \in 0..n
        <5> HIDE DEF Step
        <5> QED BY <2>3, <2>4
      <4>2. \A i \in 0..n : g[i] = Step(f, i)
        OBVIOUS
      <4> QED BY <4>1, <4>2
    <3>2. \A i \in 0..n : Step(g, i) = Step(f, i)
      <4> SUFFICES ASSUME NEW i \in 0..n PROVE Step(g, i) = Step(f, i)
        OBVIOUS
      <4> HIDE DEF g
      <4>1. CASE i = 0
        BY <4>1
      <4>2. CASE i # 0
        <5>1. g[i - 1] = f[i - 1]
          BY <2>3, <3>1, <4>2
        <5> QED BY <4>2, <5>1
      <4> QED BY <4>1, <4>2
    <3> HIDE DEF Step
    <3> QED BY <3>2
  <2> QED BY <2>1, <2>5
<1> DEFINE parsed[n \in 0..L] == IF n = 0 THEN Start ELSE parse_step(parsed[n - 1], n - 1)
<1>2. cmd_parse = parsed[L]
  BY DEF cmd_parse
<1>3. \E f : Good(f, L)
  BY <1>1
<1>4. parsed = [i \in 0..L |-> Step(parsed, i)]
  BY <1>3
<1> HIDE DEF parsed
<1>5. parsed[0] = Start /\ \A n \in 1..L : parsed[n] = parse_step(parsed[n - 1], n - 1)
  <2>1. \A n \in 0..L : parsed[n] = Step(parsed, n)
    <3> HIDE DEF Step
    <3> QED BY <1>4
  <2> QED BY <2>1
<1> QED BY <1>2, <1>5

\* The first characters of the words among the first n of the line.
Starts(n) == {i \in 0..n - 1 : buf[i] # "SP" /\ (i = 0 \/ buf[i - 1] = "SP")}

\* What cmd_parse() has done after n characters.
Parsed(argc, in_word, argv, n) ==
  LET c == Cardinality(Starts(n))
  IN  /\ argc = (IF c > MAX_ARG_NR + 1 THEN -1 ELSE c)
      /\ in_word \in BOOLEAN
      /\ argc # -1 => (in_word <=> n > 0 /\ buf[n - 1] # "SP")
      /\ argv \in Seq(Nat)
      /\ \A i \in 1..Len(argv) : argv[i] \in Starts(n)
      /\ \A i, j \in 1..Len(argv) : i < j => argv[i] < argv[j]
      /\ Len(argv) = IF c > MAX_ARG_NR + 1 THEN MAX_ARG_NR + 2 ELSE c

ParsedTo(r, n) ==
  \E argc, in_word, argv :
    r = [argc |-> argc, in_word |-> in_word, argv |-> argv] /\ Parsed(argc, in_word, argv, n)

\* A character begins a word or it does not.
LEMMA StartsFacts ==
  ASSUME NEW n \in Nat
  PROVE  /\ Starts(n) \subseteq 0..n - 1 /\ IsFiniteSet(Starts(n)) /\ Cardinality(Starts(n)) \in Nat
         /\ Starts(n + 1) = IF buf[n] # "SP" /\ (n = 0 \/ buf[n - 1] = "SP")
                            THEN Starts(n) \cup {n} ELSE Starts(n)
         /\ Cardinality(Starts(n + 1)) = Cardinality(Starts(n)) +
              IF buf[n] # "SP" /\ (n = 0 \/ buf[n - 1] = "SP") THEN 1 ELSE 0
<1>1. Starts(n) \subseteq 0..n - 1 /\ IsFiniteSet(Starts(n)) /\ Cardinality(Starts(n)) \in Nat
  <2>1. Starts(n) \in SUBSET (0..n - 1) /\ IsFiniteSet(0..n - 1)
    BY FS_Interval DEF Starts
  <2> QED BY <2>1, FS_Subset, FS_CardinalityType
<1>2. Starts(n + 1) = IF buf[n] # "SP" /\ (n = 0 \/ buf[n - 1] = "SP")
                      THEN Starts(n) \cup {n} ELSE Starts(n)
  <2>1. 0..(n + 1) - 1 = 0..n - 1 \cup {n}
    OBVIOUS
  <2> QED BY <2>1 DEF Starts
<1>3. n \notin Starts(n)
  BY <1>1
<1> QED BY <1>1, <1>2, <1>3, FS_AddElement

\* One character more, whatever it is.
LEMMA ParseSound ==
  ASSUME NEW n \in Nat, NEW r, ParsedTo(r, n)
  PROVE  ParsedTo(parse_step(r, n), n + 1)
<1> USE TerminalAssumption
<1> DEFINE c == Cardinality(Starts(n))
           d == Cardinality(Starts(n + 1))
           Begins == buf[n] # "SP" /\ (n = 0 \/ buf[n - 1] = "SP")
           s == parse_step(r, n)
<1>1. PICK argc, in_word, argv :
        r = [argc |-> argc, in_word |-> in_word, argv |-> argv] /\ Parsed(argc, in_word, argv, n)
  BY DEF ParsedTo
<1>2. /\ argc = (IF c > MAX_ARG_NR + 1 THEN -1 ELSE c)
      /\ in_word \in BOOLEAN
      /\ argc # -1 => (in_word <=> n > 0 /\ buf[n - 1] # "SP")
      /\ argv \in Seq(Nat)
      /\ \A i \in 1..Len(argv) : argv[i] \in Starts(n)
      /\ \A i, j \in 1..Len(argv) : i < j => argv[i] < argv[j]
      /\ Len(argv) = IF c > MAX_ARG_NR + 1 THEN MAX_ARG_NR + 2 ELSE c
  BY <1>1 DEF Parsed
<1>3. /\ c \in Nat /\ d = c + (IF Begins THEN 1 ELSE 0)
      /\ Starts(n) \subseteq 0..n - 1 /\ Starts(n) \subseteq Starts(n + 1)
      /\ Begins => n \in Starts(n + 1)
  BY StartsFacts
<1>4. r.argc = argc /\ r.in_word = in_word /\ r.argv = argv
  BY <1>1
<1>5. \A x, y, z : s = [argc |-> x, in_word |-> y, argv |-> z] /\ Parsed(x, y, z, n + 1)
                     => ParsedTo(s, n + 1)
  BY DEF ParsedTo
<1>6. ASSUME NEW x, NEW y \in BOOLEAN, NEW z \in Seq(Nat),
             x = (IF d > MAX_ARG_NR + 1 THEN -1 ELSE d),
             x # -1 => (y <=> buf[n] # "SP"),
             \A i \in 1..Len(z) : z[i] \in Starts(n + 1),
             \A i, j \in 1..Len(z) : i < j => z[i] < z[j],
             Len(z) = (IF d > MAX_ARG_NR + 1 THEN MAX_ARG_NR + 2 ELSE d)
      PROVE  Parsed(x, y, z, n + 1)
  <2>1. (n + 1) - 1 = n /\ n + 1 > 0
    OBVIOUS
  <2>2. x # -1 => (y <=> n + 1 > 0 /\ buf[(n + 1) - 1] # "SP")
    BY <1>6, <2>1
  <2> QED BY <1>6, <2>2 DEF Parsed
<1> HIDE DEF c, d
<1>7. CASE argc = -1 \/ buf[n] = "SP"
  <2>1. s = [argc |-> argc, in_word |-> FALSE, argv |-> argv]
    BY <1>1, <1>4, <1>7 DEF parse_step
  <2>2. argc = -1 => c > MAX_ARG_NR + 1
    BY <1>2, <1>3
  <2>3. argc = (IF d > MAX_ARG_NR + 1 THEN -1 ELSE d)
    BY <1>2, <1>3, <1>7, <2>2
  <2>4. Len(argv) = (IF d > MAX_ARG_NR + 1 THEN MAX_ARG_NR + 2 ELSE d)
    BY <1>2, <1>3, <1>7, <2>2
  <2>5. argc # -1 => buf[n] = "SP"
    BY <1>7
  <2>6. \A i \in 1..Len(argv) : argv[i] \in Starts(n + 1)
    BY <1>2, <1>3
  <2> HIDE DEF s
  <2>7. Parsed(argc, FALSE, argv, n + 1)
    BY <1>2, <1>6, <2>3, <2>4, <2>5, <2>6
  <2> QED BY <1>5, <2>1, <2>7 DEF s
<1>8. CASE argc # -1 /\ buf[n] # "SP" /\ in_word
  <2>1. s = r
    BY <1>4, <1>8 DEF parse_step
  <2>2. ~Begins
    BY <1>2, <1>8
  <2>3. d = c
    BY <1>3, <2>2
  <2>4. \A i \in 1..Len(argv) : argv[i] \in Starts(n + 1)
    BY <1>2, <1>3
  <2> HIDE DEF s
  <2>5. Parsed(argc, in_word, argv, n + 1)
    BY <1>2, <1>6, <1>8, <2>3, <2>4
  <2> QED BY <1>1, <1>5, <2>1, <2>5 DEF s
<1>9. CASE argc # -1 /\ buf[n] # "SP" /\ ~in_word
  <2> DEFINE x == IF argc > MAX_ARG_NR THEN -1 ELSE argc + 1
             z == Append(argv, n)
  <2>1. s = [argc |-> x, in_word |-> TRUE, argv |-> z]
    BY <1>4, <1>9 DEF parse_step
  <2>2. Begins /\ d = c + 1 /\ c <= MAX_ARG_NR + 1 /\ argc = c
    BY <1>2, <1>3, <1>9
  <2>3. /\ z \in Seq(Nat) /\ Len(z) = Len(argv) + 1 /\ Len(argv) = c
        /\ \A i \in 1..Len(z) : z[i] = IF i = Len(z) THEN n ELSE argv[i]
    BY <1>2, <2>2
  <2>4. \A i \in 1..Len(z) : i # Len(z) => i \in 1..Len(argv) /\ argv[i] \in Starts(n) /\ argv[i] < n
    <3> HIDE DEF z
    <3>1. ASSUME NEW i \in 1..Len(z), i # Len(z) PROVE i \in 1..Len(argv)
      BY <2>3, <3>1
    <3>2. \A i \in 1..Len(argv) : argv[i] \in Starts(n) /\ argv[i] < n
      <4>1. \A b \in Starts(n) : b < n
        BY <1>3
      <4> QED BY <1>2, <4>1
    <3> QED BY <3>1, <3>2
  <2> HIDE DEF z, s
  <2>5. \A i \in 1..Len(z) : z[i] \in Starts(n + 1)
    BY <1>3, <2>2, <2>3, <2>4
  <2>6. \A i, j \in 1..Len(z) : i < j => z[i] < z[j]
    <3> SUFFICES ASSUME NEW i \in 1..Len(z), NEW j \in 1..Len(z), i < j PROVE z[i] < z[j]
      OBVIOUS
    <3>1. i # Len(z) /\ i \in 1..Len(argv) /\ argv[i] < n /\ z[i] = argv[i]
      BY <1>3, <2>3, <2>4
    <3>2. CASE j = Len(z)
      BY <2>3, <3>1, <3>2
    <3>3. CASE j # Len(z)
      BY <1>2, <2>3, <2>4, <3>1, <3>3
    <3> QED BY <3>2, <3>3
  <2>7. x = (IF d > MAX_ARG_NR + 1 THEN -1 ELSE d)
    BY <1>3, <2>2
  <2>8. Len(z) = (IF d > MAX_ARG_NR + 1 THEN MAX_ARG_NR + 2 ELSE d)
    BY <1>3, <2>2, <2>3
  <2> HIDE DEF x
  <2>9. Parsed(x, TRUE, z, n + 1)
    BY <1>6, <1>9, <2>3, <2>5, <2>6, <2>7, <2>8
  <2> QED BY <1>5, <2>1, <2>9 DEF s
<1> QED BY <1>2, <1>7, <1>8, <1>9

\* The words of a line of any length, for any size of argv.
LEMMA ParseExact ==
  ASSUME NEW L \in Nat, Length = L
  PROVE  ParsedTo(cmd_parse, L)
<1>1. PICK r : /\ r[0] = [argc |-> 0, in_word |-> FALSE, argv |-> << >>] /\ cmd_parse = r[L]
               /\ \A n \in 1..L : r[n] = parse_step(r[n - 1], n - 1)
  BY ParseSteps
<1> DEFINE Bad == {n \in 0..L : ~ParsedTo(r[n], n)}
<1>2. Bad = {}
  <2> SUFFICES ASSUME Bad # {} PROVE FALSE
    OBVIOUS
  <2>1. PICK n \in Bad : \A b \in Bad : n <= b
    <3>1. Bad \in SUBSET Nat
      OBVIOUS
    <3> HIDE DEF Bad
    <3> QED BY <3>1, LeastOf
  <2>2. ParsedTo(r[0], 0)
    <3>1. Starts(0) = {} /\ Cardinality(Starts(0)) = 0 /\ ~(0 > MAX_ARG_NR + 1)
      BY FS_EmptySet, TerminalAssumption DEF Starts
    <3>2. << >> \in Seq(Nat) /\ Len(<< >>) = 0
      OBVIOUS
    <3>3. Parsed(0, FALSE, << >>, 0)
      BY <3>1, <3>2 DEF Parsed
    <3> QED BY <1>1, <3>3 DEF ParsedTo
  <2>3. n \in 1..L
    <3>1. n \in 0..L /\ ~ParsedTo(r[n], n)
      OBVIOUS
    <3> QED BY <2>2, <3>1
  <2>4. n - 1 \in Nat /\ ParsedTo(r[n - 1], n - 1)
    <3>1. n - 1 \in 0..L /\ n - 1 \notin Bad
      <4> HIDE DEF Bad
      <4> QED BY <2>1, <2>3
    <3> QED BY <3>1
  <2>5. ParsedTo(parse_step(r[n - 1], n - 1), (n - 1) + 1)
    BY <2>4, ParseSound
  <2> QED BY <1>1, <2>3, <2>5
<1> QED BY <1>1, <1>2

\* cmd_parse() stores words of the line in order and each once, and all words of
\* every line that has no more than argv has room for.
THEOREM WordsAreArguments == TerminalSpec => []ArgsExact
<1>1. ASSUME LineExact, ShellInv PROVE ArgsExact
  <2> DEFINE n == Cardinality(Starts(Length))
             stored == cmd_parse.argv
  <2> SUFFICES ASSUME shell = "parse"
               PROVE  /\ ToSet(stored) \subseteq Starts(Length)
                      /\ \A i, j \in 1..Len(stored) : i < j => stored[i] < stored[j]
                      /\ n <= MAX_ARG_NR => cmd_parse.argc = n /\ Len(stored) = n
    BY DEF ArgsExact, Starts
  <2>1. Length \in Nat
    BY <1>1 DEF LineExact, ShellInv
  <2>2. ParsedTo(cmd_parse, Length) /\ n \in Nat
    BY <2>1, ParseExact, StartsFacts
  <2>3. PICK argc, in_word, argv :
          /\ cmd_parse = [argc |-> argc, in_word |-> in_word, argv |-> argv]
          /\ argc = (IF n > MAX_ARG_NR + 1 THEN -1 ELSE n)
          /\ argv \in Seq(Nat)
          /\ \A i \in 1..Len(argv) : argv[i] \in Starts(Length)
          /\ \A i, j \in 1..Len(argv) : i < j => argv[i] < argv[j]
          /\ Len(argv) = IF n > MAX_ARG_NR + 1 THEN MAX_ARG_NR + 2 ELSE n
    BY <2>2 DEF ParsedTo, Parsed
  <2>4. cmd_parse.argc = argc /\ stored = argv
    BY <2>3
  <2>5. ToSet(argv) \subseteq Starts(Length)
    BY <2>3 DEF ToSet
  <2>6. ASSUME n <= MAX_ARG_NR PROVE argc = n /\ Len(argv) = n
    <3>1. ~(n > MAX_ARG_NR + 1)
      BY <2>2, <2>6, TerminalAssumption
    <3> QED BY <2>3, <3>1
  <2> HIDE DEF n, stored
  <2> QED BY <2>3, <2>4, <2>5, <2>6
<1> QED BY <1>1, LineKept, TerminalInvariant, PTL
=============================================================================
