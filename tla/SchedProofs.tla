---------------------------- MODULE SchedProofs ----------------------------
(***************************************************************************)
(* Lemmas about the lists and the primitives of modules Sched and          *)
(* Semaphore: each primitive keeps the ready list and the statuses in      *)
(* agreement, none of their ASSERTs fails, and who is awake changes only   *)
(* as the primitive's name says.                                           *)
(***************************************************************************)
EXTENDS Semaphore, TLAPS

\* The ready list holds exactly the READY tasks, each once.
Exact(s) ==
  /\ \A t \in Thread : s.status[t] = "READY" <=> elem_find(s.ready, t)
  /\ NoDuplicate(s.ready)

\* What holds whenever the kernel calls a primitive: the lists are exact, at
\* most the current task is RUNNING and idle can be woken.
Sound(s) ==
  /\ s \in SchedState
  /\ Exact(s)
  /\ \A t \in Thread : s.status[t] = "RUNNING" => t = s.cur
  /\ s.status[idle] \in {"RUNNING", "READY", "BLOCKED"}
  /\ ~s.panic

NoneRunning(s) == \A t \in Thread : s.status[t] # "RUNNING"

\* What holds again once a primitive has returned to a running task.
Running(s) == Sound(s) /\ s.status[s.cur] = "RUNNING"

\* A task that may run.  Which of them does is the scheduler's choice.
Awake == {"READY", "RUNNING"}

\* t is as it was, or still awake.
Same(s, r, t) ==
  r.status[t] = s.status[t] \/ (s.status[t] \in Awake /\ r.status[t] \in Awake)

\* From s to r the scheduler has moved awake tasks about, and idle, no others.
Shuffled(s, r) == \A t \in Thread \ {idle} : Same(s, r, t)

-----------------------------------------------------------------------------
\* list_push of list.c puts an element the list lacks in front and adds nothing
\* else.
LEMMA PushFacts ==
  ASSUME NEW l \in Seq(Thread), NEW t \in Thread
  PROVE  /\ list_push(l, t) \in Seq(Thread)
         /\ list_push(l, t) # << >>
         /\ \A u \in Thread :
              elem_find(list_push(l, t), u) <=> u = t \/ elem_find(l, u)
         /\ NoDuplicate(l) /\ ~elem_find(l, t) => NoDuplicate(list_push(l, t))
<1> DEFINE p == list_push(l, t)
<1>1. p \in Seq(Thread) /\ Len(p) = Len(l) + 1
  BY DEF list_push
<1>2. p[1] = t /\ \A i \in 1..Len(l) : p[i + 1] = l[i]
  BY DEF list_push
<1>3. \A i \in 1..Len(p) : i = 1 \/ (i - 1 \in 1..Len(l) /\ p[i] = l[i - 1])
  BY <1>1, <1>2
<1> HIDE DEF p
<1>4. \A u \in Thread : elem_find(p, u) <=> u = t \/ elem_find(l, u)
  <2> SUFFICES ASSUME NEW u \in Thread
               PROVE  elem_find(p, u) <=> u = t \/ elem_find(l, u)
    OBVIOUS
  <2>1. elem_find(p, u) => u = t \/ elem_find(l, u)
    BY <1>2, <1>3 DEF elem_find
  <2>2. u = t => elem_find(p, u)
    BY <1>1, <1>2 DEF elem_find
  <2>3. elem_find(l, u) => elem_find(p, u)
    <3> SUFFICES ASSUME NEW i \in 1..Len(l), l[i] = u
                 PROVE  elem_find(p, u)
      BY DEF elem_find
    <3>1. i + 1 \in 1..Len(p) /\ p[i + 1] = u
      BY <1>1, <1>2
    <3> QED BY <3>1 DEF elem_find
  <2> QED BY <2>1, <2>2, <2>3
<1>5. ASSUME NoDuplicate(l), ~elem_find(l, t)
      PROVE  NoDuplicate(p)
  <2> SUFFICES ASSUME NEW i \in 1..Len(p), NEW j \in 1..Len(p), p[i] = p[j]
               PROVE  i = j
    BY DEF NoDuplicate
  <2>1. CASE i = 1
    BY <2>1, <1>2, <1>3, <1>5 DEF elem_find
  <2>2. CASE j = 1
    BY <2>2, <1>2, <1>3, <1>5 DEF elem_find
  <2>3. CASE i # 1 /\ j # 1
    <3>1. /\ i - 1 \in 1..Len(l) /\ j - 1 \in 1..Len(l)
          /\ l[i - 1] = l[j - 1]
      BY <2>3, <1>3
    <3>2. i - 1 = j - 1
      BY <3>1, <1>5 DEF NoDuplicate
    <3> QED BY <3>2, <1>1
  <2> QED BY <2>1, <2>2, <2>3
<1>6. p # << >>
  BY <1>1
<1> QED BY <1>1, <1>4, <1>5, <1>6 DEF p

\* list_append of list.c puts an element the list lacks last and adds nothing
\* else.
LEMMA AppendFacts ==
  ASSUME NEW l \in Seq(Thread), NEW t \in Thread
  PROVE  /\ Append(l, t) \in Seq(Thread)
         /\ Append(l, t) # << >>
         /\ \A u \in Thread :
              elem_find(Append(l, t), u) <=> u = t \/ elem_find(l, u)
         /\ NoDuplicate(l) /\ ~elem_find(l, t) => NoDuplicate(Append(l, t))
<1> DEFINE p == Append(l, t)
<1>1. p \in Seq(Thread) /\ Len(p) = Len(l) + 1
  OBVIOUS
<1>2. p[Len(l) + 1] = t /\ \A i \in 1..Len(l) : p[i] = l[i]
  OBVIOUS
<1>3. \A i \in 1..Len(p) : i = Len(l) + 1 \/ i \in 1..Len(l)
  BY <1>1
<1>4. Len(l) + 1 \in 1..Len(p)
  BY <1>1
<1> HIDE DEF p
<1>5. \A u \in Thread : elem_find(p, u) <=> u = t \/ elem_find(l, u)
  BY <1>1, <1>2, <1>3, <1>4 DEF elem_find
<1>6. ASSUME NoDuplicate(l), ~elem_find(l, t)
      PROVE  NoDuplicate(p)
  BY <1>2, <1>3, <1>6 DEF NoDuplicate, elem_find
<1>7. p # << >>
  BY <1>1
<1> QED BY <1>1, <1>5, <1>6, <1>7 DEF p

\* list_pop of list.c takes the first element and leaves the others.
LEMMA PopFacts ==
  ASSUME NEW l \in Seq(Thread), l # << >>, NoDuplicate(l)
  PROVE  /\ Tail(l) \in Seq(Thread)
         /\ Head(l) \in Thread
         /\ elem_find(l, Head(l))
         /\ \A u \in Thread :
              elem_find(Tail(l), u) <=> u # Head(l) /\ elem_find(l, u)
         /\ NoDuplicate(Tail(l))
<1> DEFINE p == Tail(l)
<1>1. /\ Len(l) \in Nat \ {0}
      /\ p \in Seq(Thread) /\ Len(p) = Len(l) - 1
      /\ Head(l) = l[1] /\ Head(l) \in Thread
  OBVIOUS
<1>2. \A i \in 1..Len(p) : p[i] = l[i + 1] /\ i + 1 \in 1..Len(l)
  OBVIOUS
<1>3. \A i \in 1..Len(l) : i = 1 \/ (i - 1 \in 1..Len(p) /\ l[i] = p[i - 1])
  OBVIOUS
<1> HIDE DEF p
<1>4. elem_find(l, Head(l))
  BY <1>1 DEF elem_find
<1>5. ASSUME NEW u \in Thread
      PROVE  elem_find(p, u) <=> u # Head(l) /\ elem_find(l, u)
  <2>1. elem_find(p, u) => u # Head(l) /\ elem_find(l, u)
    <3> SUFFICES ASSUME NEW i \in 1..Len(p), p[i] = u
                 PROVE  u # Head(l) /\ elem_find(l, u)
      BY DEF elem_find
    <3>1. i + 1 \in 1..Len(l) /\ l[i + 1] = u /\ i + 1 # 1 /\ 1 \in 1..Len(l)
      BY <1>1, <1>2
    <3> QED BY <3>1, <1>1 DEF elem_find, NoDuplicate
  <2>2. u # Head(l) /\ elem_find(l, u) => elem_find(p, u)
    BY <1>1, <1>3 DEF elem_find
  <2> QED BY <2>1, <2>2
<1>6. NoDuplicate(p)
  <2> SUFFICES ASSUME NEW i \in 1..Len(p), NEW j \in 1..Len(p), p[i] = p[j]
               PROVE  i = j
    BY DEF NoDuplicate
  <2>1. /\ i + 1 \in 1..Len(l) /\ j + 1 \in 1..Len(l)
        /\ l[i + 1] = l[j + 1]
    BY <1>2
  <2>2. i + 1 = j + 1
    BY <2>1 DEF NoDuplicate
  <2> QED BY <2>2, <1>1
<1> QED BY <1>1, <1>4, <1>5, <1>6 DEF p

\* list_remove of list.c takes one element out and leaves the others.
LEMMA RemoveFacts ==
  ASSUME NEW S, NEW l \in Seq(S), NEW t, elem_find(l, t), NoDuplicate(l)
  PROVE  /\ list_remove(l, t) \in Seq(S)
         /\ Len(list_remove(l, t)) = Len(l) - 1
         /\ \A u : elem_find(list_remove(l, t), u) <=> u # t /\ elem_find(l, u)
         /\ NoDuplicate(list_remove(l, t))
<1> DEFINE c == CHOOSE i \in 1..Len(l) : l[i] = t
<1>1. c \in 1..Len(l) /\ l[c] = t
  BY DEF elem_find
<1> HIDE DEF c
<1> DEFINE a == SubSeq(l, 1, c - 1)
           b == SubSeq(l, c + 1, Len(l))
<1>2. a \in Seq(S) /\ Len(a) = c - 1 /\ \A i \in 1..c - 1 : a[i] = l[i]
  BY <1>1
<1>3. b \in Seq(S) /\ Len(b) = Len(l) - c /\ \A i \in 1..Len(l) - c : b[i] = l[c + i]
  BY <1>1
<1> HIDE DEF a, b
<1>4. /\ a \o b \in Seq(S) /\ Len(a \o b) = Len(l) - 1
      /\ \A i \in 1..Len(l) - 1 : (a \o b)[i] = IF i < c THEN l[i] ELSE l[i + 1]
  <2>0. a \o b \in Seq(S) /\ Len(a \o b) = Len(a) + Len(b)
    BY <1>2, <1>3
  <2>1. Len(a \o b) = Len(l) - 1
    BY <1>1, <1>2, <1>3, <2>0
  <2>2. ASSUME NEW i \in 1..Len(l) - 1, i < c PROVE (a \o b)[i] = l[i]
    BY <1>1, <1>2, <1>3, <2>2
  <2>3. ASSUME NEW i \in 1..Len(l) - 1, ~(i < c) PROVE (a \o b)[i] = l[i + 1]
    <3>1. i - (c - 1) \in 1..Len(l) - c
      BY <1>1, <2>3
    <3>2. (a \o b)[i] = b[i - (c - 1)]
      BY <1>1, <1>2, <1>3, <2>3
    <3>3. b[i - (c - 1)] = l[c + (i - (c - 1))]
      BY <1>3, <3>1
    <3>4. c + (i - (c - 1)) = i + 1
      BY <1>1
    <3> QED BY <3>2, <3>3, <3>4
  <2> QED BY <2>0, <2>1, <2>2, <2>3
<1> DEFINE d == a \o b
<1>5. list_remove(l, t) = d
  BY DEF list_remove, a, b, c
<1> HIDE DEF d
<1>6. d \in Seq(S) /\ Len(d) = Len(l) - 1
  BY <1>4 DEF d
<1>7. \A i \in 1..Len(d) : d[i] = IF i < c THEN l[i] ELSE l[i + 1]
  BY <1>4, <1>6 DEF d
<1>8. ASSUME NEW u PROVE elem_find(d, u) <=> u # t /\ elem_find(l, u)
  <2>1. ASSUME NEW i \in 1..Len(d), d[i] = u PROVE u # t /\ elem_find(l, u)
    <3> DEFINE j == IF i < c THEN i ELSE i + 1
    <3>1. j \in 1..Len(l) /\ j # c /\ l[j] = u
      BY <1>1, <1>6, <1>7, <2>1
    <3> HIDE DEF j
    <3> QED BY <1>1, <3>1 DEF elem_find, NoDuplicate
  <2>2. ASSUME NEW j \in 1..Len(l), l[j] = u, u # t PROVE elem_find(d, u)
    <3> DEFINE i == IF j < c THEN j ELSE j - 1
    <3>1. i \in 1..Len(d) /\ d[i] = u
      BY <1>1, <1>6, <1>7, <2>2
    <3> HIDE DEF i
    <3> QED BY <3>1 DEF elem_find
  <2> QED BY <2>1, <2>2 DEF elem_find
<1>9. NoDuplicate(d)
  <2> SUFFICES ASSUME NEW i \in 1..Len(d), NEW j \in 1..Len(d), d[i] = d[j] PROVE i = j
    BY DEF NoDuplicate
  <2> DEFINE f(m) == IF m < c THEN m ELSE m + 1
  <2>1. f(i) \in 1..Len(l) /\ f(j) \in 1..Len(l) /\ l[f(i)] = l[f(j)]
    BY <1>1, <1>6, <1>7
  <2>2. f(i) = f(j)
    BY <2>1 DEF NoDuplicate
  <2> QED BY <1>1, <1>6, <2>2
<1> QED BY <1>5, <1>6, <1>8, <1>9

-----------------------------------------------------------------------------
\* thread_unblock of a blocked task succeeds and makes that task READY, first
\* in the ready list.
LEMMA UnblockSound ==
  ASSUME NEW s, Sound(s), NEW t \in Thread, s.status[t] \in Blocked
  PROVE  LET r == thread_unblock(s, t) IN
         /\ Sound(r)
         /\ r.cur = s.cur /\ r.ready # << >>
         /\ r.status = [s.status EXCEPT ![t] = "READY"]
<1> USE DEF Blocked, Status
<1>1. s \in SchedState /\ Exact(s) /\ s.status[t] # "READY"
  BY DEF Sound
<1>2. ~elem_find(s.ready, t)
  BY <1>1 DEF Exact
<1> DEFINE r == [s EXCEPT !.ready = list_push(s.ready, t), !.status[t] = "READY"]
<1>3. thread_unblock(s, t) = r
  BY <1>2 DEF thread_unblock
<1>4. /\ r.ready = list_push(s.ready, t)
      /\ r.status = [s.status EXCEPT ![t] = "READY"]
      /\ r.cur = s.cur /\ r.panic = s.panic
  BY <1>1 DEF SchedState
<1>5. s.ready \in Seq(Thread) /\ NoDuplicate(s.ready)
  BY <1>1 DEF SchedState, Exact
<1>6. /\ list_push(s.ready, t) \in Seq(Thread)
      /\ list_push(s.ready, t) # << >>
      /\ \A u \in Thread : elem_find(list_push(s.ready, t), u)
                              <=> u = t \/ elem_find(s.ready, u)
      /\ NoDuplicate(list_push(s.ready, t))
  BY <1>2, <1>5, PushFacts
<1>7. r \in SchedState
  BY <1>1, <1>6 DEF SchedState
<1> HIDE DEF r
<1>8. Exact(r)
  BY <1>1, <1>4, <1>6 DEF Exact, SchedState
<1>9. Sound(r)
  BY <1>1, <1>4, <1>7, <1>8, SchedAssumption DEF Sound, SchedState
<1> QED BY <1>3, <1>4, <1>6, <1>9

\* The task that wakes another keeps running.
LEMMA UnblockRunning ==
  ASSUME NEW s, Running(s), NEW t \in Thread, s.status[t] \in Blocked
  PROVE  Running(thread_unblock(s, t))
<1>1. LET r == thread_unblock(s, t) IN
      /\ Sound(r) /\ r.cur = s.cur
      /\ r.status = [s.status EXCEPT ![t] = "READY"]
  BY UnblockSound DEF Running
<1>2. s.status \in [Thread -> Status] /\ s.cur \in Thread /\ s.cur # t
  BY DEF Running, Sound, SchedState, Blocked
<1> QED BY <1>1, <1>2 DEF Running

\* The first part of schedule() leaves no task RUNNING.
LEMMA RequeueSound ==
  ASSUME NEW s, Sound(s)
  PROVE  LET r == requeue_current(s)
         IN  Sound(r) /\ NoneRunning(r) /\ Shuffled(s, r)
<1> USE DEF Blocked, Status, Shuffled, Same, Awake
<1>1. s \in SchedState /\ Exact(s) /\ s.cur \in Thread
  BY DEF Sound, SchedState
<1>2. CASE s.status[s.cur] # "RUNNING"
  BY <1>2 DEF requeue_current, Sound, NoneRunning
<1>3. CASE s.status[s.cur] = "RUNNING"
  <2> DEFINE r == [s EXCEPT !.ready = Append(s.ready, s.cur),
                            !.ticks[s.cur] = Priority[s.cur],
                            !.status[s.cur] = "READY"]
  <2>1. ~elem_find(s.ready, s.cur)
    BY <1>1, <1>3 DEF Exact
  <2>2. requeue_current(s) = r
    BY <1>3, <2>1 DEF requeue_current
  <2>3. /\ r.ready = Append(s.ready, s.cur)
        /\ r.status = [s.status EXCEPT ![s.cur] = "READY"]
        /\ r.cur = s.cur /\ r.panic = s.panic
    BY <1>1 DEF SchedState
  <2>4. s.ready \in Seq(Thread) /\ NoDuplicate(s.ready)
    BY <1>1 DEF SchedState, Exact
  <2>5. /\ Append(s.ready, s.cur) \in Seq(Thread)
        /\ \A u \in Thread : elem_find(Append(s.ready, s.cur), u)
                                <=> u = s.cur \/ elem_find(s.ready, u)
        /\ NoDuplicate(Append(s.ready, s.cur))
    BY <1>1, <2>1, <2>4, AppendFacts
  <2>6. r \in SchedState
    BY <1>1, <2>5, SchedAssumption DEF SchedState
  <2> HIDE DEF r
  <2>7. Exact(r)
    BY <1>1, <2>3, <2>5 DEF Exact, SchedState
  <2>8. NoneRunning(r)
    BY <1>1, <2>3 DEF NoneRunning, Sound, SchedState
  <2>9. Sound(r)
    BY <1>1, <2>3, <2>6, <2>7, <2>8, SchedAssumption
       DEF Sound, SchedState, NoneRunning
  <2>10. Shuffled(s, r)
    BY <1>1, <1>3, <2>3 DEF SchedState
  <2> QED BY <2>2, <2>8, <2>9, <2>10
<1> QED BY <1>2, <1>3

\* The second part leaves a ready list that is not empty: idle is BLOCKED
\* whenever it is needed.
LEMMA WakeIdleSound ==
  ASSUME NEW s, Sound(s), NoneRunning(s)
  PROVE  LET r == wake_idle(s)
         IN  Sound(r) /\ NoneRunning(r) /\ Shuffled(s, r) /\ r.ready # << >>
<1> USE DEF Shuffled, Same
<1>1. CASE s.ready # << >>
  BY <1>1 DEF wake_idle
<1>2. CASE s.ready = << >>
  <2>1. ~elem_find(s.ready, idle)
    BY <1>2 DEF elem_find
  <2>2. s.status[idle] = "BLOCKED"
    BY <2>1, SchedAssumption DEF Sound, Exact, NoneRunning
  <2>3. LET r == thread_unblock(s, idle) IN
        /\ Sound(r) /\ r.ready # << >>
        /\ r.status = [s.status EXCEPT ![idle] = "READY"]
    BY <2>2, UnblockSound, SchedAssumption DEF Blocked
  <2>4. s.status \in [Thread -> Status]
    BY DEF Sound, SchedState
  <2> QED BY <1>2, <2>3, <2>4 DEF wake_idle, NoneRunning
<1> QED BY <1>1, <1>2

\* The third part makes the head of the list the one RUNNING task.
LEMMA DispatchSound ==
  ASSUME NEW s, Sound(s), NoneRunning(s), s.ready # << >>
  PROVE  Running(dispatch(s)) /\ Shuffled(s, dispatch(s))
<1> USE DEF Blocked, Status
<1> DEFINE h == Head(s.ready)
           r == [s EXCEPT !.ready = Tail(s.ready), !.status[h] = "RUNNING", !.cur = h]
<1>1. s \in SchedState /\ s.ready \in Seq(Thread) /\ NoDuplicate(s.ready)
  BY DEF Sound, SchedState, Exact
<1>2. /\ Tail(s.ready) \in Seq(Thread)
      /\ h \in Thread
      /\ elem_find(s.ready, h)
      /\ \A u \in Thread : elem_find(Tail(s.ready), u)
                              <=> u # h /\ elem_find(s.ready, u)
      /\ NoDuplicate(Tail(s.ready))
  BY <1>1, PopFacts
<1> HIDE DEF h
<1>3. /\ r.ready = Tail(s.ready)
      /\ r.status = [s.status EXCEPT ![h] = "RUNNING"]
      /\ r.cur = h /\ r.panic = s.panic
  BY <1>1 DEF SchedState
<1>4. r \in SchedState
  BY <1>1, <1>2 DEF SchedState
<1>5. dispatch(s) = r
  BY DEF dispatch, h
<1> HIDE DEF r
<1>6. Exact(r)
  BY <1>1, <1>2, <1>3 DEF Exact, SchedState, Sound
<1>7. Sound(r)
  BY <1>1, <1>2, <1>3, <1>4, <1>6, SchedAssumption
     DEF Sound, SchedState, NoneRunning
<1>8. r.status[r.cur] = "RUNNING"
  BY <1>1, <1>2, <1>3 DEF SchedState
<1>9. s.status[h] = "READY"
  BY <1>2 DEF Sound, Exact
<1>10. Shuffled(s, r)
  BY <1>1, <1>2, <1>3, <1>9 DEF SchedState, Shuffled, Same, Awake
<1> QED BY <1>5, <1>7, <1>8, <1>10 DEF Running

\* schedule() always ends with one RUNNING task and trips none of its ASSERTs.
LEMMA ScheduleSound ==
  ASSUME NEW s, Sound(s)
  PROVE  Running(schedule(s)) /\ Shuffled(s, schedule(s))
<1> DEFINE a == requeue_current(s)
           b == wake_idle(a)
           r == dispatch(b)
<1>1. Sound(a) /\ NoneRunning(a) /\ Shuffled(s, a)
  BY RequeueSound
<1> HIDE DEF a
<1>2. Sound(b) /\ NoneRunning(b) /\ Shuffled(a, b) /\ b.ready # << >>
  BY <1>1, WakeIdleSound
<1> HIDE DEF b
<1>3. Running(r) /\ Shuffled(b, r)
  BY <1>2, DispatchSound
<1> HIDE DEF r
<1>4. Shuffled(s, r)
  BY <1>1, <1>2, <1>3 DEF Shuffled, Same
<1> QED BY <1>3, <1>4 DEF schedule, a, b, r

\* thread_block() is safe for a running task, in each of the three states, and
\* for idle in TASK_BLOCKED.
LEMMA BlockSound ==
  ASSUME NEW s, Running(s), NEW stat \in Blocked,
         s.cur = idle => stat = "BLOCKED"
  PROVE  LET r == thread_block(s, stat) IN
         /\ Running(r)
         /\ \A t \in Thread \ {idle} : IF t = s.cur THEN r.status[t] = stat ELSE Same(s, r, t)
<1> USE DEF Blocked, Status
<1> DEFINE r == [s EXCEPT !.status[s.cur] = stat]
<1>1. s \in SchedState /\ Exact(s) /\ s.cur \in Thread
  BY DEF Running, Sound, SchedState
<1>2. /\ r.status = [s.status EXCEPT ![s.cur] = stat]
      /\ r.ready = s.ready /\ r.cur = s.cur /\ r.panic = s.panic
      /\ r \in SchedState
  BY <1>1 DEF SchedState
<1> HIDE DEF r
<1>3. Sound(r)
  BY <1>1, <1>2, SchedAssumption DEF Sound, Exact, SchedState, Running
<1>4. thread_block(s, stat) = schedule(r)
  BY DEF thread_block, r
<1> DEFINE q == schedule(r)
<1>5. Running(q) /\ Shuffled(r, q)
  BY <1>3, ScheduleSound
<1> HIDE DEF q
<1>6. ASSUME NEW t \in Thread \ {idle}
      PROVE  IF t = s.cur THEN q.status[t] = stat ELSE Same(s, q, t)
  <2>1. Same(r, q, t)
    BY <1>5 DEF Shuffled
  <2>2. r.status[t] = IF t = s.cur THEN stat ELSE s.status[t]
    BY <1>1, <1>2 DEF SchedState
  <2> QED BY <2>1, <2>2 DEF Same, Awake
<1> QED BY <1>4, <1>5, <1>6 DEF q

\* thread_yield() is safe for every running task.
LEMMA YieldSound ==
  ASSUME NEW s, Running(s)
  PROVE  Running(thread_yield(s)) /\ Shuffled(s, thread_yield(s))
<1> USE DEF Blocked, Status
<1> DEFINE r == [s EXCEPT !.ready = Append(s.ready, s.cur),
                          !.status[s.cur] = "READY"]
<1>1. s \in SchedState /\ Exact(s) /\ s.cur \in Thread
  BY DEF Running, Sound, SchedState
<1>2. ~elem_find(s.ready, s.cur)
  BY <1>1 DEF Exact, Running
<1>3. s.ready \in Seq(Thread) /\ NoDuplicate(s.ready)
  BY <1>1 DEF SchedState, Exact
<1>4. /\ Append(s.ready, s.cur) \in Seq(Thread)
      /\ \A u \in Thread : elem_find(Append(s.ready, s.cur), u)
                              <=> u = s.cur \/ elem_find(s.ready, u)
      /\ NoDuplicate(Append(s.ready, s.cur))
  BY <1>1, <1>2, <1>3, AppendFacts
<1>5. /\ r.ready = Append(s.ready, s.cur)
      /\ r.status = [s.status EXCEPT ![s.cur] = "READY"]
      /\ r.cur = s.cur /\ r.panic = s.panic
      /\ r \in SchedState
  BY <1>1, <1>4 DEF SchedState
<1>6. thread_yield(s) = schedule(r)
  BY <1>2 DEF thread_yield
<1> HIDE DEF r
<1>7. Exact(r)
  BY <1>1, <1>4, <1>5 DEF Exact, SchedState
<1>8. Sound(r)
  BY <1>1, <1>5, <1>7, SchedAssumption DEF Sound, SchedState, Running
<1>9. Shuffled(s, r)
  BY <1>1, <1>5 DEF Shuffled, Same, Awake, SchedState, Running
<1> DEFINE q == schedule(r)
<1>10. Running(q) /\ Shuffled(r, q)
  BY <1>8, ScheduleSound
<1> HIDE DEF q
<1>11. Shuffled(s, q)
  BY <1>9, <1>10 DEF Shuffled, Same
<1> QED BY <1>6, <1>10, <1>11 DEF q
-----------------------------------------------------------------------------
\* A new task, free until then, goes to the tail of the ready list.
LEMMA CreateSound ==
  ASSUME NEW s, Running(s), NEW t \in Thread, s.status[t] = "FREE"
  PROVE  LET r == make_ready(s, t) IN
         /\ Running(r) /\ r.cur = s.cur
         /\ r.status = [s.status EXCEPT ![t] = "READY"]
<1> USE DEF Blocked, Status
<1> DEFINE r == [s EXCEPT !.ready = Append(s.ready, t),
                          !.ticks[t] = Priority[t],
                          !.status[t] = "READY"]
<1>1. s \in SchedState /\ Exact(s) /\ s.cur \in Thread
  BY DEF Running, Sound, SchedState
<1>2. ~elem_find(s.ready, t)
  BY <1>1 DEF Exact
<1>3. s.ready \in Seq(Thread) /\ NoDuplicate(s.ready)
  BY <1>1 DEF SchedState, Exact
<1>4. /\ Append(s.ready, t) \in Seq(Thread)
      /\ \A u \in Thread : elem_find(Append(s.ready, t), u)
                              <=> u = t \/ elem_find(s.ready, u)
      /\ NoDuplicate(Append(s.ready, t))
  BY <1>2, <1>3, AppendFacts
<1>5. /\ r.ready = Append(s.ready, t)
      /\ r.status = [s.status EXCEPT ![t] = "READY"]
      /\ r.cur = s.cur /\ r.panic = s.panic
      /\ r \in SchedState
  BY <1>1, <1>4, SchedAssumption DEF SchedState
<1>6. make_ready(s, t) = r
  BY <1>2 DEF make_ready
<1> HIDE DEF r
<1>7. Exact(r)
  BY <1>1, <1>4, <1>5 DEF Exact, SchedState
<1>8. Running(r)
  BY <1>1, <1>5, <1>7, SchedAssumption DEF Sound, SchedState, Running
<1> QED BY <1>5, <1>6, <1>8

\* thread_exit() of a task that is not in the ready list, main by itself or a
\* hanging child by its parent: only the status changes before schedule().
LEMMA ExitSound ==
  ASSUME NEW s, Running(s), NEW t \in Thread \ {idle}, s.status[t] # "READY",
         NEW gone \in {"FREE", "DIED"},
         NEW need_schedule \in BOOLEAN, ~need_schedule => t # s.cur
  PROVE  LET r == thread_exit(s, t, gone, need_schedule) IN
         /\ Running(r)
         /\ ~need_schedule => /\ r.status = [s.status EXCEPT ![t] = gone]
                             /\ r.cur = s.cur
<1> USE DEF Blocked, Status
<1> DEFINE r == [s EXCEPT !.status[t] = gone, !.ready = s.ready]
<1>1. s \in SchedState /\ Exact(s) /\ s.cur \in Thread
  BY DEF Running, Sound, SchedState
<1>2. ~elem_find(s.ready, t)
  BY <1>1 DEF Exact
<1>3. thread_exit(s, t, gone, need_schedule)
        = IF need_schedule THEN schedule(r) ELSE r
  BY <1>2 DEF thread_exit
<1>4. /\ r.status = [s.status EXCEPT ![t] = gone]
      /\ r.ready = s.ready /\ r.cur = s.cur /\ r.panic = s.panic
      /\ r \in SchedState
  BY <1>1 DEF SchedState
<1> HIDE DEF r
<1>5. Sound(r)
  BY <1>1, <1>4, SchedAssumption DEF Sound, Exact, SchedState, Running
<1>6. CASE need_schedule
  BY <1>3, <1>5, <1>6, ScheduleSound
<1>7. CASE ~need_schedule
  <2>1. r.status[r.cur] = "RUNNING"
    BY <1>1, <1>4, <1>7 DEF Running, SchedState
  <2> QED BY <1>3, <1>4, <1>5, <1>7, <2>1 DEF Running
<1> QED BY <1>6, <1>7

\* The timer interrupt keeps the invariant, whether or not the slice is over.
LEMMA TimerSound ==
  ASSUME NEW s, Running(s)
  PROVE  Running(intr_timer_handler(s)) /\ Shuffled(s, intr_timer_handler(s))
<1> USE DEF Blocked, Status
<1> DEFINE r == [s EXCEPT !.ticks[s.cur] = s.ticks[s.cur] - 1]
<1>1. CASE s.ticks[s.cur] = 0
  BY <1>1, ScheduleSound DEF intr_timer_handler, Running
<1>2. CASE s.ticks[s.cur] # 0
  <2>1. s \in SchedState /\ s.cur \in Thread /\ s.ticks[s.cur] \in Nat
    BY DEF Running, Sound, SchedState
  <2>2. s.ticks[s.cur] - 1 \in Nat
    BY <1>2, <2>1
  <2>3. /\ r.status = s.status
        /\ r.ready = s.ready /\ r.cur = s.cur /\ r.panic = s.panic
        /\ r \in SchedState
    BY <2>1, <2>2 DEF SchedState
  <2> HIDE DEF r
  <2>4. Running(r)
    BY <2>3 DEF Running, Sound, Exact
  <2>5. Shuffled(s, r)
    BY <2>3 DEF Shuffled, Same
  <2> QED BY <1>2, <2>4, <2>5 DEF intr_timer_handler, r
<1> QED BY <1>1, <1>2
-----------------------------------------------------------------------------
\* The turn of sema_down() that waits: the task that runs blocks as the last of
\* the waiters, and its ASSERT on the list holds.
LEMMA SemaWaitSound ==
  ASSUME NEW s, Running(s), s.cur # idle, NEW sema \in SemaState,
         NoDuplicate(sema.waiters), ~elem_find(sema.waiters, s.cur)
  PROVE  LET r == sema_wait_sched(s, sema)
             q == sema_wait(s, sema)
         IN  /\ Running(r)
             /\ \A t \in Thread \ {idle} :
                  IF t = s.cur THEN r.status[t] = "BLOCKED" ELSE Same(s, r, t)
             /\ q \in SemaState /\ q.value = sema.value /\ NoDuplicate(q.waiters)
             /\ \A t \in Thread :
                  elem_find(q.waiters, t) <=> t = s.cur \/ elem_find(sema.waiters, t)
<1>1. s.cur \in Thread /\ sema.waiters \in Seq(Thread) /\ sema.value \in Nat
  BY DEF Running, Sound, SchedState, SemaState
<1> DEFINE p == Append(sema.waiters, s.cur)
           q == [sema EXCEPT !.waiters = p]
<1>2. /\ p \in Seq(Thread) /\ NoDuplicate(p)
      /\ \A t \in Thread : elem_find(p, t) <=> t = s.cur \/ elem_find(sema.waiters, t)
  BY <1>1, AppendFacts
<1> HIDE DEF p
<1>3. q \in SemaState /\ q.value = sema.value /\ q.waiters = p
  BY <1>1, <1>2 DEF SemaState
<1>4. sema_wait_sched(s, sema) = thread_block(s, "BLOCKED")
  BY DEF sema_wait_sched
<1>5. sema_wait(s, sema) = q
  BY DEF sema_wait, p
<1>6. LET r == thread_block(s, "BLOCKED") IN
      /\ Running(r)
      /\ \A t \in Thread \ {idle} :
           IF t = s.cur THEN r.status[t] = "BLOCKED" ELSE Same(s, r, t)
  BY BlockSound DEF Blocked
<1> QED BY <1>2, <1>3, <1>4, <1>5, <1>6

\* The turn of sema_down() that takes the semaphore: its ASSERT holds when the
\* value is 1.
LEMMA SemaTakeSound ==
  ASSUME NEW s, NEW sema \in SemaState, sema.value = 1
  PROVE  /\ sema_take_sched(s, sema) = s
         /\ sema_take(sema) \in SemaState
         /\ sema_take(sema).value = 0
         /\ sema_take(sema).waiters = sema.waiters
BY DEF sema_take_sched, sema_take, SemaState

\* What sema_up() makes of the waiters and the tasks: h is the one it wakes.
WokeTask(s, sema, r, q, h) ==
  /\ elem_find(sema.waiters, h)
  /\ r.status = [s.status EXCEPT ![h] = "READY"]
  /\ \A t \in Thread : elem_find(q.waiters, t) <=> t # h /\ elem_find(sema.waiters, t)

Woke(s, sema, r, q) ==
  \/ sema.waiters = << >> /\ r = s /\ q.waiters = << >>
  \/ \E h \in Thread : WokeTask(s, sema, r, q, h)

\* sema_up() of a semaphore that is 0: nobody waits and only the value changes,
\* or the first of the waiters becomes READY and leaves the list.
LEMMA SemaUpSound ==
  ASSUME NEW s, Running(s), NEW sema \in SemaState, sema.value = 0,
         NoDuplicate(sema.waiters),
         \A t \in Thread : elem_find(sema.waiters, t) => s.status[t] = "BLOCKED"
  PROVE  LET r == sema_up_sched(s, sema)
             q == sema_up(sema)
         IN  /\ Running(r) /\ r.cur = s.cur
             /\ q \in SemaState /\ q.value = 1 /\ NoDuplicate(q.waiters)
             /\ Woke(s, sema, r, q)
<1>1. sema.waiters \in Seq(Thread)
  BY DEF SemaState
<1>2. CASE sema.waiters = << >>
  <2>1. sema_up_sched(s, sema) = s
    BY <1>2 DEF sema_up_sched
  <2>2. sema_up(sema) = [value |-> 1, waiters |-> << >>]
    BY <1>2 DEF sema_up
  <2>3. << >> \in Seq(Thread) /\ NoDuplicate(<< >>)
    BY DEF NoDuplicate
  <2> QED BY <1>2, <2>1, <2>2, <2>3 DEF SemaState, Running, Woke
<1>3. CASE sema.waiters # << >>
  <2> DEFINE h == Head(sema.waiters)
             p == Tail(sema.waiters)
  <2>1. /\ p \in Seq(Thread) /\ h \in Thread /\ NoDuplicate(p)
        /\ elem_find(sema.waiters, h)
        /\ \A t \in Thread : elem_find(p, t) <=> t # h /\ elem_find(sema.waiters, t)
    BY <1>1, <1>3, PopFacts
  <2>2. sema_up_sched(s, sema) = thread_unblock(s, h)
    BY <1>3 DEF sema_up_sched
  <2>3. sema_up(sema) = [value |-> 1, waiters |-> p]
    BY <1>3 DEF sema_up
  <2> HIDE DEF h, p
  <2>4. s.status[h] \in Blocked
    BY <2>1 DEF Blocked
  <2> DEFINE r == thread_unblock(s, h)
  <2>5. /\ r.cur = s.cur /\ r.status = [s.status EXCEPT ![h] = "READY"]
    BY <2>1, <2>4, UnblockSound DEF Running
  <2>6. Running(r)
    BY <2>1, <2>4, UnblockRunning
  <2> HIDE DEF r
  <2>7. [value |-> 1, waiters |-> p] \in SemaState
    BY <2>1 DEF SemaState
  <2> DEFINE q == [value |-> 1, waiters |-> p]
  <2>8. q.value = 1 /\ q.waiters = p
    OBVIOUS
  <2> HIDE DEF q
  <2>9. WokeTask(s, sema, r, q, h)
    BY <2>1, <2>5, <2>8 DEF WokeTask
  <2> QED BY <2>1, <2>2, <2>3, <2>5, <2>6, <2>7, <2>8, <2>9 DEF r, q, Woke
<1> QED BY <1>2, <1>3
=============================================================================
