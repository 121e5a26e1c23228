-------------------------- MODULE BroadcasterProofs --------------------------
(***************************************************************************)
(* Theorems of Broadcaster, for any number of frontends and sessions, and   *)
(* any order of what the loop is told: every variable has its type, a diff  *)
(* tells what its event did, a frontend's first message is its snapshot,    *)
(* and, as long as no write has to wait, diffs alone keep it in step.       *)
(***************************************************************************)
EXTENDS Broadcaster, TLAPS, FiniteSetTheorems, SequenceTheorems, WellFoundedInduction

(* A broadcast under way has a message if it has anyone to tell it to.      *)
Tasks ==
  {t \in [ by : Loops \cup {"event", "serve"}, msg : Message \cup {NoRec},
           todo : SUBSET Clients, dead : SUBSET Clients, more : Seq(Sids) ] :
     t.todo # {} => t.msg \in Message}

DiffMsg == [type : {"diff"}, sid : Sids, rec : Rec \cup {NoRec}]

ClientCalls == {"serve", "writable", "eof", "cleanup", "lost"}

(* What the loop may have to call.                                          *)
Callback ==
  [do : {"udp"}, arg : Sids \X {"upsert", "remove"}]
    \cup [do : {"diff"}, arg : DiffMsg]
    \cup [do : {"task"}, arg : Tasks]
    \cup [do : ClientCalls, arg : Clients]
    \cup [do : {"timer"}, arg : Loops]
    \cup [do : Loops, arg : {"round"}]

(* The timers are for this turn, and only when it runs.                     *)
Untimed == {call \in Callback : call.do # "timer"}

Turned ==
  /\ ready \in Seq(Callback) /\ next \in Seq(Untimed)
  /\ phase \in {"select", "run"}
  /\ phase = "select" => next = <<>> /\ ready \in Seq(Untimed)

(* A sequence of some is a sequence of more.                                *)
LEMMA SeqOfMore ==
  ASSUME NEW S, NEW T, S \subseteq T, NEW s \in Seq(S)
  PROVE  s \in Seq(T)
BY ElementOfSeq, SeqDef

Wired ==
  /\ out \in [Clients -> Seq(Message)]
  /\ waiting \in [Clients -> Seq(Tasks)]

Typed == TypeOK /\ Turned /\ Wired

(* All that is to be called, in order.                                      *)
Queue == ready \o next

-----------------------------------------------------------------------------
(* One callback less, and others more.                                      *)
Shifted(new, old, calls) ==
  /\ Len(new) = Len(old) - 1 + Len(calls)
  /\ \A i \in 1..Len(new) :
       new[i] = IF i < Len(old) THEN old[i + 1] ELSE calls[i - Len(old) + 1]

(* The queue without its first, and with the calls.                         *)
LEMMA ShiftedQueue ==
  ASSUME NEW T, NEW r \in Seq(T), r # <<>>, NEW x \in Seq(T), NEW calls \in Seq(T)
  PROVE  /\ Tail(r) \o (x \o calls) \in Seq(T)
         /\ Shifted(Tail(r) \o (x \o calls), r \o x, calls)
<1>. DEFINE a == x \o calls
            b == Tail(r) \o a
            q == r \o x
<1>1. /\ Tail(r) \in Seq(T) /\ Len(Tail(r)) = Len(r) - 1 /\ Len(r) \in Nat \ {0}
      /\ \A i \in 1..Len(r) - 1 : Tail(r)[i] = r[i + 1]
  <2>1. Len(r) \in Nat \ {0}
    BY EmptySeq
  <2>. QED
    BY <2>1, HeadTailProperties
<1>2. Len(x) \in Nat /\ Len(calls) \in Nat
  OBVIOUS
<1>3. /\ a \in Seq(T) /\ Len(a) = Len(x) + Len(calls)
      /\ \A i \in 1..Len(x) + Len(calls) :
           a[i] = IF i <= Len(x) THEN x[i] ELSE calls[i - Len(x)]
  BY ConcatProperties
<1>4. /\ q \in Seq(T) /\ Len(q) = Len(r) + Len(x)
      /\ \A i \in 1..Len(r) + Len(x) : q[i] = IF i <= Len(r) THEN r[i] ELSE x[i - Len(r)]
  BY ConcatProperties
<1>. HIDE DEF a, q
<1>5. /\ b \in Seq(T) /\ Len(b) = Len(Tail(r)) + Len(a)
      /\ \A i \in 1..Len(Tail(r)) + Len(a) :
           b[i] = IF i <= Len(Tail(r)) THEN Tail(r)[i] ELSE a[i - Len(Tail(r))]
  BY <1>1, <1>3, ConcatProperties
<1>. HIDE DEF b
<1>6. Len(b) = Len(q) - 1 + Len(calls)
  BY <1>1, <1>2, <1>3, <1>4, <1>5
<1>7. ASSUME NEW i \in 1..Len(b)
      PROVE  b[i] = IF i < Len(q) THEN q[i + 1] ELSE calls[i - Len(q) + 1]
  <2>1. CASE i <= Len(r) - 1
    <3>1. b[i] = Tail(r)[i] /\ Tail(r)[i] = r[i + 1]
      BY <1>1, <1>2, <1>3, <1>5, <2>1
    <3>2. i + 1 \in 1..Len(r) + Len(x) /\ i + 1 <= Len(r) /\ i < Len(q)
      BY <1>1, <1>2, <1>4, <2>1
    <3>. QED
      BY <1>4, <3>1, <3>2
  <2>2. CASE i > Len(r) - 1
    <3>. DEFINE j == i - (Len(r) - 1)
    <3>1. j \in 1..Len(x) + Len(calls)
      BY <1>1, <1>2, <1>3, <1>5, <2>2
    <3>2. b[i] = a[j]
      <4>1. i \in 1..Len(Tail(r)) + Len(a) /\ ~(i <= Len(Tail(r))) /\ i - Len(Tail(r)) = j
        BY <1>1, <1>3, <1>5, <2>2
      <4>. QED
        BY <1>5, <4>1
    <3>3. CASE j <= Len(x)
      <4>1. i + 1 \in 1..Len(r) + Len(x) /\ ~(i + 1 <= Len(r)) /\ i + 1 - Len(r) = j
            /\ i < Len(q)
        BY <1>1, <1>2, <1>4, <2>2, <3>3
      <4>2. q[i + 1] = x[j]
        BY <1>4, <4>1
      <4>3. a[j] = x[j]
        BY <1>3, <3>1, <3>3
      <4>. QED
        BY <3>2, <4>1, <4>2, <4>3
    <3>4. CASE j > Len(x)
      <4>1. ~(i < Len(q)) /\ j - Len(x) = i - Len(q) + 1
        BY <1>1, <1>2, <1>4, <2>2, <3>4
      <4>2. ~(j <= Len(x))
        BY <1>1, <1>2, <2>2, <3>4
      <4>3. a[j] = calls[j - Len(x)]
        BY <1>3, <3>1, <4>2
      <4>. QED
        BY <3>2, <4>1, <4>3
    <3>. QED
      BY <1>1, <1>2, <2>2, <3>3, <3>4
  <2>. QED
    BY <1>1, <2>1, <2>2
<1>8. b \in Seq(T) /\ Shifted(b, q, calls)
  BY <1>5, <1>6, <1>7 DEF Shifted
<1>. QED
  BY <1>8 DEF a, b, q

(* The callback is over: the queue is without it, and has its calls.        *)
LEMMA Schedules ==
  ASSUME Turned, phase = "run", ready # <<>>, NEW calls \in Seq(Untimed), Schedule(calls)
  PROVE  Turned' /\ Shifted(Queue', Queue, calls)
<1>0. /\ Untimed \subseteq Callback
      /\ calls \in Seq(Callback) /\ next \in Seq(Callback) /\ next \in Seq(Untimed)
  BY SeqOfMore DEF Turned, Untimed
<1>1. ready \in Seq(Callback) /\ next \in Seq(Callback)
  BY <1>0 DEF Turned
<1>2. next \o calls \in Seq(Callback) /\ next \o calls \in Seq(Untimed)
  BY <1>0, <1>1, ConcatProperties
<1>3. Tail(ready) \in Seq(Callback) /\ Len(Tail(ready)) = Len(ready) - 1
      /\ Len(ready) \in Nat \ {0}
  BY <1>1, EmptySeq, HeadTailProperties
<1>4. Shifted(Tail(ready) \o (next \o calls), Queue, calls)
  BY <1>0, <1>1, ShiftedQueue DEF Queue
<1>5. CASE Len(ready) > 1
  <2>1. ready' = Tail(ready) /\ next' = next \o calls /\ phase' = phase
    BY <1>5 DEF Schedule
  <2>2. Queue' = Tail(ready) \o (next \o calls)
    BY <2>1 DEF Queue
  <2>. QED
    BY <1>2, <1>3, <1>4, <2>1, <2>2 DEF Turned
<1>6. CASE ~(Len(ready) > 1)
  <2>1. phase' = "select" /\ ready' = next \o calls /\ next' = <<>>
    BY <1>6 DEF Schedule
  <2>2. Len(Tail(ready)) = 0
    BY <1>3, <1>6
  <2>3. Tail(ready) = <<>>
    BY <1>3, <2>2, EmptySeq
  <2>4. Queue' = (next \o calls) \o <<>>
    BY <2>1 DEF Queue
  <2>5. Queue' = Tail(ready) \o (next \o calls)
    BY <1>2, <2>3, <2>4, ConcatEmptySeq
  <2>. QED
    BY <1>2, <1>4, <2>1, <2>5 DEF Turned
<1>. QED
  BY <1>5, <1>6

(* The first of the queue has another in its place.                         *)
Replaced(new, old, call) ==
  /\ Len(new) = Len(old)
  /\ \A i \in 1..Len(new) : new[i] = IF i = 1 THEN call ELSE old[i]

(* The coroutine runs on: the queue has its next broadcast first.           *)
LEMMA RunsOn ==
  ASSUME Turned, phase = "run", ready # <<>>, NEW task, Call("task", task) \in Callback,
         RunOn(task)
  PROVE  Turned' /\ Replaced(Queue', Queue, Call("task", task))
<1>. DEFINE c == Call("task", task)
            t == Tail(ready)
<1>1. ready \in Seq(Callback) /\ next \in Seq(Callback)
  BY SeqOfMore DEF Turned, Untimed
<1>2. /\ t \in Seq(Callback) /\ Len(t) = Len(ready) - 1 /\ Len(ready) \in Nat \ {0}
      /\ \A i \in 1..Len(t) : t[i] = ready[i + 1]
  BY <1>1, EmptySeq, HeadTailProperties
<1>3. ready' = <<c>> \o t /\ next' = next /\ phase' = phase
  BY DEF RunOn
<1>. HIDE DEF c, t
<1>4. c \in Callback
  BY DEF c
<1>5. <<c>> \in Seq(Callback) /\ Len(<<c>>) = 1 /\ <<c>>[1] = c
  BY <1>4
<1>6. /\ <<c>> \o t \in Seq(Callback) /\ Len(<<c>> \o t) = 1 + Len(t)
      /\ \A i \in 1..1 + Len(t) : (<<c>> \o t)[i] = IF i <= 1 THEN <<c>>[i] ELSE t[i - 1]
  BY <1>2, <1>5, ConcatProperties
<1>7. \A i \in 1..Len(ready) : ready'[i] = IF i = 1 THEN c ELSE ready[i]
  <2>. SUFFICES ASSUME NEW i \in 1..Len(ready) PROVE ready'[i] = IF i = 1 THEN c ELSE ready[i]
    OBVIOUS
  <2>1. i \in 1..1 + Len(t)
    BY <1>2
  <2>2. CASE i = 1
    BY <1>3, <1>5, <1>6, <2>1, <2>2
  <2>3. CASE i # 1
    <3>1. i - 1 \in 1..Len(t) /\ i - 1 + 1 = i /\ ~(i <= 1)
      BY <1>2, <2>3
    <3>2. ready'[i] = t[i - 1]
      BY <1>3, <1>6, <2>1, <3>1
    <3>3. t[i - 1] = ready[i]
      BY <1>2, <3>1
    <3>. QED
      BY <2>3, <3>2, <3>3
  <2>. QED
    BY <2>2, <2>3
<1>8. ready' \in Seq(Callback) /\ Len(ready') = Len(ready)
  BY <1>2, <1>3, <1>6
<1>9. /\ Len(Queue) = Len(ready) + Len(next)
      /\ \A i \in 1..Len(ready) + Len(next) :
           Queue[i] = IF i <= Len(ready) THEN ready[i] ELSE next[i - Len(ready)]
  BY <1>1, ConcatProperties DEF Queue
<1>10. /\ Len(Queue') = Len(ready') + Len(next)
       /\ \A i \in 1..Len(ready') + Len(next) :
            Queue'[i] = IF i <= Len(ready') THEN ready'[i] ELSE next[i - Len(ready')]
  <2>1. Queue' = ready' \o next
    BY <1>3 DEF Queue
  <2>2. /\ Len(ready' \o next) = Len(ready') + Len(next)
        /\ \A i \in 1..Len(ready') + Len(next) :
             (ready' \o next)[i] = IF i <= Len(ready') THEN ready'[i] ELSE next[i - Len(ready')]
    <3>1. ready' \in Seq(Callback) /\ next \in Seq(Callback)
      BY <1>1, <1>8
    <3>. QED
      BY <3>1, ConcatProperties
  <2>. QED
    BY <2>1, <2>2
<1>11. Len(next) \in Nat
  BY <1>1
<1>12. Replaced(Queue', Queue, c)
  <2>. SUFFICES ASSUME NEW i \in 1..Len(ready) + Len(next)
                PROVE  Queue'[i] = IF i = 1 THEN c ELSE Queue[i]
    BY <1>8, <1>9, <1>10 DEF Replaced
  <2>1. CASE i <= Len(ready)
    <3>1. i \in 1..Len(ready)
      BY <1>2, <2>1
    <3>. QED
      BY <1>7, <1>8, <1>9, <1>10, <2>1, <3>1
  <2>2. CASE ~(i <= Len(ready))
    <3>1. i # 1
      BY <1>2, <2>2
    <3>. QED
      BY <1>8, <1>9, <1>10, <2>2, <3>1
  <2>. QED
    BY <2>1, <2>2
<1>. QED
  BY <1>1, <1>3, <1>8, <1>12 DEF Turned, c

(* What select reports comes last.                                          *)
Grown(new, old, calls) ==
  /\ Len(new) = Len(old) + Len(calls)
  /\ \A i \in 1..Len(new) :
       new[i] = IF i <= Len(old) THEN old[i] ELSE calls[i - Len(old)]

(* Only select and the timers make the queue longer.                        *)
LEMMA Grows ==
  ASSUME Turned, phase = "select", NEW calls \in Seq(Callback),
         ready' = ready \o calls, next' = next, phase' \in {"select", "run"},
         phase' = "select" => calls \in Seq(Untimed)
  PROVE  Turned' /\ Grown(Queue', Queue, calls) /\ next' = <<>>
<1>1. ready \in Seq(Callback) /\ next = <<>>
  BY DEF Turned
<1>2. /\ ready' \in Seq(Callback) /\ Len(ready') = Len(ready) + Len(calls)
      /\ \A i \in 1..Len(ready) + Len(calls) :
           ready'[i] = IF i <= Len(ready) THEN ready[i] ELSE calls[i - Len(ready)]
  BY <1>1, ConcatProperties
<1>3. Queue = ready
  BY <1>1, ConcatEmptySeq DEF Queue
<1>4. Queue' = ready'
  <2>1. Queue' = ready' \o <<>>
    BY <1>1 DEF Queue
  <2>. QED
    BY <1>2, <2>1, ConcatEmptySeq
<1>5. phase' = "select" => ready' \in Seq(Untimed)
  BY ConcatProperties DEF Turned
<1>. QED
  BY <1>1, <1>2, <1>3, <1>4, <1>5 DEF Turned, Grown

-----------------------------------------------------------------------------
(* writer.write adds the message to the buffers of clients that are there.  *)
LEMMA Writes ==
  ASSUME TypeOK, Wired, NEW S \in SUBSET Clients, NEW msg, S # {} => msg \in Message,
         Write(S, msg)
  PROVE  /\ out' \in [Clients -> Seq(Message)] /\ paused' \in [Clients -> BOOLEAN]
         /\ \A c \in Clients :
              out'[c] = IF c \in S /\ conn[c] = "open" THEN Append(out[c], msg) ELSE out[c]
<1>1. out \in [Clients -> Seq(Message)] /\ paused \in [Clients -> BOOLEAN]
  BY DEF TypeOK, Wired
<1>2. out' = [c \in Clients |-> IF c \in S /\ conn[c] = "open" THEN Append(out[c], msg)
                               ELSE out[c]]
  BY DEF Write
<1>3. ASSUME NEW c \in Clients
      PROVE  (IF c \in S /\ conn[c] = "open" THEN Append(out[c], msg) ELSE out[c])
               \in Seq(Message)
  <2>1. out[c] \in Seq(Message)
    BY <1>1
  <2>2. c \in S => Append(out[c], msg) \in Seq(Message)
    BY <2>1, AppendProperties
  <2>. QED
    BY <2>1, <2>2
<1>4. paused' \in [Clients -> BOOLEAN]
  <2>1. paused' = [c \in Clients |-> paused[c] \/ (c \in S /\ ~Closing(c) /\ Waits(c))]
    BY DEF Write
  <2>2. \A c \in Clients :
          (paused[c] \/ (c \in S /\ ~Closing(c) /\ Waits(c))) \in BOOLEAN
    OBVIOUS
  <2>. QED
    BY <2>1, <2>2
<1>. QED
  BY <1>2, <1>3, <1>4

(* A task that has no more to write to than these.                          *)
TasksOf(S) == {t \in Tasks : t.todo \subseteq S}

TaskCalls(S) == [do : {"task"}, arg : TasksOf(S)]

(* A call of a task is a call.                                              *)
LEMMA TaskCallsAre ==
  ASSUME NEW S
  PROVE  /\ TaskCalls(S) \subseteq Untimed
         /\ \A t \in TasksOf(S) : Call("task", t) \in TaskCalls(S)
BY DEF TaskCalls, TasksOf, Callback, Call, Untimed

(* What becomes of the queue: one callback is over or goes on, and those of *)
(* this set may be new.                                                     *)
Turns1(S) ==
  \/ \E calls \in Seq(S) : Shifted(Queue', Queue, calls)
  \/ \E call \in S : Replaced(Queue', Queue, call)

(* A broadcast runs until it ends or has to wait.                           *)
LEMMA BroadcastFinishes ==
  ASSUME Typed, phase = "run", ready # <<>>, NEW task \in Tasks,
         NEW known \in SUBSET Clients, Finish(task, known)
  PROVE  /\ Turned' /\ Turns1(TaskCalls(task.todo \cup known))
         /\ clients' \subseteq known /\ waiting' = waiting /\ smooth' = smooth
         /\ loop' \in [Loops -> {"asleep", "busy"}]
<1>1. task.todo \subseteq Clients /\ task.by \in Loops \cup {"event", "serve"}
      /\ task.more \in Seq(Sids)
  BY DEF Tasks
<1>2. clients' = known \ task.dead /\ waiting' = waiting /\ smooth' = smooth
  BY DEF Finish
<1>3. CASE task.more = <<>>
  <2>1. Schedule(<<>>) /\ loop' = [l \in Loops |-> IF l = task.by THEN "asleep" ELSE loop[l]]
    BY <1>3 DEF Finish
  <2>2. <<>> \in Seq(Untimed) /\ <<>> \in Seq(TaskCalls(task.todo \cup known))
    OBVIOUS
  <2>3. Turned' /\ Shifted(Queue', Queue, <<>>)
    BY <2>1, <2>2, Schedules DEF Typed
  <2>. QED
    BY <1>2, <2>1, <2>2, <2>3 DEF Turns1, Typed, TypeOK
<1>4. CASE task.more # <<>>
  <2>. DEFINE go == Task(task.by, Diff(Head(task.more), NoRec), clients', Tail(task.more))
  <2>1. RunOn(go) /\ loop' = loop
    BY <1>4 DEF Finish
  <2>2. Head(task.more) \in Sids /\ Tail(task.more) \in Seq(Sids)
    BY <1>1, <1>4, HeadTailProperties
  <2>3. Diff(Head(task.more), NoRec) \in Message
    BY <2>2 DEF Diff, Message
  <2>4. go \in TasksOf(task.todo \cup known)
    <3>1. clients' \subseteq Clients /\ clients' \subseteq known
      BY <1>2
    <3>. QED
      BY <1>1, <2>2, <2>3, <3>1 DEF TasksOf, Tasks, Task
  <2>. HIDE DEF go
  <2>5. Call("task", go) \in TaskCalls(task.todo \cup known) /\ Call("task", go) \in Callback
    BY <2>4, TaskCallsAre DEF Untimed
  <2>6. Turned' /\ Replaced(Queue', Queue, Call("task", go))
    BY <2>1, <2>5, RunsOn DEF Typed
  <2>. QED
    BY <1>2, <2>1, <2>5, <2>6 DEF Turns1, Typed, TypeOK
<1>. QED
  BY <1>3, <1>4

(* A broadcast that has to wait is in the queue, or with the client, with   *)
(* the clients it has not written to.                                       *)
LEMMA BroadcastSuspends ==
  ASSUME Typed, phase = "run", ready # <<>>, NEW task \in Tasks,
         NEW known \in SUBSET Clients, NEW c \in Clients, Suspend(task, known, c)
  PROVE  /\ Turned' /\ Turns1(TaskCalls(task.todo \cup known))
         /\ clients' = known /\ smooth' = FALSE /\ loop' = loop
         /\ waiting' \in [Clients -> Seq(Tasks)]
         /\ \A d \in Clients : \/ waiting'[d] = waiting[d]
                               \/ \E t \in TasksOf(task.todo) : waiting'[d] = Append(waiting[d], t)
         /\ \E S \in SUBSET task.todo : c \in S /\ Write(S, task.msg)
<1>1. c \in task.todo /\ clients' = known /\ smooth' = FALSE /\ loop' = loop
  BY DEF Suspend
<1>2. PICK before \in SUBSET {b \in task.todo : ~Waits(b)} :
        LET rest == [task EXCEPT !.todo = @ \ (before \cup {c})]
        IN /\ Write(before \cup {c}, task.msg)
           /\ IF Closing(c)
              THEN /\ Schedule(<<Call("task", [rest EXCEPT !.dead = @ \cup {c}])>>)
                   /\ UNCHANGED waiting
              ELSE /\ Schedule(<<>>)
                   /\ waiting' = [waiting EXCEPT ![c] = Append(@, rest)]
  BY DEF Suspend
<1>. DEFINE rest   == [task EXCEPT !.todo = @ \ (before \cup {c})]
            failed == [rest EXCEPT !.dead = @ \cup {c}]
<1>3. rest \in TasksOf(task.todo) /\ failed \in TasksOf(task.todo)
  <2>1. task.todo \ (before \cup {c}) \subseteq task.todo
    OBVIOUS
  <2>2. task.dead \cup {c} \subseteq Clients
    BY DEF Tasks
  <2>. QED
    BY <2>1, <2>2 DEF TasksOf, Tasks
<1>4. waiting \in [Clients -> Seq(Tasks)]
  BY DEF Typed, Wired
<1>5. \E S \in SUBSET task.todo : c \in S /\ Write(S, task.msg)
  <2>1. before \cup {c} \in SUBSET task.todo /\ c \in before \cup {c}
    BY <1>1
  <2>. QED
    BY <1>2, <2>1
<1>. HIDE DEF rest, failed
<1>6. rest \in Tasks /\ failed \in TasksOf(task.todo \cup known)
  BY <1>3 DEF TasksOf
<1>7. CASE Closing(c)
  <2>1. Schedule(<<Call("task", failed)>>) /\ waiting' = waiting
    BY <1>2, <1>7 DEF rest, failed
  <2>2. /\ <<Call("task", failed)>> \in Seq(TaskCalls(task.todo \cup known))
        /\ <<Call("task", failed)>> \in Seq(Untimed)
    <3>1. Call("task", failed) \in TaskCalls(task.todo \cup known)
          /\ Call("task", failed) \in Untimed
      BY <1>6, TaskCallsAre
    <3>. QED
      BY <3>1
  <2>3. Turned' /\ Shifted(Queue', Queue, <<Call("task", failed)>>)
    BY <2>1, <2>2, Schedules DEF Typed
  <2>4. Turns1(TaskCalls(task.todo \cup known))
    BY <2>2, <2>3 DEF Turns1
  <2>. QED
    BY <1>1, <1>4, <1>5, <2>1, <2>3, <2>4
<1>8. CASE ~Closing(c)
  <2>1. Schedule(<<>>) /\ waiting' = [waiting EXCEPT ![c] = Append(@, rest)]
    BY <1>2, <1>8 DEF rest
  <2>2. <<>> \in Seq(Untimed) /\ <<>> \in Seq(TaskCalls(task.todo \cup known))
    OBVIOUS
  <2>3. Turned' /\ Shifted(Queue', Queue, <<>>)
    BY <2>1, <2>2, Schedules DEF Typed
  <2>4. Turns1(TaskCalls(task.todo \cup known))
    BY <2>2, <2>3 DEF Turns1
  <2>5. Append(waiting[c], rest) \in Seq(Tasks)
    BY <1>4, <1>6, AppendProperties
  <2>6. /\ waiting' \in [Clients -> Seq(Tasks)]
        /\ \A d \in Clients : waiting'[d] = IF d = c THEN Append(waiting[c], rest) ELSE waiting[d]
    BY <1>4, <2>1, <2>5
  <2>. QED
    BY <1>1, <1>3, <1>5, <2>3, <2>4, <2>6
<1>. QED
  BY <1>7, <1>8

(* What a broadcast writes: to those it comes to, and at least to one.      *)
Wrote(task) ==
  \E S \in SUBSET task.todo :
    /\ task.todo # {} => S # {}
    /\ \A c \in Clients :
         out'[c] = IF c \in S /\ conn[c] = "open" THEN Append(out[c], task.msg) ELSE out[c]

(* Who waits in drain() now.                                                *)
Joined(S) ==
  \A d \in Clients : \/ waiting'[d] = waiting[d]
                     \/ \E t \in TasksOf(S) : waiting'[d] = Append(waiting[d], t)

(* A broadcast, whether it ends in this callback or has to wait.            *)
LEMMA Broadcasts ==
  ASSUME Typed, phase = "run", ready # <<>>, NEW task \in Tasks,
         NEW known \in SUBSET Clients, Broadcast(task, known)
  PROVE  /\ reg' \in View /\ ops' \in 0..MaxOps => Typed'
         /\ Turns1(TaskCalls(task.todo \cup known)) /\ Wrote(task) /\ Joined(task.todo)
         /\ clients' \subseteq known /\ conn' = conn /\ view' = view
<1>1. conn' = conn /\ view' = view
  BY DEF Broadcast
<1>2. task.todo \in SUBSET Clients /\ (task.todo # {} => task.msg \in Message)
  BY DEF Tasks
<1>. DEFINE Effect ==
       /\ Turned' /\ Turns1(TaskCalls(task.todo \cup known))
       /\ clients' \subseteq known /\ smooth' \in BOOLEAN
       /\ loop' \in [Loops -> {"asleep", "busy"}]
       /\ waiting' \in [Clients -> Seq(Tasks)] /\ Joined(task.todo)
       /\ \E S \in SUBSET task.todo : (task.todo # {} => S # {}) /\ Write(S, task.msg)
<1>3. Effect
  <2>1. CASE Finish(task, known)
    <3>1. Write(task.todo, task.msg)
      BY <2>1 DEF Finish
    <3>. QED
      BY <2>1, <3>1, BroadcastFinishes DEF Typed, TypeOK, Wired, Joined
  <2>2. ASSUME NEW c \in Clients, Suspend(task, known, c) PROVE Effect
    BY <2>2, BroadcastSuspends DEF Typed, TypeOK, Joined
  <2>. QED
    BY <2>1, <2>2 DEF Broadcast
<1>4. PICK S \in SUBSET task.todo : (task.todo # {} => S # {}) /\ Write(S, task.msg)
  BY <1>3
<1>5. /\ out' \in [Clients -> Seq(Message)] /\ paused' \in [Clients -> BOOLEAN]
      /\ \A c \in Clients :
           out'[c] = IF c \in S /\ conn[c] = "open" THEN Append(out[c], task.msg) ELSE out[c]
  <2>1. S \in SUBSET Clients /\ (S # {} => task.msg \in Message)
    BY <1>2
  <2>. QED
    BY <1>4, <2>1, Writes DEF Typed
<1>6. Wrote(task)
  BY <1>4, <1>5 DEF Wrote
<1>7. Wired'
  BY <1>3, <1>5 DEF Wired
<1>8. reg' \in View /\ ops' \in 0..MaxOps => TypeOK'
  <2>1. \A c \in Clients :
          /\ out'[c] \in Seq(Message)
          /\ \A i \in DOMAIN waiting'[c] : waiting'[c][i].by \in Loops \cup {"event", "serve"}
    <3>. SUFFICES ASSUME NEW c \in Clients, NEW i \in DOMAIN waiting'[c]
                  PROVE  waiting'[c][i].by \in Loops \cup {"event", "serve"}
      BY <1>5
    <3>1. waiting'[c] \in Seq(Tasks)
      BY <1>3
    <3>2. waiting'[c][i] \in Tasks
      BY <3>1, ElementOfSeq
    <3>. QED
      BY <3>2 DEF Tasks
  <2>2. /\ phase' \in {"select", "run"} /\ clients' \subseteq Clients
        /\ conn' \in [Clients -> {"none", "open", "gone", "closing", "lost"}]
        /\ view' \in [Clients -> View \cup {NoView}]
    BY <1>1, <1>3 DEF Typed, TypeOK, Turned
  <2>. QED
    BY <1>3, <1>5, <2>1, <2>2 DEF TypeOK
<1>. QED
  BY <1>1, <1>3, <1>6, <1>7, <1>8 DEF Typed

-----------------------------------------------------------------------------
(* The first call, and what its argument is.                                *)
LEMMA FirstCall ==
  ASSUME Typed, NEW do, Runs(do)
  PROVE  /\ phase = "run" /\ ready # <<>> /\ Call(do, Arg) \in Callback
         /\ Head(ready) = Call(do, Arg) /\ 1 \in 1..Len(Queue) /\ Queue[1] = Head(ready)
         /\ Head(ready).do = do
<1>1. phase = "run" /\ ready # <<>> /\ Head(ready).do = do
  BY DEF Runs
<1>2. ready \in Seq(Callback) /\ next \in Seq(Callback)
  BY SeqOfMore DEF Typed, Turned, Untimed
<1>3. Head(ready) \in Callback /\ Head(ready) = ready[1] /\ Len(ready) \in Nat \ {0}
  BY <1>1, <1>2, EmptySeq, HeadTailProperties
<1>4. Head(ready) = Call(do, Arg)
  BY <1>1, <1>3 DEF Callback, Call, Arg
<1>5. /\ Len(Queue) = Len(ready) + Len(next) /\ Len(next) \in Nat
      /\ Queue[1] = ready[1]
  BY <1>2, <1>3, ConcatProperties DEF Queue
<1>. QED
  BY <1>1, <1>3, <1>4, <1>5

(* The two turns together are a queue.                                      *)
LEMMA QueueTyped ==
  ASSUME NEW r \in Seq(Callback), NEW x \in Seq(Untimed)
  PROVE  r \o x \in Seq(Callback)
<1>1. x \in Seq(Callback)
  BY SeqOfMore DEF Untimed
<1>. QED
  BY <1>1, ConcatProperties

(* The queue's calls are those of this turn and of the next.                *)
LEMMA QueueIsCalls ==
  ASSUME Typed
  PROVE  /\ Len(Queue) \in Nat
         /\ \A i \in 1..Len(Queue) : Queue[i] \in Calls /\ Queue[i] \in Callback
         /\ \A call \in Calls : \E i \in 1..Len(Queue) : Queue[i] = call
<1>1. ready \in Seq(Callback) /\ next \in Seq(Callback)
  BY SeqOfMore DEF Typed, Turned, Untimed
<1>2. Range(ready) = {ready[i] : i \in 1..Len(ready)} /\ Range(next) = {next[i] : i \in 1..Len(next)}
  BY <1>1 DEF Range
<1>3. /\ Len(Queue) = Len(ready) + Len(next) /\ Len(ready) \in Nat /\ Len(next) \in Nat
      /\ \A i \in 1..Len(ready) + Len(next) :
           Queue[i] = IF i <= Len(ready) THEN ready[i] ELSE next[i - Len(ready)]
  BY <1>1, ConcatProperties DEF Queue
<1>4. ASSUME NEW i \in 1..Len(Queue) PROVE Queue[i] \in Calls /\ Queue[i] \in Callback
  <2>1. CASE i <= Len(ready)
    <3>1. i \in 1..Len(ready) /\ Queue[i] = ready[i]
      BY <1>3, <2>1
    <3>. QED
      BY <1>1, <1>2, <3>1 DEF Calls
  <2>2. CASE ~(i <= Len(ready))
    <3>1. i - Len(ready) \in 1..Len(next) /\ Queue[i] = next[i - Len(ready)]
      BY <1>3, <2>2
    <3>2. next[i - Len(ready)] \in Callback
      BY <1>1, <3>1
    <3>. QED
      BY <1>2, <3>1, <3>2 DEF Calls
  <2>. QED
    BY <2>1, <2>2
<1>5. ASSUME NEW call \in Calls PROVE \E i \in 1..Len(Queue) : Queue[i] = call
  <2>1. CASE call \in Range(ready)
    <3>1. PICK i \in 1..Len(ready) : ready[i] = call
      BY <1>2, <2>1
    <3>2. i \in 1..Len(Queue) /\ Queue[i] = call
      BY <1>3, <3>1
    <3>. QED
      BY <3>2
  <2>2. CASE call \in Range(next)
    <3>1. PICK i \in 1..Len(next) : next[i] = call
      BY <1>2, <2>2
    <3>2. /\ Len(ready) + i \in 1..Len(ready) + Len(next) /\ ~(Len(ready) + i <= Len(ready))
          /\ Len(ready) + i - Len(ready) = i
      BY <1>3
    <3>3. Queue[Len(ready) + i] = call
      BY <1>3, <3>1, <3>2
    <3>. QED
      BY <1>3, <3>2, <3>3
  <2>. QED
    BY <2>1, <2>2 DEF Calls
<1>. QED
  BY <1>3, <1>4, <1>5

-----------------------------------------------------------------------------
(* Each action keeps the types, and is one of a few moves of the queue.     *)
LEMMA TypedAgain ==
  ASSUME Turned', Wired', reg' \in View, ops' \in 0..MaxOps, clients' \subseteq Clients,
         loop' \in [Loops -> {"asleep", "busy"}], smooth' \in BOOLEAN,
         conn' \in [Clients -> {"none", "open", "gone", "closing", "lost"}],
         paused' \in [Clients -> BOOLEAN], view' \in [Clients -> View \cup {NoView}]
  PROVE  Typed'
<1>1. \A c \in Clients : waiting'[c] \in Seq(Tasks) /\ out'[c] \in Seq(Message)
  BY DEF Wired
<1>2. \A c \in Clients : \A i \in DOMAIN waiting'[c] :
        waiting'[c][i].by \in Loops \cup {"event", "serve"}
  <2>. SUFFICES ASSUME NEW c \in Clients, NEW i \in DOMAIN waiting'[c]
                PROVE  waiting'[c][i].by \in Loops \cup {"event", "serve"}
    OBVIOUS
  <2>1. waiting'[c][i] \in Tasks
    BY <1>1, ElementOfSeq
  <2>. QED
    BY <2>1 DEF Tasks
<1>. QED
  BY <1>1, <1>2 DEF Typed, TypeOK, Turned

(* A report is one call more.                                               *)
LEMMA Reports ==
  ASSUME Typed, NEW do, NEW arg, Call(do, arg) \in Untimed, Report(do, arg)
  PROVE  phase = "select" /\ Turned' /\ Grown(Queue', Queue, <<Call(do, arg)>>)
<1>1. ready \in Seq(Callback) /\ Call(do, arg) \in Callback
  BY DEF Typed, Turned, Untimed
<1>2. ready' = ready \o <<Call(do, arg)>>
  BY <1>1, AppendIsConcat DEF Report
<1>3. <<Call(do, arg)>> \in Seq(Callback) /\ <<Call(do, arg)>> \in Seq(Untimed)
  BY <1>1
<1>. QED
  BY <1>2, <1>3, Grows DEF Report, Typed

(* What select reports of a call is one of these.                           *)
Reported == {call \in Untimed : call.do \notin Loops \cup {"diff", "task"}}

(* What the loop does next comes from what select reported.                 *)
Selects ==
  \/ \E call \in Reported :
       /\ phase = "select" /\ Grown(Queue', Queue, <<call>>)
       /\ call.do = "udp" => \A i \in DOMAIN ready : ready[i].do # "udp"
       /\ call.do = "serve" => conn'[call.arg] # "none"
  \/ \E calls \in Seq([do : {"timer"}, arg : Loops]) :
       phase = "select" /\ Grown(Queue', Queue, calls)

(* A datagram or a connection.                                              *)
LEMMA PollsTyped ==
  ASSUME Typed, Polls
  PROVE  /\ Typed' /\ Selects
         /\ reg' = reg /\ clients' = clients /\ out' = out /\ waiting' = waiting /\ view' = view
         /\ \A c \in Clients : conn'[c] = conn[c] \/ (conn'[c] = "open" /\ conn[c] = "none")
<1>1. ASSUME NEW s \in Sids, NEW op \in {"upsert", "remove"}, UdpReadable(s, op)
      PROVE  /\ Typed' /\ Selects
             /\ reg' = reg /\ clients' = clients /\ out' = out /\ waiting' = waiting
             /\ view' = view /\ conn' = conn
  <2>1. Call("udp", <<s, op>>) \in Untimed /\ Call("udp", <<s, op>>) \in Reported
    BY DEF Call, Callback, Untimed, Reported, Loops
  <2>2. ops' \in 0..MaxOps
    BY <1>1, BroadcasterAssumption DEF Typed, TypeOK, UdpReadable
  <2>3. phase = "select" /\ Turned' /\ Grown(Queue', Queue, <<Call("udp", <<s, op>>)>>)
    BY <1>1, <2>1, Reports DEF UdpReadable
  <2>4. Selects
    BY <1>1, <2>1, <2>3 DEF Selects, UdpReadable, Call
  <2>. QED
    BY <1>1, <2>2, <2>3, <2>4, TypedAgain DEF UdpReadable, wires, Typed, TypeOK, Wired
<1>2. ASSUME NEW c \in Clients, Accept(c)
      PROVE  /\ Typed' /\ Selects
             /\ reg' = reg /\ clients' = clients /\ out' = out /\ waiting' = waiting
             /\ view' = view /\ conn[c] = "none" /\ conn' = [conn EXCEPT ![c] = "open"]
  <2>1. Call("serve", c) \in Untimed /\ Call("serve", c) \in Reported
    BY DEF Call, Callback, Untimed, Reported, Loops, ClientCalls
  <2>2. phase = "select" /\ Turned' /\ Grown(Queue', Queue, <<Call("serve", c)>>)
    BY <1>2, <2>1, Reports DEF Accept
  <2>3. conn' \in [Clients -> {"none", "open", "gone", "closing", "lost"}] /\ conn'[c] = "open"
    BY <1>2 DEF Accept, Typed, TypeOK
  <2>4. Selects
    BY <2>1, <2>2, <2>3 DEF Selects, Call
  <2>. QED
    BY <1>2, <2>2, <2>3, <2>4, TypedAgain DEF Accept, registry, Typed, TypeOK, Wired
<1>. QED
  BY <1>1, <1>2 DEF Polls, Typed, TypeOK

(* A buffer that drained, or a peer that is gone.                           *)
LEMMA NoticesTyped ==
  ASSUME Typed, Notices
  PROVE  Typed' /\ Selects /\ UNCHANGED <<reg, clients, conn, out, waiting, view>>
<1>1. PICK do \in {"writable", "eof", "lost"}, c \in Clients :
        Report(do, c) /\ UNCHANGED <<registry, loop, clients, wires, smooth>>
  BY DEF Notices, Writable, HungUp
<1>2. Call(do, c) \in Untimed /\ Call(do, c) \in Reported
  BY DEF Call, Callback, Untimed, Reported, Loops, ClientCalls
<1>3. phase = "select" /\ Turned' /\ Grown(Queue', Queue, <<Call(do, c)>>)
  BY <1>1, <1>2, Reports
<1>4. Selects
  BY <1>2, <1>3 DEF Selects, Call
<1>. QED
  BY <1>1, <1>3, <1>4, TypedAgain DEF registry, wires, Typed, TypeOK, Wired

(* An order of a set's elements is a sequence of them.                      *)
LEMMA OrderIsSeq ==
  ASSUME NEW S, IsFiniteSet(S), NEW order \in SetToSeqs(S)
  PROVE  order \in Seq(S)
<1>1. Cardinality(S) \in Nat
  BY FS_CardinalityType
<1>. QED
  BY <1>1, SeqDef DEF SetToSeqs

(* The timers that are due.                                                 *)
LEMMA TurnStartsTyped ==
  ASSUME Typed, NEW due \in Dues, TurnStarts(due)
  PROVE  Typed' /\ Selects /\ UNCHANGED <<reg, clients, conn, out, waiting, view>>
<1>1. PICK S \in SUBSET Loops : due \in SetToSeqs(S)
  BY DEF Dues, SetToAllKPermutations
<1>2. due \in Seq(Loops)
  <2>1. IsFiniteSet(Loops)
    <3>1. IsFiniteSet({} \cup {"reap"})
      BY FS_EmptySet, FS_AddElement
    <3>2. IsFiniteSet(({} \cup {"reap"}) \cup {"snap"})
      BY <3>1, FS_AddElement
    <3>. QED
      BY <3>2 DEF Loops
  <2>2. IsFiniteSet(S)
    BY <2>1, FS_Subset
  <2>. QED
    BY <1>1, <2>2, OrderIsSeq, SeqOfMore
<1>. DEFINE calls == [i \in DOMAIN due |-> Call("timer", due[i])]
<1>3. calls \in Seq([do : {"timer"}, arg : Loops]) /\ calls \in Seq(Callback)
  <2>1. DOMAIN due = 1..Len(due) /\ Len(due) \in Nat /\ \A i \in 1..Len(due) : due[i] \in Loops
    BY <1>2
  <2>2. calls \in [1..Len(due) -> [do : {"timer"}, arg : Loops]]
    BY <2>1 DEF Call
  <2>3. [do : {"timer"}, arg : Loops] \subseteq Callback
    BY DEF Callback
  <2>4. calls \in Seq([do : {"timer"}, arg : Loops])
    BY <2>1, <2>2, SeqDef
  <2>. HIDE DEF calls
  <2>. QED
    BY <2>3, <2>4, SeqOfMore
<1>4. phase = "select" /\ phase' = "run" /\ next' = next /\ ready' = ready \o calls
  BY DEF TurnStarts
<1>5. loop' \in [Loops -> {"asleep", "busy"}]
  BY DEF TurnStarts, Typed, TypeOK
<1>. HIDE DEF calls
<1>6. Turned' /\ Grown(Queue', Queue, calls)
  BY <1>3, <1>4, Grows DEF Typed
<1>7. Selects
  BY <1>3, <1>4, <1>6 DEF Selects
<1>. QED
  BY <1>5, <1>6, <1>7, TypedAgain DEF TurnStarts, registry, wires, Typed, TypeOK, Wired

(* An event makes a record, and a diff of it.                               *)
LEMMA EventTyped ==
  ASSUME Typed, OnEvent
  PROVE  /\ Typed' /\ UNCHANGED <<clients, conn, out, waiting, view>>
         /\ Head(ready).do = "udp"
         /\ \E call \in [do : {"diff"}, arg : DiffMsg] :
              /\ reg'[call.arg.sid] = call.arg.rec /\ Shifted(Queue', Queue, <<call>>)
              /\ \A s \in Sids : s # call.arg.sid => reg'[s] = reg[s]
<1>1. Runs("udp") /\ phase = "run" /\ ready # <<>> /\ Call("udp", Arg) \in Callback
      /\ Head(ready).do = "udp"
  BY FirstCall DEF OnEvent
<1>2. Arg \in Sids \X {"upsert", "remove"}
  BY <1>1 DEF Call, Callback, Loops, ClientCalls
<1>3. PICK named \in BOOLEAN :
        /\ reg' = [reg EXCEPT ![Arg[1]] =
                     IF Arg[2] = "remove" THEN NoRec ELSE [ver |-> ops, named |-> named]]
        /\ Schedule(<<Call("diff", Diff(Arg[1], reg'[Arg[1]]))>>)
  BY DEF OnEvent
<1>4. reg \in [Sids -> Rec \cup {NoRec}] /\ ops \in 0..MaxOps /\ Arg[1] \in Sids
  BY <1>2 DEF Typed, TypeOK, View
<1>5. (IF Arg[2] = "remove" THEN NoRec ELSE [ver |-> ops, named |-> named]) \in Rec \cup {NoRec}
  BY <1>4 DEF Rec
<1>6. reg' \in View
  BY <1>3, <1>4, <1>5 DEF View
<1>. DEFINE diff == Diff(Arg[1], reg'[Arg[1]])
<1>7. diff \in DiffMsg /\ reg'[diff.sid] = diff.rec
      /\ \A s \in Sids : s # diff.sid => reg'[s] = reg[s]
  BY <1>3, <1>4, <1>6 DEF Diff, DiffMsg, View
<1>. HIDE DEF diff
<1>8. /\ Call("diff", diff) \in [do : {"diff"}, arg : DiffMsg] /\ Call("diff", diff).arg = diff
      /\ Call("diff", diff) \in Untimed
  BY <1>7 DEF Call, Untimed, Callback
<1>9. <<Call("diff", diff)>> \in Seq(Untimed)
  BY <1>8
<1>10. Turned' /\ Shifted(Queue', Queue, <<Call("diff", diff)>>)
  BY <1>1, <1>3, <1>9, Schedules DEF Typed, diff
<1>11. Typed'
  BY <1>4, <1>6, <1>10, TypedAgain DEF OnEvent, wires, Typed, TypeOK, Wired
<1>. DEFINE call == Call("diff", diff)
<1>12. /\ call \in [do : {"diff"}, arg : DiffMsg] /\ reg'[call.arg.sid] = call.arg.rec
       /\ Shifted(Queue', Queue, <<call>>)
       /\ \A s \in Sids : s # call.arg.sid => reg'[s] = reg[s]
  BY <1>7, <1>8, <1>10
<1>. HIDE DEF call
<1>13. UNCHANGED <<clients, conn, out, waiting, view>>
  BY DEF OnEvent, wires
<1>. QED
  BY <1>1, <1>11, <1>12, <1>13

(* A sleep that ended is a round to do.                                     *)
LEMMA TimerTyped ==
  ASSUME Typed, OnTimer
  PROVE  /\ Typed' /\ UNCHANGED <<reg, clients, conn, out, waiting, view>>
         /\ Head(ready).do = "timer"
         /\ \E call \in [do : Loops, arg : {"round"}] : Shifted(Queue', Queue, <<call>>)
<1>1. Runs("timer") /\ phase = "run" /\ ready # <<>> /\ Call("timer", Arg) \in Callback
      /\ Head(ready).do = "timer"
  BY FirstCall DEF OnTimer
<1>2. Arg \in Loops
  BY <1>1 DEF Call, Callback, Loops, ClientCalls
<1>3. Call(Arg, "round") \in [do : Loops, arg : {"round"}] /\ Call(Arg, "round") \in Untimed
  BY <1>2 DEF Call, Untimed, Callback, Loops
<1>4. <<Call(Arg, "round")>> \in Seq(Untimed)
  BY <1>3
<1>5. Turned' /\ Shifted(Queue', Queue, <<Call(Arg, "round")>>)
  BY <1>1, <1>4, Schedules DEF Typed, OnTimer
<1>6. Typed'
  BY <1>5, TypedAgain DEF OnTimer, registry, wires, Typed, TypeOK, Wired
<1>. QED
  BY <1>1, <1>3, <1>5, <1>6 DEF OnTimer, registry, wires

-----------------------------------------------------------------------------
(* A broadcast that was told to these.                                      *)
Speaks(task, known) ==
  /\ Turns1(TaskCalls(task.todo \cup known)) /\ Wrote(task) /\ Joined(task.todo)
  /\ clients' \subseteq known /\ conn' = conn /\ view' = view

(* A diff, a broadcast gone on with, a sweep and a snapshot.                *)
LEMMA Speeches ==
  ASSUME Typed, OnDiff \/ OnTask \/ OnReap \/ OnSnap
  PROVE  /\ Typed' /\ (reg' = reg \/ Head(ready).do = "reap")
         /\ \E task \in Tasks :
              /\ Speaks(task, clients)
              /\ task.todo \subseteq clients \/ Queue[1] = Call("task", task)
<1>1. reg \in View /\ ops \in 0..MaxOps /\ clients \in SUBSET Clients
  BY DEF Typed, TypeOK
<1>2. ASSUME NEW task \in Tasks, phase = "run", ready # <<>>, Broadcast(task, clients)
      PROVE  Speaks(task, clients) /\ (reg' \in View /\ ops' \in 0..MaxOps => Typed')
  BY <1>1, <1>2, Broadcasts DEF Speaks
<1>3. CASE OnDiff
  <2>1. phase = "run" /\ ready # <<>> /\ Call("diff", Arg) \in Callback
    BY <1>3, FirstCall DEF OnDiff
  <2>2. Arg \in DiffMsg
    BY <2>1 DEF Call, Callback, Loops, ClientCalls
  <2>3. Task("event", Arg, clients, <<>>) \in Tasks
    BY <1>1, <2>2 DEF Task, Tasks, DiffMsg, Message
  <2>4. Broadcast(Task("event", Arg, clients, <<>>), clients) /\ reg' = reg /\ ops' = ops
    BY <1>3 DEF OnDiff, registry
  <2>. QED
    BY <1>1, <1>2, <2>1, <2>3, <2>4 DEF Task
<1>4. CASE OnTask
  <2>1. /\ phase = "run" /\ ready # <<>> /\ Call("task", Arg) \in Callback
        /\ Queue[1] = Call("task", Arg)
    BY <1>4, FirstCall DEF OnTask
  <2>2. Arg \in Tasks
    BY <2>1 DEF Call, Callback, Loops, ClientCalls
  <2>3. Broadcast(Arg, clients) /\ reg' = reg /\ ops' = ops
    BY <1>4 DEF OnTask, registry
  <2>. QED
    BY <1>1, <1>2, <2>1, <2>2, <2>3
<1>5. CASE OnSnap
  <2>1. phase = "run" /\ ready # <<>>
    BY <1>5, FirstCall DEF OnSnap
  <2>2. Task("snap", Snapshot, clients, <<>>) \in Tasks
    BY <1>1 DEF Task, Tasks, Snapshot, Message, Loops
  <2>3. Broadcast(Task("snap", Snapshot, clients, <<>>), clients) /\ reg' = reg /\ ops' = ops
    BY <1>5 DEF OnSnap, registry
  <2>. QED
    BY <1>1, <1>2, <2>1, <2>2, <2>3 DEF Task
<1>6. CASE OnReap
  <2>1. phase = "run" /\ ready # <<>> /\ Head(ready).do = "reap"
    BY <1>6, FirstCall DEF OnReap
  <2>2. PICK dead \in SUBSET Tracked :
          \E found \in SUBSET (Tracked \ dead) :
            /\ ops + Cardinality(dead) <= MaxOps
            /\ ops' = ops + Cardinality(dead)
            /\ reg' = [s \in Sids |->
                         IF s \in dead THEN NoRec
                         ELSE IF s \in found THEN [reg[s] EXCEPT !.named = TRUE]
                         ELSE reg[s]]
            /\ \E order \in SetToSeqs(dead) : Broadcast(Task("reap", NoRec, {}, order), clients)
    BY <1>6 DEF OnReap
  <2>3. IsFiniteSet(dead) /\ dead \subseteq Sids
    BY BroadcasterAssumption, FS_Subset DEF Tracked
  <2>4. ops' \in 0..MaxOps
    BY <1>1, <2>2, <2>3, FS_CardinalityType, BroadcasterAssumption
  <2>5. reg' \in View
    <3>0. PICK found \in SUBSET (Tracked \ dead) :
            reg' = [s \in Sids |->
                      IF s \in dead THEN NoRec
                      ELSE IF s \in found THEN [reg[s] EXCEPT !.named = TRUE]
                      ELSE reg[s]]
      BY <2>2
    <3>1. ASSUME NEW s \in found PROVE [reg[s] EXCEPT !.named = TRUE] \in Rec
      <4>1. s \in Sids /\ reg[s] # NoRec
        BY DEF Tracked
      <4>2. reg[s] \in Rec
        BY <1>1, <4>1 DEF View
      <4>. QED
        BY <4>2 DEF Rec
    <3>2. \A s \in Sids : reg[s] \in Rec \cup {NoRec}
      BY <1>1 DEF View
    <3>3. \A s \in Sids : (IF s \in dead THEN NoRec
                           ELSE IF s \in found THEN [reg[s] EXCEPT !.named = TRUE]
                           ELSE reg[s]) \in Rec \cup {NoRec}
      BY <3>1, <3>2
    <3>. QED
      BY <3>0, <3>3 DEF View
  <2>6. PICK order \in SetToSeqs(dead) : Broadcast(Task("reap", NoRec, {}, order), clients)
    BY <2>2
  <2>7. order \in Seq(Sids)
    BY <2>3, OrderIsSeq, SeqOfMore
  <2>8. Task("reap", NoRec, {}, order) \in Tasks
    BY <2>7 DEF Task, Tasks, Loops
  <2>. QED
    BY <1>2, <2>1, <2>4, <2>5, <2>6, <2>8 DEF Task
<1>. QED
  BY <1>3, <1>4, <1>5, <1>6

(* A client's first snapshot.                                               *)
LEMMA ServeTyped ==
  ASSUME Typed, OnServe
  PROVE  /\ Typed' /\ reg' = reg /\ Arg \in Clients /\ Queue[1] = Call("serve", Arg)
         /\ 1 \in 1..Len(Queue)
         /\ Speaks(Task("serve", Snapshot, {Arg}, <<>>), clients \cup {Arg})
<1>1. reg \in View /\ ops \in 0..MaxOps /\ clients \in SUBSET Clients
  BY DEF Typed, TypeOK
<1>2. /\ phase = "run" /\ ready # <<>> /\ Call("serve", Arg) \in Callback
      /\ Queue[1] = Call("serve", Arg) /\ 1 \in 1..Len(Queue)
  BY FirstCall DEF OnServe
<1>3. Arg \in Clients
  BY <1>2 DEF Call, Callback, Loops, ClientCalls
<1>. DEFINE task == Task("serve", Snapshot, {Arg}, <<>>)
<1>4. task \in Tasks
  BY <1>1, <1>3 DEF Task, Tasks, Snapshot, Message
<1>5. Broadcast(task, clients \cup {Arg}) /\ reg' = reg /\ ops' = ops
  BY DEF OnServe, registry
<1>6. clients \cup {Arg} \in SUBSET Clients
  BY <1>1, <1>3
<1>. HIDE DEF task
<1>7. Typed' /\ Speaks(task, clients \cup {Arg})
  BY <1>1, <1>2, <1>4, <1>5, <1>6, Broadcasts DEF Speaks
<1>. QED
  BY <1>2, <1>3, <1>5, <1>7 DEF task

-----------------------------------------------------------------------------
(* Tasks that tell it to the same as one that waits.                        *)
Waiters ==
  {t \in Tasks : \E c \in Clients : \E i \in DOMAIN waiting[c] : t.todo = waiting[c][i].todo}

Woken == [do : {"task"}, arg : Waiters] \cup [do : {"cleanup", "lost"}, arg : Clients]

(* No timer is among them.                                                  *)
LEMMA WokenAreUntimed == Woken \subseteq Untimed
BY DEF Woken, Waiters, Untimed, Callback, ClientCalls

(* What wakes with a client's buffer, or fails with its connection.         *)
LEMMA Wakes ==
  ASSUME Typed, NEW c \in Clients
  PROVE  /\ Wake(waiting[c]) \in Seq(Woken)
         /\ Wake([i \in DOMAIN waiting[c] |-> [waiting[c][i] EXCEPT !.dead = @ \cup {c}]])
              \in Seq(Woken)
<1>1. waiting[c] \in Seq(Tasks)
  BY DEF Typed, Wired
<1>. DEFINE n == Len(waiting[c])
            lost == [i \in DOMAIN waiting[c] |-> [waiting[c][i] EXCEPT !.dead = @ \cup {c}]]
<1>2. n \in Nat /\ DOMAIN waiting[c] = 1..n /\ \A i \in 1..n : waiting[c][i] \in Tasks
  BY <1>1
<1>3. \A i \in 1..n : waiting[c][i] \in Waiters
  BY <1>2 DEF Waiters
<1>4. ASSUME NEW i \in 1..n PROVE [waiting[c][i] EXCEPT !.dead = @ \cup {c}] \in Waiters
  <2>1. [waiting[c][i] EXCEPT !.dead = @ \cup {c}] \in Tasks
    BY <1>2 DEF Tasks
  <2>2. [waiting[c][i] EXCEPT !.dead = @ \cup {c}].todo = waiting[c][i].todo
    BY <1>2 DEF Tasks
  <2>. QED
    BY <1>2, <2>1, <2>2 DEF Waiters
<1>. HIDE DEF n
<1>5. Wake(waiting[c]) \in [1..n -> Woken]
  BY <1>2, <1>3 DEF Wake, Call, Woken
<1>6. Wake(lost) \in [1..n -> Woken]
  <2>1. DOMAIN lost = 1..n /\ \A i \in 1..n : lost[i] \in Waiters
    BY <1>2, <1>4
  <2>. HIDE DEF lost
  <2>. QED
    BY <2>1 DEF Wake, Call, Woken
<1>. QED
  BY <1>2, <1>5, <1>6, SeqDef

(* What becomes of a connection.                                            *)
LEMMA ClientsTyped ==
  ASSUME Typed, OnWritable \/ OnEof \/ OnCleanup \/ OnLost
  PROVE  /\ Typed' /\ UNCHANGED <<reg, out, view>> /\ clients' \subseteq clients
         /\ \E calls \in Seq(Woken) : Shifted(Queue', Queue, calls)
         /\ \A c \in Clients : waiting'[c] = waiting[c] \/ waiting'[c] = <<>>
         /\ \A c \in Clients : conn'[c] = conn[c] \/ conn'[c] \in {"closing", "lost"}
<1>1. PICK do \in {"writable", "eof", "cleanup", "lost"} : Runs(do)
  BY DEF OnWritable, OnEof, OnCleanup, OnLost
<1>2. phase = "run" /\ ready # <<>> /\ Call(do, Arg) \in Callback
  BY <1>1, FirstCall
<1>3. Arg \in Clients
  BY <1>1, <1>2 DEF Call, Callback, Loops, ClientCalls
<1>4. ASSUME NEW calls \in Seq(Woken), Schedule(calls)
      PROVE  Turned' /\ Shifted(Queue', Queue, calls)
  <2>1. calls \in Seq(Untimed)
    BY WokenAreUntimed, SeqOfMore
  <2>. QED
    BY <1>2, <1>4, <2>1, Schedules DEF Typed
<1>5. <<>> \in Seq(Woken) /\ \A other \in {"cleanup", "lost"} : <<Call(other, Arg)>> \in Seq(Woken)
  <2>1. \A other \in {"cleanup", "lost"} : Call(other, Arg) \in Woken
    BY <1>3 DEF Woken, Call
  <2>. QED
    BY <2>1
<1>6. /\ conn \in [Clients -> {"none", "open", "gone", "closing", "lost"}]
      /\ waiting \in [Clients -> Seq(Tasks)] /\ paused \in [Clients -> BOOLEAN]
  BY DEF Typed, TypeOK, Wired
<1>7. CASE OnWritable
  <2>1. PICK calls \in Seq(Woken) : Schedule(calls)
    BY <1>3, <1>7, Wakes DEF OnWritable
  <2>2. Turned' /\ Shifted(Queue', Queue, calls)
    BY <1>4, <2>1
  <2>3. paused' \in [Clients -> BOOLEAN]
    BY <1>6, <1>7 DEF OnWritable
  <2>4. waiting' \in [Clients -> Seq(Tasks)]
        /\ \A c \in Clients : waiting'[c] = waiting[c] \/ waiting'[c] = <<>>
    <3>1. waiting' = [waiting EXCEPT ![Arg] = <<>>] /\ <<>> \in Seq(Tasks)
      BY <1>7 DEF OnWritable
    <3>. QED
      BY <1>6, <3>1
  <2>. QED
    BY <1>7, <2>2, <2>3, <2>4, TypedAgain DEF OnWritable, registry, Typed, TypeOK, Wired
<1>8. CASE OnEof
  <2>1. Turned' /\ Shifted(Queue', Queue, <<Call("cleanup", Arg)>>)
    BY <1>4, <1>5, <1>8 DEF OnEof
  <2>. QED
    BY <1>5, <1>8, <2>1, TypedAgain DEF OnEof, registry, wires, Typed, TypeOK, Wired
<1>9. CASE OnCleanup
  <2>1. PICK calls \in Seq(Woken) : Schedule(calls)
    BY <1>5, <1>9 DEF OnCleanup
  <2>2. Turned' /\ Shifted(Queue', Queue, calls)
    BY <1>4, <2>1
  <2>3. /\ conn' \in [Clients -> {"none", "open", "gone", "closing", "lost"}]
        /\ \A c \in Clients : conn'[c] = conn[c] \/ conn'[c] \in {"closing", "lost"}
    BY <1>3, <1>6, <1>9 DEF OnCleanup
  <2>. QED
    BY <1>9, <2>2, <2>3, TypedAgain DEF OnCleanup, registry, Typed, TypeOK, Wired
<1>10. CASE OnLost
  <2>. DEFINE woken == Wake([i \in DOMAIN waiting[Arg] |->
                               [waiting[Arg][i] EXCEPT !.dead = @ \cup {Arg}]])
              last == IF Arg \in clients THEN <<Call("cleanup", Arg)>> ELSE <<>>
  <2>1. woken \in Seq(Woken) /\ last \in Seq(Woken)
    BY <1>3, <1>5, Wakes
  <2>2. Schedule(woken \o last)
    BY <1>10 DEF OnLost
  <2>. HIDE DEF woken, last
  <2>3. woken \o last \in Seq(Woken)
    BY <2>1, ConcatProperties
  <2>4. Turned' /\ Shifted(Queue', Queue, woken \o last)
    BY <1>4, <2>2, <2>3
  <2>5. /\ conn' \in [Clients -> {"none", "open", "gone", "closing", "lost"}]
        /\ \A c \in Clients : conn'[c] = conn[c] \/ conn'[c] \in {"closing", "lost"}
        /\ waiting' \in [Clients -> Seq(Tasks)]
        /\ \A c \in Clients : waiting'[c] = waiting[c] \/ waiting'[c] = <<>>
    BY <1>3, <1>6, <1>10 DEF OnLost
  <2>. QED
    BY <1>10, <2>3, <2>4, <2>5, TypedAgain DEF OnLost, registry, Typed, TypeOK, Wired
<1>. QED
  BY <1>7, <1>8, <1>9, <1>10

-----------------------------------------------------------------------------
(* A frontend that took a message has a registry to show.                   *)
LEMMA AppliedTyped ==
  ASSUME NEW agents \in View \cup {NoView}, NEW msg \in Message
  PROVE  Applied(agents, msg) \in View
<1>1. CASE msg.type = "snapshot"
  BY <1>1 DEF Applied, Message
<1>2. CASE msg.type # "snapshot"
  <2>1. msg.sid \in Sids /\ msg.rec \in Rec \cup {NoRec}
    BY <1>2 DEF Message
  <2>2. [[s \in Sids |-> NoRec] EXCEPT ![msg.sid] = msg.rec] \in View
    BY <2>1 DEF View
  <2>3. agents \in View => [agents EXCEPT ![msg.sid] = msg.rec] \in View
    BY <2>1 DEF View
  <2>. QED
    BY <1>2, <2>2, <2>3 DEF Applied
<1>. QED
  BY <1>1, <1>2

(* A frontend reads what was written to it.                                 *)
LEMMA DeliverTyped ==
  ASSUME Typed, NEW c \in Clients, Deliver(c)
  PROVE  /\ Typed' /\ UNCHANGED <<reg, clients, conn, waiting, turn>>
         /\ \A d \in Clients \ {c} : out'[d] = out[d] /\ view'[d] = view[d]
         /\ view'[c] \in View
<1>1. /\ out[c] \in Seq(Message) /\ out[c] # <<>> /\ view[c] \in View \cup {NoView}
      /\ view \in [Clients -> View \cup {NoView}] /\ out \in [Clients -> Seq(Message)]
  BY DEF Deliver, Typed, TypeOK, Wired
<1>2. Head(out[c]) \in Message /\ Tail(out[c]) \in Seq(Message)
  BY <1>1, HeadTailProperties
<1>3. Applied(view[c], Head(out[c])) \in View
  BY <1>1, <1>2, AppliedTyped
<1>4. /\ out' = [out EXCEPT ![c] = Tail(out[c])]
      /\ view' = [view EXCEPT ![c] = Applied(view[c], Head(out[c]))]
  BY DEF Deliver
<1>5. view' \in [Clients -> View \cup {NoView}] /\ view'[c] \in View
      /\ \A d \in Clients \ {c} : view'[d] = view[d]
  BY <1>1, <1>2, <1>3, <1>4
<1>6. out' \in [Clients -> Seq(Message)] /\ \A d \in Clients \ {c} : out'[d] = out[d]
  BY <1>1, <1>2, <1>4
<1>7. UNCHANGED <<registry, turn, loop, clients, conn, paused, waiting, smooth>>
  BY DEF Deliver
<1>8. Turned'
  BY <1>7 DEF turn, Typed, Turned
<1>9. Typed'
  BY <1>5, <1>6, <1>7, <1>8, TypedAgain DEF registry, Typed, TypeOK, Wired
<1>. QED
  BY <1>5, <1>6, <1>7, <1>9 DEF registry

(* A frontend leaves.                                                       *)
LEMMA HangUpTyped ==
  ASSUME Typed, NEW c \in Clients, HangUp(c)
  PROVE  /\ Typed' /\ UNCHANGED <<reg, clients, waiting, turn>>
         /\ \A d \in Clients \ {c} : out'[d] = out[d] /\ view'[d] = view[d] /\ conn'[d] = conn[d]
         /\ conn'[c] = "gone"
<1>1. /\ view \in [Clients -> View \cup {NoView}] /\ out \in [Clients -> Seq(Message)]
      /\ conn \in [Clients -> {"none", "open", "gone", "closing", "lost"}]
  BY DEF Typed, TypeOK, Wired
<1>2. /\ conn' = [conn EXCEPT ![c] = "gone"] /\ out' = [out EXCEPT ![c] = <<>>]
      /\ view' = [view EXCEPT ![c] = NoView]
      /\ UNCHANGED <<registry, turn, loop, clients, paused, waiting, smooth>>
  BY DEF HangUp
<1>3. conn' \in [Clients -> {"none", "open", "gone", "closing", "lost"}] /\ conn'[c] = "gone"
      /\ \A d \in Clients \ {c} : conn'[d] = conn[d]
  BY <1>1, <1>2
<1>4. out' \in [Clients -> Seq(Message)] /\ \A d \in Clients \ {c} : out'[d] = out[d]
  BY <1>1, <1>2
<1>5. view' \in [Clients -> View \cup {NoView}] /\ \A d \in Clients \ {c} : view'[d] = view[d]
  BY <1>1, <1>2
<1>6. Turned'
  BY <1>2 DEF turn, Typed, Turned
<1>7. Typed'
  BY <1>2, <1>3, <1>4, <1>5, <1>6, TypedAgain DEF registry, Typed, TypeOK, Wired
<1>. QED
  BY <1>2, <1>3, <1>4, <1>5, <1>7 DEF registry

(* Nothing happens.                                                         *)
LEMMA SameTyped ==
  ASSUME Typed, UNCHANGED vars
  PROVE  Typed' /\ UNCHANGED <<reg, clients, conn, out, waiting, view, turn>>
<1>1. UNCHANGED <<reg, ops, phase, ready, next, loop, clients, conn, out, paused, waiting,
                  view, smooth>> /\ UNCHANGED turn
  BY DEF vars, registry, turn, wires
<1>. QED
  BY <1>1 DEF Typed, TypeOK, Turned, Wired

(* The daemon starts with nothing to call.                                  *)
LEMMA InitTyped ==
  ASSUME Init
  PROVE  Typed /\ Queue = <<>>
<1>1. reg \in View /\ ops \in 0..MaxOps
  <2>1. MaxOps \in Nat
    BY BroadcasterAssumption
  <2>2. [ver |-> 0, named |-> TRUE] \in Rec
    BY <2>1 DEF Rec
  <2>3. {NoRec, [ver |-> 0, named |-> TRUE]} \subseteq Rec \cup {NoRec}
    BY <2>2
  <2>4. reg \in [Sids -> {NoRec, [ver |-> 0, named |-> TRUE]}] /\ ops = 0
    BY DEF Init
  <2>5. reg \in View
    BY <2>3, <2>4 DEF View
  <2>. QED
    BY <2>1, <2>4, <2>5
<1>2. Turned
  BY DEF Init, Turned
<1>3. Wired
  BY DEF Init, Wired
<1>4. TypeOK
  <2>1. \A c \in Clients : out[c] = <<>> /\ waiting[c] = <<>>
    BY DEF Init
  <2>2. \A c \in Clients : \A i \in DOMAIN waiting[c] :
          waiting[c][i].by \in Loops \cup {"event", "serve"}
    BY <2>1
  <2>. QED
    BY <1>1, <2>1, <2>2 DEF Init, TypeOK, Loops
<1>5. Queue = <<>>
  BY DEF Init, Queue
<1>. QED
  BY <1>2, <1>3, <1>4, <1>5 DEF Typed

(* The steps there are.                                                     *)
LEMMA Steps ==
  ASSUME [Next]_vars
  PROVE  \/ Polls \/ Notices \/ \E due \in Dues : TurnStarts(due)
         \/ OnEvent \/ OnTimer \/ OnServe
         \/ OnDiff \/ OnTask \/ OnReap \/ OnSnap
         \/ OnWritable \/ OnEof \/ OnCleanup \/ OnLost
         \/ \E c \in Clients : Deliver(c) \/ HangUp(c)
         \/ UNCHANGED vars
BY DEF Next, Turns

(* Every step keeps the types.                                              *)
LEMMA TypedStep == Typed /\ [Next]_vars => Typed'
<1>. SUFFICES ASSUME Typed, [Next]_vars PROVE Typed'
  OBVIOUS
<1>. QED
  BY Steps, PollsTyped, NoticesTyped, TurnStartsTyped, EventTyped, TimerTyped, ServeTyped,
     Speeches, ClientsTyped, DeliverTyped, HangUpTyped, SameTyped

(* The types hold throughout.                                               *)
LEMMA AlwaysTyped == Spec => []Typed
<1>1. Init => Typed
  BY InitTyped
<1>. QED
  BY <1>1, TypedStep, PTL DEF Spec

(* Every variable of the daemon's loop, its connections and its frontends   *)
(* has its type.                                                            *)
THEOREM TypeCorrect == Spec => []TypeOK
<1>1. Typed => TypeOK
  BY DEF Typed
<1>. QED
  BY <1>1, AlwaysTyped, PTL

-----------------------------------------------------------------------------
(* What never comes behind what: no diff behind anything that changes the   *)
(* registry, and, so that it stays so, no sweep behind an event, and no     *)
(* event behind another or behind a timer.                                  *)
Never ==
  { <<"udp", "diff">>, <<"reap", "diff">>, <<"udp", "reap">>, <<"udp", "udp">>,
    <<"timer", "udp">> }

Ordered(q) ==
  \A i, j \in 1..Len(q) : i < j => <<q[i].do, q[j].do>> \notin Never

(* Each diff to be sent is what its event made of the record.               *)
Fresh(q, agents) ==
  \A i \in 1..Len(q) : q[i].do = "diff" => agents[q[i].arg.sid] = q[i].arg.rec

InOrder == Typed /\ Ordered(Queue) /\ Fresh(Queue, reg)

(* Calls that come behind anything, and before anything.                    *)
Quiet == {call \in Untimed : call.do \notin {"udp", "diff", "reap"}}

(* What comes behind the first of the queue.                                *)
LEMMA Behind ==
  ASSUME InOrder, 1 \in 1..Len(Queue)
  PROVE  /\ Queue[1].do \in {"udp", "reap"} =>
              \A i \in 1..Len(Queue) : i > 1 => Queue[i].do # "diff"
         /\ Queue[1].do = "udp" => \A i \in 1..Len(Queue) : i > 1 => Queue[i].do \notin {"udp", "reap"}
         /\ Queue[1].do = "timer" => \A i \in 1..Len(Queue) : i > 1 => Queue[i].do # "udp"
BY DEF InOrder, Ordered, Never

(* A queue without its first, and with calls that may come behind what is   *)
(* left, is in order.                                                       *)
LEMMA ShiftInOrder ==
  ASSUME NEW q \in Seq(Callback), q # <<>>, NEW new \in Seq(Callback), Ordered(q),
         NEW calls \in Seq(Callback), Shifted(new, q, calls),
         \A i, j \in 1..Len(calls) : <<calls[i].do, calls[j].do>> \notin Never,
         \A i \in 1..Len(q), j \in 1..Len(calls) :
           i > 1 => <<q[i].do, calls[j].do>> \notin Never
  PROVE  Ordered(new)
<1>1. Len(q) \in Nat \ {0} /\ Len(calls) \in Nat /\ Len(new) = Len(q) - 1 + Len(calls)
  BY EmptySeq DEF Shifted
<1>. SUFFICES ASSUME NEW i \in 1..Len(new), NEW j \in 1..Len(new), i < j
              PROVE  <<new[i].do, new[j].do>> \notin Never
  BY DEF Ordered
<1>2. /\ new[i] = IF i < Len(q) THEN q[i + 1] ELSE calls[i - Len(q) + 1]
      /\ new[j] = IF j < Len(q) THEN q[j + 1] ELSE calls[j - Len(q) + 1]
  BY DEF Shifted
<1>3. CASE j < Len(q)
  <2>1. i + 1 \in 1..Len(q) /\ j + 1 \in 1..Len(q) /\ i + 1 < j + 1 /\ i < Len(q)
    BY <1>1, <1>3
  <2>. QED
    BY <1>2, <1>3, <2>1 DEF Ordered
<1>4. CASE i < Len(q) /\ ~(j < Len(q))
  <2>1. i + 1 \in 1..Len(q) /\ i + 1 > 1 /\ j - Len(q) + 1 \in 1..Len(calls)
    BY <1>1, <1>4
  <2>. QED
    BY <1>2, <1>4, <2>1
<1>5. CASE ~(i < Len(q)) /\ ~(j < Len(q))
  <2>1. i - Len(q) + 1 \in 1..Len(calls) /\ j - Len(q) + 1 \in 1..Len(calls)
    BY <1>1, <1>5
  <2>. QED
    BY <1>2, <1>5, <2>1
<1>6. i < Len(q) \/ ~(j < Len(q))
  BY <1>1
<1>. QED
  BY <1>3, <1>4, <1>5, <1>6

(* Diffs that are kept stay fresh, and new ones are.                        *)
LEMMA ShiftFresh ==
  ASSUME NEW q \in Seq(Callback), q # <<>>, NEW new \in Seq(Callback), NEW agents, NEW after,
         Fresh(q, agents), NEW calls \in Seq(Callback), Shifted(new, q, calls),
         after = agents \/ \A i \in 1..Len(q) : i > 1 => q[i].do # "diff",
         Fresh(calls, after)
  PROVE  Fresh(new, after)
<1>1. Len(q) \in Nat \ {0} /\ Len(calls) \in Nat /\ Len(new) = Len(q) - 1 + Len(calls)
  BY EmptySeq DEF Shifted
<1>. SUFFICES ASSUME NEW i \in 1..Len(new), new[i].do = "diff"
              PROVE  after[new[i].arg.sid] = new[i].arg.rec
  BY DEF Fresh
<1>2. CASE i < Len(q)
  <2>1. i + 1 \in 1..Len(q) /\ i + 1 > 1
    BY <1>1, <1>2
  <2>2. new[i] = q[i + 1]
    BY <1>2 DEF Shifted
  <2>. QED
    BY <2>1, <2>2 DEF Fresh
<1>3. CASE ~(i < Len(q))
  <2>1. i - Len(q) + 1 \in 1..Len(calls)
    BY <1>1, <1>3
  <2>2. new[i] = calls[i - Len(q) + 1]
    BY <1>3 DEF Shifted
  <2>. QED
    BY <2>1, <2>2 DEF Fresh
<1>. QED
  BY <1>2, <1>3

(* Nothing that changes the registry comes from these calls.                *)
LEMMA QuietTurn ==
  ASSUME InOrder, Typed', Queue # <<>>, NEW S, S \subseteq Quiet, Turns1(S),
         reg' = reg \/ Queue[1].do = "reap"
  PROVE  InOrder'
<1>1. Queue \in Seq(Callback) /\ Queue' \in Seq(Callback)
  BY QueueTyped DEF InOrder, Typed, Turned, Queue
<1>2. Len(Queue) \in Nat \ {0} /\ 1 \in 1..Len(Queue)
  BY <1>1, EmptySeq
<1>3. reg' = reg \/ \A i \in 1..Len(Queue) : i > 1 => Queue[i].do # "diff"
  BY <1>2, Behind
<1>4. CASE \E calls \in Seq(S) : Shifted(Queue', Queue, calls)
  <2>1. PICK calls \in Seq(S) : Shifted(Queue', Queue, calls)
    BY <1>4
  <2>2. /\ \A i \in 1..Len(calls) : calls[i] \in Quiet
        /\ calls \in Seq(Callback)
    <3>1. Quiet \subseteq Callback
      BY DEF Quiet, Untimed
    <3>2. calls \in Seq(Quiet)
      BY SeqOfMore
    <3>. QED
      BY <3>1, <3>2, SeqOfMore
  <2>3. \A i \in 1..Len(calls) : calls[i].do \notin {"udp", "diff", "reap"}
    BY <2>2 DEF Quiet
  <2>4. Fresh(calls, reg')
    BY <2>3 DEF Fresh
  <2>5. Ordered(Queue')
    BY <1>1, <2>1, <2>2, <2>3, ShiftInOrder DEF InOrder, Never
  <2>6. Fresh(Queue', reg')
    BY <1>1, <1>3, <2>1, <2>2, <2>4, ShiftFresh DEF InOrder
  <2>. QED
    BY <2>5, <2>6 DEF InOrder
<1>5. CASE \E call \in S : Replaced(Queue', Queue, call)
  <2>1. PICK call \in S : Replaced(Queue', Queue, call)
    BY <1>5
  <2>2. call.do \notin {"udp", "diff", "reap", "timer"}
    BY DEF Quiet, Untimed
  <2>3. Len(Queue') = Len(Queue)
        /\ \A i \in 1..Len(Queue) : Queue'[i] = IF i = 1 THEN call ELSE Queue[i]
    BY <2>1 DEF Replaced
  <2>4. Ordered(Queue')
    <3>. SUFFICES ASSUME NEW i \in 1..Len(Queue), NEW j \in 1..Len(Queue), i < j
                  PROVE  <<Queue'[i].do, Queue'[j].do>> \notin Never
      BY <2>3 DEF Ordered
    <3>1. j # 1 /\ Queue'[j] = Queue[j]
      BY <1>2, <2>3
    <3>2. CASE i = 1
      BY <2>2, <2>3, <3>2 DEF Never
    <3>3. CASE i # 1
      BY <2>3, <3>1, <3>3 DEF InOrder, Ordered
    <3>. QED
      BY <3>2, <3>3
  <2>5. Fresh(Queue', reg')
    <3>. SUFFICES ASSUME NEW i \in 1..Len(Queue), Queue'[i].do = "diff"
                  PROVE  reg'[Queue'[i].arg.sid] = Queue'[i].arg.rec
      BY <2>3 DEF Fresh
    <3>1. i # 1 /\ Queue'[i] = Queue[i]
      BY <2>2, <2>3
    <3>2. i > 1
      BY <3>1
    <3>3. reg' = reg
      BY <1>3, <3>1, <3>2
    <3>. QED
      BY <3>1, <3>3 DEF InOrder, Fresh
  <2>. QED
    BY <2>4, <2>5 DEF InOrder
<1>. QED
  BY <1>4, <1>5 DEF Turns1

(* What select reports may come behind what is there.                       *)
LEMMA SelectInOrder ==
  ASSUME InOrder, Typed', Selects, reg' = reg
  PROVE  InOrder'
<1>1. Queue \in Seq(Callback) /\ Queue' \in Seq(Callback)
  BY QueueTyped DEF InOrder, Typed, Turned, Queue
<1>2. phase = "select"
  BY DEF Selects
<1>3. Queue = ready /\ ready \in Seq(Untimed)
  <2>1. ready \in Seq(Untimed) /\ next = <<>>
    BY <1>2 DEF InOrder, Typed, Turned
  <2>. QED
    BY <2>1, ConcatEmptySeq DEF Queue
<1>4. \A i \in 1..Len(Queue) : Queue[i].do # "timer"
  BY <1>3 DEF Untimed
<1>5. ASSUME NEW calls \in Seq(Callback), Grown(Queue', Queue, calls),
             \A i \in 1..Len(calls) : calls[i].do \notin {"diff", "reap"},
             \A i, j \in 1..Len(calls) : i < j => calls[j].do # "udp",
             \A i \in 1..Len(Queue), j \in 1..Len(calls) :
               calls[j].do = "udp" => Queue[i].do # "udp"
      PROVE  InOrder'
  <2>1. /\ Len(Queue') = Len(Queue) + Len(calls) /\ Len(Queue) \in Nat /\ Len(calls) \in Nat
        /\ \A i \in 1..Len(Queue') :
             Queue'[i] = IF i <= Len(Queue) THEN Queue[i] ELSE calls[i - Len(Queue)]
    BY <1>1, <1>5 DEF Grown
  <2>2. \A i \in 1..Len(Queue') : i <= Len(Queue) => i \in 1..Len(Queue) /\ Queue'[i] = Queue[i]
    BY <2>1
  <2>3. \A i \in 1..Len(Queue') : ~(i <= Len(Queue)) =>
          i - Len(Queue) \in 1..Len(calls) /\ Queue'[i] = calls[i - Len(Queue)]
    BY <2>1
  <2>4. Ordered(Queue')
    <3>. SUFFICES ASSUME NEW i \in 1..Len(Queue'), NEW j \in 1..Len(Queue'), i < j
                  PROVE  <<Queue'[i].do, Queue'[j].do>> \notin Never
      BY DEF Ordered
    <3>1. CASE j <= Len(Queue)
      <4>1. i <= Len(Queue)
        BY <2>1, <3>1
      <4>. QED
        BY <2>2, <3>1, <4>1 DEF InOrder, Ordered
    <3>2. CASE i <= Len(Queue) /\ ~(j <= Len(Queue))
      BY <1>4, <1>5, <2>2, <2>3, <3>2 DEF Never
    <3>3. CASE ~(i <= Len(Queue)) /\ ~(j <= Len(Queue))
      <4>1. i - Len(Queue) < j - Len(Queue)
        BY <2>1
      <4>. QED
        BY <1>5, <2>3, <3>3, <4>1 DEF Never
    <3>. QED
      BY <2>1, <3>1, <3>2, <3>3
  <2>5. Fresh(Queue', reg')
    BY <1>5, <2>2, <2>3 DEF Fresh, InOrder
  <2>. QED
    BY <2>4, <2>5 DEF InOrder
<1>6. CASE \E call \in Reported :
             /\ Grown(Queue', Queue, <<call>>)
             /\ call.do = "udp" => \A i \in DOMAIN ready : ready[i].do # "udp"
  <2>1. PICK call \in Reported :
          /\ Grown(Queue', Queue, <<call>>)
          /\ call.do = "udp" => \A i \in DOMAIN ready : ready[i].do # "udp"
    BY <1>6
  <2>2. call \in Callback /\ call.do \notin {"diff", "reap"}
    BY DEF Reported, Untimed, Loops
  <2>. DEFINE calls == <<call>>
  <2>3. calls \in Seq(Callback) /\ Len(calls) = 1 /\ \A i \in 1..Len(calls) : calls[i] = call
    BY <2>2
  <2>4. call.do = "udp" => \A i \in 1..Len(Queue) : Queue[i].do # "udp"
    BY <1>3, <2>1
  <2>5. Grown(Queue', Queue, calls)
    BY <2>1
  <2>. HIDE DEF calls
  <2>6. \A i, j \in 1..Len(calls) : ~(i < j)
    BY <2>3
  <2>7. \A i \in 1..Len(calls) : calls[i].do \notin {"diff", "reap"}
    BY <2>2, <2>3
  <2>8. \A i \in 1..Len(Queue), j \in 1..Len(calls) :
          calls[j].do = "udp" => Queue[i].do # "udp"
    BY <2>3, <2>4
  <2>. QED
    BY <1>5, <2>3, <2>5, <2>6, <2>7, <2>8
<1>7. CASE \E calls \in Seq([do : {"timer"}, arg : Loops]) : Grown(Queue', Queue, calls)
  <2>1. PICK calls \in Seq([do : {"timer"}, arg : Loops]) : Grown(Queue', Queue, calls)
    BY <1>7
  <2>2. \A i \in 1..Len(calls) : calls[i].do = "timer"
    <3>1. \A i \in 1..Len(calls) : calls[i] \in [do : {"timer"}, arg : Loops]
      BY ElementOfSeq
    <3>. QED
      BY <3>1
  <2>3. calls \in Seq(Callback)
    <3>1. [do : {"timer"}, arg : Loops] \subseteq Callback
      BY DEF Callback
    <3>. QED
      BY <3>1, SeqOfMore
  <2>. QED
    BY <1>5, <2>1, <2>2, <2>3
<1>. QED
  BY <1>6, <1>7 DEF Selects

(* One call in place of the first, behind the others.                       *)
LEMMA OneInOrder ==
  ASSUME InOrder, Typed', 1 \in 1..Len(Queue), NEW call \in Callback,
         Shifted(Queue', Queue, <<call>>),
         reg' = reg \/ \A i \in 1..Len(Queue) : i > 1 => Queue[i].do # "diff",
         call.do = "diff" => reg'[call.arg.sid] = call.arg.rec,
         <<call.do, call.do>> \notin Never,
         \A i \in 1..Len(Queue) : i > 1 => <<Queue[i].do, call.do>> \notin Never
  PROVE  InOrder'
<1>1. Queue \in Seq(Callback) /\ Queue' \in Seq(Callback)
  BY QueueTyped DEF InOrder, Typed, Turned, Queue
<1>2. Queue # <<>>
  OBVIOUS
<1>. DEFINE calls == <<call>>
<1>3. calls \in Seq(Callback) /\ Len(calls) = 1 /\ \A i \in 1..Len(calls) : calls[i] = call
  OBVIOUS
<1>4. Shifted(Queue', Queue, calls)
  OBVIOUS
<1>. HIDE DEF calls
<1>5. Ordered(Queue')
  BY <1>1, <1>2, <1>3, <1>4, ShiftInOrder DEF InOrder
<1>6. Fresh(calls, reg')
  BY <1>3 DEF Fresh
<1>7. Fresh(Queue', reg')
  BY <1>1, <1>2, <1>3, <1>4, <1>6, ShiftFresh DEF InOrder
<1>. QED
  BY <1>5, <1>7 DEF InOrder

(* Every step keeps the order, and the diffs fresh.                         *)
LEMMA OrderStep == InOrder /\ [Next]_vars => InOrder'
<1>. SUFFICES ASSUME InOrder, [Next]_vars PROVE InOrder'
  OBVIOUS
<1>1. Typed /\ Typed'
  BY TypedStep DEF InOrder
<1>2. ASSUME NEW do, Runs(do)
      PROVE  Queue[1] = Head(ready) /\ 1 \in 1..Len(Queue) /\ Queue # <<>>
  <2>1. Queue[1] = Head(ready) /\ 1 \in 1..Len(Queue)
    BY <1>1, <1>2, FirstCall
  <2>. QED
    BY <2>1
<1>3. CASE UNCHANGED <<reg, turn>>
  <2>1. Queue' = Queue /\ reg' = reg
    BY <1>3 DEF turn, Queue
  <2>. QED
    BY <1>1, <2>1 DEF InOrder
<1>4. CASE Polls
  BY <1>1, <1>4, PollsTyped, SelectInOrder
<1>5. CASE Notices
  BY <1>1, <1>5, NoticesTyped, SelectInOrder
<1>6. ASSUME NEW due \in Dues, TurnStarts(due) PROVE InOrder'
  BY <1>1, <1>6, TurnStartsTyped, SelectInOrder
<1>7. CASE OnEvent
  <2>1. Queue[1].do = "udp" /\ 1 \in 1..Len(Queue)
    BY <1>1, <1>2, <1>7, EventTyped DEF OnEvent
  <2>2. PICK call \in [do : {"diff"}, arg : DiffMsg] :
          reg'[call.arg.sid] = call.arg.rec /\ Shifted(Queue', Queue, <<call>>)
    BY <1>1, <1>7, EventTyped
  <2>3. call \in Callback /\ call.do = "diff"
    BY DEF Callback
  <2>4. \A i \in 1..Len(Queue) : i > 1 => Queue[i].do \notin {"udp", "reap", "diff"}
    BY <2>1, Behind
  <2>. QED
    BY <1>1, <2>1, <2>2, <2>3, <2>4, OneInOrder DEF Never
<1>8. CASE OnTimer
  <2>1. Queue[1].do = "timer" /\ 1 \in 1..Len(Queue) /\ reg' = reg
    BY <1>1, <1>2, <1>8, TimerTyped DEF OnTimer
  <2>2. PICK call \in [do : Loops, arg : {"round"}] : Shifted(Queue', Queue, <<call>>)
    BY <1>1, <1>8, TimerTyped
  <2>3. call \in Callback /\ call.do \in {"reap", "snap"}
    BY DEF Callback, Loops
  <2>4. \A i \in 1..Len(Queue) : i > 1 => Queue[i].do # "udp"
    BY <2>1, Behind
  <2>. QED
    BY <1>1, <2>1, <2>2, <2>3, <2>4, OneInOrder DEF Never
<1>9. \A S : TaskCalls(S) \subseteq Quiet
  BY TaskCallsAre DEF TaskCalls, Quiet
<1>10. CASE OnServe
  <2>1. reg' = reg /\ \E S : Turns1(TaskCalls(S))
    BY <1>1, <1>10, ServeTyped DEF Speaks
  <2>. QED
    BY <1>1, <1>2, <1>9, <1>10, <2>1, QuietTurn DEF OnServe
<1>11. CASE OnDiff \/ OnTask \/ OnReap \/ OnSnap
  <2>1. (reg' = reg \/ Queue[1].do = "reap") /\ \E S : Turns1(TaskCalls(S))
    BY <1>1, <1>2, <1>11, Speeches DEF OnDiff, OnTask, OnReap, OnSnap, Speaks
  <2>2. Queue # <<>>
    BY <1>2, <1>11 DEF OnDiff, OnTask, OnReap, OnSnap
  <2>. QED
    BY <1>1, <1>9, <2>1, <2>2, QuietTurn
<1>12. CASE OnWritable \/ OnEof \/ OnCleanup \/ OnLost
  <2>1. reg' = reg /\ Turns1(Woken)
    BY <1>1, <1>12, ClientsTyped DEF Turns1
  <2>2. Woken \subseteq Quiet
    BY WokenAreUntimed DEF Woken, Quiet
  <2>3. Queue # <<>>
    BY <1>2, <1>12 DEF OnWritable, OnEof, OnCleanup, OnLost
  <2>. QED
    BY <1>1, <2>1, <2>2, <2>3, QuietTurn
<1>13. ASSUME NEW c \in Clients, Deliver(c) \/ HangUp(c) PROVE InOrder'
  BY <1>1, <1>3, <1>13, DeliverTyped, HangUpTyped
<1>14. CASE UNCHANGED vars
  BY <1>1, <1>3, <1>14, SameTyped
<1>. QED
  BY <1>4, <1>5, <1>6, <1>7, <1>8, <1>10, <1>11, <1>12, <1>13, <1>14, Steps

(* A diff always tells what its own event did: whatever the loop is told    *)
(* and in whatever order, nothing that changes the registry is ever called  *)
(* between an event and the task that sends its diff.                       *)
THEOREM DiffsAreFresh == Spec => []DiffIsFresh
<1>1. Init => InOrder
  <2>. SUFFICES ASSUME Init PROVE InOrder
    OBVIOUS
  <2>1. Typed /\ Queue = <<>>
    BY InitTyped
  <2>. QED
    BY <2>1 DEF InOrder, Ordered, Fresh
<1>2. InOrder => DiffIsFresh
  <2>. SUFFICES ASSUME InOrder, NEW call \in Calls, call.do = "diff"
                PROVE  reg[call.arg.sid] = call.arg.rec
    BY DEF DiffIsFresh
  <2>1. PICK i \in 1..Len(Queue) : Queue[i] = call
    BY QueueIsCalls DEF InOrder
  <2>. QED
    BY <2>1 DEF InOrder, Fresh
<1>. QED
  BY <1>1, <1>2, OrderStep, PTL DEF Spec

-----------------------------------------------------------------------------
(* Frontends nothing was ever written to.                                   *)
Silent ==
  {c \in Clients : conn[c] \in {"none", "open"} /\ view[c] = NoView /\ out[c] = <<>>}

(* No broadcast can come to them but their own.                             *)
Heard ==
  /\ Typed /\ SnapshotFirst
  /\ \A c \in Clients : conn[c] = "none" => out[c] = <<>>
  /\ clients \cap Silent = {}
  /\ \A i \in 1..Len(Queue) :
       /\ Queue[i].do = "task" => Queue[i].arg.todo \cap Silent = {}
       /\ Queue[i].do = "serve" => conn[Queue[i].arg] # "none"
  /\ \A c \in Clients : \A i \in DOMAIN waiting[c] : waiting[c][i].todo \cap Silent = {}

(* The queue holds what it held, and of these.                              *)
Gets(S) ==
  \A i \in 1..Len(Queue') : Queue'[i] \in S \/ \E j \in 1..Len(Queue) : Queue'[i] = Queue[j]

(* A callback leaves what it found, and what it calls.                      *)
LEMMA TurnGets ==
  ASSUME Typed, Queue # <<>>, NEW S, Turns1(S)
  PROVE  Gets(S)
<1>1. Queue \in Seq(Callback) /\ Len(Queue) \in Nat \ {0}
  <2>1. Queue \in Seq(Callback)
    BY QueueTyped DEF Typed, Turned, Queue
  <2>. QED
    BY <2>1, EmptySeq
<1>2. ASSUME NEW calls \in Seq(S), Shifted(Queue', Queue, calls), NEW i \in 1..Len(Queue')
      PROVE  Queue'[i] \in S \/ \E j \in 1..Len(Queue) : Queue'[i] = Queue[j]
  <2>1. Len(calls) \in Nat /\ Len(Queue') = Len(Queue) - 1 + Len(calls)
    BY <1>2 DEF Shifted
  <2>2. CASE i < Len(Queue)
    <3>1. i + 1 \in 1..Len(Queue)
      BY <1>1, <2>1, <2>2
    <3>2. Queue'[i] = Queue[i + 1]
      BY <1>2, <2>2 DEF Shifted
    <3>. QED
      BY <3>1, <3>2
  <2>3. CASE ~(i < Len(Queue))
    <3>1. i - Len(Queue) + 1 \in 1..Len(calls)
      BY <1>1, <2>1, <2>3
    <3>2. Queue'[i] = calls[i - Len(Queue) + 1]
      BY <1>2, <2>3 DEF Shifted
    <3>3. calls[i - Len(Queue) + 1] \in S
      BY <3>1, ElementOfSeq
    <3>. QED
      BY <3>2, <3>3
  <2>. QED
    BY <2>2, <2>3
<1>3. ASSUME NEW call \in S, Replaced(Queue', Queue, call), NEW i \in 1..Len(Queue')
      PROVE  Queue'[i] \in S \/ \E j \in 1..Len(Queue) : Queue'[i] = Queue[j]
  BY <1>1, <1>3 DEF Replaced
<1>. QED
  BY <1>2, <1>3 DEF Turns1, Gets

(* And so does a report.                                                    *)
LEMMA SelectGets ==
  ASSUME Typed, NEW S, NEW calls \in Seq(S), Grown(Queue', Queue, calls)
  PROVE  Gets(S)
<1>1. Queue \in Seq(Callback)
  BY QueueTyped DEF Typed, Turned, Queue
<1>2. Len(Queue) \in Nat /\ Len(calls) \in Nat /\ Len(Queue') = Len(Queue) + Len(calls)
  BY <1>1 DEF Grown
<1>. SUFFICES ASSUME NEW i \in 1..Len(Queue')
              PROVE  Queue'[i] \in S \/ \E j \in 1..Len(Queue) : Queue'[i] = Queue[j]
  BY DEF Gets
<1>3. CASE i <= Len(Queue)
  <2>1. i \in 1..Len(Queue) /\ Queue'[i] = Queue[i]
    BY <1>2, <1>3 DEF Grown
  <2>. QED
    BY <2>1
<1>4. CASE ~(i <= Len(Queue))
  <2>1. i - Len(Queue) \in 1..Len(calls)
    BY <1>2, <1>4
  <2>2. Queue'[i] = calls[i - Len(Queue)]
    BY <1>4 DEF Grown
  <2>3. calls[i - Len(Queue)] \in S
    BY <2>1, ElementOfSeq
  <2>. QED
    BY <2>2, <2>3
<1>. QED
  BY <1>3, <1>4

(* What a step must not do, for all to be well.                             *)
LEMMA HeardAgain ==
  ASSUME Heard, Typed', SnapshotFirst', Silent' \subseteq Silent,
         \A c \in Clients : conn'[c] = "none" => conn[c] = "none" /\ out'[c] = out[c],
         clients' \cap Silent' = {},
         NEW S, Gets(S),
         \A call \in S : /\ call.do = "task" => call.arg.todo \cap Silent' = {}
                         /\ call.do = "serve" => conn'[call.arg] # "none",
         \A c \in Clients : \A i \in DOMAIN waiting'[c] :
           waiting'[c][i].todo \cap Silent' = {}
  PROVE  Heard'
<1>1. \A c \in Clients : conn'[c] = "none" => out'[c] = <<>>
  BY DEF Heard
<1>2. ASSUME NEW i \in 1..Len(Queue')
      PROVE  /\ Queue'[i].do = "task" => Queue'[i].arg.todo \cap Silent' = {}
             /\ Queue'[i].do = "serve" => conn'[Queue'[i].arg] # "none"
  <2>1. CASE Queue'[i] \in S
    BY <2>1
  <2>2. ASSUME NEW j \in 1..Len(Queue), Queue'[i] = Queue[j]
        PROVE  /\ Queue'[i].do = "task" => Queue'[i].arg.todo \cap Silent' = {}
               /\ Queue'[i].do = "serve" => conn'[Queue'[i].arg] # "none"
    <3>1. Queue[j].do = "task" => Queue[j].arg.todo \cap Silent = {}
      BY DEF Heard
    <3>2. Queue[j].do = "serve" => Queue[j].arg \in Clients /\ conn[Queue[j].arg] # "none"
      <4>1. Queue[j] \in Callback
        BY QueueIsCalls DEF Heard
      <4>. QED
        BY <4>1 DEF Heard, Callback, Loops
    <3>. QED
      BY <2>2, <3>1, <3>2
  <2>. QED
    BY <2>1, <2>2 DEF Gets
<1>. QED
  BY <1>1, <1>2 DEF Heard

(* Nobody is written to: the first messages stay what they are.             *)
LEMMA NothingWritten ==
  ASSUME Heard, Typed', out' = out, view' = view, clients' \subseteq clients,
         \A c \in Clients : conn'[c] = conn[c] \/ conn'[c] \in {"closing", "lost"}
                              \/ (conn'[c] = "open" /\ conn[c] = "none")
  PROVE  /\ SnapshotFirst' /\ Silent' \subseteq Silent /\ clients' \cap Silent' = {}
         /\ \A c \in Clients : conn'[c] = "none" => conn[c] = "none" /\ out'[c] = out[c]
<1>1. SnapshotFirst'
  <2>. SUFFICES ASSUME NEW c \in Clients, conn'[c] = "open", view'[c] = NoView, out'[c] # <<>>
                PROVE  Head(out'[c]).type = "snapshot"
    BY DEF SnapshotFirst
  <2>1. conn[c] = "open"
    BY DEF Heard
  <2>. QED
    BY <2>1 DEF Heard, SnapshotFirst
<1>2. Silent' \subseteq Silent
  BY DEF Silent
<1>3. clients' \cap Silent' = {}
  BY <1>2 DEF Heard
<1>. QED
  BY <1>1, <1>2, <1>3

(* A broadcast, told to none who has not had its snapshot, or that is it.   *)
LEMMA SpeakHeard ==
  ASSUME Heard, Typed', Queue # <<>>, NEW task \in Tasks, NEW known, Speaks(task, known),
         (task.todo \cup known) \cap Silent' = {},
         task.todo \cap Silent = {} \/ task.msg.type = "snapshot"
  PROVE  Heard'
<1>1. PICK S \in SUBSET task.todo :
        \A c \in Clients :
          out'[c] = IF c \in S /\ conn[c] = "open" THEN Append(out[c], task.msg) ELSE out[c]
  BY DEF Speaks, Wrote
<1>2. conn' = conn /\ view' = view /\ clients' \subseteq known
  BY DEF Speaks
<1>3. \A c \in S : c \in Clients /\ task.msg \in Message /\ out[c] \in Seq(Message)
  BY DEF Tasks, Heard, Typed, Wired
<1>4. \A c \in S : /\ Append(out[c], task.msg) # <<>>
                   /\ Head(Append(out[c], task.msg)) =
                        IF out[c] = <<>> THEN task.msg ELSE Head(out[c])
  <2>. SUFFICES ASSUME NEW c \in S
                PROVE  /\ Append(out[c], task.msg) # <<>>
                       /\ Head(Append(out[c], task.msg)) =
                            IF out[c] = <<>> THEN task.msg ELSE Head(out[c])
    OBVIOUS
  <2>. QED
    BY <1>3, AppendProperties, HeadTailAppend
<1>5. \A c \in Clients : out'[c] = <<>> => out[c] = <<>>
  BY <1>1, <1>4
<1>6. Silent' \subseteq Silent
  BY <1>2, <1>5 DEF Silent
<1>7. SnapshotFirst'
  <2>. SUFFICES ASSUME NEW c \in Clients, conn'[c] = "open", view'[c] = NoView, out'[c] # <<>>
                PROVE  Head(out'[c]).type = "snapshot"
    BY DEF SnapshotFirst
  <2>1. conn[c] = "open" /\ view[c] = NoView
    BY <1>2
  <2>2. CASE out[c] = <<>>
    <3>1. c \in S /\ c \in Silent
      BY <1>1, <2>1, <2>2 DEF Silent
    <3>2. task.msg.type = "snapshot"
      BY <3>1
    <3>. QED
      BY <1>1, <1>4, <2>1, <2>2, <3>1, <3>2
  <2>3. CASE out[c] # <<>>
    <3>1. Head(out[c]).type = "snapshot"
      BY <2>1, <2>3 DEF Heard, SnapshotFirst
    <3>. QED
      BY <1>1, <1>4, <2>3, <3>1
  <2>. QED
    BY <2>2, <2>3
<1>8. \A c \in Clients : conn'[c] = "none" => conn[c] = "none" /\ out'[c] = out[c]
  BY <1>1, <1>2
<1>9. clients' \cap Silent' = {}
  BY <1>2
<1>10. \A c \in Clients : \A i \in DOMAIN waiting'[c] : waiting'[c][i].todo \cap Silent' = {}
  <2>. SUFFICES ASSUME NEW c \in Clients, NEW i \in DOMAIN waiting'[c]
                PROVE  waiting'[c][i].todo \cap Silent' = {}
    OBVIOUS
  <2>1. CASE waiting'[c] = waiting[c]
    BY <1>6, <2>1 DEF Heard
  <2>2. ASSUME NEW t \in TasksOf(task.todo), waiting'[c] = Append(waiting[c], t)
        PROVE  waiting'[c][i].todo \cap Silent' = {}
    <3>1. waiting[c] \in Seq(Tasks)
      BY DEF Heard, Typed, Wired
    <3>2. i \in 1..Len(waiting[c]) + 1
          /\ waiting'[c][i] = IF i <= Len(waiting[c]) THEN waiting[c][i] ELSE t
      <4>1. /\ Append(waiting[c], t) \in Seq(Tasks)
            /\ Len(Append(waiting[c], t)) = Len(waiting[c]) + 1
            /\ \A k \in 1..Len(waiting[c]) : Append(waiting[c], t)[k] = waiting[c][k]
            /\ Append(waiting[c], t)[Len(waiting[c]) + 1] = t
        BY <3>1, AppendProperties DEF TasksOf
      <4>2. i \in 1..Len(waiting[c]) + 1
        BY <2>2, <4>1
      <4>. QED
        BY <2>2, <3>1, <4>1, <4>2
    <3>3. CASE i <= Len(waiting[c])
      <4>1. i \in DOMAIN waiting[c]
        BY <3>1, <3>2, <3>3
      <4>. QED
        BY <1>6, <3>2, <3>3, <4>1 DEF Heard
    <3>4. CASE ~(i <= Len(waiting[c]))
      BY <3>2, <3>4 DEF TasksOf
    <3>. QED
      BY <3>3, <3>4
  <2>. QED
    BY <2>1, <2>2 DEF Speaks, Joined
<1>11. Gets(TaskCalls(task.todo \cup known))
  BY TurnGets DEF Heard, Speaks
<1>12. \A call \in TaskCalls(task.todo \cup known) :
         call.do = "task" /\ call.arg.todo \cap Silent' = {}
  BY DEF TaskCalls, TasksOf
<1>. QED
  BY <1>6, <1>7, <1>8, <1>9, <1>10, <1>11, <1>12, HeardAgain

(* Those who hear nothing of a broadcast had heard nothing before.          *)
LEMMA SilentBefore ==
  ASSUME Heard, NEW task \in Tasks, NEW known, Speaks(task, known)
  PROVE  Silent' \subseteq Silent
<1>1. PICK S \in SUBSET task.todo :
        \A c \in Clients :
          out'[c] = IF c \in S /\ conn[c] = "open" THEN Append(out[c], task.msg) ELSE out[c]
  BY DEF Speaks, Wrote
<1>2. ASSUME NEW c \in S PROVE Append(out[c], task.msg) # <<>>
  <2>1. c \in Clients /\ task.msg \in Message /\ out[c] \in Seq(Message)
    BY DEF Tasks, Heard, Typed, Wired
  <2>. QED
    BY <2>1, AppendProperties
<1>. QED
  BY <1>1, <1>2 DEF Silent, Speaks

(* Calls that are not about a broadcast.                                    *)
LEMMA OtherHeard ==
  ASSUME Heard, Typed', out' = out, view' = view, clients' \subseteq clients,
         \A c \in Clients : conn'[c] = conn[c] \/ conn'[c] \in {"closing", "lost"}
                              \/ (conn'[c] = "open" /\ conn[c] = "none"),
         \A c \in Clients : waiting'[c] = waiting[c] \/ waiting'[c] = <<>>,
         NEW S, Gets(S),
         \A call \in S : /\ call.do = "task" => call.arg.todo \cap Silent = {}
                         /\ call.do = "serve" => conn'[call.arg] # "none"
  PROVE  Heard'
<1>1. /\ SnapshotFirst' /\ Silent' \subseteq Silent /\ clients' \cap Silent' = {}
      /\ \A c \in Clients : conn'[c] = "none" => conn[c] = "none" /\ out'[c] = out[c]
  BY NothingWritten
<1>2. \A c \in Clients : \A i \in DOMAIN waiting'[c] : waiting'[c][i].todo \cap Silent' = {}
  <2>. SUFFICES ASSUME NEW c \in Clients, NEW i \in DOMAIN waiting'[c]
                PROVE  waiting'[c][i].todo \cap Silent' = {}
    OBVIOUS
  <2>1. waiting'[c] = waiting[c]
    OBVIOUS
  <2>. QED
    BY <1>1, <2>1 DEF Heard
<1>3. \A call \in S : call.do = "task" => call.arg.todo \cap Silent' = {}
  BY <1>1
<1>. QED
  BY <1>1, <1>2, <1>3, HeardAgain


(* What select reports is no broadcast, and a client it reports is there.   *)
LEMMA SelectHeard ==
  ASSUME Heard, Typed', Selects, out' = out, view' = view, clients' = clients,
         waiting' = waiting,
         \A c \in Clients : conn'[c] = conn[c] \/ (conn'[c] = "open" /\ conn[c] = "none")
  PROVE  Heard'
<1>1. ASSUME NEW S, NEW calls \in Seq(S), Grown(Queue', Queue, calls),
             \A call \in S : /\ call.do # "task"
                             /\ call.do = "serve" => conn'[call.arg] # "none"
      PROVE  Heard'
  <2>1. Gets(S)
    BY <1>1, SelectGets DEF Heard
  <2>. QED
    BY <1>1, <2>1, OtherHeard
<1>2. ASSUME NEW call \in Reported, Grown(Queue', Queue, <<call>>),
             call.do = "serve" => conn'[call.arg] # "none"
      PROVE  Heard'
  <2>1. call.do # "task"
    BY DEF Reported
  <2>. DEFINE S     == {call}
              calls == <<call>>
  <2>2. /\ calls \in Seq(S) /\ Grown(Queue', Queue, calls)
        /\ \A new \in S : /\ new.do # "task"
                          /\ new.do = "serve" => conn'[new.arg] # "none"
    BY <1>2, <2>1
  <2>. HIDE DEF S, calls
  <2>. QED
    BY <1>1, <2>2
<1>3. ASSUME NEW calls \in Seq([do : {"timer"}, arg : Loops]), Grown(Queue', Queue, calls)
      PROVE  Heard'
  <2>. DEFINE S == [do : {"timer"}, arg : Loops]
  <2>1. /\ calls \in Seq(S)
        /\ \A new \in S : new.do # "task" /\ new.do # "serve"
    OBVIOUS
  <2>. HIDE DEF S
  <2>. QED
    BY <1>1, <1>3, <2>1
<1>. QED
  BY <1>2, <1>3 DEF Selects

(* A call in place of the first that is no broadcast.                       *)
LEMMA OneHeard ==
  ASSUME Heard, Typed', Queue # <<>>, UNCHANGED <<clients, conn, out, waiting, view>>,
         NEW call, call.do \notin {"task", "serve"}, Shifted(Queue', Queue, <<call>>)
  PROVE  Heard'
<1>1. <<call>> \in Seq({call})
  OBVIOUS
<1>2. Gets({call})
  BY <1>1, TurnGets DEF Turns1, Heard
<1>. QED
  BY <1>2, OtherHeard

(* A client's snapshot is the first that is written to it.                  *)
LEMMA ServeHeard ==
  ASSUME Heard, OnServe
  PROVE  Heard'
<1>. DEFINE task == Task("serve", Snapshot, {Arg}, <<>>)
<1>1. /\ Typed' /\ Arg \in Clients /\ Queue[1] = Call("serve", Arg) /\ 1 \in 1..Len(Queue)
      /\ Speaks(task, clients \cup {Arg})
  BY ServeTyped DEF Heard
<1>2. task \in Tasks /\ task.todo = {Arg} /\ task.msg.type = "snapshot"
  <2>1. reg \in View
    BY DEF Heard, Typed, TypeOK
  <2>. QED
    BY <1>1, <2>1 DEF Task, Tasks, Snapshot, Message
<1>. HIDE DEF task
<1>3. conn[Arg] # "none"
  BY <1>1 DEF Heard, Call
<1>4. Silent' \subseteq Silent
  BY <1>1, <1>2, SilentBefore
<1>5. Arg \notin Silent'
  <2>1. PICK S \in SUBSET {Arg} :
          /\ S # {}
          /\ \A c \in Clients :
               out'[c] = IF c \in S /\ conn[c] = "open" THEN Append(out[c], task.msg) ELSE out[c]
    BY <1>1, <1>2 DEF Speaks, Wrote
  <2>2. conn[Arg] = "open" => out'[Arg] = Append(out[Arg], task.msg)
    BY <1>1, <2>1
  <2>3. Append(out[Arg], task.msg) # <<>>
    <3>1. out[Arg] \in Seq(Message) /\ task.msg \in Message
      BY <1>1, <1>2 DEF Heard, Typed, Wired, Tasks
    <3>. QED
      BY <3>1, AppendProperties
  <2>4. conn' = conn
    BY <1>1 DEF Speaks
  <2>. QED
    BY <1>3, <2>2, <2>3, <2>4 DEF Silent
<1>6. (task.todo \cup (clients \cup {Arg})) \cap Silent' = {}
  BY <1>2, <1>4, <1>5 DEF Heard
<1>7. Queue # <<>>
  BY <1>1
<1>. QED
  BY <1>1, <1>2, <1>6, <1>7, SpeakHeard

(* Every step leaves the silent alone until their snapshot.                 *)
LEMMA HeardStep == Heard /\ [Next]_vars => Heard'
<1>. SUFFICES ASSUME Heard, [Next]_vars PROVE Heard'
  OBVIOUS
<1>1. Typed /\ Typed'
  BY TypedStep DEF Heard
<1>2. ASSUME NEW do, Runs(do) PROVE Queue # <<>> /\ 1 \in 1..Len(Queue)
  <2>1. 1 \in 1..Len(Queue)
    BY <1>1, <1>2, FirstCall
  <2>. QED
    BY <2>1
<1>3. CASE Polls
  BY <1>1, <1>3, PollsTyped, SelectHeard
<1>4. CASE Notices
  BY <1>1, <1>4, NoticesTyped, SelectHeard
<1>5. ASSUME NEW due \in Dues, TurnStarts(due) PROVE Heard'
  BY <1>1, <1>5, TurnStartsTyped, SelectHeard
<1>6. CASE OnEvent
  <2>1. PICK call \in [do : {"diff"}, arg : DiffMsg] : Shifted(Queue', Queue, <<call>>)
    BY <1>1, <1>6, EventTyped
  <2>2. Queue # <<>> /\ UNCHANGED <<clients, conn, out, waiting, view>>
    BY <1>1, <1>2, <1>6, EventTyped DEF OnEvent
  <2>. QED
    BY <1>1, <2>1, <2>2, OneHeard
<1>7. CASE OnTimer
  <2>1. PICK call \in [do : Loops, arg : {"round"}] : Shifted(Queue', Queue, <<call>>)
    BY <1>1, <1>7, TimerTyped
  <2>2. Queue # <<>> /\ UNCHANGED <<clients, conn, out, waiting, view>>
    BY <1>1, <1>2, <1>7, TimerTyped DEF OnTimer
  <2>3. call.do \notin {"task", "serve"}
    BY DEF Loops
  <2>. QED
    BY <1>1, <2>1, <2>2, <2>3, OneHeard
<1>8. CASE OnServe
  BY <1>8, ServeHeard
<1>9. CASE OnDiff \/ OnTask \/ OnReap \/ OnSnap
  <2>1. Queue # <<>> /\ 1 \in 1..Len(Queue)
    BY <1>2, <1>9 DEF OnDiff, OnTask, OnReap, OnSnap
  <2>2. PICK task \in Tasks :
          /\ Speaks(task, clients)
          /\ task.todo \subseteq clients \/ Queue[1] = Call("task", task)
    BY <1>1, <1>9, Speeches
  <2>3. Silent' \subseteq Silent
    BY <2>2, SilentBefore
  <2>4. task.todo \cap Silent = {}
    <3>1. CASE task.todo \subseteq clients
      BY <3>1 DEF Heard
    <3>2. CASE Queue[1] = Call("task", task)
      BY <2>1, <3>2 DEF Heard, Call
    <3>. QED
      BY <2>2, <3>1, <3>2
  <2>5. (task.todo \cup clients) \cap Silent' = {}
    BY <2>3, <2>4 DEF Heard
  <2>. QED
    BY <1>1, <2>1, <2>2, <2>4, <2>5, SpeakHeard
<1>10. CASE OnWritable \/ OnEof \/ OnCleanup \/ OnLost
  <2>1. Queue # <<>>
    BY <1>2, <1>10 DEF OnWritable, OnEof, OnCleanup, OnLost
  <2>2. Turns1(Woken)
    BY <1>1, <1>10, ClientsTyped DEF Turns1
  <2>3. Gets(Woken)
    BY <1>1, <2>1, <2>2, TurnGets
  <2>4. \A call \in Woken : /\ call.do = "task" => call.arg.todo \cap Silent = {}
                            /\ call.do # "serve"
    BY DEF Woken, Waiters, Heard
  <2>. QED
    BY <1>1, <1>10, <2>3, <2>4, ClientsTyped, OtherHeard
<1>11. ASSUME NEW c \in Clients, Deliver(c) PROVE Heard'
  <2>1. /\ UNCHANGED <<reg, clients, conn, waiting, turn>> /\ conn[c] = "open"
        /\ \A d \in Clients \ {c} : out'[d] = out[d] /\ view'[d] = view[d]
        /\ view'[c] # NoView
    BY <1>1, <1>11, DeliverTyped, BroadcasterAssumption DEF Deliver
  <2>2. Silent' \subseteq Silent
    BY <2>1 DEF Silent
  <2>3. SnapshotFirst'
    BY <2>1 DEF Heard, SnapshotFirst
  <2>4. Gets({}) /\ clients' \cap Silent' = {}
    BY <2>1, <2>2 DEF Gets, turn, Queue, Heard
  <2>5. \A d \in Clients : conn'[d] = "none" => conn[d] = "none" /\ out'[d] = out[d]
    BY <2>1
  <2>6. \A d \in Clients : \A i \in DOMAIN waiting'[d] : waiting'[d][i].todo \cap Silent' = {}
    BY <2>1, <2>2 DEF Heard
  <2>. QED
    BY <1>1, <2>2, <2>3, <2>4, <2>5, <2>6, HeardAgain
<1>12. ASSUME NEW c \in Clients, HangUp(c) PROVE Heard'
  <2>1. /\ UNCHANGED <<reg, clients, waiting, turn>> /\ conn'[c] = "gone"
        /\ \A d \in Clients \ {c} : out'[d] = out[d] /\ view'[d] = view[d] /\ conn'[d] = conn[d]
    BY <1>1, <1>12, HangUpTyped
  <2>2. Silent' \subseteq Silent
    BY <2>1 DEF Silent
  <2>3. SnapshotFirst'
    BY <2>1 DEF Heard, SnapshotFirst
  <2>4. Gets({}) /\ clients' \cap Silent' = {}
    BY <2>1, <2>2 DEF Gets, turn, Queue, Heard
  <2>5. \A d \in Clients : conn'[d] = "none" => conn[d] = "none" /\ out'[d] = out[d]
    BY <2>1
  <2>6. \A d \in Clients : \A i \in DOMAIN waiting'[d] : waiting'[d][i].todo \cap Silent' = {}
    BY <2>1, <2>2 DEF Heard
  <2>. QED
    BY <1>1, <2>2, <2>3, <2>4, <2>5, <2>6, HeardAgain
<1>13. CASE UNCHANGED vars
  <2>1. UNCHANGED <<reg, clients, conn, out, waiting, view, turn>>
    BY <1>1, <1>13, SameTyped
  <2>2. Gets({})
    BY <2>1 DEF Gets, turn, Queue
  <2>. QED
    BY <1>1, <2>1, <2>2, OtherHeard
<1>. QED
  BY <1>3, <1>4, <1>5, <1>6, <1>7, <1>8, <1>9, <1>10, <1>11, <1>12, <1>13, Steps

(* A frontend never sees a diff before its first snapshot, however many     *)
(* broadcasts are under way, held up or woken as it connects.               *)
THEOREM SnapshotsFirst == Spec => []SnapshotFirst
<1>1. Init => Heard
  <2>. SUFFICES ASSUME Init PROVE Heard
    OBVIOUS
  <2>1. Typed /\ Queue = <<>>
    BY InitTyped
  <2>2. \A c \in Clients : out[c] = <<>> /\ waiting[c] = <<>>
    BY DEF Init
  <2>3. clients = {}
    BY DEF Init
  <2>. QED
    BY <2>1, <2>2, <2>3 DEF Heard, SnapshotFirst
<1>2. Heard => SnapshotFirst
  BY DEF Heard
<1>. QED
  BY <1>1, <1>2, HeardStep, PTL DEF Spec

-----------------------------------------------------------------------------
(* Induction over numbers, and folds: a set that holds 0 and, with any      *)
(* number, the next one, holds all.                                         *)

(* Naturals are well-ordered, so what is not in such a set has no least     *)
(* member.                                                                  *)
LEMMA SetInduction ==
  ASSUME NEW S, 0 \in S, \A n \in Nat : n \in S => n + 1 \in S
  PROVE  Nat \subseteq S
<1>. DEFINE Out  == Nat \ S
            Less == OpToRel(<, Nat)
<1>. SUFFICES ASSUME Out # {} PROVE FALSE
  OBVIOUS
<1>1. IsWellFoundedOn(Less, Nat)
  BY NatLessThanWellFounded
<1>2. Out \subseteq Nat
  OBVIOUS
<1>3. \A x, y \in Nat : x < y => <<x, y>> \in Less
  BY DEF OpToRel
<1>. HIDE DEF Less, Out
<1>4. PICK x \in Out : \A y \in Out : <<y, x>> \notin Less
  BY <1>1, <1>2, WFMin
<1>5. x \in Nat \ {0} /\ x \notin S
  BY <1>4 DEF Out
<1>6. x - 1 \in Nat /\ x - 1 < x /\ x = (x - 1) + 1
  BY <1>5
<1>7. x - 1 \in S
  BY <1>3, <1>4, <1>5, <1>6 DEF Out
<1>. QED
  BY <1>5, <1>6, <1>7

(* A set of numbers up to a bound has a greatest one and a least one.       *)
LEMMA Extremes ==
  ASSUME NEW n \in Nat, NEW s \in SUBSET (1..n), s # {}
  PROVE  /\ Max(s) \in s /\ \A x \in s : x <= Max(s)
         /\ Min(s) \in s /\ \A x \in s : Min(s) <= x
<1>. DEFINE HasMax(t) == \E x \in t : \A y \in t : x >= y
            HasMin(t) == \E x \in t : \A y \in t : x <= y
            Good == {k \in Nat : \A t \in SUBSET (1..k) : t # {} => HasMax(t) /\ HasMin(t)}
<1>1. 0 \in Good
  <2>1. 1..0 = {}
    OBVIOUS
  <2>. QED
    BY <2>1
<1>2. ASSUME NEW k \in Nat, k \in Good
      PROVE  k + 1 \in Good
  <2>. SUFFICES ASSUME NEW t \in SUBSET (1..k + 1), t # {}
                PROVE  HasMax(t) /\ HasMin(t)
    OBVIOUS
  <2>. DEFINE u == t \ {k + 1}
  <2>1. u \in SUBSET (1..k)
    OBVIOUS
  <2>2. u # {} => HasMax(u) /\ HasMin(u)
    BY <1>2, <2>1
  <2>3. CASE u = {}
    <3>1. t = {k + 1}
      BY <2>3
    <3>. QED
      BY <3>1
  <2>4. CASE u # {}
    BY <2>1, <2>2, <2>4
  <2>. QED
    BY <2>3, <2>4
<1>. HIDE DEF Good
<1>3. n \in Good
  BY <1>1, <1>2, SetInduction
<1>4. HasMax(s) /\ HasMin(s)
  BY <1>3 DEF Good
<1>5. Max(s) = CHOOSE x \in s : \A y \in s : x >= y
  BY DEF Max
<1>6. Min(s) = CHOOSE x \in s : \A y \in s : x <= y
  BY DEF Min
<1>. QED
  BY <1>4, <1>5, <1>6

(* A fold from the left is defined over the sets of indices, the greatest   *)
(* index last: there is a function over these sets that takes the steps.    *)
TakesSteps(h, base, step, k) ==
  /\ h[{}] = base
  /\ \A s \in SUBSET (1..k) : s # {} => h[s] = step[Max(s)][h[s \ {Max(s)}]]

(* A fold over the places of a sequence exists.                             *)
LEMMA FoldExists ==
  ASSUME NEW T, NEW base \in T, NEW n \in Nat, NEW step \in [1..n -> [T -> T]]
  PROVE  \E h \in [SUBSET (1..n) -> T] : TakesSteps(h, base, step, n)
<1>. DEFINE Exists(k) == \E h \in [SUBSET (1..k) -> T] : TakesSteps(h, base, step, k)
            Good == {k \in Nat : k <= n => Exists(k)}
<1>1. Exists(0)
  <2>. DEFINE h == [s \in SUBSET (1..0) |-> base]
  <2>1. 1..0 = {}
    OBVIOUS
  <2>2. \A s \in SUBSET (1..0) : s = {}
    BY <2>1
  <2>3. h \in [SUBSET (1..0) -> T] /\ h[{}] = base
    OBVIOUS
  <2>. HIDE DEF h
  <2>. QED
    BY <2>2, <2>3 DEF TakesSteps
<1>2. ASSUME NEW k \in Nat, k + 1 <= n, Exists(k)
      PROVE  Exists(k + 1)
  <2>1. PICK g \in [SUBSET (1..k) -> T] : TakesSteps(g, base, step, k)
    BY <1>2
  <2>. DEFINE top == step[k + 1]
              h == [s \in SUBSET (1..k + 1) |->
                      IF k + 1 \in s THEN top[g[s \ {k + 1}]] ELSE g[s]]
  <2>2. \A s \in SUBSET (1..k + 1) :
          /\ k + 1 \notin s => s \in SUBSET (1..k)
          /\ s \ {k + 1} \in SUBSET (1..k)
    OBVIOUS
  <2>3. top \in [T -> T]
    BY <1>2
  <2>4. g[{}] = base
    BY <2>1 DEF TakesSteps
  <2>. HIDE DEF top
  <2>5. \A s \in SUBSET (1..k + 1) :
          h[s] = IF k + 1 \in s THEN top[g[s \ {k + 1}]] ELSE g[s]
    OBVIOUS
  <2>6. \A s \in SUBSET (1..k + 1) : h[s] \in T
    BY <2>2, <2>3, <2>5
  <2>7. h \in [SUBSET (1..k + 1) -> T]
    BY <2>6
  <2>. HIDE DEF h
  <2>8. h[{}] = base
    <3>1. {} \in SUBSET (1..k + 1) /\ k + 1 \notin {}
      OBVIOUS
    <3>. QED
      BY <2>4, <2>5, <3>1
  <2>9. ASSUME NEW s \in SUBSET (1..k + 1), s # {}
        PROVE  h[s] = step[Max(s)][h[s \ {Max(s)}]]
    <3>. HIDE DEF Exists
    <3>1. Max(s) \in s /\ \A x \in s : x <= Max(s)
      <4>1. k + 1 \in Nat
        OBVIOUS
      <4>. QED
        BY <2>9, <4>1, Extremes
    <3>2. s \ {Max(s)} \in SUBSET (1..k + 1)
      OBVIOUS
    <3>3. CASE k + 1 \in s
      <4>1. Max(s) = k + 1
        <5>1. Max(s) \in 1..k + 1 /\ k + 1 <= Max(s)
          BY <3>1, <3>3
        <5>. QED
          BY <5>1
      <4>2. h[s \ {k + 1}] = g[s \ {k + 1}]
        BY <2>5, <3>2, <4>1
      <4>. QED
        BY <2>5, <3>3, <4>1, <4>2 DEF top
    <3>4. CASE k + 1 \notin s
      <4>1. h[s] = g[s] /\ h[s \ {Max(s)}] = g[s \ {Max(s)}]
        BY <2>5, <3>2, <3>4
      <4>2. s \in SUBSET (1..k)
        BY <2>2, <3>4
      <4>. QED
        BY <2>1, <2>9, <4>1, <4>2 DEF TakesSteps
    <3>. QED
      BY <3>3, <3>4
  <2>10. TakesSteps(h, base, step, k + 1)
    BY <2>8, <2>9 DEF TakesSteps
  <2>. QED
    BY <2>7, <2>10
<1>. HIDE DEF Exists
<1>3. 0 \in Good
  BY <1>1
<1>4. ASSUME NEW k \in Nat, k \in Good
      PROVE  k + 1 \in Good
  <2>1. k + 1 <= n => k <= n
    OBVIOUS
  <2>. QED
    BY <1>2, <1>4, <2>1
<1>. HIDE DEF Good
<1>5. n \in Good
  BY <1>3, <1>4, SetInduction
<1>6. Exists(n)
  BY <1>5 DEF Good
<1>. QED
  BY <1>6 DEF Exists

-----------------------------------------------------------------------------
(* What a frontend makes of messages *)

(* A frontend takes one message after another.                              *)
Takes(r, q, n) == \A i \in 1..n : r[i] = Applied(r[i - 1], q[i])

(* The fold is where such a run ends.                                       *)
LEMMA FoldRuns ==
  ASSUME NEW v \in View \cup {NoView}, NEW q \in Seq(Message)
  PROVE  \E r : r[0] = v /\ Takes(r, q, Len(q)) /\ FoldLeft(Applied, v, q) = r[Len(q)]
<1>. DEFINE n == Len(q)
            T == View \cup {NoView}
            step == [i \in 1..n |-> [agents \in T |-> Applied(agents, q[i])]]
            Is(h) == h = [s \in SUBSET (DOMAIN q) |->
                            IF s = {} THEN v
                            ELSE LET x == Max(s) IN Applied(h[s \ {x}], q[x])]
            iter == CHOOSE h : Is(h)
<1>1. n \in Nat /\ DOMAIN q = 1..n /\ \A i \in 1..n : q[i] \in Message
  OBVIOUS
<1>2. v \in T
  OBVIOUS
<1>3. FoldLeft(Applied, v, q) = iter[DOMAIN q]
  BY DEF FoldLeft, MapThenFoldSet
<1>4. step \in [1..n -> [T -> T]]
  <2>1. \A i \in 1..n : \A agents \in T : Applied(agents, q[i]) \in T
    BY <1>1, AppliedTyped
  <2>. HIDE DEF T
  <2>. QED
    BY <2>1
<1>5. \A i \in 1..n : \A agents \in T : step[i][agents] = Applied(agents, q[i])
  OBVIOUS
<1>. HIDE DEF n, T, step
<1>6. \E h : Is(h)
  <2>1. PICK h \in [SUBSET (1..n) -> T] : TakesSteps(h, v, step, n)
    BY <1>1, <1>2, <1>4, FoldExists
  <2>2. ASSUME NEW s \in SUBSET (1..n), s # {}
        PROVE  h[s] = Applied(h[s \ {Max(s)}], q[Max(s)])
    <3>1. Max(s) \in 1..n
      BY <1>1, <2>2, Extremes
    <3>2. h[s \ {Max(s)}] \in T
      OBVIOUS
    <3>. QED
      BY <1>5, <2>1, <2>2, <3>1, <3>2 DEF TakesSteps
  <2>3. h[{}] = v
    BY <2>1 DEF TakesSteps
  <2>4. Is(h)
    BY <1>1, <2>2, <2>3
  <2>. QED
    BY <2>4
<1>7. Is(iter)
  BY <1>6
<1>8. iter[{}] = v
  BY <1>7
<1>9. ASSUME NEW i \in 1..n
      PROVE  iter[1..i] = Applied(iter[1..(i - 1)], q[i])
  <2>1. 1..i \in SUBSET (1..n) /\ 1..i # {} /\ i \in 1..i
    <3>. HIDE DEF Is, iter
    <3>1. i \in Nat /\ 1 <= i /\ i <= n
      BY <1>1
    <3>2. \A x \in 1..i : x \in 1..n
      BY <1>1, <3>1
    <3>3. i \in 1..i
      BY <3>1
    <3>. QED
      BY <3>2, <3>3
  <2>2. Max(1..i) = i
    <3>1. Max(1..i) \in 1..i /\ i <= Max(1..i)
      BY <1>1, <2>1, Extremes
    <3>. QED
      BY <1>1, <3>1
  <2>3. (1..i) \ {i} = 1..(i - 1)
    BY <1>1
  <2>. QED
    BY <1>1, <1>7, <2>1, <2>2, <2>3
<1>. HIDE DEF iter
<1>. DEFINE r == [i \in 0..n |-> iter[1..i]]
<1>10. r[0] = v
  <2>1. 1..0 = {} /\ 0 \in 0..n
    BY <1>1
  <2>. QED
    BY <1>8, <2>1
<1>11. Takes(r, q, n)
  <2>1. \A i \in 1..n : i \in 0..n /\ i - 1 \in 0..n
    BY <1>1
  <2>. QED
    BY <1>9, <2>1 DEF Takes
<1>12. r[n] = FoldLeft(Applied, v, q)
  BY <1>1, <1>3
<1>. HIDE DEF r
<1>. QED
  BY <1>10, <1>11, <1>12 DEF n

(* It makes the same of the same.                                           *)
LEMMA RunsAgree ==
  ASSUME NEW n \in Nat, NEW q, NEW p, \A i \in 1..n : p[i] = q[i],
         NEW r, NEW t, r[0] = t[0], Takes(r, q, n), Takes(t, p, n)
  PROVE  r[n] = t[n]
<1>. DEFINE Good == {i \in Nat : i <= n => r[i] = t[i]}
<1>1. 0 \in Good
  OBVIOUS
<1>2. ASSUME NEW i \in Nat, i \in Good PROVE i + 1 \in Good
  <2>. SUFFICES ASSUME i + 1 <= n PROVE r[i + 1] = t[i + 1]
    OBVIOUS
  <2>1. i + 1 \in 1..n /\ (i + 1) - 1 = i /\ i <= n
    OBVIOUS
  <2>2. r[i] = t[i]
    BY <1>2, <2>1
  <2>3. r[i + 1] = Applied(r[i], q[i + 1]) /\ t[i + 1] = Applied(t[i], p[i + 1])
    BY <2>1 DEF Takes
  <2>. QED
    BY <2>1, <2>2, <2>3
<1>. HIDE DEF Good
<1>3. n \in Good
  BY <1>1, <1>2, SetInduction
<1>. QED
  BY <1>3 DEF Good

(* What it makes of one message more.                                       *)
LEMMA FoldAppend ==
  ASSUME NEW v \in View \cup {NoView}, NEW q \in Seq(Message), NEW msg \in Message
  PROVE  FoldLeft(Applied, v, Append(q, msg)) = Applied(FoldLeft(Applied, v, q), msg)
<1>. DEFINE n == Len(q)
            p == Append(q, msg)
<1>1. /\ p \in Seq(Message) /\ n \in Nat /\ Len(p) = n + 1 /\ p[n + 1] = msg
      /\ \A i \in 1..n : p[i] = q[i]
  BY AppendProperties
<1>2. PICK r : r[0] = v /\ Takes(r, q, n) /\ FoldLeft(Applied, v, q) = r[n]
  BY FoldRuns
<1>. HIDE DEF n, p
<1>3. PICK t : t[0] = v /\ Takes(t, p, n + 1) /\ FoldLeft(Applied, v, p) = t[n + 1]
  <2>1. PICK t : t[0] = v /\ Takes(t, p, Len(p)) /\ FoldLeft(Applied, v, p) = t[Len(p)]
    BY <1>1, FoldRuns
  <2>. QED
    BY <1>1, <2>1
<1>4. Takes(t, p, n)
  <2>1. \A i \in 1..n : i \in 1..n + 1
    BY <1>1
  <2>. QED
    BY <1>3, <2>1 DEF Takes
<1>5. r[n] = t[n]
  BY <1>1, <1>2, <1>3, <1>4, RunsAgree
<1>6. t[n + 1] = Applied(t[n], p[n + 1])
  <2>1. n + 1 \in 1..n + 1 /\ (n + 1) - 1 = n
    BY <1>1
  <2>. QED
    BY <1>3, <2>1 DEF Takes
<1>. QED
  BY <1>1, <1>2, <1>3, <1>5, <1>6 DEF p, n

(* What it makes of the rest, having taken the first.                       *)
LEMMA FoldTail ==
  ASSUME NEW v \in View \cup {NoView}, NEW q \in Seq(Message), q # <<>>
  PROVE  FoldLeft(Applied, Applied(v, Head(q)), Tail(q)) = FoldLeft(Applied, v, q)
<1>. DEFINE n == Len(q)
            p == Tail(q)
            w == Applied(v, Head(q))
<1>1. /\ p \in Seq(Message) /\ n \in Nat \ {0} /\ Len(p) = n - 1 /\ Head(q) = q[1]
      /\ Head(q) \in Message /\ \A i \in 1..n - 1 : p[i] = q[i + 1]
  <2>1. n \in Nat \ {0}
    BY EmptySeq
  <2>. QED
    BY <2>1, HeadTailProperties
<1>2. w \in View
  BY <1>1, AppliedTyped
<1>3. PICK r : r[0] = v /\ Takes(r, q, n) /\ FoldLeft(Applied, v, q) = r[n]
  BY FoldRuns
<1>. HIDE DEF p, w, n
<1>4. PICK t : t[0] = w /\ Takes(t, p, n - 1) /\ FoldLeft(Applied, w, p) = t[n - 1]
  <2>1. PICK t : t[0] = w /\ Takes(t, p, Len(p)) /\ FoldLeft(Applied, w, p) = t[Len(p)]
    BY <1>1, <1>2, FoldRuns
  <2>. QED
    BY <1>1, <2>1
<1>. DEFINE u == [i \in 0..n - 1 |-> r[i + 1]]
<1>5. u[0] = w
  <2>1. 0 \in 0..n - 1 /\ 1 \in 1..n /\ 0 + 1 = 1 /\ 1 - 1 = 0
    BY <1>1
  <2>2. r[1] = Applied(r[0], q[1])
    BY <1>3, <2>1 DEF Takes
  <2>. QED
    BY <1>1, <1>3, <2>1, <2>2 DEF w
<1>6. Takes(u, p, n - 1)
  <2>. SUFFICES ASSUME NEW i \in 1..n - 1 PROVE u[i] = Applied(u[i - 1], p[i])
    BY DEF Takes
  <2>1. i \in 0..n - 1 /\ i - 1 \in 0..n - 1 /\ (i - 1) + 1 = i /\ i + 1 \in 1..n
        /\ (i + 1) - 1 = i
    BY <1>1
  <2>2. u[i] = r[i + 1] /\ u[i - 1] = r[i]
    BY <2>1
  <2>3. r[i + 1] = Applied(r[i], q[i + 1])
    BY <1>3, <2>1 DEF Takes
  <2>. HIDE DEF u
  <2>. QED
    BY <1>1, <2>2, <2>3
<1>7. u[n - 1] = r[n]
  <2>1. n - 1 \in 0..n - 1 /\ (n - 1) + 1 = n
    BY <1>1
  <2>. QED
    BY <2>1
<1>. HIDE DEF u
<1>8. u[n - 1] = t[n - 1]
  <2>1. n - 1 \in Nat /\ u[0] = t[0]
    BY <1>1, <1>4, <1>5
  <2>2. Takes(u, p, n - 1) /\ Takes(t, p, n - 1)
    BY <1>4, <1>6
  <2>. DEFINE m == n - 1
  <2>3. m \in Nat /\ u[0] = t[0] /\ Takes(u, p, m) /\ Takes(t, p, m)
    BY <2>1, <2>2
  <2>. HIDE DEF m
  <2>4. u[m] = t[m]
    BY <2>3, RunsAgree
  <2>. QED
    BY <2>4 DEF m
<1>. QED
  BY <1>3, <1>4, <1>7, <1>8 DEF p, w

-----------------------------------------------------------------------------
(* In step while nothing waits *)

(* The sessions whose removal a task of the sweep has still to tell.        *)
Removes(task) == {task.msg.sid} \cup Range(task.more)

(* A call that will tell of this session.                                   *)
Tells(call, s) ==
  \/ call.do = "diff" /\ call.arg.sid = s
  \/ call.do = "task" /\ s \in Removes(call.arg)

Untold == {s \in Sids : \E i \in 1..Len(Queue) : Tells(Queue[i], s)}

(* The sweep's next removal is told to all, at once, and of none that is    *)
(* back.                                                                    *)
Sweeping(task, known, agents) ==
  /\ task.todo = known /\ task.dead = {}
  /\ task.msg \in DiffMsg /\ task.msg.rec = NoRec
  /\ \A s \in Removes(task) : agents[s] = NoRec

Removing ==
  \A i \in 1..Len(Queue) :
    Queue[i].do = "task" => i = 1 /\ phase = "run" /\ Sweeping(Queue[i].arg, clients, reg)

(* Two records of the same version.                                         *)
Same(a, b) == (a = NoRec /\ b = NoRec) \/ (a # NoRec /\ b # NoRec /\ a.ver = b.ver)

(* What a frontend will show when it has read all that was written to it.   *)
Shown(c) == FoldLeft(Applied, view[c], out[c])

(* It is the registry, but for what is still to be told.                    *)
Settled(c) == Shown(c) \in View /\ \A s \in Sids \ Untold : Same(Shown(c)[s], reg[s])

(* No suspended broadcast, and every frontend that was served in step.      *)
Steady ==
  /\ Removing
  /\ \A c \in Clients : waiting[c] = <<>>
  /\ \A c \in clients : conn[c] = "open" => Settled(c)

(* The broadcasts of one callback follow each other at once as long as none *)
(* has to wait, and only clients that are there are known.                  *)
InStep ==
  /\ InOrder /\ Heard
  /\ \A c \in clients : conn[c] # "none"
  /\ smooth => Steady

(* What is in the queue but its first stays, and the new is in it.          *)
Keeps == \A i \in 2..Len(Queue) : \E j \in 1..Len(Queue') : Queue'[j] = Queue[i]

Holds(call) == \E j \in 1..Len(Queue') : Queue'[j] = call

(* So it is when a callback is over, and when it goes on.                   *)
LEMMA ShiftKeeps ==
  ASSUME Typed, Queue # <<>>, NEW T, NEW calls \in Seq(T), Shifted(Queue', Queue, calls)
  PROVE  Keeps /\ \A i \in 1..Len(calls) : Holds(calls[i])
<1>1. Queue \in Seq(Callback) /\ Len(Queue) \in Nat \ {0}
  <2>1. Queue \in Seq(Callback)
    BY QueueTyped DEF Typed, Turned, Queue
  <2>. QED
    BY <2>1, EmptySeq
<1>2. Len(calls) \in Nat /\ Len(Queue') = Len(Queue) - 1 + Len(calls)
  BY DEF Shifted
<1>3. ASSUME NEW i \in 2..Len(Queue) PROVE \E j \in 1..Len(Queue') : Queue'[j] = Queue[i]
  <2>1. i - 1 \in 1..Len(Queue') /\ i - 1 < Len(Queue) /\ (i - 1) + 1 = i
    BY <1>1, <1>2
  <2>2. Queue'[i - 1] = Queue[i]
    BY <2>1 DEF Shifted
  <2>. QED
    BY <2>1, <2>2
<1>4. ASSUME NEW i \in 1..Len(calls) PROVE \E j \in 1..Len(Queue') : Queue'[j] = calls[i]
  <2>. DEFINE j == Len(Queue) - 1 + i
  <2>1. j \in 1..Len(Queue') /\ ~(j < Len(Queue)) /\ j - Len(Queue) + 1 = i
    BY <1>1, <1>2
  <2>2. Queue'[j] = calls[i]
    BY <2>1 DEF Shifted
  <2>. QED
    BY <2>1, <2>2
<1>. QED
  BY <1>3, <1>4 DEF Keeps, Holds

(* The first call replaced by a broadcast leaves the others as they were.   *)
LEMMA ReplaceKeeps ==
  ASSUME Typed, Queue # <<>>, NEW call, Replaced(Queue', Queue, call)
  PROVE  Keeps /\ Holds(call)
<1>1. Queue \in Seq(Callback) /\ Len(Queue) \in Nat \ {0}
  <2>1. Queue \in Seq(Callback)
    BY QueueTyped DEF Typed, Turned, Queue
  <2>. QED
    BY <2>1, EmptySeq
<1>2. ASSUME NEW i \in 2..Len(Queue) PROVE Queue'[i] = Queue[i] /\ i \in 1..Len(Queue')
  BY <1>1 DEF Replaced
<1>3. 1 \in 1..Len(Queue') /\ Queue'[1] = call
  BY <1>1 DEF Replaced
<1>. QED
  BY <1>2, <1>3 DEF Keeps, Holds

(* Nothing is forgotten that the first does not tell.                       *)
LEMMA StaysUntold ==
  ASSUME Typed, Keeps, NEW s \in Untold, ~Tells(Queue[1], s)
  PROVE  s \in Untold'
<1>1. PICK i \in 1..Len(Queue) : Tells(Queue[i], s)
  BY DEF Untold
<1>2. i \in 2..Len(Queue)
  <2>1. Len(Queue) \in Nat
    BY QueueIsCalls
  <2>2. i # 1
    BY <1>1
  <2>. QED
    BY <2>1, <2>2
<1>3. PICK j \in 1..Len(Queue') : Queue'[j] = Queue[i]
  BY <1>2 DEF Keeps
<1>. DEFINE Q == Queue'
<1>4. \E k \in 1..Len(Q) : Tells(Q[k], s)
  BY <1>1, <1>3
<1>. QED
  BY <1>4 DEF Untold

(* What a new call tells is yet to be told.                                 *)
LEMMA NewUntold ==
  ASSUME NEW call, Holds(call), NEW s \in Sids, Tells(call, s)
  PROVE  s \in Untold'
<1>1. PICK j \in 1..Len(Queue') : Queue'[j] = call
  BY DEF Holds
<1>2. \E k \in 1..Len(Queue') : Tells(Queue'[k], s)
  BY <1>1
<1>. QED
  BY <1>2 DEF Untold

(* With a call that tells nothing out of the way, all is as it was.         *)
LEMMA StaysSettled ==
  ASSUME Typed, NEW c \in Clients, Settled(c), view'[c] = view[c], out'[c] = out[c],
         \A s \in Sids \ Untold' : Same(reg[s], reg'[s]),
         \A s \in Untold : s \in Untold' \/ Same(Shown(c)[s], reg'[s])
  PROVE  Settled(c)'
<1>1. Shown(c)' = Shown(c)
  BY DEF Shown
<1>2. ASSUME NEW s \in Sids \ Untold' PROVE Same(Shown(c)[s], reg'[s])
  <2>1. CASE s \in Untold
    BY <1>2, <2>1
  <2>2. CASE s \notin Untold
    <3>1. Same(Shown(c)[s], reg[s]) /\ Same(reg[s], reg'[s])
      BY <2>2 DEF Settled
    <3>. QED
      BY <3>1 DEF Same
  <2>. QED
    BY <2>1, <2>2
<1>. QED
  BY <1>1, <1>2 DEF Settled

(* A step that leaves no write to wait follows no such step.                *)
LEMMA SmoothBefore ==
  ASSUME [Next]_vars, smooth'
  PROVE  smooth
<1>1. ASSUME NEW task, NEW known, Broadcast(task, known) PROVE smooth
  BY <1>1 DEF Broadcast, Finish, Suspend
<1>2. CASE Polls \/ Notices
  BY <1>2 DEF Polls, Notices, UdpReadable, Accept, Writable, HungUp
<1>3. CASE OnEvent \/ OnTimer \/ OnWritable \/ OnEof \/ OnCleanup \/ OnLost
           \/ \E due \in Dues : TurnStarts(due)
  BY <1>3 DEF OnEvent, OnTimer, OnWritable, OnEof, OnCleanup, OnLost, TurnStarts
<1>4. CASE OnServe \/ OnDiff \/ OnTask \/ OnReap \/ OnSnap
  BY <1>1, <1>4 DEF OnServe, OnDiff, OnTask, OnReap, OnSnap
<1>5. CASE \E c \in Clients : Deliver(c) \/ HangUp(c)
  BY <1>5 DEF Deliver, HangUp
<1>6. CASE UNCHANGED vars
  BY <1>6 DEF vars
<1>. QED
  BY <1>2, <1>3, <1>4, <1>5, <1>6, Steps

(* What a task of the sweep goes on with.                                   *)
Following(task, known) ==
  Call("task", Task(task.by, Diff(Head(task.more), NoRec), known, Tail(task.more)))

(* The queue after a broadcast: the first is over, or goes on.              *)
Goes(task, known) ==
  \/ task.more = <<>> /\ Shifted(Queue', Queue, <<>>)
  \/ task.more # <<>> /\ phase' = "run" /\ Replaced(Queue', Queue, Following(task, known))

(* A broadcast no client makes wait is told to all it is for.               *)
LEMMA Ends ==
  ASSUME Typed, phase = "run", ready # <<>>, NEW task \in Tasks, task.dead = {},
         NEW known \in SUBSET Clients, Broadcast(task, known), smooth'
  PROVE  /\ waiting' = waiting /\ clients' = known /\ conn' = conn /\ view' = view
         /\ \A c \in Clients :
              out'[c] = IF c \in task.todo /\ conn[c] = "open" THEN Append(out[c], task.msg)
                        ELSE out[c]
         /\ Goes(task, known)
<1>1. Finish(task, known) /\ conn' = conn /\ view' = view
  BY DEF Broadcast, Suspend
<1>2. clients' = known /\ waiting' = waiting /\ Write(task.todo, task.msg)
  BY <1>1 DEF Finish
<1>3. task.todo \in SUBSET Clients /\ (task.todo # {} => task.msg \in Message)
      /\ task.more \in Seq(Sids) /\ task.by \in Loops \cup {"event", "serve"}
  BY DEF Tasks
<1>4. \A c \in Clients :
        out'[c] = IF c \in task.todo /\ conn[c] = "open" THEN Append(out[c], task.msg)
                  ELSE out[c]
  BY <1>2, <1>3, Writes DEF Typed
<1>5. CASE task.more = <<>>
  <2>1. Schedule(<<>>)
    BY <1>1, <1>5 DEF Finish
  <2>2. <<>> \in Seq(Untimed)
    OBVIOUS
  <2>3. Shifted(Queue', Queue, <<>>)
    BY <2>1, <2>2, Schedules DEF Typed
  <2>. QED
    BY <1>1, <1>2, <1>4, <1>5, <2>3 DEF Goes
<1>6. CASE task.more # <<>>
  <2>. DEFINE go == Task(task.by, Diff(Head(task.more), NoRec), known, Tail(task.more))
  <2>1. RunOn(go)
    BY <1>1, <1>2, <1>6 DEF Finish
  <2>2. Head(task.more) \in Sids /\ Tail(task.more) \in Seq(Sids)
    BY <1>3, <1>6, HeadTailProperties
  <2>3. Diff(Head(task.more), NoRec) \in Message
    BY <2>2 DEF Diff, Message
  <2>4. go \in Tasks
    BY <1>3, <2>2, <2>3 DEF Tasks, Task
  <2>5. Following(task, known) = Call("task", go)
    BY DEF Following
  <2>. HIDE DEF go
  <2>6. Call("task", go) \in Callback
    BY <2>4 DEF Callback, Call
  <2>7. Replaced(Queue', Queue, Call("task", go)) /\ phase' = phase
    BY <2>1, <2>6, RunsOn DEF Typed, RunOn
  <2>. QED
    BY <1>1, <1>2, <1>4, <1>6, <2>5, <2>7 DEF Goes
<1>. QED
  BY <1>5, <1>6

(* What a sequence holds: its first, and what the rest holds.               *)
LEMMA RangeOfRest ==
  ASSUME NEW S, NEW q \in Seq(S), q # <<>>
  PROVE  /\ Range(q) = {Head(q)} \cup Range(Tail(q)) /\ Range(q) \subseteq S
         /\ Head(q) \in S /\ Tail(q) \in Seq(S)
<1>. DEFINE t == Tail(q)
            n == Len(q)
<1>1. n \in Nat \ {0}
  BY EmptySeq
<1>2. /\ t \in Seq(S) /\ Len(t) = n - 1 /\ Head(q) = q[1] /\ Head(q) \in S
      /\ \A i \in 1..n - 1 : t[i] = q[i + 1]
  BY <1>1, HeadTailProperties
<1>. HIDE DEF t
<1>3. Range(q) = {q[i] : i \in 1..n} /\ Range(t) = {t[i] : i \in 1..n - 1}
  <2>1. DOMAIN q = 1..n
    OBVIOUS
  <2>2. DOMAIN t = 1..n - 1
    BY <1>2
  <2>3. Range(q) = {q[i] : i \in 1..n}
    BY <2>1 DEF Range
  <2>. QED
    BY <2>2, <2>3 DEF Range
<1>4. \A i \in 1..n : q[i] \in S
  OBVIOUS
<1>. HIDE DEF n
<1>5. ASSUME NEW i \in 1..n PROVE q[i] \in {Head(q)} \cup Range(t)
  <2>1. CASE i = 1
    BY <1>2, <2>1
  <2>2. CASE i # 1
    <3>1. i - 1 \in 1..n - 1 /\ (i - 1) + 1 = i
      BY <1>1, <2>2
    <3>2. t[i - 1] = q[i]
      BY <1>2, <3>1
    <3>. QED
      BY <1>3, <3>1, <3>2
  <2>. QED
    BY <2>1, <2>2
<1>6. ASSUME NEW i \in 1..n - 1 PROVE t[i] \in Range(q)
  <2>1. i + 1 \in 1..n
    BY <1>1
  <2>. QED
    BY <1>2, <1>3, <2>1
<1>7. Head(q) \in Range(q)
  <2>1. 1 \in 1..n
    BY <1>1
  <2>. QED
    BY <1>2, <1>3, <2>1
<1>8. Range(q) = {Head(q)} \cup Range(t)
  BY <1>3, <1>5, <1>6, <1>7
<1>. QED
  BY <1>2, <1>3, <1>4, <1>8 DEF t

(* The removals left are told by the next task, and by no other.            *)
LEMMA GoesOn ==
  ASSUME Typed, Queue # <<>>, NEW task \in Tasks, NEW known \in SUBSET Clients,
         clients' = known, Goes(task, known),
         \A i \in 2..Len(Queue) : Queue[i].do # "task",
         \A s \in Range(task.more) : reg'[s] = NoRec
  PROVE  Removing' /\ Keeps /\ \A s \in Range(task.more) : s \in Untold'
<1>1. Queue \in Seq(Callback) /\ Len(Queue) \in Nat \ {0}
  <2>1. Queue \in Seq(Callback)
    BY QueueTyped DEF Typed, Turned, Queue
  <2>. QED
    BY <2>1, EmptySeq
<1>2. CASE task.more = <<>> /\ Shifted(Queue', Queue, <<>>)
  <2>1. Range(task.more) = {}
    BY <1>2 DEF Range
  <2>2. <<>> \in Seq(Callback)
    OBVIOUS
  <2>3. Keeps
    BY <1>2, <2>2, ShiftKeeps
  <2>4. Len(Queue') = Len(Queue) - 1 /\ \A i \in 1..Len(Queue') :
          i < Len(Queue) /\ Queue'[i] = Queue[i + 1] /\ i + 1 \in 2..Len(Queue)
    BY <1>1, <1>2 DEF Shifted
  <2>5. \A i \in 1..Len(Queue') : Queue'[i].do # "task"
    BY <2>4
  <2>. QED
    BY <2>1, <2>3, <2>5 DEF Removing
<1>3. CASE task.more # <<>> /\ phase' = "run" /\ Replaced(Queue', Queue, Following(task, known))
  <2>. DEFINE go   == Task(task.by, Diff(Head(task.more), NoRec), known, Tail(task.more))
              call == Call("task", go)
  <2>1. /\ Head(task.more) \in Sids
        /\ Range(task.more) = {Head(task.more)} \cup Range(Tail(task.more))
        /\ Range(task.more) \subseteq Sids
    BY <1>3, RangeOfRest DEF Tasks
  <2>2. Removes(go) = Range(task.more)
    BY <2>1 DEF Removes, Task, Diff
  <2>3. Sweeping(go, clients', reg')
    <3>1. go.todo = clients' /\ go.dead = {}
      BY DEF Task
    <3>2. go.msg \in DiffMsg /\ go.msg.rec = NoRec
      BY <2>1 DEF Task, Diff, DiffMsg
    <3>. QED
      BY <2>2, <3>1, <3>2 DEF Sweeping
  <2>4. call.do = "task" /\ call.arg = go
    BY DEF Call
  <2>5. Replaced(Queue', Queue, call)
    BY <1>3 DEF Following
  <2>. HIDE DEF go, call
  <2>6. Keeps /\ Holds(call)
    BY <2>5, ReplaceKeeps
  <2>7. \A s \in Range(task.more) : s \in Sids /\ Tells(call, s)
    BY <2>1, <2>2, <2>4 DEF Tells
  <2>8. \A s \in Range(task.more) : s \in Untold'
    BY <2>6, <2>7, NewUntold
  <2>9. \A i \in 1..Len(Queue') :
          /\ i = 1 => Queue'[i] = call
          /\ i # 1 => i \in 2..Len(Queue) /\ Queue'[i] = Queue[i]
    BY <1>1, <2>5 DEF Replaced
  <2>10. Removing'
    <3>. SUFFICES ASSUME NEW i \in 1..Len(Queue'), Queue'[i].do = "task"
                  PROVE  i = 1 /\ phase' = "run" /\ Sweeping(Queue'[i].arg, clients', reg')
      BY DEF Removing
    <3>1. i = 1
      BY <2>9
    <3>2. Queue'[i].arg = go
      BY <2>4, <2>9, <3>1
    <3>. QED
      BY <1>3, <2>3, <3>1, <3>2
  <2>. QED
    BY <2>6, <2>8, <2>10
<1>. QED
  BY <1>2, <1>3 DEF Goes

-----------------------------------------------------------------------------
(* Each step keeps the frontends in step *)

TaskFree == \A i \in 1..Len(Queue) : Queue[i].do # "task"

(* A task is the first of a turn that runs.                                 *)
LEMMA NoTasks ==
  ASSUME Typed, Removing
  PROVE  /\ \A i \in 2..Len(Queue) : Queue[i].do # "task"
         /\ phase = "select" \/ Queue[1].do # "task" => TaskFree
<1>1. \A i \in 2..Len(Queue) : i \in 1..Len(Queue) /\ i # 1
  <2>1. Len(Queue) \in Nat
    BY QueueIsCalls
  <2>. QED
    BY <2>1
<1>. QED
  BY <1>1 DEF Removing, TaskFree

(* What was to be told still is when the queue grows.                       *)
LEMMA GrownUntold ==
  ASSUME Typed, NEW T, NEW calls \in Seq(T), Grown(Queue', Queue, calls)
  PROVE  Untold \subseteq Untold'
<1>1. Queue \in Seq(Callback) /\ Len(Queue) \in Nat
  <2>1. Queue \in Seq(Callback)
    BY QueueTyped DEF Typed, Turned, Queue
  <2>. QED
    BY <2>1
<1>2. Len(calls) \in Nat /\ Len(Queue') = Len(Queue) + Len(calls)
  BY DEF Grown
<1>3. \A i \in 1..Len(Queue) : i \in 1..Len(Queue') /\ Queue'[i] = Queue[i]
  BY <1>1, <1>2 DEF Grown
<1>4. ASSUME NEW s \in Untold PROVE s \in Untold'
  <2>1. PICK i \in 1..Len(Queue) : Tells(Queue[i], s)
    BY DEF Untold
  <2>2. \E j \in 1..Len(Queue') : Tells(Queue'[j], s)
    BY <1>3, <2>1
  <2>. QED
    BY <2>2 DEF Untold
<1>. QED
  BY <1>4

(* Nothing is written, and nothing forgotten.                               *)
LEMMA QuietSteady ==
  ASSUME Typed, Typed', Steady, TaskFree', Untold \subseteq Untold',
         \A c \in Clients : waiting'[c] = waiting[c] \/ waiting'[c] = <<>>,
         clients' \subseteq clients,
         \A c \in clients' : conn'[c] = "open" =>
           conn[c] = "open" /\ out'[c] = out[c] /\ view'[c] = view[c],
         \A s \in Sids \ Untold' : Same(reg[s], reg'[s])
  PROVE  Steady'
<1>1. Removing'
  BY DEF Removing, TaskFree
<1>2. \A c \in Clients : waiting'[c] = <<>>
  BY DEF Steady
<1>3. ASSUME NEW c \in clients', conn'[c] = "open" PROVE Settled(c)'
  <2>1. c \in Clients /\ Settled(c) /\ out'[c] = out[c] /\ view'[c] = view[c]
    BY <1>3 DEF Steady, Typed, TypeOK
  <2>. QED
    BY <2>1, StaysSettled
<1>. QED
  BY <1>1, <1>2, <1>3 DEF Steady

(* A record is of its own version.                                          *)
LEMMA SameIsSame == \A a : Same(a, a)
BY DEF Same

(* A message that says what the registry is, or what it is of one session.  *)
TellsTrue(task) ==
  /\ task.msg \in Message
  /\ \/ task.msg.type = "snapshot" /\ task.msg.agents = reg'
     \/ /\ task.msg.type = "diff" /\ task.msg.rec = reg'[task.msg.sid]
        /\ task.todo \subseteq clients

(* What a frontend shows after one message more.                            *)
LEMMA ShownAfter ==
  ASSUME Typed, NEW c \in Clients, NEW msg \in Message, view'[c] = view[c],
         out'[c] = Append(out[c], msg)
  PROVE  /\ msg.type = "snapshot" => Shown(c)' = msg.agents
         /\ msg.type = "diff" /\ Shown(c) \in View =>
              Shown(c)' = [Shown(c) EXCEPT ![msg.sid] = msg.rec]
<1>1. view[c] \in View \cup {NoView} /\ out[c] \in Seq(Message)
  BY DEF Typed, TypeOK
<1>2. Shown(c)' = FoldLeft(Applied, view[c], Append(out[c], msg))
  BY DEF Shown
<1>3. Shown(c)' = Applied(Shown(c), msg)
  BY <1>1, <1>2, FoldAppend DEF Shown
<1>4. Shown(c) \in View => Shown(c) # NoView
  BY BroadcasterAssumption
<1>. QED
  BY <1>3, <1>4 DEF Applied

(* A broadcast that makes nobody wait keeps the frontends in step.          *)
LEMMA SpeaksSteady ==
  ASSUME Typed, Typed', Steady, Queue # <<>>, phase = "run", ready # <<>>,
         NEW task \in Tasks, task.dead = {}, NEW known \in SUBSET Clients,
         Broadcast(task, known), smooth',
         known \subseteq clients \cup task.todo,
         task.todo # {} => TellsTrue(task),
         \A s \in Range(task.more) : reg'[s] = NoRec,
         \A s \in Sids : Same(reg[s], reg'[s]) \/ s \in Range(task.more),
         \A s \in Sids : Tells(Queue[1], s) =>
           s \in Range(task.more) \/ (known = task.todo /\ task.msg.type = "diff" /\ task.msg.sid = s)
  PROVE  Steady'
<1>1. /\ waiting' = waiting /\ clients' = known /\ conn' = conn /\ view' = view
      /\ \A c \in Clients :
           out'[c] = IF c \in task.todo /\ conn[c] = "open" THEN Append(out[c], task.msg)
                     ELSE out[c]
      /\ Goes(task, known)
  BY Ends
<1>2. \A i \in 2..Len(Queue) : Queue[i].do # "task"
  BY NoTasks DEF Steady
<1>3. Removing' /\ Keeps /\ \A s \in Range(task.more) : s \in Untold'
  BY <1>1, <1>2, GoesOn
<1>4. \A s \in Sids \ Untold' : Same(reg[s], reg'[s])
  BY <1>3
<1>5. ASSUME NEW s \in Untold, s \notin Untold'
      PROVE  known = task.todo /\ task.msg.type = "diff" /\ task.msg.sid = s
  <2>1. Tells(Queue[1], s) /\ s \in Sids
    BY <1>3, <1>5, StaysUntold DEF Untold
  <2>. QED
    BY <1>3, <1>5, <2>1
<1>6. ASSUME NEW c \in known, conn[c] = "open" PROVE Settled(c)'
  <2>1. c \in Clients
    OBVIOUS
  <2>2. CASE c \notin task.todo
    <3>1. Settled(c) /\ out'[c] = out[c] /\ view'[c] = view[c]
      BY <1>1, <1>6, <2>1, <2>2 DEF Steady
    <3>2. \A s \in Untold : s \in Untold'
      BY <1>5, <1>6, <2>2
    <3>. QED
      BY <1>4, <2>1, <3>1, <3>2, StaysSettled
  <2>3. CASE c \in task.todo
    <3>1. TellsTrue(task) /\ out'[c] = Append(out[c], task.msg) /\ view'[c] = view[c]
      BY <1>1, <1>6, <2>1, <2>3
    <3>2. task.msg \in Message
      BY <3>1 DEF TellsTrue
    <3>3. CASE task.msg.type = "snapshot" /\ task.msg.agents = reg'
      <4>1. Shown(c)' = reg'
        BY <2>1, <3>1, <3>2, <3>3, ShownAfter
      <4>2. reg' \in View
        BY DEF Typed, TypeOK
      <4>. QED
        BY <4>1, <4>2, SameIsSame DEF Settled
    <3>4. CASE /\ task.msg.type = "diff" /\ task.msg.rec = reg'[task.msg.sid]
               /\ task.todo \subseteq clients
      <4>1. Settled(c)
        BY <1>6, <2>1, <2>3, <3>4 DEF Steady
      <4>2. Shown(c) \in [Sids -> Rec \cup {NoRec}]
        BY <4>1 DEF Settled, View
      <4>3. Shown(c)' = [Shown(c) EXCEPT ![task.msg.sid] = task.msg.rec]
        BY <2>1, <3>1, <3>2, <3>4, <4>1, ShownAfter DEF Settled
      <4>4. task.msg.sid \in Sids /\ task.msg.rec \in Rec \cup {NoRec}
        BY <3>2, <3>4 DEF Message
      <4>5. Shown(c)' \in View
        BY <4>2, <4>3, <4>4 DEF View
      <4>6. ASSUME NEW s \in Sids \ Untold' PROVE Same(Shown(c)'[s], reg'[s])
        <5>1. CASE s = task.msg.sid
          <6>1. Shown(c)'[s] = reg'[s]
            BY <3>4, <4>2, <4>3, <5>1
          <6>. QED
            BY <6>1, SameIsSame
        <5>2. CASE s # task.msg.sid
          <6>1. Shown(c)'[s] = Shown(c)[s]
            BY <4>2, <4>3, <5>2
          <6>2. s \notin Untold
            BY <1>5, <4>6, <5>2
          <6>3. Same(Shown(c)[s], reg[s]) /\ Same(reg[s], reg'[s])
            BY <1>4, <4>1, <4>6, <6>2 DEF Settled
          <6>. QED
            BY <6>1, <6>3 DEF Same
        <5>. QED
          BY <5>1, <5>2
      <4>. QED
        BY <4>5, <4>6 DEF Settled
    <3>. QED
      BY <3>1, <3>3, <3>4 DEF TellsTrue
  <2>. QED
    BY <2>2, <2>3
<1>. QED
  BY <1>1, <1>3, <1>6 DEF Steady

(* A broadcast with no removals behind it.                                  *)
LEMMA NothingMore == Range(<<>>) = {}
BY DEF Range

(* A diff tells the record its event made.                                  *)
LEMMA DiffSteady ==
  ASSUME InOrder, Typed', Steady, OnDiff, smooth'
  PROVE  Steady'
<1>1. /\ Typed /\ phase = "run" /\ ready # <<>> /\ Call("diff", Arg) \in Callback
      /\ Queue[1] = Call("diff", Arg) /\ 1 \in 1..Len(Queue)
  BY FirstCall DEF OnDiff, InOrder
<1>2. Arg \in DiffMsg
  BY <1>1 DEF Call, Callback, Loops, ClientCalls
<1>. DEFINE task == Task("event", Arg, clients, <<>>)
<1>3. reg \in View /\ clients \in SUBSET Clients
  BY <1>1 DEF Typed, TypeOK
<1>4. reg' = reg /\ Broadcast(task, clients)
  BY DEF OnDiff, registry
<1>5. /\ task \in Tasks /\ task.dead = {} /\ task.todo = clients /\ task.more = <<>>
      /\ task.msg = Arg
  BY <1>2, <1>3 DEF Task, Tasks, DiffMsg, Message
<1>6. reg[Arg.sid] = Arg.rec
  BY <1>1 DEF InOrder, Fresh, Call
<1>7. Arg \in Message /\ Arg.type = "diff"
  BY <1>2 DEF DiffMsg, Message
<1>. HIDE DEF task
<1>8. TellsTrue(task)
  BY <1>4, <1>5, <1>6, <1>7 DEF TellsTrue
<1>9. \A s \in Sids : Tells(Queue[1], s) => Arg.sid = s
  BY <1>1 DEF Tells, Call
<1>10. Queue # <<>>
  BY <1>1
<1>. QED
  BY <1>1, <1>3, <1>4, <1>5, <1>7, <1>8, <1>9, <1>10, NothingMore, SameIsSame, SpeaksSteady

(* Of a sweep's removals the next, the rest left to the task after it.      *)
LEMMA TaskSteady ==
  ASSUME InOrder, Typed', Steady, OnTask, smooth'
  PROVE  Steady'
<1>1. /\ Typed /\ phase = "run" /\ ready # <<>> /\ Call("task", Arg) \in Callback
      /\ Queue[1] = Call("task", Arg) /\ 1 \in 1..Len(Queue)
  BY FirstCall DEF OnTask, InOrder
<1>2. Arg \in Tasks
  BY <1>1 DEF Call, Callback, Loops, ClientCalls
<1>3. reg \in View /\ clients \in SUBSET Clients
  BY <1>1 DEF Typed, TypeOK
<1>4. reg' = reg /\ Broadcast(Arg, clients)
  BY DEF OnTask, registry
<1>5. Sweeping(Arg, clients, reg)
  BY <1>1 DEF Steady, Removing, Call
<1>6. /\ Arg.todo = clients /\ Arg.dead = {} /\ Arg.msg \in DiffMsg
      /\ Arg.msg.rec = reg[Arg.msg.sid] /\ \A s \in Range(Arg.more) : reg[s] = NoRec
  BY <1>5 DEF Sweeping, Removes
<1>7. Arg.msg \in Message /\ Arg.msg.type = "diff"
  BY <1>6 DEF DiffMsg, Message
<1>8. TellsTrue(Arg)
  BY <1>4, <1>6, <1>7 DEF TellsTrue
<1>9. \A s \in Sids : Tells(Queue[1], s) => s \in Range(Arg.more) \/ Arg.msg.sid = s
  BY <1>1 DEF Tells, Call, Removes
<1>10. Queue # <<>>
  BY <1>1
<1>. QED
  BY <1>1, <1>2, <1>3, <1>4, <1>6, <1>7, <1>8, <1>9, <1>10, SameIsSame, SpeaksSteady

(* A snapshot, to all or to the client that is new.                         *)
LEMMA SnapshotSteady ==
  ASSUME Typed, Typed', Steady, OnSnap \/ OnServe, smooth'
  PROVE  Steady'
<1>1. PICK do \in {"snap", "serve"} : Runs(do)
  BY DEF OnSnap, OnServe
<1>2. /\ phase = "run" /\ ready # <<>> /\ Call(do, Arg) \in Callback
      /\ Queue[1] = Call(do, Arg) /\ 1 \in 1..Len(Queue)
  BY <1>1, FirstCall
<1>3. reg \in View /\ clients \in SUBSET Clients
  BY DEF Typed, TypeOK
<1>4. \A s \in Sids : ~Tells(Queue[1], s)
  BY <1>2 DEF Tells, Call
<1>5. Snapshot \in Message /\ Snapshot.type = "snapshot" /\ Snapshot.agents = reg
  BY <1>3 DEF Snapshot, Message
<1>6. ASSUME NEW by \in Loops \cup {"event", "serve"}, NEW S \in SUBSET Clients,
             NEW known \in SUBSET Clients, known \subseteq clients \cup S, reg' = reg,
             Broadcast(Task(by, Snapshot, S, <<>>), known)
      PROVE  Steady'
  <2>. DEFINE task == Task(by, Snapshot, S, <<>>)
  <2>1. /\ task \in Tasks /\ task.dead = {} /\ task.todo = S /\ task.more = <<>>
        /\ task.msg = Snapshot
    BY <1>5 DEF Task, Tasks
  <2>2. Broadcast(task, known)
    BY <1>6
  <2>. HIDE DEF task
  <2>3. TellsTrue(task)
    BY <1>5, <1>6, <2>1 DEF TellsTrue
  <2>4. Queue # <<>>
    BY <1>2
  <2>. QED
    BY <1>2, <1>4, <1>6, <2>1, <2>2, <2>3, <2>4, NothingMore, SameIsSame, SpeaksSteady
<1>7. CASE OnSnap
  <2>1. reg' = reg /\ Broadcast(Task("snap", Snapshot, clients, <<>>), clients)
    BY <1>7 DEF OnSnap, registry
  <2>2. "snap" \in Loops \cup {"event", "serve"}
    BY DEF Loops
  <2>. QED
    BY <1>3, <1>6, <2>1, <2>2
<1>8. CASE OnServe
  <2>1. reg' = reg /\ Broadcast(Task("serve", Snapshot, {Arg}, <<>>), clients \cup {Arg})
    BY <1>8 DEF OnServe, registry
  <2>2. Arg \in Clients
    BY <1>8, ServeTyped
  <2>3. {Arg} \in SUBSET Clients /\ clients \cup {Arg} \in SUBSET Clients
    BY <1>3, <2>2
  <2>. QED
    BY <1>6, <2>1, <2>3
<1>. QED
  BY <1>7, <1>8

(* An order of a set leaves none of it out.                                 *)
LEMMA OrderHasAll ==
  ASSUME NEW S, IsFiniteSet(S), NEW q \in SetToSeqs(S)
  PROVE  Range(q) = S
<1>. DEFINE n == Cardinality(S)
<1>1. n \in Nat
  BY FS_CardinalityType
<1>2. q \in [1..n -> S] /\ \A i, j \in 1..n : i # j => q[i] # q[j]
  BY DEF SetToSeqs
<1>3. q \in Injection(1..n, S)
  BY <1>2 DEF Injection, IsInjective
<1>4. Cardinality(1..n) = n
  BY <1>1, FS_Interval
<1>5. q \in Surjection(1..n, S)
  BY <1>3, <1>4, FS_Injection
<1>6. \A s \in S : \E i \in 1..n : q[i] = s
  BY <1>5 DEF Surjection
<1>7. Range(q) = {q[i] : i \in 1..n}
  BY <1>2 DEF Range
<1>. HIDE DEF n
<1>. QED
  BY <1>2, <1>6, <1>7

(* The sweep: what it removes, it has yet to tell.                          *)
LEMMA ReapSteady ==
  ASSUME Typed, Typed', Steady, OnReap, smooth'
  PROVE  Steady'
<1>1. /\ phase = "run" /\ ready # <<>> /\ Call("reap", Arg) \in Callback
      /\ Queue[1] = Call("reap", Arg) /\ 1 \in 1..Len(Queue)
  BY FirstCall DEF OnReap
<1>2. reg \in View /\ clients \in SUBSET Clients
  BY DEF Typed, TypeOK
<1>0. PICK dead \in SUBSET Tracked : \E found \in SUBSET (Tracked \ dead) :
        /\ reg' = [s \in Sids |->
                     IF s \in dead THEN NoRec
                     ELSE IF s \in found THEN [reg[s] EXCEPT !.named = TRUE]
                     ELSE reg[s]]
        /\ \E order \in SetToSeqs(dead) : Broadcast(Task("reap", NoRec, {}, order), clients)
  BY DEF OnReap
<1>3. PICK found \in SUBSET (Tracked \ dead) :
        /\ reg' = [s \in Sids |->
                     IF s \in dead THEN NoRec
                     ELSE IF s \in found THEN [reg[s] EXCEPT !.named = TRUE]
                     ELSE reg[s]]
        /\ \E order \in SetToSeqs(dead) : Broadcast(Task("reap", NoRec, {}, order), clients)
  BY <1>0
<1>4. PICK order \in SetToSeqs(dead) : Broadcast(Task("reap", NoRec, {}, order), clients)
  BY <1>3
<1>5. dead \subseteq Sids /\ IsFiniteSet(dead)
  BY BroadcasterAssumption, FS_Subset DEF Tracked
<1>6. order \in Seq(dead) /\ order \in Seq(Sids) /\ Range(order) = dead
  <2>1. order \in Seq(dead)
    BY <1>5, OrderIsSeq
  <2>2. Range(order) = dead
    BY <1>5, OrderHasAll
  <2>. QED
    BY <1>5, <2>1, <2>2, SeqOfMore
<1>. DEFINE task == Task("reap", NoRec, {}, order)
<1>7. /\ task \in Tasks /\ task.dead = {} /\ task.todo = {} /\ task.more = order
  BY <1>6 DEF Task, Tasks, Loops
<1>8. Broadcast(task, clients)
  BY <1>4
<1>. HIDE DEF task
<1>9. \A s \in dead : reg'[s] = NoRec
  BY <1>3, <1>5
<1>10. ASSUME NEW s \in Sids, s \notin dead PROVE Same(reg[s], reg'[s])
  <2>1. CASE s \in found
    <3>1. reg[s] # NoRec /\ reg[s] \in Rec
      BY <1>2, <2>1 DEF Tracked, View
    <3>2. reg'[s] = [reg[s] EXCEPT !.named = TRUE]
      BY <1>3, <1>10, <2>1
    <3>3. reg'[s].ver = reg[s].ver
      BY <3>1, <3>2 DEF Rec
    <3>4. reg'[s] \in Rec
      BY <3>1, <3>2 DEF Rec
    <3>5. reg'[s] # NoRec
      BY <3>4, BroadcasterAssumption
    <3>. QED
      BY <3>1, <3>3, <3>5 DEF Same
  <2>2. CASE s \notin found
    BY <1>3, <1>10, <2>2, SameIsSame
  <2>. QED
    BY <2>1, <2>2
<1>11. \A s \in Sids : ~Tells(Queue[1], s)
  BY <1>1 DEF Tells, Call
<1>12. Queue # <<>>
  BY <1>1
<1>13. \A s \in Sids : Same(reg[s], reg'[s]) \/ s \in Range(task.more)
  BY <1>6, <1>7, <1>10
<1>14. \A s \in Range(task.more) : reg'[s] = NoRec
  BY <1>6, <1>7, <1>9
<1>. QED
  BY <1>1, <1>2, <1>7, <1>8, <1>11, <1>12, <1>13, <1>14, SpeaksSteady

(* What select reports is neither a diff nor a task.                        *)
LEMMA SelectSteady ==
  ASSUME Typed, Typed', Steady, Selects, reg' = reg, clients' = clients, out' = out,
         view' = view, waiting' = waiting,
         \A c \in clients : conn'[c] = conn[c]
  PROVE  Steady'
<1>1. phase = "select"
  BY DEF Selects
<1>2. TaskFree
  BY <1>1, NoTasks DEF Steady
<1>3. ASSUME NEW S, NEW calls \in Seq(S), Grown(Queue', Queue, calls),
             \A call \in S : call.do # "task"
      PROVE  Steady'
  <2>1. Gets(S)
    BY <1>3, SelectGets
  <2>2. TaskFree'
    BY <1>2, <1>3, <2>1 DEF TaskFree, Gets
  <2>3. Untold \subseteq Untold'
    BY <1>3, GrownUntold
  <2>. QED
    BY <2>2, <2>3, QuietSteady, SameIsSame
<1>4. ASSUME NEW call \in Reported, Grown(Queue', Queue, <<call>>) PROVE Steady'
  <2>. DEFINE S     == {call}
              calls == <<call>>
  <2>1. calls \in Seq(S) /\ Grown(Queue', Queue, calls) /\ \A new \in S : new.do # "task"
    BY <1>4 DEF Reported
  <2>. HIDE DEF S, calls
  <2>. QED
    BY <1>3, <2>1
<1>5. ASSUME NEW calls \in Seq([do : {"timer"}, arg : Loops]), Grown(Queue', Queue, calls)
      PROVE  Steady'
  <2>. DEFINE S == [do : {"timer"}, arg : Loops]
  <2>1. calls \in Seq(S) /\ \A new \in S : new.do # "task"
    OBVIOUS
  <2>. HIDE DEF S
  <2>. QED
    BY <1>3, <1>5, <2>1
<1>. QED
  BY <1>4, <1>5 DEF Selects

(* A callback that is over tells nothing, and what it schedules is no task. *)
LEMMA TurnSteady ==
  ASSUME Typed, Typed', Steady, Queue # <<>>, Queue[1].do \notin {"diff", "task"},
         NEW S, NEW calls \in Seq(S), Shifted(Queue', Queue, calls),
         \A call \in S : call.do # "task",
         \A c \in Clients : waiting'[c] = waiting[c] \/ waiting'[c] = <<>>,
         clients' \subseteq clients,
         \A c \in clients' : conn'[c] = "open" => conn[c] = "open",
         out' = out, view' = view,
         \A s \in Sids : Same(reg[s], reg'[s]) \/ \E i \in 1..Len(calls) : Tells(calls[i], s)
  PROVE  Steady'
<1>1. TaskFree
  BY NoTasks DEF Steady
<1>2. Gets(S) /\ Keeps /\ \A i \in 1..Len(calls) : Holds(calls[i])
  BY TurnGets, ShiftKeeps DEF Turns1
<1>3. TaskFree'
  BY <1>1, <1>2 DEF TaskFree, Gets
<1>4. \A s \in Sids : ~Tells(Queue[1], s)
  BY DEF Tells
<1>5. Untold \subseteq Untold'
  BY <1>2, <1>4, StaysUntold DEF Untold
<1>6. \A s \in Sids \ Untold' : Same(reg[s], reg'[s])
  BY <1>2, NewUntold
<1>. QED
  BY <1>3, <1>5, <1>6, QuietSteady

(* With none suspended, none is woken.                                      *)
LEMMA NoneWoken ==
  ASSUME Steady
  PROVE  \A call \in Woken : call.do # "task"
<1>1. \A c \in Clients : DOMAIN waiting[c] = {}
  BY DEF Steady
<1>2. Waiters = {}
  BY <1>1 DEF Waiters
<1>. QED
  BY <1>2 DEF Woken

(* What is read is what was to be read.                                     *)
LEMMA DeliverSteady ==
  ASSUME Typed, Typed', Steady, NEW c \in Clients, Deliver(c)
  PROVE  Steady'
<1>1. /\ UNCHANGED <<reg, clients, conn, waiting, turn>>
      /\ \A d \in Clients \ {c} : out'[d] = out[d] /\ view'[d] = view[d]
  BY DeliverTyped
<1>2. phase' = phase /\ Queue' = Queue
  BY <1>1 DEF turn, Queue
<1>3. Shown(c)' = Shown(c)
  <2>1. /\ out[c] \in Seq(Message) /\ view[c] \in View \cup {NoView}
        /\ out \in [Clients -> Seq(Message)] /\ view \in [Clients -> View \cup {NoView}]
    BY DEF Typed, TypeOK, Wired
  <2>2. out[c] # <<>> /\ out'[c] = Tail(out[c]) /\ view'[c] = Applied(view[c], Head(out[c]))
    BY <2>1 DEF Deliver
  <2>. QED
    BY <2>1, <2>2, FoldTail DEF Shown
<1>4. Untold' = Untold
  BY <1>2 DEF Untold
<1>5. ASSUME NEW d \in clients, conn[d] = "open" PROVE Settled(d)'
  <2>1. d \in Clients /\ Settled(d)
    BY <1>5 DEF Typed, TypeOK, Steady
  <2>2. Shown(d)' = Shown(d)
    BY <1>1, <1>3, <2>1 DEF Shown
  <2>. QED
    BY <1>1, <1>4, <2>1, <2>2 DEF Settled
<1>6. Removing'
  BY <1>1, <1>2 DEF Removing, Steady
<1>. QED
  BY <1>1, <1>5, <1>6 DEF Steady

(* Nobody else misses a frontend that leaves.                               *)
LEMMA StillSteady ==
  ASSUME Typed, Typed', Steady, UNCHANGED <<reg, clients, waiting, turn>>,
         \A d \in clients : conn'[d] = "open" =>
           conn[d] = "open" /\ out'[d] = out[d] /\ view'[d] = view[d]
  PROVE  Steady'
<1>1. phase' = phase /\ Queue' = Queue
  BY DEF turn, Queue
<1>2. Untold' = Untold
  BY <1>1 DEF Untold
<1>3. ASSUME NEW d \in clients, conn'[d] = "open" PROVE Settled(d)'
  <2>1. d \in Clients /\ Settled(d)
    BY <1>3 DEF Typed, TypeOK, Steady
  <2>2. Shown(d)' = Shown(d)
    BY <1>3 DEF Shown
  <2>. QED
    BY <1>2, <2>1, <2>2 DEF Settled
<1>4. Removing'
  BY <1>1 DEF Removing, Steady
<1>. QED
  BY <1>3, <1>4 DEF Steady

(* Who is known has connected.                                              *)
LEMMA KnownStep ==
  ASSUME Heard, \A c \in clients : conn[c] # "none", [Next]_vars
  PROVE  \A c \in clients' : conn'[c] # "none"
<1>1. Typed
  BY DEF Heard
<1>2. CASE Polls
  BY <1>1, <1>2, PollsTyped DEF Typed, TypeOK
<1>3. CASE Notices \/ (\E due \in Dues : TurnStarts(due)) \/ OnEvent \/ OnTimer
  BY <1>1, <1>3, NoticesTyped, TurnStartsTyped, EventTyped, TimerTyped
<1>4. CASE OnServe
  <2>1. Queue[1] = Call("serve", Arg) /\ 1 \in 1..Len(Queue)
        /\ clients' \subseteq clients \cup {Arg} /\ conn' = conn
    BY <1>1, <1>4, ServeTyped DEF Speaks
  <2>2. conn[Arg] # "none"
    BY <2>1 DEF Heard, Call
  <2>. QED
    BY <2>1, <2>2
<1>5. CASE OnDiff \/ OnTask \/ OnReap \/ OnSnap
  BY <1>1, <1>5, Speeches DEF Speaks
<1>6. CASE OnWritable \/ OnEof \/ OnCleanup \/ OnLost
  BY <1>1, <1>6, ClientsTyped DEF Typed, TypeOK
<1>7. ASSUME NEW c \in Clients, Deliver(c) \/ HangUp(c)
      PROVE  \A d \in clients' : conn'[d] # "none"
  BY <1>1, <1>7, DeliverTyped, HangUpTyped DEF Typed, TypeOK
<1>8. CASE UNCHANGED vars
  BY <1>1, <1>8, SameTyped
<1>. QED
  BY <1>2, <1>3, <1>4, <1>5, <1>6, <1>7, <1>8, Steps

(* While nothing waits, every step keeps the frontends in step.             *)
LEMMA SteadyStep ==
  ASSUME InStep, [Next]_vars, smooth'
  PROVE  Steady'
<1>1. Typed /\ Typed' /\ InOrder /\ Steady
  BY SmoothBefore, TypedStep DEF InStep, InOrder
<1>2. ASSUME NEW do, Runs(do) PROVE Queue # <<>> /\ Queue[1].do = do
  <2>1. 1 \in 1..Len(Queue) /\ Queue[1].do = do
    BY <1>1, <1>2, FirstCall
  <2>. QED
    BY <2>1
<1>3. CASE Polls
  <2>1. \A c \in clients : c \in Clients /\ conn[c] # "none"
    BY <1>1 DEF InStep, Typed, TypeOK
  <2>. QED
    BY <1>1, <1>3, <2>1, PollsTyped, SelectSteady
<1>4. CASE Notices
  BY <1>1, <1>4, NoticesTyped, SelectSteady
<1>5. ASSUME NEW due \in Dues, TurnStarts(due) PROVE Steady'
  BY <1>1, <1>5, TurnStartsTyped, SelectSteady
<1>6. CASE OnEvent
  <2>1. Runs("udp")
    BY <1>6 DEF OnEvent
  <2>2. UNCHANGED <<clients, conn, out, waiting, view>>
    BY <1>1, <1>6, EventTyped
  <2>. DEFINE S == [do : {"diff"}, arg : DiffMsg]
  <2>3. PICK call \in S :
          /\ reg'[call.arg.sid] = call.arg.rec /\ Shifted(Queue', Queue, <<call>>)
          /\ \A s \in Sids : s # call.arg.sid => reg'[s] = reg[s]
    BY <1>1, <1>6, EventTyped
  <2>. DEFINE calls == <<call>>
  <2>4. calls \in Seq(S) /\ Len(calls) = 1 /\ calls[1] = call /\ Shifted(Queue', Queue, calls)
    BY <2>3
  <2>5. call.do = "diff" /\ \A new \in S : new.do # "task"
    OBVIOUS
  <2>. HIDE DEF calls, S
  <2>6. \A s \in Sids : Same(reg[s], reg'[s]) \/ \E i \in 1..Len(calls) : Tells(calls[i], s)
    <3>. SUFFICES ASSUME NEW s \in Sids, ~Same(reg[s], reg'[s]) PROVE Tells(call, s)
      BY <2>4
    <3>1. s = call.arg.sid
      BY <2>3, SameIsSame
    <3>. QED
      BY <2>5, <3>1 DEF Tells
  <2>7. Queue # <<>> /\ Queue[1].do \notin {"diff", "task"}
    BY <1>2, <2>1
  <2>. QED
    BY <1>1, <2>2, <2>4, <2>5, <2>6, <2>7, TurnSteady
<1>7. CASE OnTimer
  <2>1. UNCHANGED <<reg, clients, conn, out, waiting, view>>
    BY <1>1, <1>7, TimerTyped
  <2>. DEFINE S == [do : Loops, arg : {"round"}]
  <2>2. PICK call \in S : Shifted(Queue', Queue, <<call>>)
    BY <1>1, <1>7, TimerTyped
  <2>3. <<call>> \in Seq(S) /\ \A new \in S : new.do # "task"
    BY DEF Loops
  <2>. HIDE DEF S
  <2>4. Queue # <<>> /\ Queue[1].do \notin {"diff", "task"}
    BY <1>2, <1>7 DEF OnTimer
  <2>. QED
    BY <1>1, <2>1, <2>2, <2>3, <2>4, SameIsSame, TurnSteady
<1>8. CASE OnWritable \/ OnEof \/ OnCleanup \/ OnLost
  <2>1. PICK calls \in Seq(Woken) : Shifted(Queue', Queue, calls)
    BY <1>1, <1>8, ClientsTyped
  <2>2. /\ UNCHANGED <<reg, out, view>> /\ clients' \subseteq clients
        /\ \A c \in Clients : waiting'[c] = waiting[c] \/ waiting'[c] = <<>>
        /\ \A c \in clients' : conn'[c] = "open" => conn[c] = "open"
    BY <1>1, <1>8, ClientsTyped DEF Typed, TypeOK
  <2>3. Queue # <<>> /\ Queue[1].do \notin {"diff", "task"}
    <3>1. PICK do \in {"writable", "eof", "cleanup", "lost"} : Runs(do)
      BY <1>8 DEF OnWritable, OnEof, OnCleanup, OnLost
    <3>. QED
      BY <1>2, <3>1
  <2>. QED
    BY <1>1, <2>1, <2>2, <2>3, NoneWoken, SameIsSame, TurnSteady
<1>9. CASE OnDiff
  BY <1>1, <1>9, DiffSteady
<1>10. CASE OnTask
  BY <1>1, <1>10, TaskSteady
<1>11. CASE OnSnap \/ OnServe
  BY <1>1, <1>11, SnapshotSteady
<1>12. CASE OnReap
  BY <1>1, <1>12, ReapSteady
<1>13. ASSUME NEW c \in Clients, Deliver(c) PROVE Steady'
  BY <1>1, <1>13, DeliverSteady
<1>14. ASSUME NEW c \in Clients, HangUp(c) PROVE Steady'
  <2>1. /\ UNCHANGED <<reg, clients, waiting, turn>> /\ conn'[c] = "gone"
        /\ \A d \in Clients \ {c} : out'[d] = out[d] /\ view'[d] = view[d] /\ conn'[d] = conn[d]
    BY <1>1, <1>14, HangUpTyped
  <2>2. \A d \in clients : conn'[d] = "open" =>
          conn[d] = "open" /\ out'[d] = out[d] /\ view'[d] = view[d]
    BY <1>1, <2>1 DEF Typed, TypeOK
  <2>. QED
    BY <1>1, <2>1, <2>2, StillSteady
<1>15. CASE UNCHANGED vars
  BY <1>1, <1>15, SameTyped, StillSteady
<1>. QED
  BY <1>3, <1>4, <1>5, <1>6, <1>7, <1>8, <1>9, <1>10, <1>11, <1>12, <1>13, <1>14, <1>15, Steps

(* A frontend in step with the registry has its sessions in its versions.   *)
LEMMA SettledVersions ==
  ASSUME Typed, NEW c \in Clients, Settled(c), TaskFree,
         \A i \in 1..Len(Queue) : Queue[i].do # "diff"
  PROVE  Versions(Shown(c)) = Versions(reg)
<1>1. \A s \in Sids : s \notin Untold
  BY DEF Untold, Tells, TaskFree
<1>2. \A s \in Sids : Same(Shown(c)[s], reg[s])
  BY <1>1 DEF Settled
<1>. DEFINE shown == Shown(c)
<1>3. \A s \in Sids : shown[s] # NoRec <=> reg[s] # NoRec
  BY <1>2 DEF Same
<1>4. \A s \in Sids : reg[s] # NoRec => shown[s].ver = reg[s].ver
  BY <1>2 DEF Same
<1>. HIDE DEF shown
<1>5. {t \in Sids : shown[t] # NoRec} = {t \in Sids : reg[t] # NoRec}
  BY <1>3
<1>6. Versions(shown) = Versions(reg)
  BY <1>4, <1>5 DEF Versions
<1>. QED
  BY <1>6 DEF shown

(* As long as no write ever waited, diffs alone keep every frontend in step *)
(* with the registry, for any number of frontends and sessions and whatever *)
(* order events, connections, sweeps and snapshots come in: when no         *)
(* broadcast is left to run, what was written says what the registry is.    *)
THEOREM MirrorsWhenQuiet == Spec => []MirroredWhenQuiet
<1>1. Init => InStep
  <2>. SUFFICES ASSUME Init PROVE InStep
    OBVIOUS
  <2>1. Typed /\ Queue = <<>>
    BY InitTyped
  <2>2. clients = {} /\ \A c \in Clients : out[c] = <<>> /\ waiting[c] = <<>>
    BY DEF Init
  <2>3. InOrder /\ Heard
    BY <2>1, <2>2 DEF InOrder, Ordered, Fresh, Heard, SnapshotFirst
  <2>4. Steady
    BY <2>1, <2>2 DEF Steady, Removing
  <2>. QED
    BY <2>2, <2>3, <2>4 DEF InStep
<1>2. InStep /\ [Next]_vars => InStep'
  <2>. SUFFICES ASSUME InStep, [Next]_vars PROVE InStep'
    OBVIOUS
  <2>1. InOrder' /\ Heard' /\ \A c \in clients' : conn'[c] # "none"
    BY OrderStep, HeardStep, KnownStep DEF InStep
  <2>2. smooth' => Steady'
    BY SteadyStep
  <2>. QED
    BY <2>1, <2>2 DEF InStep
<1>3. InStep => MirroredWhenQuiet
  <2>. SUFFICES ASSUME InStep, smooth, \A call \in Calls : call.do \notin {"diff", "task"},
                       NEW c \in clients, conn[c] = "open"
                PROVE  Versions(FoldLeft(Applied, view[c], out[c])) = Versions(reg)
    BY DEF MirroredWhenQuiet
  <2>1. Typed /\ c \in Clients /\ Settled(c)
    BY DEF InStep, InOrder, Steady, Typed, TypeOK
  <2>2. \A i \in 1..Len(Queue) : Queue[i].do # "task" /\ Queue[i].do # "diff"
    BY <2>1, QueueIsCalls
  <2>3. TaskFree
    BY <2>2 DEF TaskFree
  <2>. QED
    BY <2>1, <2>2, <2>3, SettledVersions DEF Shown
<1>. QED
  BY <1>1, <1>2, <1>3, PTL DEF Spec
==============================================================================
