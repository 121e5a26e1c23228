----------------------------- MODULE Broadcaster -----------------------------
(***************************************************************************)
(* daemon/broadcaster.py with the coroutines that call it: on_event         *)
(* (daemon/main.py), reaper_loop and periodic_snapshot_loop                 *)
(* (daemon/reaper.py), and each frontend's copy of the registry             *)
(* (frontend/main.py, _handle_message).                                     *)
(*                                                                          *)
(* The daemon is one asyncio loop.  Each turn runs, in this order, what     *)
(* earlier callbacks scheduled, one callback per descriptor that select     *)
(* reported, in any order, and the timers that are due; what these schedule *)
(* waits for the next turn.  A coroutine runs until it awaits something     *)
(* that is not there yet, and the only such thing in a broadcast is drain() *)
(* of a client whose buffer is above its high-water mark, or whose          *)
(* connection is closing.                                                   *)
(*                                                                          *)
(* The registry is a version number per session: Registry is the module     *)
(* about what changes it.  A client is one connection; a frontend that      *)
(* reconnects is another.                                                   *)
(***************************************************************************)
EXTENDS Naturals, SequencesExt

CONSTANTS
  Sids,      \* Session ids.
  Clients,   \* Connections of frontends.
  Leavers,   \* The clients that may hang up.
  NoRec,     \* A session the registry, or a frontend, does not have.
  NoView,    \* A frontend that has received nothing yet.
  High,      \* High-water mark of a client's buffer, in messages.
  MaxOps,    \* Bound on the events and removals.
  LateNames  \* Whether a record may get its pid and name in a sweep only.

(* A record: the number of the event that made it, and whether the name of  *)
(* the session was found.                                                   *)
Rec == [ver : 0..MaxOps, named : BOOLEAN]

View == [Sids -> Rec \cup {NoRec}]

ASSUME BroadcasterAssumption ==
  /\ IsFiniteSet(Sids)
  /\ Leavers \subseteq Clients
  /\ High \in Nat /\ MaxOps \in Nat /\ LateNames \in BOOLEAN
  /\ NoRec \notin Rec /\ NoView \notin View

VARIABLES
  reg,      \* The registry: each session's record, or NoRec.
  ops,      \* Events read and sessions reaped so far.
  phase,    \* Whether the loop is in select() or runs callbacks.
  ready,    \* Callbacks of this turn, in order.
  next,     \* Callbacks scheduled for the next turn, in order.
  loop,     \* Whether each periodic coroutine sleeps or is at work.
  clients,  \* Broadcaster._clients.
  conn,     \* The state of each connection.
  out,      \* Messages written to each client and not read by it.
  paused,   \* Whether writing to each client is paused.
  waiting,  \* Broadcasts suspended in each client's drain(), in order.
  view,     \* What each frontend believes the registry is.
  smooth    \* Ghost: no broadcast was ever suspended.

registry == <<reg, ops>>
turn     == <<phase, ready, next>>
wires    == <<conn, out, paused, waiting, view>>
vars     == <<registry, turn, loop, clients, wires, smooth>>

Loops == {"reap", "snap"}

(* A broadcast under way: its message, the clients it has still to write    *)
(* to, those whose write failed, and, in the reaper, the removals to        *)
(* broadcast after this one.  "by" says which coroutine it is.              *)
Task(by, msg, todo, more) ==
  [by |-> by, msg |-> msg, todo |-> todo, dead |-> {}, more |-> more]

\* Mutant: a snapshot is a list of agents, not a dict of them by session.
SnapshotList ==
  [type |-> "snapshot", agents |-> SetToSeq({reg[s] : s \in Sids} \ {NoRec})]

Snapshot == [type |-> "snapshot", agents |-> reg]
Diff(s, rec) == [type |-> "diff", sid |-> s, rec |-> rec]

Call(do, arg) == [do |-> do, arg |-> arg]

Scheduled(do, arg) == Call(do, arg) \in Range(ready) \cup Range(next)

-----------------------------------------------------------------------------
(* select() and the timers *)

Report(do, arg) ==
  /\ phase = "select"
  /\ ready' = Append(ready, Call(do, arg))
  /\ UNCHANGED <<phase, next>>

(* A datagram is on the UDP socket; one is read per turn.                   *)
UdpReadable(s, op) ==
  /\ ops < MaxOps
  /\ ops' = ops + 1
  /\ \A i \in DOMAIN ready : ready[i].do # "udp"
  /\ Report("udp", <<s, op>>)
  /\ UNCHANGED <<reg, loop, clients, wires, smooth>>

Accept(c) ==
  /\ conn[c] = "none"
  /\ conn' = [conn EXCEPT ![c] = "open"]
  /\ Report("serve", c)
  /\ UNCHANGED <<registry, loop, clients, out, paused, waiting, view, smooth>>

(* The buffer of a paused client has drained below the low-water mark.      *)
IsWritable(c) ==
  conn[c] = "open" /\ paused[c] /\ out[c] = <<>> /\ ~Scheduled("writable", c)

Writable(c) ==
  /\ IsWritable(c)
  /\ Report("writable", c)
  /\ UNCHANGED <<registry, loop, clients, wires, smooth>>

(* The peer is gone: the socket reads end-of-file, or an error.  The        *)
(* end-of-file is noticed by handle_client once it reads.                   *)
IsHungUp(c) ==
  /\ conn[c] = "gone"
  /\ \A do \in {"serve", "eof", "cleanup", "lost"} : ~Scheduled(do, c)

HungUp(c, do) ==
  /\ IsHungUp(c)
  /\ do = "lost" \/ (do = "eof" /\ \A i \in DOMAIN waiting[c] :
                                       waiting[c][i].by # "serve")
  /\ Report(do, c)
  /\ UNCHANGED <<registry, loop, clients, wires, smooth>>

(* select returned with every descriptor that was ready, or because of a    *)
(* timer; the timers that are due come after the descriptors.               *)
TurnStarts(due) ==
  /\ phase = "select"
  /\ ready # <<>> \/ due # <<>>
  /\ \A c \in Clients : ~IsWritable(c) /\ ~IsHungUp(c)
  /\ \A l \in Range(due) : loop[l] = "asleep"
  /\ loop' = [l \in Loops |-> IF l \in Range(due) THEN "busy" ELSE loop[l]]
  /\ ready' = ready \o [i \in DOMAIN due |-> Call("timer", due[i])]
  /\ phase' = "run"
  /\ UNCHANGED <<registry, next, clients, wires, smooth>>

Dues == SetToAllKPermutations(Loops)

-----------------------------------------------------------------------------
(* Running the callbacks *)

Runs(do) == phase = "run" /\ ready # <<>> /\ Head(ready).do = do

Arg == Head(ready).arg

(* The callback is over, having scheduled these calls; after the last one   *)
(* of the turn the loop selects again.                                      *)
Schedule(calls) ==
  IF Len(ready) > 1
  THEN /\ ready' = Tail(ready)
       /\ next' = next \o calls
       /\ UNCHANGED phase
  ELSE /\ phase' = "select"
       /\ ready' = next \o calls
       /\ next' = <<>>

(* The coroutine runs on, into its next broadcast. *)
RunOn(task) ==
  /\ ready' = <<Call("task", task)>> \o Tail(ready)
  /\ UNCHANGED <<phase, next>>

(* A write to a closing connection is dropped and its drain() lets a turn   *)
(* pass before it fails; a write above the high-water mark goes through and *)
(* its drain() waits.                                                       *)
Closing(c) == conn[c] \in {"closing", "lost"}

Waits(c) == Closing(c) \/ paused[c] \/ Len(out[c]) >= High

(* writer.write for each client of S: only one that is there gets anything. *)
Write(S, msg) ==
  /\ out' = [c \in Clients |->
               IF c \in S /\ conn[c] = "open" THEN Append(out[c], msg)
               ELSE out[c]]
  /\ paused' = [c \in Clients |->
                  paused[c] \/ (c \in S /\ ~Closing(c) /\ Waits(c))]

\* Mutant: a periodic coroutine ends with its first round.
FinishOnce(task, known) ==
  /\ \A c \in task.todo : ~Waits(c)
  /\ Write(task.todo, task.msg)
  /\ clients' = known \ task.dead
  /\ IF task.more = <<>>
     THEN Schedule(<<>>)
     ELSE RunOn(Task(task.by, Diff(Head(task.more), NoRec), clients', Tail(task.more)))
  /\ UNCHANGED <<loop, waiting, smooth>>

(* No client makes the broadcast wait, so it ends in this callback.  The    *)
(* clients whose write failed are discarded; the reaper goes on to its next *)
(* removal, and a periodic coroutine with no more to do goes to sleep.      *)
Finish(task, known) ==
  /\ \A c \in task.todo : ~Waits(c)
  /\ Write(task.todo, task.msg)
  /\ clients' = known \ task.dead
  /\ IF task.more = <<>>
     THEN /\ Schedule(<<>>)
          /\ loop' = [l \in Loops |-> IF l = task.by THEN "asleep" ELSE loop[l]]
     ELSE /\ RunOn(Task(task.by, Diff(Head(task.more), NoRec), clients', Tail(task.more)))
          /\ UNCHANGED loop
  /\ UNCHANGED <<waiting, smooth>>

(* The set is iterated in no particular order, and c is the first client    *)
(* the broadcast has to wait for.                                           *)
Suspend(task, known, c) ==
  /\ c \in task.todo /\ Waits(c)
  /\ \E before \in SUBSET {b \in task.todo : ~Waits(b)} :
       LET rest == [task EXCEPT !.todo = @ \ (before \cup {c})]
       IN /\ Write(before \cup {c}, task.msg)
          /\ IF Closing(c)
             THEN /\ Schedule(<<Call("task", [rest EXCEPT !.dead = @ \cup {c}])>>)
                  /\ UNCHANGED waiting
             ELSE /\ Schedule(<<>>)
                  /\ waiting' = [waiting EXCEPT ![c] = Append(@, rest)]
  /\ clients' = known
  /\ smooth' = FALSE
  /\ UNCHANGED loop

(* _broadcast, from where the task stands, with these clients known. *)
Broadcast(task, known) ==
  /\ Finish(task, known) \/ \E c \in Clients : Suspend(task, known, c)
  /\ UNCHANGED <<conn, view>>

\* Mutant: the diff is made from the record before the event.
OnEventStale ==
  /\ Runs("udp")
  /\ LET s == Arg[1]
     IN \E named \in BOOLEAN :
          /\ LateNames \/ named
          /\ reg[s] # NoRec => (reg[s].named => named)
          /\ reg' = [reg EXCEPT ![s] =
                       IF Arg[2] = "remove" THEN NoRec
                       ELSE [ver |-> ops, named |-> named]]
          /\ Schedule(<<Call("diff", Diff(s, reg[s]))>>)
  /\ UNCHANGED <<ops, loop, clients, wires, smooth>>

(* on_event: the registry changes, and a task is made for the diff.         *)
OnEvent ==
  /\ Runs("udp")
  /\ LET s == Arg[1]
     IN \E named \in BOOLEAN :
          /\ LateNames \/ named
          /\ reg[s] # NoRec => (reg[s].named => named)
          /\ reg' = [reg EXCEPT ![s] =
                       IF Arg[2] = "remove" THEN NoRec
                       ELSE [ver |-> ops, named |-> named]]
          /\ Schedule(<<Call("diff", Diff(s, reg'[s]))>>)
  /\ UNCHANGED <<ops, loop, clients, wires, smooth>>

(* broadcast_diff, in the task on_event made. *)
OnDiff ==
  /\ Runs("diff")
  /\ Broadcast(Task("event", Arg, clients, <<>>), clients)
  /\ UNCHANGED registry

(* A broadcast that was suspended, or the reaper's next one. *)
OnTask ==
  /\ Runs("task")
  /\ Broadcast(Arg, clients)
  /\ UNCHANGED registry

\* Mutant: the client is known a turn before its snapshot is written.
OnServeLater ==
  /\ Runs("serve")
  /\ clients' = clients \cup {Arg}
  /\ Schedule(<<Call("task", Task("serve", Snapshot, {Arg}, <<>>))>>)
  /\ UNCHANGED <<registry, loop, wires, smooth>>

(* handle_client: the client is known from here on, and its snapshot is     *)
(* taken and written in the same step.                                      *)
OnServe ==
  /\ Runs("serve")
  /\ Broadcast(Task("serve", Snapshot, {Arg}, <<>>), clients \cup {Arg})
  /\ UNCHANGED registry

OnTimer ==
  /\ Runs("timer")
  /\ Schedule(<<Call(Arg, "round")>>)
  /\ UNCHANGED <<registry, loop, clients, wires, smooth>>

Tracked == {s \in Sids : reg[s] # NoRec}

\* Mutant: of the sessions reaped together one removal is broadcast.
OnReapOne ==
  /\ Runs("reap")
  /\ \E dead \in SUBSET Tracked : \E found \in SUBSET (Tracked \ dead) :
       /\ ops + Cardinality(dead) <= MaxOps
       /\ ops' = ops + Cardinality(dead)
       /\ reg' = [s \in Sids |->
                    IF s \in dead THEN NoRec
                    ELSE IF s \in found THEN [reg[s] EXCEPT !.named = TRUE]
                    ELSE reg[s]]
       /\ \E order \in SetToSeqs(dead) :
            Broadcast(Task("reap", NoRec, {}, SubSeq(order, 1, Min({1, Len(order)}))), clients)

(* reaper_loop: pending names are looked up, the dead leave the registry    *)
(* together, then one removal after the other is broadcast.                 *)
OnReap ==
  /\ Runs("reap")
  /\ \E dead \in SUBSET Tracked : \E found \in SUBSET (Tracked \ dead) :
       /\ ops + Cardinality(dead) <= MaxOps
       /\ ops' = ops + Cardinality(dead)
       /\ reg' = [s \in Sids |->
                    IF s \in dead THEN NoRec
                    ELSE IF s \in found THEN [reg[s] EXCEPT !.named = TRUE]
                    ELSE reg[s]]
       /\ \E order \in SetToSeqs(dead) :
            Broadcast(Task("reap", NoRec, {}, order), clients)

\* Mutant: the periodic snapshot goes to nobody.
OnSnapIdle ==
  /\ Runs("snap")
  /\ Broadcast(Task("snap", Snapshot, {}, <<>>), clients)
  /\ UNCHANGED registry

(* periodic_snapshot_loop: the registry as it is now goes to every client.  *)
OnSnap ==
  /\ Runs("snap")
  /\ Broadcast(Task("snap", Snapshot, clients, <<>>), clients)
  /\ UNCHANGED registry

(* The suspended broadcasts of a client are scheduled again, in order. *)
Wake(tasks) == [i \in DOMAIN tasks |-> Call("task", tasks[i])]

OnWritable ==
  /\ Runs("writable")
  /\ paused' = [paused EXCEPT ![Arg] = FALSE]
  /\ waiting' = [waiting EXCEPT ![Arg] = <<>>]
  /\ Schedule(Wake(waiting[Arg]))
  /\ UNCHANGED <<registry, loop, clients, conn, out, view, smooth>>

(* read() returns nothing to handle_client, which resumes next turn. *)
OnEof ==
  /\ Runs("eof")
  /\ Schedule(<<Call("cleanup", Arg)>>)
  /\ UNCHANGED <<registry, loop, clients, wires, smooth>>

(* handle_client's finally clause. *)
OnCleanup ==
  /\ Runs("cleanup")
  /\ clients' = clients \ {Arg}
  /\ IF conn[Arg] = "lost"
     THEN Schedule(<<>>) /\ UNCHANGED conn
     ELSE /\ Schedule(<<Call("lost", Arg)>>)
          /\ conn' = [conn EXCEPT ![Arg] = "closing"]
  /\ UNCHANGED <<registry, loop, out, paused, waiting, view, smooth>>

(* connection_lost: suspended writes fail, and handle_client's read ends.   *)
OnLost ==
  /\ Runs("lost")
  /\ conn' = [conn EXCEPT ![Arg] = "lost"]
  /\ waiting' = [waiting EXCEPT ![Arg] = <<>>]
  /\ Schedule(Wake([i \in DOMAIN waiting[Arg] |->
                      [waiting[Arg][i] EXCEPT !.dead = @ \cup {Arg}]])
              \o (IF Arg \in clients THEN <<Call("cleanup", Arg)>> ELSE <<>>))
  /\ UNCHANGED <<registry, loop, clients, out, paused, view, smooth>>

-----------------------------------------------------------------------------
(* The frontends *)

(* What a frontend's agents are after a message. *)
Applied(agents, msg) ==
  IF msg.type = "snapshot" THEN msg.agents
  ELSE IF agents = NoView THEN [[s \in Sids |-> NoRec] EXCEPT ![msg.sid] = msg.rec]
  ELSE [agents EXCEPT ![msg.sid] = msg.rec]

Deliver(c) ==
  /\ conn[c] = "open"
  /\ out[c] # <<>>
  /\ view' = [view EXCEPT ![c] = Applied(@, Head(out[c]))]
  /\ out' = [out EXCEPT ![c] = Tail(@)]
  /\ UNCHANGED <<registry, turn, loop, clients, conn, paused, waiting, smooth>>

HangUp(c) ==
  /\ c \in Leavers
  /\ conn[c] = "open"
  /\ conn' = [conn EXCEPT ![c] = "gone"]
  /\ out' = [out EXCEPT ![c] = <<>>]
  /\ view' = [view EXCEPT ![c] = NoView]
  /\ UNCHANGED <<registry, turn, loop, clients, paused, waiting, smooth>>

-----------------------------------------------------------------------------
Init ==
  /\ reg \in [Sids -> {NoRec, [ver |-> 0, named |-> TRUE]}] /\ ops = 0
  /\ phase = "select" /\ ready = <<>> /\ next = <<>>
  /\ loop = [l \in Loops |-> "asleep"]
  /\ clients = {}
  /\ conn = [c \in Clients |-> "none"]
  /\ out = [c \in Clients |-> <<>>]
  /\ paused = [c \in Clients |-> FALSE]
  /\ waiting = [c \in Clients |-> <<>>]
  /\ view = [c \in Clients |-> NoView]
  /\ smooth = TRUE

Polls ==
  \/ \E s \in Sids, op \in {"upsert", "remove"} : UdpReadable(s, op)
  \/ \E c \in Clients : Accept(c)

Notices ==
  \E c \in Clients :
    \/ Writable(c)
    \/ \E do \in {"eof", "lost"} : HungUp(c, do)

Turns ==
  \/ \E due \in Dues : TurnStarts(due)
  \/ OnEvent \/ OnDiff \/ OnTask \/ OnServe
  \/ OnTimer \/ OnReap \/ OnSnap
  \/ OnWritable \/ OnEof \/ OnCleanup \/ OnLost

Next ==
  \/ Polls \/ Notices \/ Turns
  \/ \E c \in Clients : Deliver(c) \/ HangUp(c)

Spec == Init /\ [][Next]_vars

(* The loop keeps turning, and a sleep of seconds ends in some turn.        *)
LoopFairness ==
  /\ WF_vars(Turns)
  /\ WF_vars(Notices)
  /\ \A l \in Loops : SF_vars(\E due \in Dues : l \in Range(due) /\ TurnStarts(due))

(* Every frontend reads its socket: NetClient's thread does nothing else.   *)
FairSpec == Spec /\ LoopFairness /\ \A c \in Clients : WF_vars(Deliver(c))

(* A frontend may stay connected without reading, as a stopped process does.*)
StallSpec == Spec /\ LoopFairness

-----------------------------------------------------------------------------
(* Properties *)

Message ==
  [type : {"snapshot"}, agents : View]
    \cup [type : {"diff"}, sid : Sids, rec : Rec \cup {NoRec}]

(* Every variable has its type. *)
TypeOK ==
  /\ reg \in View
  /\ ops \in 0..MaxOps
  /\ phase \in {"select", "run"}
  /\ loop \in [Loops -> {"asleep", "busy"}]
  /\ clients \subseteq Clients
  /\ conn \in [Clients -> {"none", "open", "gone", "closing", "lost"}]
  /\ \A c \in Clients :
       /\ out[c] \in Seq(Message)
       /\ \A i \in DOMAIN waiting[c] :
            waiting[c][i].by \in Loops \cup {"event", "serve"}
  /\ paused \in [Clients -> BOOLEAN]
  /\ view \in [Clients -> View \cup {NoView}]
  /\ smooth \in BOOLEAN

Calls == Range(ready) \cup Range(next)

(* A diff is encoded when its task starts, from a record that later events  *)
(* change in place, yet it always tells what its own event did: no event,   *)
(* and no sweep, gets between on_event and the task it made.                *)
DiffIsFresh ==
  \A call \in Calls :
    call.do = "diff" =>
      LET rec == reg[call.arg.sid]
      IN rec = call.arg.rec

(* A frontend never sees a diff before its first snapshot: the client is    *)
(* known before its snapshot is written, but nothing runs in between.       *)
SnapshotFirst ==
  \A c \in Clients :
    conn[c] = "open" /\ view[c] = NoView /\ out[c] # <<>> =>
      Head(out[c]).type = "snapshot"

Versions(agents) == {<<s, agents[s].ver>> : s \in {t \in Sids : agents[t] # NoRec}}

(* As long as no broadcast ever had to wait for a client, diffs alone keep  *)
(* every frontend in step: with no broadcast left to run, a frontend that   *)
(* has read all that was written to it has every session in the registry's  *)
(* latest version and no other, whatever the order of events, connections,  *)
(* sweeps and snapshots was.                                                *)
MirroredWhenQuiet ==
  smooth /\ (\A call \in Calls : call.do \notin {"diff", "task"}) =>
    \A c \in clients :
      conn[c] = "open" =>
        Versions(FoldLeft(Applied, view[c], out[c])) = Versions(reg)

(* Once the registry stops changing, every frontend still connected ends up *)
(* with a copy of it, names included, and keeps it: whatever was overtaken, *)
(* held up or never sent as a diff, the periodic snapshots put right.       *)
EventuallyMirrored ==
  <>[](\A c \in Clients : conn[c] = "open" => view[c] = reg)

(* The docstring of reaper.py: the sweep runs on a plain timer.  A round of *)
(* it ends, so that the next one comes.                                     *)
SweepsGoOn == loop["reap"] = "busy" ~> loop["reap"] = "asleep"
=============================================================================
