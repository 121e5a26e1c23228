--------------------------- MODULE TimelineProofs ---------------------------
(***************************************************************************)
(* Theorems of SessionTimeline: what the record shows under any stream, of  *)
(* any length, with any number of subagents.                                *)
(***************************************************************************)
EXTENDS SessionTimeline, StateMachineProofs, SequenceTheorems

(* LabelFitsState, of a record.                                             *)
Fits(r) ==
  /\ r.state = "idle" => r.label = Plain("Idle")
  /\ r.state = "asking" => r.label[1] = "Awaiting approval"

(* Only a known session has subagents, and while they nest it is not idle.  *)
Busy ==
  /\ rec = NoRecord => open = <<>>
  /\ rec # NoRecord /\ nested /\ open # <<>> => rec.state # "idle"

Sound == TypeOK /\ Busy /\ StackMirrorsOpen /\ SinceCoversState /\ LabelFitsState

-----------------------------------------------------------------------------
(* What a hook makes of a record: of its stack, and of the clock.           *)
LEMMA TransitionKinds ==
  ASSUME NEW r \in Record, NEW ev \in Event, NEW t \in Nat
  PROVE  LET out == Transition(r, ev, t)
             n   == Len(r.stack)
         IN  /\ ev.name = "SubagentStart" =>
                  /\ out.stack = Append(r.stack, r.label)
                  /\ out.state = "working" /\ out.since = t
             /\ ev.name = "SubagentStop" =>
                  /\ out.state = r.state /\ out.since = t
                  /\ n # 0 => out.stack = SubSeq(r.stack, 1, n - 1)
             /\ ev.name \notin {"SubagentStart", "SubagentStop"} =>
                  /\ out.stack = r.stack
                  /\ out.since = t \/ (out.since = r.since /\ out.state = r.state)
                  /\ Fits(r) => Fits(out)
                  /\ ev.name \notin TurnHooks /\ r.state # "idle" => out.state # "idle"
<1>. DEFINE out == Transition(r, ev, t)
<1>1. CASE ev.name = "SubagentStart"
  <2>1. out = Enter(PushLabel(r), ev, t)
    BY <1>1 DEF Transition
  <2>. QED
    BY <1>1, <2>1 DEF Enter, PushLabel, StateOn, Record
<1>2. CASE ev.name = "SubagentStop"
  <2>1. out = PopLabel(r, t)
    BY <1>2 DEF Transition, StateOn
  <2>2. out.state = r.state /\ out.since = t
    BY <2>1 DEF PopLabel, Record
  <2>3. Len(r.stack) # 0 => out.stack = SubSeq(r.stack, 1, Len(r.stack) - 1)
    BY <2>1 DEF PopLabel, Record
  <2>. QED
    BY <1>2, <2>2, <2>3
<1>3. CASE ev.name = "PostToolUse"
  <2>1. out = ToolDone(r, t)
    BY <1>3 DEF Transition, StateOn
  <2>2. CASE r.state = "working"
    BY <1>3, <2>1, <2>2 DEF ToolDone
  <2>3. CASE r.state # "working"
    <3>1. out.state = "working" /\ out.since = t /\ out.stack = r.stack
      BY <2>1, <2>3 DEF ToolDone, Record
    <3>. QED
      BY <1>3, <3>1 DEF Fits
  <2>. QED
    BY <2>2, <2>3
<1>4. CASE ev.name \in DOMAIN StateOn \ {"SubagentStart"}
  <2>1. out = Enter(r, ev, t)
    BY <1>4 DEF Transition, StateOn
  <2>2. /\ out.stack = r.stack /\ out.since = t
        /\ out.state = StateOn[ev.name] /\ out.label = LabelOn(ev)
    BY <2>1 DEF Enter, Record
  <2>3. StateOn[ev.name] = "idle" => ev.name \in TurnHooks /\ LabelOn(ev) = Plain("Idle")
    <3>1. StateOn[ev.name] = "idle" => ev.name \in {"SessionStart", "Stop"}
      BY <1>4 DEF StateOn
    <3>2. ev.name \in {"SessionStart", "Stop"} => LabelOn(ev) = Plain("Idle")
      BY DEF LabelOn
    <3>. QED
      BY <3>1, <3>2 DEF TurnHooks
  <2>4. StateOn[ev.name] = "asking" => LabelOn(ev)[1] = "Awaiting approval"
    <3>1. StateOn[ev.name] = "asking" => ev.name = "PermissionRequest"
      BY <1>4 DEF StateOn
    <3>2. ev.name = "PermissionRequest" =>
            LabelOn(ev) = <<"Awaiting approval", OrElse(ev.tool, "tool")>>
      BY DEF LabelOn
    <3>3. \A x : <<"Awaiting approval", x>>[1] = "Awaiting approval"
      OBVIOUS
    <3>. QED
      BY <3>1, <3>2, <3>3
  <2>. QED
    BY <1>4, <2>2, <2>3, <2>4 DEF Fits, StateOn
<1>5. CASE ev.name \notin DOMAIN StateOn \cup {"SubagentStop", "PostToolUse"}
  <2>1. out = r
    BY <1>5 DEF Transition, StateOn
  <2>. QED
    BY <1>5, <2>1 DEF StateOn
<1>. QED
  BY <1>1, <1>2, <1>3, <1>4, <1>5 DEF StateOn

(* The record a hook is applied to: the session's, or a fresh one.          *)
Base(old, ev, t) == IF old = NoRecord THEN Fresh(ev, t) ELSE Known(old, ev)

(* It is a record, fresh and idle or the session's in all but its cwd.       *)
LEMMA BaseKinds ==
  ASSUME NEW old \in Record \cup {NoRecord}, NEW ev \in Event, NEW t \in Nat
  PROVE  LET r == Base(old, ev, t)
         IN  /\ r \in Record
             /\ old = NoRecord => r.stack = <<>> /\ r.since = t /\ r.label = Plain("Idle")
                                    /\ Fits(r)
             /\ old # NoRecord => /\ r.stack = old.stack /\ r.since = old.since
                                  /\ r.label = old.label /\ r.state = old.state
<1>1. CASE old = NoRecord
  <2>1. Plain("Idle") \in Label
    BY LiteralsAreStrings DEF Plain, Label
  <2>2. <<>> \in Seq(Label)
    OBVIOUS
  <2>. QED
    BY <1>1, <2>1, <2>2 DEF Base, Fresh, Record, Event, States, Fits
<1>2. CASE old # NoRecord
  <2>1. OrElse(ev.cwd, old.cwd) \in STRING
    BY <1>2 DEF OrElse, Event, Record
  <2>2. Known(old, ev) = [old EXCEPT !.cwd = OrElse(ev.cwd, old.cwd)]
    BY DEF Known
  <2>3. old \in Record /\ Base(old, ev, t) = Known(old, ev)
    BY <1>2 DEF Base
  <2>4. Known(old, ev) \in Record
    BY <2>1, <2>2, <2>3 DEF Record
  <2>5. \A x \in {"stack", "since", "label", "state"} : Known(old, ev)[x] = old[x]
    BY <2>2, <2>3 DEF Record
  <2>. QED
    BY <1>2, <2>3, <2>4, <2>5
<1>. QED
  BY <1>1, <1>2

(* Fits carries over from a record to the one a hook is applied to.         *)
LEMMA BaseFits ==
  ASSUME NEW old \in Record \cup {NoRecord}, NEW ev \in Event, NEW t \in Nat,
         old # NoRecord => Fits(old)
  PROVE  Fits(Base(old, ev, t))
<1>. DEFINE b == Base(old, ev, t)
<1>1. old = NoRecord => Fits(b)
  BY BaseKinds
<1>2. old # NoRecord => b.state = old.state /\ b.label = old.label
  BY BaseKinds
<1>. HIDE DEF b
<1>3. Fits(b)
  BY <1>1, <1>2 DEF Fits
<1>. QED
  BY <1>3 DEF b

(* apply_event is the transition of that record, but for SessionEnd.        *)
LEMMA AppliedToBase ==
  ASSUME NEW old, NEW ev, NEW t, ev.name # "SessionEnd"
  PROVE  ApplyEvent(old, ev, t).rec = Transition(Base(old, ev, t), ev, t)
BY DEF ApplyEvent, Base

(* An event of the stream.                                                  *)
EventWith(name, cwd, tool, agent) ==
  [name |-> name, cwd |-> cwd, tool |-> tool, agent |-> agent]

(* The events of the stream are events.                                     *)
LEMMA StreamEvents ==
  ASSUME NEW cwd \in Cwds
  PROVE  /\ \A name \in OtherHooks, tool \in Tools :
              EventWith(name, cwd, tool, "") \in Event
         /\ \A id \in Agents :
              /\ EventWith("SubagentStart", cwd, "", id) \in Event
              /\ EventWith("SubagentStop", cwd, "", id) \in Event
         /\ EventWith("SessionEnd", cwd, "", "") \in Event
<1>1. OtherHooks \subseteq STRING /\ Cwds \subseteq STRING /\ "" \in STRING
  BY LiteralsAreStrings DEF OtherHooks, Cwds
<1>2. {"SubagentStart", "SubagentStop", "SessionEnd"} \subseteq STRING
  BY LiteralsAreStrings DEF TargetHookEvents
<1>. QED
  BY <1>1, <1>2, StreamAssumption DEF EventWith, Event

-----------------------------------------------------------------------------
(* What Apply leaves of the variables it assigns, whatever the event: their *)
(* types, and state_since no earlier than the state.                        *)
LEMMA AppliedRecord ==
  ASSUME Sound, NEW name, NEW cwd, NEW tool, NEW agent,
         EventWith(name, cwd, tool, agent) \in Event,
         Apply(name, cwd, tool, agent)
  PROVE  /\ rec' \in Record \cup {NoRecord}
         /\ name = "SessionEnd" <=> rec' = NoRecord
         /\ op' \in {"upsert", "remove", "noop"}
         /\ now' \in 0..MaxEvents /\ held' \in 0..now'
         /\ SinceCoversState'
<1>. DEFINE ev == EventWith(name, cwd, tool, agent)
            t  == now + 1
            b  == Base(rec, ev, t)
            out == ApplyEvent(rec, ev, t)
<1>1. /\ now < MaxEvents /\ now' = t /\ rec' = out.rec /\ op' = out.op
      /\ held' = IF rec = NoRecord \/ out.rec = NoRecord THEN t
                 ELSE IF out.rec.state = rec.state THEN held ELSE t
  BY DEF Apply, EventWith
<1>2. /\ rec \in Record \cup {NoRecord} /\ now \in 0..MaxEvents /\ held \in 0..now
      /\ rec # NoRecord => held <= rec.since /\ rec.since <= now
  BY DEF Sound, TypeOK, SinceCoversState
<1>3. ev \in Event /\ ev.name = name /\ t \in Nat /\ MaxEvents \in Nat
  BY <1>2, StreamAssumption DEF EventWith
<1>. HIDE DEF ev
<1>4. /\ name = "SessionEnd" => out.rec = NoRecord /\ out.op = "remove"
      /\ name # "SessionEnd" => out.rec \in Record /\ out.op \in {"upsert", "noop"}
  BY <1>2, <1>3, ApplyEventType
<1>5. out.rec # NoRecord <=> name # "SessionEnd"
  BY <1>4, NoRecordAssumption
<1>6. ASSUME name # "SessionEnd"
      PROVE  \/ out.rec.since = t
             \/ rec # NoRecord /\ out.rec.since = rec.since /\ out.rec.state = rec.state
  <2>1. b \in Record
    BY <1>2, <1>3, BaseKinds
  <2>2. out.rec = Transition(b, ev, t)
    BY <1>3, <1>6, AppliedToBase
  <2>. HIDE DEF b
  <2>3. \/ out.rec.since = t
        \/ out.rec.since = b.since /\ out.rec.state = b.state
    BY <1>3, <2>1, <2>2, TransitionKinds
  <2>4. \/ b.since = t
        \/ rec # NoRecord /\ b.since = rec.since /\ b.state = rec.state
    BY <1>2, <1>3, BaseKinds DEF b
  <2>. QED
    BY <2>3, <2>4
<1>. HIDE DEF out
<1>7. held' \in 0..now'
  BY <1>1, <1>2, <1>3
<1>8. SinceCoversState'
  <2>1. CASE name = "SessionEnd"
    BY <1>1, <1>5, <2>1 DEF SinceCoversState
  <2>2. CASE name # "SessionEnd" /\ out.rec.since = t
    BY <1>1, <1>7, <2>2, <1>3 DEF SinceCoversState
  <2>3. CASE /\ name # "SessionEnd" /\ rec # NoRecord
             /\ out.rec.since = rec.since /\ out.rec.state = rec.state
    <3>1. held' = held /\ rec'.since = rec.since /\ now' = now + 1
      BY <1>1, <1>5, <2>3
    <3>2. rec.since \in Nat
      BY <1>2, <2>3 DEF Record
    <3>. QED
      BY <1>2, <2>3, <3>1, <3>2 DEF SinceCoversState
  <2>. QED
    BY <1>6, <2>1, <2>2, <2>3
<1>. QED
  BY <1>1, <1>2, <1>3, <1>4, <1>5, <1>7, <1>8

(* The labels of the running subagents.                                     *)
LabelsOf(agents) == [i \in DOMAIN agents |-> agents[i].label]

(* Of none, there are none.                                                 *)
LEMMA LabelsOfNone == LabelsOf(<<>>) = <<>>
<1>1. DOMAIN LabelsOf(<<>>) = {}
  BY DEF LabelsOf
<1>2. LabelsOf(<<>>) = [i \in {} |-> <<>>[i].label]
  BY DEF LabelsOf
<1>. QED
  BY <1>2

Agent == [id : Agents, label : Label]

(* Each running subagent has one.                                           *)
LEMMA LabelsOfType ==
  ASSUME NEW agents \in Seq(Agent)
  PROVE  LabelsOf(agents) \in Seq(Label) /\ Len(LabelsOf(agents)) = Len(agents)
<1>. DEFINE n == Len(agents)
<1>1. n \in Nat /\ DOMAIN agents = 1..n /\ \A i \in 1..n : agents[i] \in Agent
  OBVIOUS
<1>2. \A i \in 1..n : agents[i].label \in Label
  BY <1>1 DEF Agent
<1>3. LabelsOf(agents) = [i \in 1..n |-> agents[i].label]
  BY <1>1 DEF LabelsOf
<1>. HIDE DEF n
<1>4. LabelsOf(agents) \in [1..n -> Label]
  BY <1>2, <1>3
<1>5. LabelsOf(agents) \in Seq(Label) /\ Len(LabelsOf(agents)) = n
  BY <1>1, <1>4
<1>. QED
  BY <1>5 DEF n

(* One more subagent is one more label, at the end.                         *)
LEMMA LabelsOfMore ==
  ASSUME NEW agents \in Seq(Agent), NEW a \in Agent
  PROVE  LabelsOf(Append(agents, a)) = Append(LabelsOf(agents), a.label)
<1>. DEFINE n == Len(agents)
            l == LabelsOf(agents)
            m == Append(agents, a)
<1>1. n \in Nat /\ DOMAIN agents = 1..n
  OBVIOUS
<1>2. l \in Seq(Label) /\ Len(l) = n
  BY LabelsOfType
<1>3. /\ DOMAIN m = 1..n + 1
      /\ \A i \in 1..n : m[i] = agents[i]
      /\ m[n + 1] = a
  BY <1>1
<1>4. a.label \in Label
  BY DEF Agent
<1>5. /\ Append(l, a.label) = [i \in 1..n + 1 |-> IF i <= n THEN l[i] ELSE a.label]
  BY <1>1, <1>2, <1>4
<1>6. \A i \in 1..n : l[i] = agents[i].label
  BY <1>1 DEF LabelsOf
<1>7. LabelsOf(m) = [i \in 1..n + 1 |-> m[i].label]
  BY <1>3 DEF LabelsOf
<1>. HIDE DEF l, m, n
<1>8. \A i \in 1..n + 1 : m[i].label = IF i <= n THEN l[i] ELSE a.label
  BY <1>1, <1>3, <1>6
<1>9. LabelsOf(m) = Append(l, a.label)
  BY <1>5, <1>7, <1>8
<1>. QED
  BY <1>9 DEF l, m

(* Without the last subagent, they are those before it.                     *)
LEMMA LabelsOfLess ==
  ASSUME NEW agents \in Seq(Agent), Len(agents) # 0
  PROVE  LET n == Len(agents)
         IN  /\ RemoveAt(agents, n) \in Seq(Agent)
             /\ LabelsOf(RemoveAt(agents, n)) = SubSeq(LabelsOf(agents), 1, n - 1)
             /\ Len(LabelsOf(agents)) = n
<1>. DEFINE n == Len(agents)
            l == LabelsOf(agents)
            f == SubSeq(agents, 1, n - 1)
<1>1. n \in Nat /\ n # 0 /\ DOMAIN agents = 1..n
  OBVIOUS
<1>2. l \in Seq(Label) /\ Len(l) = n
  BY LabelsOfType
<1>3. f \in Seq(Agent) /\ Len(f) = n - 1 /\ \A i \in 1..n - 1 : f[i] = agents[i]
  BY <1>1
<1>4. SubSeq(agents, n + 1, n) = <<>>
  BY <1>1, SubSeqEmpty
<1>5. RemoveAt(agents, n) = f
  <2>1. f \o <<>> = f
    BY <1>3
  <2>. QED
    BY <1>4, <2>1 DEF RemoveAt
<1>6. SubSeq(l, 1, n - 1) = [i \in 1..n - 1 |-> l[i]]
  BY <1>1, <1>2
<1>7. LabelsOf(f) = [i \in 1..n - 1 |-> f[i].label]
  BY <1>1, <1>3 DEF LabelsOf
<1>8. \A i \in 1..n - 1 : l[i] = f[i].label
  BY <1>1, <1>3 DEF LabelsOf
<1>. HIDE DEF l, f
<1>9. LabelsOf(f) = SubSeq(l, 1, n - 1)
  BY <1>6, <1>7, <1>8
<1>. QED
  BY <1>2, <1>3, <1>5, <1>9 DEF l

-----------------------------------------------------------------------------
(* A hook that starts or stops no subagent leaves the stack, and no other   *)
(* than that of a turn makes a busy session idle.                           *)
LEMMA OtherStep ==
  ASSUME Sound, NEW cwd \in Cwds, NEW name \in OtherHooks, NEW tool \in Tools,
         Other(name, cwd, tool)
  PROVE  Sound'
<1>. DEFINE ev == EventWith(name, cwd, tool, "")
            t  == now + 1
            b  == Base(rec, ev, t)
<1>1. Apply(name, cwd, tool, "") /\ open' = open /\ outer' = outer
      /\ nested' = (nested /\ (name \in TurnHooks => open = <<>>))
  BY DEF Other
<1>2. ev \in Event /\ ev.name = name
  BY StreamEvents DEF EventWith
<1>3. /\ name \notin {"SessionEnd", "SubagentStart", "SubagentStop"}
  BY DEF OtherHooks
<1>4. /\ rec' \in Record /\ rec' # NoRecord
      /\ op' \in {"upsert", "remove", "noop"}
      /\ now' \in 0..MaxEvents /\ held' \in 0..now' /\ SinceCoversState'
  BY <1>1, <1>2, <1>3, AppliedRecord, NoRecordAssumption
<1>5. /\ rec \in Record \cup {NoRecord} /\ t \in Nat
      /\ open \in Seq([id : Agents, label : Label]) /\ nested \in BOOLEAN
      /\ rec = NoRecord => open = <<>>
  BY DEF Sound, TypeOK, Busy
<1>6. rec' = Transition(b, ev, t)
  <2>1. rec' = ApplyEvent(rec, ev, t).rec
    BY <1>1 DEF Apply, EventWith
  <2>. QED
    BY <1>2, <1>3, <2>1, AppliedToBase
<1>7. /\ b \in Record
      /\ rec = NoRecord => b.stack = <<>>
      /\ rec # NoRecord => b.stack = rec.stack /\ b.state = rec.state
  BY <1>2, <1>5, BaseKinds
<1>8. rec # NoRecord /\ nested => Fits(rec)
  BY DEF Sound, LabelFitsState, Fits
<1>9. nested => Fits(b)
  <2>1. CASE rec = NoRecord
    BY <1>2, <1>5, <2>1, BaseFits
  <2>2. CASE rec # NoRecord
    BY <1>2, <1>5, <1>8, <2>2, BaseFits
  <2>. QED
    BY <2>1, <2>2
<1>. HIDE DEF b, ev, t
<1>10. /\ rec'.stack = b.stack
       /\ Fits(b) => Fits(rec')
       /\ name \notin TurnHooks /\ b.state # "idle" => rec'.state # "idle"
  BY <1>2, <1>3, <1>5, <1>6, <1>7, TransitionKinds
<1>11. TypeOK'
  BY <1>1, <1>4, <1>5 DEF Sound, TypeOK
<1>12. Busy'
  BY <1>1, <1>4, <1>5, <1>7, <1>10 DEF Sound, Busy
<1>13. StackMirrorsOpen'
  <2>1. CASE rec = NoRecord
    <3>1. rec'.stack = <<>> /\ open' = <<>>
      BY <1>1, <1>5, <1>7, <1>10, <2>1
    <3>. QED
      BY <3>1, LabelsOfNone DEF StackMirrorsOpen, LabelsOf
  <2>2. CASE rec # NoRecord
    BY <1>1, <1>7, <1>10, <2>2 DEF Sound, StackMirrorsOpen, LabelsOf
  <2>. QED
    BY <2>1, <2>2
<1>14. LabelFitsState'
  BY <1>1, <1>9, <1>10 DEF LabelFitsState, Fits
<1>. QED
  BY <1>4, <1>11, <1>12, <1>13, <1>14 DEF Sound

(* The end of the session: nothing is left of it.                           *)
LEMMA EndStep ==
  ASSUME Sound, NEW cwd \in Cwds, SessionEnd(cwd)
  PROVE  Sound'
<1>1. Apply("SessionEnd", cwd, "", "") /\ open' = <<>> /\ outer' = outer /\ nested' = TRUE
  BY DEF SessionEnd
<1>2. EventWith("SessionEnd", cwd, "", "") \in Event
  BY StreamEvents
<1>3. /\ rec' = NoRecord
      /\ op' \in {"upsert", "remove", "noop"}
      /\ now' \in 0..MaxEvents /\ held' \in 0..now' /\ SinceCoversState'
  BY <1>1, <1>2, AppliedRecord
<1>4. <<>> \in Seq([id : Agents, label : Label])
  OBVIOUS
<1>. QED
  BY <1>1, <1>3, <1>4
     DEF Sound, TypeOK, Busy, StackMirrorsOpen, LabelFitsState

(* A subagent's start saves the label shown.                                *)
LEMMA StartStep ==
  ASSUME Sound, NEW cwd \in Cwds, NEW id \in Agents, SubagentStart(id, cwd)
  PROVE  Sound'
<1>. DEFINE ev == EventWith("SubagentStart", cwd, "", id)
            t  == now + 1
            b  == Base(rec, ev, t)
            a  == [id |-> id, label |-> Shown]
<1>1. /\ Apply("SubagentStart", cwd, "", id)
      /\ open' = Append(open, a) /\ nested' = nested
      /\ outer' = IF open = <<>> THEN Shown ELSE outer
  BY DEF SubagentStart
<1>2. ev \in Event /\ ev.name = "SubagentStart"
  BY StreamEvents DEF EventWith
<1>3. /\ rec' \in Record /\ rec' # NoRecord
      /\ op' \in {"upsert", "remove", "noop"}
      /\ now' \in 0..MaxEvents /\ held' \in 0..now' /\ SinceCoversState'
  BY <1>1, <1>2, AppliedRecord, NoRecordAssumption
<1>4. /\ rec \in Record \cup {NoRecord} /\ t \in Nat
      /\ open \in Seq(Agent) /\ outer \in Label /\ nested \in BOOLEAN
      /\ rec = NoRecord => open = <<>>
      /\ rec # NoRecord /\ nested => rec.stack = LabelsOf(open)
  BY DEF Sound, TypeOK, Busy, Agent, StackMirrorsOpen, LabelsOf
<1>5. rec' = Transition(b, ev, t)
  <2>1. rec' = ApplyEvent(rec, ev, t).rec
    BY <1>1 DEF Apply, EventWith
  <2>. QED
    BY <1>2, <2>1, AppliedToBase
<1>6. /\ b \in Record
      /\ rec = NoRecord => b.stack = <<>> /\ b.label = Plain("Idle")
      /\ rec # NoRecord => b.stack = rec.stack /\ b.label = rec.label
  BY <1>2, <1>4, BaseKinds
<1>7. b.label = Shown
  BY <1>6 DEF Shown
<1>8. a \in Agent /\ Shown \in Label
  BY <1>6, <1>7 DEF Agent, Record
<1>. HIDE DEF b, ev, t
<1>9. rec'.stack = Append(b.stack, b.label) /\ rec'.state = "working"
  BY <1>2, <1>4, <1>5, <1>6, TransitionKinds
<1>10. open' \in Seq(Agent)
  <2>. HIDE DEF a
  <2>. QED
    BY <1>1, <1>4, <1>8, AppendProperties
<1>11. TypeOK'
  BY <1>1, <1>3, <1>4, <1>8, <1>10 DEF TypeOK, Agent
<1>12. StackMirrorsOpen'
  <2>1. nested => b.stack = LabelsOf(open)
    BY <1>4, <1>6, LabelsOfNone
  <2>2. a.label = Shown
    OBVIOUS
  <2>. HIDE DEF a
  <2>3. LabelsOf(open') = Append(LabelsOf(open), Shown)
    BY <1>1, <1>4, <1>8, <2>2, LabelsOfMore
  <2>4. nested => rec'.stack = LabelsOf(open')
    BY <1>7, <1>9, <2>1, <2>3
  <2>. QED
    BY <1>1, <2>4 DEF StackMirrorsOpen, LabelsOf
<1>13. Busy' /\ LabelFitsState'
  BY <1>3, <1>9 DEF Busy, LabelFitsState
<1>. QED
  BY <1>3, <1>11, <1>12, <1>13 DEF Sound

(* A subagent's stop; the last one's puts its label back, where the session *)
(* is neither idle nor asking.                                              *)
LEMMA StopStep ==
  ASSUME Sound, NEW cwd \in Cwds, NEW i, SubagentStop(i, cwd)
  PROVE  Sound'
<1>. DEFINE id == open[i].id
            ev == EventWith("SubagentStop", cwd, "", id)
            t  == now + 1
            b  == Base(rec, ev, t)
            n  == Len(open)
<1>1. /\ Apply("SubagentStop", cwd, "", id) /\ i \in DOMAIN open
      /\ open' = RemoveAt(open, i) /\ outer' = outer
      /\ nested' = (nested /\ i = n /\ rec.state # "asking")
  BY DEF SubagentStop
<1>2. /\ rec \in Record \cup {NoRecord} /\ t \in Nat
      /\ open \in Seq(Agent) /\ outer \in Label /\ nested \in BOOLEAN
      /\ rec = NoRecord => open = <<>>
      /\ rec # NoRecord /\ nested /\ open # <<>> => rec.state # "idle"
      /\ rec # NoRecord /\ nested => rec.stack = LabelsOf(open)
  BY DEF Sound, TypeOK, Busy, Agent, StackMirrorsOpen, LabelsOf
<1>3. /\ n \in Nat /\ i \in 1..n /\ open # <<>> /\ rec # NoRecord /\ rec \in Record
      /\ open[i] \in Agent
  <2>1. n \in Nat /\ DOMAIN open = 1..n /\ \A j \in 1..n : open[j] \in Agent
    BY <1>2
  <2>2. i \in 1..n
    BY <1>1, <2>1
  <2>3. open # <<>>
    <3>. SUFFICES ASSUME open = <<>> PROVE FALSE
      OBVIOUS
    <3>1. n = 0
      OBVIOUS
    <3>. HIDE DEF n
    <3>. QED
      BY <2>2, <3>1
  <2>. QED
    BY <1>2, <2>1, <2>2, <2>3
<1>4. ev \in Event /\ ev.name = "SubagentStop"
  <2>1. id \in Agents
    BY <1>3 DEF Agent
  <2>. QED
    BY <2>1, StreamEvents DEF EventWith
<1>5. /\ rec' \in Record /\ rec' # NoRecord
      /\ op' \in {"upsert", "remove", "noop"}
      /\ now' \in 0..MaxEvents /\ held' \in 0..now' /\ SinceCoversState'
  BY <1>1, <1>4, AppliedRecord, NoRecordAssumption
<1>6. rec' = Transition(b, ev, t)
  <2>1. rec' = ApplyEvent(rec, ev, t).rec
    BY <1>1 DEF Apply, EventWith
  <2>. QED
    BY <1>4, <2>1, AppliedToBase
<1>7. b \in Record /\ b.stack = rec.stack /\ b.state = rec.state
  BY <1>2, <1>3, <1>4, BaseKinds
<1>. HIDE DEF b, ev, t
<1>8. /\ rec'.state = rec.state
      /\ Len(rec.stack) # 0 => rec'.stack = SubSeq(rec.stack, 1, Len(rec.stack) - 1)
  BY <1>2, <1>4, <1>6, <1>7, TransitionKinds
<1>9. open' \in Seq(Agent)
  <2>1. /\ \A j \in 1..i - 1 : open[j] \in Agent
        /\ \A j \in i + 1..n : open[j] \in Agent
    BY <1>2, <1>3
  <2>2. SubSeq(open, 1, i - 1) \in Seq(Agent) /\ SubSeq(open, i + 1, n) \in Seq(Agent)
    BY <1>3, <2>1, SubSeqProperties
  <2>3. RemoveAt(open, i) = SubSeq(open, 1, i - 1) \o SubSeq(open, i + 1, n)
    BY DEF RemoveAt
  <2>4. RemoveAt(open, i) \in Seq(Agent)
    BY <2>2, <2>3, ConcatProperties
  <2>. QED
    BY <1>1, <2>4
<1>10. TypeOK'
  BY <1>1, <1>2, <1>5, <1>9 DEF TypeOK, Agent
<1>11. ASSUME nested' PROVE rec'.stack = LabelsOf(open') /\ rec'.state \notin {"idle", "asking"}
  <2>1. i = n /\ nested /\ rec.state \notin {"idle", "asking"}
    BY <1>1, <1>2, <1>3, <1>11
  <2>2. n # 0 /\ rec.stack = LabelsOf(open)
    BY <1>2, <1>3, <2>1
  <2>3. /\ LabelsOf(RemoveAt(open, n)) = SubSeq(LabelsOf(open), 1, n - 1)
        /\ Len(LabelsOf(open)) = n
    BY <1>2, <2>2, LabelsOfLess
  <2>. QED
    BY <1>1, <1>8, <2>1, <2>2, <2>3
<1>12. StackMirrorsOpen' /\ Busy' /\ LabelFitsState'
  BY <1>5, <1>11 DEF StackMirrorsOpen, LabelsOf, Busy, LabelFitsState
<1>. QED
  BY <1>5, <1>10, <1>12 DEF Sound

-----------------------------------------------------------------------------
(* Nothing is known of the session at first.                                *)
LEMMA InitSound == Init => Sound
<1>1. Plain("") \in Label
  BY LiteralsAreStrings DEF Plain, Label
<1>2. <<>> \in Seq([id : Agents, label : Label])
  OBVIOUS
<1>. SUFFICES ASSUME Init PROVE Sound
  OBVIOUS
<1>3. TypeOK
  <2>1. rec = NoRecord /\ op = "none" /\ nested = TRUE
    BY DEF Init
  <2>2. open \in Seq([id : Agents, label : Label]) /\ outer \in Label
    BY <1>1, <1>2 DEF Init
  <2>3. now \in 0..MaxEvents /\ held \in 0..now
    <3>1. now = 0 /\ held = 0
      BY DEF Init
    <3>2. 0 \in 0..MaxEvents /\ 0 \in 0..0
      BY StreamAssumption
    <3>. QED
      BY <3>1, <3>2
  <2>. QED
    BY <2>1, <2>2, <2>3 DEF TypeOK
<1>. QED
  BY <1>3 DEF Init, Sound, Busy, StackMirrorsOpen, SinceCoversState, LabelFitsState

(* Every hook keeps it.                                                     *)
LEMMA SoundStep == Sound /\ [Next]_vars => Sound'
<1>. SUFFICES ASSUME Sound, [Next]_vars PROVE Sound'
  OBVIOUS
<1>1. ASSUME NEW cwd \in Cwds, NEW name \in OtherHooks, NEW tool \in Tools,
             Other(name, cwd, tool)
      PROVE  Sound'
  BY <1>1, OtherStep
<1>2. ASSUME NEW cwd \in Cwds, NEW id \in Agents, SubagentStart(id, cwd) PROVE Sound'
  BY <1>2, StartStep
<1>3. ASSUME NEW cwd \in Cwds, NEW i \in 1..Cardinality(Agents), SubagentStop(i, cwd)
      PROVE  Sound'
  BY <1>3, StopStep
<1>4. ASSUME NEW cwd \in Cwds, SessionEnd(cwd) PROVE Sound'
  BY <1>4, EndStep
<1>5. CASE UNCHANGED vars
  BY <1>5 DEF vars, Sound, TypeOK, Busy, StackMirrorsOpen, SinceCoversState, LabelFitsState
<1>. QED
  BY <1>1, <1>2, <1>3, <1>4, <1>5 DEF Next

(* However long the stream is, how many subagents run and how they overlap: *)
(* the record is one the frontend can show, and its clock is not older than *)
(* its state.                                                               *)
THEOREM TimelineSound == Spec => [](TypeOK /\ SinceCoversState)
<1>1. Sound => TypeOK /\ SinceCoversState
  BY DEF Sound
<1>. QED
  BY <1>1, InitSound, SoundStep, PTL DEF Spec

(* Whatever comes, the record stays one of a session. *)
THEOREM TypeCorrect == Spec => []TypeOK
  BY TimelineSound, PTL

(* As long as subagents nest, however deep, label_stack holds what the      *)
(* parent showed when each of them started.                                 *)
THEOREM TimelineMirrors == Spec => []StackMirrorsOpen
<1>1. Sound => StackMirrorsOpen
  BY DEF Sound
<1>. QED
  BY <1>1, InitSound, SoundStep, PTL DEF Spec

(* As long as subagents nest, an idle or asking session is labelled so.     *)
THEOREM TimelineFits == Spec => []LabelFitsState
<1>1. Sound => LabelFitsState
  BY DEF Sound
<1>. QED
  BY <1>1, InitSound, SoundStep, PTL DEF Spec

-----------------------------------------------------------------------------
(* The labels that come back.                                               *)

(* The stack has a label per running subagent, the outer one at the bottom. *)
OuterAtBottom ==
  rec # NoRecord =>
    /\ Len(rec.stack) = Len(open)
    /\ open # <<>> => rec.stack[1] = outer

(* No subagent is started again while it runs.                              *)
Distinct == nested => \A i, j \in DOMAIN open : open[i].id = open[j].id => i = j

Whole == Sound /\ OuterAtBottom /\ Distinct

(* A hook's stream, and the record it is applied to.                        *)
LEMMA AppliedTransition ==
  ASSUME Sound, NEW name, NEW cwd, NEW tool, NEW agent, name # "SessionEnd",
         EventWith(name, cwd, tool, agent) \in Event,
         Apply(name, cwd, tool, agent)
  PROVE  /\ rec' # NoRecord
         /\ name = "SubagentStart" =>
              rec'.stack = IF rec = NoRecord THEN <<Shown>> ELSE Append(rec.stack, Shown)
         /\ name = "SubagentStop" /\ rec # NoRecord /\ Len(rec.stack) # 0 =>
              /\ rec'.stack = SubSeq(rec.stack, 1, Len(rec.stack) - 1)
              /\ rec'.label = rec.stack[Len(rec.stack)]
         /\ name \notin {"SubagentStart", "SubagentStop"} =>
              rec'.stack = IF rec = NoRecord THEN <<>> ELSE rec.stack
<1>. DEFINE ev == EventWith(name, cwd, tool, agent)
            t  == now + 1
            b  == Base(rec, ev, t)
<1>1. rec \in Record \cup {NoRecord} /\ t \in Nat
  BY DEF Sound, TypeOK
<1>2. ev \in Event /\ ev.name = name
  BY DEF EventWith
<1>3. rec' = Transition(b, ev, t)
  <2>1. rec' = ApplyEvent(rec, ev, t).rec
    BY DEF Apply, EventWith
  <2>. QED
    BY <1>2, <2>1, AppliedToBase
<1>4. rec' # NoRecord
  BY <1>2, AppliedRecord
<1>5. /\ b \in Record
      /\ rec = NoRecord => b.stack = <<>> /\ b.label = Plain("Idle")
      /\ rec # NoRecord => b.stack = rec.stack /\ b.label = rec.label
  BY <1>1, <1>2, BaseKinds
<1>6. b.label = Shown
  BY <1>5 DEF Shown
<1>. HIDE DEF b, ev, t
<1>7. /\ name = "SubagentStart" => rec'.stack = Append(b.stack, b.label)
      /\ name \notin {"SubagentStart", "SubagentStop"} => rec'.stack = b.stack
  BY <1>1, <1>2, <1>3, <1>5, TransitionKinds
<1>8. ASSUME name = "SubagentStop", Len(b.stack) # 0
      PROVE  /\ rec'.stack = SubSeq(b.stack, 1, Len(b.stack) - 1)
             /\ rec'.label = b.stack[Len(b.stack)]
  <2>1. rec' = PopLabel(b, t)
    BY <1>2, <1>3, <1>8 DEF Transition, StateOn
  <2>. QED
    BY <1>5, <1>8, <2>1 DEF PopLabel, Record
<1>. QED
  <2>1. Append(<<>>, Shown) = <<Shown>>
    OBVIOUS
  <2>2. rec = NoRecord \/ rec # NoRecord
    OBVIOUS
  <2>3. CASE name = "SubagentStart"
    BY <1>4, <1>5, <1>6, <1>7, <2>1, <2>3
  <2>4. CASE name = "SubagentStop"
    BY <1>4, <1>5, <1>8, <2>4
  <2>5. CASE name \notin {"SubagentStart", "SubagentStop"}
    BY <1>4, <1>5, <1>7, <2>5
  <2>. QED
    BY <2>3, <2>4, <2>5

(* One of the running subagents less: the others stay in their order.       *)
LEMMA OneLess ==
  ASSUME NEW agents \in Seq(Agent), NEW i \in DOMAIN agents
  PROVE  /\ RemoveAt(agents, i) \in Seq(Agent)
         /\ Len(RemoveAt(agents, i)) = Len(agents) - 1
         /\ \A k \in 1..Len(agents) - 1 :
              RemoveAt(agents, i)[k] = IF k < i THEN agents[k] ELSE agents[k + 1]
<1>. DEFINE n == Len(agents)
            p == SubSeq(agents, 1, i - 1)
            q == SubSeq(agents, i + 1, n)
<1>1. n \in Nat /\ i \in 1..n /\ \A j \in 1..n : agents[j] \in Agent
  OBVIOUS
<1>2. p \in Seq(Agent) /\ Len(p) = i - 1 /\ \A k \in 1..i - 1 : p[k] = agents[k]
  BY <1>1
<1>3. q \in Seq(Agent) /\ Len(q) = n - i /\ \A k \in 1..n - i : q[k] = agents[i + k]
  <2>1. \A j \in i + 1..n : agents[j] \in Agent
    BY <1>1
  <2>2. /\ q \in Seq(Agent) /\ Len(q) = IF i + 1 <= n THEN n - (i + 1) + 1 ELSE 0
        /\ \A k \in 1..n - (i + 1) + 1 : q[k] = agents[i + 1 + k - 1]
    BY <1>1, <2>1, SubSeqProperties
  <2>. QED
    BY <1>1, <2>2
<1>4. RemoveAt(agents, i) = p \o q
  BY DEF RemoveAt
<1>. HIDE DEF p, q, n
<1>5. /\ p \o q \in Seq(Agent) /\ Len(p \o q) = Len(p) + Len(q)
      /\ \A k \in 1..Len(p) + Len(q) :
           (p \o q)[k] = IF k <= Len(p) THEN p[k] ELSE q[k - Len(p)]
  BY <1>2, <1>3, ConcatProperties
<1>6. ASSUME NEW k \in 1..n - 1
      PROVE  (p \o q)[k] = IF k < i THEN agents[k] ELSE agents[k + 1]
  <2>1. k \in 1..Len(p) + Len(q)
    BY <1>1, <1>2, <1>3
  <2>2. CASE k < i
    BY <1>1, <1>2, <1>5, <2>1, <2>2
  <2>3. CASE k >= i
    <3>1. k - Len(p) \in 1..n - i /\ i + (k - Len(p)) = k + 1
      BY <1>1, <1>2, <2>3
    <3>2. q[k - Len(p)] = agents[k + 1]
      <4>1. q[k - Len(p)] = agents[i + (k - Len(p))]
        BY <1>3, <3>1
      <4>. QED
        BY <3>1, <4>1
    <3>3. (p \o q)[k] = q[k - Len(p)]
      BY <1>1, <1>2, <1>5, <2>1, <2>3
    <3>4. ~(k < i)
      BY <1>1, <2>3
    <3>. QED
      BY <3>2, <3>3, <3>4
  <2>4. k < i \/ k >= i
    BY <1>1
  <2>. QED
    BY <2>2, <2>3, <2>4
<1>7. Len(p \o q) = n - 1
  BY <1>1, <1>2, <1>3, <1>5
<1>8. /\ RemoveAt(agents, i) \in Seq(Agent) /\ Len(RemoveAt(agents, i)) = n - 1
      /\ \A k \in 1..n - 1 :
           RemoveAt(agents, i)[k] = IF k < i THEN agents[k] ELSE agents[k + 1]
  BY <1>4, <1>5, <1>6, <1>7
<1>. QED
  BY <1>8 DEF n

(* A stop finds a label on the stack for each running subagent, and takes   *)
(* the last.                                                                *)
LEMMA StopTakesLast ==
  ASSUME Whole, NEW cwd \in Cwds, NEW i, SubagentStop(i, cwd)
  PROVE  /\ open \in Seq(Agent) /\ Len(open) \in Nat \ {0} /\ i \in DOMAIN open
         /\ open' = RemoveAt(open, i) /\ outer' = outer
         /\ rec \in Record /\ rec # NoRecord /\ rec.stack \in Seq(Label)
         /\ Len(rec.stack) = Len(open) /\ rec.stack[1] = outer
         /\ rec'.stack = SubSeq(rec.stack, 1, Len(open) - 1)
         /\ rec'.label = rec.stack[Len(open)]
<1>1. /\ Apply("SubagentStop", cwd, "", open[i].id) /\ i \in DOMAIN open
      /\ open' = RemoveAt(open, i) /\ outer' = outer
  BY DEF SubagentStop
<1>2. /\ Sound /\ OuterAtBottom
      /\ rec \in Record \cup {NoRecord} /\ open \in Seq(Agent)
      /\ rec = NoRecord => open = <<>>
  BY DEF Whole, Sound, TypeOK, Busy, Agent
<1>3. Len(open) \in Nat \ {0} /\ open # <<>> /\ open[i] \in Agent
  <2>1. Len(open) \in Nat /\ DOMAIN open = 1..Len(open)
        /\ \A j \in 1..Len(open) : open[j] \in Agent
    BY <1>2
  <2>2. Len(open) # 0
    <3>. SUFFICES ASSUME Len(open) = 0 PROVE FALSE
      OBVIOUS
    <3>1. i \in 1..0
      BY <1>1, <2>1
    <3>. QED
      BY <3>1
  <2>3. Len(<<>>) = 0
    OBVIOUS
  <2>. QED
    BY <1>1, <2>1, <2>2, <2>3
<1>4. /\ rec \in Record /\ rec # NoRecord /\ rec.stack \in Seq(Label)
      /\ Len(rec.stack) = Len(open) /\ rec.stack[1] = outer
  BY <1>2, <1>3 DEF OuterAtBottom, Record
<1>5. EventWith("SubagentStop", cwd, "", open[i].id) \in Event
  BY <1>3, StreamEvents DEF Agent
<1>6. /\ rec'.stack = SubSeq(rec.stack, 1, Len(rec.stack) - 1)
      /\ rec'.label = rec.stack[Len(rec.stack)]
  BY <1>1, <1>2, <1>3, <1>4, <1>5, AppliedTransition
<1>. QED
  BY <1>1, <1>2, <1>3, <1>4, <1>6

(* A start puts what is shown on the stack.                                 *)
LEMMA StartPuts ==
  ASSUME Whole, NEW cwd \in Cwds, NEW id \in Agents, SubagentStart(id, cwd)
  PROVE  OuterAtBottom' /\ Distinct' /\ Len(open') = Len(open) + 1
<1>. DEFINE a == [id |-> id, label |-> Shown]
<1>1. /\ Apply("SubagentStart", cwd, "", id)
      /\ open' = Append(open, a) /\ nested' = nested
      /\ outer' = IF open = <<>> THEN Shown ELSE outer
      /\ \A i \in DOMAIN open : open[i].id # id
  BY DEF SubagentStart, Running
<1>2. /\ Sound /\ OuterAtBottom /\ Distinct
      /\ rec \in Record \cup {NoRecord} /\ open \in Seq(Agent)
      /\ rec = NoRecord => open = <<>>
  BY DEF Whole, Sound, TypeOK, Busy, Agent
<1>3. EventWith("SubagentStart", cwd, "", id) \in Event
  BY StreamEvents
<1>4. rec'.stack = IF rec = NoRecord THEN <<Shown>> ELSE Append(rec.stack, Shown)
  BY <1>1, <1>2, <1>3, AppliedTransition
<1>5. /\ Len(open) \in Nat /\ DOMAIN open = 1..Len(open)
      /\ Len(open') = Len(open) + 1
      /\ \A i \in 1..Len(open) : open'[i] = open[i]
      /\ open'[Len(open) + 1] = a
      /\ DOMAIN open' = 1..Len(open) + 1
      /\ open = <<>> <=> Len(open) = 0
  <2>1. a \in Agent
    <3>1. Shown \in Label
      BY <1>2, LiteralsAreStrings DEF Shown, Record, Plain, Label
    <3>. QED
      BY <3>1 DEF Agent
  <2>2. Len(open) \in Nat /\ DOMAIN open = 1..Len(open) /\ (open = <<>> <=> Len(open) = 0)
    BY <1>2
  <2>. HIDE DEF a
  <2>3. /\ Append(open, a) \in Seq(Agent)
        /\ Len(Append(open, a)) = Len(open) + 1
        /\ \A i \in 1..Len(open) : Append(open, a)[i] = open[i]
        /\ Append(open, a)[Len(open) + 1] = a
    BY <1>2, <2>1, AppendProperties
  <2>4. DOMAIN Append(open, a) = 1..Len(open) + 1
    BY <2>3
  <2>. QED
    BY <1>1, <2>2, <2>3, <2>4
<1>6. OuterAtBottom'
  <2>1. CASE rec = NoRecord
    <3>1. rec'.stack = <<Shown>> /\ outer' = Shown /\ Len(open) = 0
      BY <1>1, <1>2, <1>4, <1>5, <2>1
    <3>2. Len(<<Shown>>) = 1 /\ <<Shown>>[1] = Shown
      OBVIOUS
    <3>. QED
      BY <1>5, <3>1, <3>2 DEF OuterAtBottom
  <2>2. CASE rec # NoRecord
    <3>1. /\ rec.stack \in Seq(Label) /\ Shown \in Label /\ Len(rec.stack) = Len(open)
          /\ rec'.stack = Append(rec.stack, Shown)
      BY <1>2, <1>4, <2>2 DEF Record, Shown, OuterAtBottom
    <3>2. /\ Len(rec'.stack) = Len(open) + 1
          /\ Len(open) = 0 => rec'.stack[1] = Shown
          /\ Len(open) # 0 => rec'.stack[1] = rec.stack[1]
      BY <1>5, <3>1
    <3>3. open # <<>> => rec.stack[1] = outer
      BY <1>2, <2>2 DEF OuterAtBottom
    <3>. QED
      BY <1>1, <1>5, <3>2, <3>3 DEF OuterAtBottom
  <2>. QED
    BY <2>1, <2>2
<1>7. Distinct'
  <2>. SUFFICES ASSUME nested, NEW i \in 1..Len(open) + 1, NEW j \in 1..Len(open) + 1,
                       open'[i].id = open'[j].id
                PROVE  i = j
    BY <1>1, <1>5 DEF Distinct
  <2>1. \A k \in 1..Len(open) : open'[k].id = open[k].id /\ open[k].id # id
    BY <1>1, <1>5
  <2>2. open'[Len(open) + 1].id = id
    BY <1>5
  <2>3. \A k, l \in 1..Len(open) : open[k].id = open[l].id => k = l
    BY <1>2, <1>5 DEF Distinct
  <2>4. \A k \in 1..Len(open) + 1 : k \in 1..Len(open) \/ k = Len(open) + 1
    BY <1>5
  <2>. QED
    BY <2>1, <2>2, <2>3, <2>4
<1>. QED
  BY <1>5, <1>6, <1>7

(* A stop takes one label from the top and one subagent from anywhere.      *)
LEMMA StopKeeps ==
  ASSUME Whole, NEW cwd \in Cwds, NEW i, SubagentStop(i, cwd)
  PROVE  OuterAtBottom' /\ Distinct'
<1>. DEFINE n == Len(open)
<1>1. /\ open \in Seq(Agent) /\ n \in Nat \ {0} /\ i \in DOMAIN open
      /\ open' = RemoveAt(open, i) /\ outer' = outer
      /\ rec.stack \in Seq(Label) /\ Len(rec.stack) = n /\ rec.stack[1] = outer
      /\ rec'.stack = SubSeq(rec.stack, 1, n - 1)
  BY StopTakesLast
<1>2. /\ open' \in Seq(Agent) /\ Len(open') = n - 1
      /\ \A k \in 1..n - 1 : open'[k] = IF k < i THEN open[k] ELSE open[k + 1]
  BY <1>1, OneLess
<1>3. OuterAtBottom'
  <2>1. Len(rec'.stack) = n - 1 /\ \A k \in 1..n - 1 : rec'.stack[k] = rec.stack[k]
    <3>. HIDE DEF n
    <3>1. \A k \in 1..n - 1 : rec.stack[k] \in Label
      BY <1>1
    <3>2. /\ Len(SubSeq(rec.stack, 1, n - 1)) = IF 1 <= n - 1 THEN n - 1 - 1 + 1 ELSE 0
          /\ \A k \in 1..n - 1 - 1 + 1 : SubSeq(rec.stack, 1, n - 1)[k] = rec.stack[1 + k - 1]
      BY <1>1, <3>1, SubSeqProperties
    <3>3. \A k \in 1..n - 1 : k \in 1..n - 1 - 1 + 1 /\ 1 + k - 1 = k
      BY <1>1
    <3>. QED
      BY <1>1, <3>2, <3>3
  <2>2. open' # <<>> => n - 1 # 0
    BY <1>2, EmptySeq
  <2>3. n - 1 # 0 => 1 \in 1..n - 1
    <3>1. n \in Nat \ {0}
      BY <1>1
    <3>. HIDE DEF n
    <3>. QED
      BY <3>1
  <2>. QED
    BY <1>1, <1>2, <2>1, <2>2, <2>3 DEF OuterAtBottom
<1>4. Distinct'
  <2>. SUFFICES ASSUME nested', NEW j \in DOMAIN open', NEW k \in DOMAIN open',
                       open'[j].id = open'[k].id
                PROVE  j = k
    BY DEF Distinct
  <2>1. nested /\ i = n
    BY DEF SubagentStop
  <2>2. DOMAIN open' = 1..n - 1
    BY <1>2
  <2>3. ASSUME NEW l \in 1..n - 1 PROVE open'[l] = open[l] /\ l \in DOMAIN open
    <3>1. l < n /\ DOMAIN open = 1..n
      BY <1>1
    <3>2. l < i
      BY <2>1, <3>1
    <3>. QED
      BY <1>2, <3>1, <3>2
  <2>4. \A l, m \in DOMAIN open : open[l].id = open[m].id => l = m
    BY <2>1 DEF Whole, Distinct
  <2>. QED
    BY <2>2, <2>3, <2>4
<1>. QED
  BY <1>3, <1>4

(* No other hook touches the stack.                                         *)
LEMMA OtherKeeps ==
  ASSUME Whole, NEW cwd \in Cwds, NEW name \in OtherHooks, NEW tool \in Tools,
         Other(name, cwd, tool)
  PROVE  OuterAtBottom' /\ Distinct'
<1>1. /\ Apply(name, cwd, tool, "") /\ open' = open /\ outer' = outer
      /\ nested' => nested
      /\ name \notin {"SessionEnd", "SubagentStart", "SubagentStop"}
  BY DEF Other, OtherHooks
<1>2. /\ Sound /\ OuterAtBottom /\ Distinct
      /\ rec = NoRecord => open = <<>>
  BY DEF Whole, Sound, Busy
<1>3. EventWith(name, cwd, tool, "") \in Event
  BY StreamEvents
<1>4. rec'.stack = IF rec = NoRecord THEN <<>> ELSE rec.stack
  BY <1>1, <1>2, <1>3, AppliedTransition
<1>5. Len(<<>>) = 0
  OBVIOUS
<1>. QED
  BY <1>1, <1>2, <1>4, <1>5 DEF OuterAtBottom, Distinct

(* Every step keeps what the label stack rests on.                          *)
LEMMA WholeStep == Whole /\ [Next]_vars => Whole'
<1>. SUFFICES ASSUME Whole, [Next]_vars PROVE OuterAtBottom' /\ Distinct'
  BY SoundStep DEF Whole
<1>1. ASSUME NEW cwd \in Cwds, NEW name \in OtherHooks, NEW tool \in Tools,
             Other(name, cwd, tool)
      PROVE  OuterAtBottom' /\ Distinct'
  BY <1>1, OtherKeeps
<1>2. ASSUME NEW cwd \in Cwds, NEW id \in Agents, SubagentStart(id, cwd)
      PROVE  OuterAtBottom' /\ Distinct'
  BY <1>2, StartPuts
<1>3. ASSUME NEW cwd \in Cwds, NEW i \in 1..Cardinality(Agents), SubagentStop(i, cwd)
      PROVE  OuterAtBottom' /\ Distinct'
  BY <1>3, StopKeeps
<1>4. ASSUME NEW cwd \in Cwds, SessionEnd(cwd) PROVE OuterAtBottom' /\ Distinct'
  <2>1. rec' = NoRecord /\ open' = <<>>
    BY <1>4 DEF SessionEnd, Apply, ApplyEvent
  <2>. QED
    BY <2>1 DEF OuterAtBottom, Distinct
<1>5. CASE UNCHANGED vars
  BY <1>5 DEF vars, Whole, OuterAtBottom, Distinct
<1>. QED
  BY <1>1, <1>2, <1>3, <1>4, <1>5 DEF Next

(* At first nothing runs.                                                   *)
LEMMA InitWhole == Init => Whole
<1>1. Init => rec = NoRecord /\ open = <<>>
  BY DEF Init
<1>2. DOMAIN <<>> = {}
  OBVIOUS
<1>. QED
  BY <1>1, <1>2, InitSound DEF Whole, OuterAtBottom, Distinct

(* One subagent fewer, and the session still known: one has stopped.        *)
LEMMA FewerIsAStop ==
  ASSUME Whole, [Next]_vars, Len(open') < Len(open), op' = "upsert"
  PROVE  \E cwd \in Cwds : \E i \in 1..Cardinality(Agents) : SubagentStop(i, cwd)
<1>1. Len(open) \in Nat
  BY DEF Whole, Sound, TypeOK
<1>2. ASSUME NEW cwd \in Cwds, NEW name \in OtherHooks, NEW tool \in Tools,
             Other(name, cwd, tool)
      PROVE  FALSE
  <2>1. Len(open') = Len(open)
    BY <1>2 DEF Other
  <2>. QED
    BY <1>1, <2>1
<1>3. ASSUME NEW cwd \in Cwds, NEW id \in Agents, SubagentStart(id, cwd) PROVE FALSE
  BY <1>1, <1>3, StartPuts
<1>4. ASSUME NEW cwd \in Cwds, SessionEnd(cwd) PROVE FALSE
  <2>1. op' = "remove"
    BY <1>4 DEF SessionEnd, Apply, ApplyEvent
  <2>. QED
    BY <2>1
<1>5. CASE UNCHANGED vars
  BY <1>1, <1>5 DEF vars
<1>. QED
  BY <1>2, <1>3, <1>4, <1>5 DEF Next

(* However many subagents overlap and in whatever order they stop: with the *)
(* last of them the label shown before the first is back and none is left.  *)
THEOREM OuterKept == Spec => OuterLabelKept
<1>1. ASSUME Whole, [Next]_vars, Len(open) = 1, open' = <<>>, op' = "upsert"
      PROVE  rec'.label = outer /\ rec'.stack = <<>>
  <2>1. PICK cwd \in Cwds, i \in 1..Cardinality(Agents) : SubagentStop(i, cwd)
    <3>1. Len(open') < Len(open)
      BY <1>1
    <3>. QED
      BY <1>1, <3>1, FewerIsAStop
  <2>2. /\ rec.stack \in Seq(Label) /\ rec.stack[1] = outer
        /\ rec'.stack = SubSeq(rec.stack, 1, 0) /\ rec'.label = rec.stack[1]
    BY <1>1, <2>1, StopTakesLast
  <2>3. SubSeq(rec.stack, 1, 0) = <<>>
    BY <2>2
  <2>. QED
    BY <2>2, <2>3
<1>. QED
  BY <1>1, InitWhole, WholeStep, PTL DEF Spec, OuterLabelKept

(* As long as subagents nest, each gets back the label it started with.     *)
THEOREM RestoredInTurn == Spec => RestoredWhenNested
<1>1. ASSUME Whole, [Next]_vars, nested', NEW i \in DOMAIN open, op' = "upsert",
             open' = RemoveAt(open, i)
      PROVE  rec'.label = open[i].label
  <2>. DEFINE n == Len(open)
  <2>1. open \in Seq(Agent) /\ n \in Nat /\ DOMAIN open = 1..n
    BY <1>1 DEF Whole, Sound, TypeOK, Agent
  <2>2. Len(open') = n - 1
    BY <1>1, <2>1, OneLess
  <2>3. PICK cwd \in Cwds, j \in 1..Cardinality(Agents) : SubagentStop(j, cwd)
    BY <1>1, <2>1, <2>2, FewerIsAStop
  <2>4. /\ j = n /\ nested /\ n \in DOMAIN open /\ open' = RemoveAt(open, n)
        /\ rec # NoRecord /\ rec'.label = rec.stack[n]
    BY <1>1, <2>3, StopTakesLast DEF SubagentStop
  <2>5. rec'.label = open[n].label
    BY <1>1, <2>4 DEF Whole, Sound, StackMirrorsOpen
  <2>6. i = n
    <3>. SUFFICES ASSUME i # n PROVE FALSE
      OBVIOUS
    <3>1. i \in 1..n - 1 /\ i < n /\ ~(i < i) /\ i + 1 \in DOMAIN open /\ i + 1 # i
      BY <2>1
    <3>2. open'[i] = open[i + 1]
      BY <1>1, <2>1, <3>1, OneLess
    <3>3. open'[i] = open[i]
      BY <2>1, <2>4, <3>1, OneLess
    <3>. QED
      BY <1>1, <2>4, <3>1, <3>2, <3>3 DEF Whole, Distinct
  <2>. QED
    BY <2>5, <2>6
<1>2. Whole /\ [Next]_vars => (nested' => \A i \in DOMAIN open : Restored(i))
  BY <1>1 DEF Restored
<1>. QED
  BY <1>2, InitWhole, WholeStep, PTL DEF Spec, RestoredWhenNested
=============================================================================
