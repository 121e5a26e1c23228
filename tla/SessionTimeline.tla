--------------------------- MODULE SessionTimeline ---------------------------
(***************************************************************************)
(* One session's stream of hook events, none lost and none reordered,       *)
(* folded by StateMachine!ApplyEvent.  What is modelled here of Claude Code *)
(* is only what the stream may be: subagents are started and stopped, and   *)
(* between those the other hooks come in any order.                         *)
(*                                                                          *)
(* A stream is nested as long as it is what the label stack was written     *)
(* for: a subagent stops before the one that was running when it started, a *)
(* turn starts and stops with no subagent running, and a subagent does not  *)
(* stop while an approval is awaited.  Other streams have subagents that    *)
(* overlap, as parallel Task calls do.                                      *)
(***************************************************************************)
EXTENDS StateMachine, SequencesExt

CONSTANTS
  MaxEvents,  \* Bound on the length of the stream.
  Tools,      \* Tool names the events carry ("" is none).
  Agents      \* Ids of subagents; the hook carries it as its agent type.

ASSUME StreamAssumption ==
  /\ MaxEvents \in Nat
  /\ Tools \subseteq STRING
  /\ Agents \subseteq STRING

VARIABLES
  rec,    \* The daemon's record of the session, or NoRecord.
  op,     \* What apply_event returned for the last event.
  now,    \* The time: every event has an instant of its own.
  open,   \* Ghost: the running subagents, oldest first, each with the label
          \* the parent showed when it started.
  outer,  \* Ghost: the label shown when the oldest subagent run began, with
          \* none running.
  held,   \* Ghost: when the record's state last became what it is.
  nested  \* Ghost: whether the session's stream has been nested so far.

vars == <<rec, op, now, open, outer, held, nested>>

Running == {open[i].id : i \in DOMAIN open}

OtherHooks ==
  (TargetHookEvents \cup {"Notification"})
    \ {"SessionEnd", "SubagentStart", "SubagentStop"}

TurnHooks == {"SessionStart", "UserPromptSubmit", "Stop"}

Init ==
  /\ rec = NoRecord /\ op = "none" /\ now = 0
  /\ open = <<>> /\ outer = Plain("") /\ held = 0 /\ nested = TRUE

(* The daemon applies one event at the next instant. *)
Apply(name, cwd, tool, agent) ==
  LET ev  == [name |-> name, cwd |-> cwd, tool |-> tool, agent |-> agent]
      out == ApplyEvent(rec, ev, now + 1)
  IN /\ now < MaxEvents
     /\ now' = now + 1
     /\ rec' = out.rec
     /\ op' = out.op
     /\ held' = IF rec = NoRecord \/ out.rec = NoRecord THEN now + 1
                ELSE IF out.rec.state = rec.state THEN held ELSE now + 1

Other(name, cwd, tool) ==
  /\ Apply(name, cwd, tool, "")
  /\ nested' = (nested /\ (name \in TurnHooks => open = <<>>))
  /\ UNCHANGED <<open, outer>>

Shown == IF rec = NoRecord THEN Plain("Idle") ELSE rec.label

SubagentStart(id, cwd) ==
  /\ id \notin Running
  /\ Apply("SubagentStart", cwd, "", id)
  /\ open' = Append(open, [id |-> id, label |-> Shown])
  /\ outer' = IF open = <<>> THEN Shown ELSE outer
  /\ UNCHANGED nested

SubagentStop(i, cwd) ==
  /\ i \in DOMAIN open
  /\ Apply("SubagentStop", cwd, "", open[i].id)
  /\ nested' = (nested /\ i = Len(open) /\ rec.state # "asking")
  /\ open' = RemoveAt(open, i)
  /\ UNCHANGED outer

SessionEnd(cwd) ==
  /\ rec # NoRecord
  /\ Apply("SessionEnd", cwd, "", "")
  /\ open' = <<>>
  /\ nested' = TRUE
  /\ UNCHANGED outer

Cwds == {"", "home"}

Next ==
  \E cwd \in Cwds :
    \/ \E name \in OtherHooks, tool \in Tools : Other(name, cwd, tool)
    \/ \E id \in Agents : SubagentStart(id, cwd)
    \/ \E i \in 1..Cardinality(Agents) : SubagentStop(i, cwd)
    \/ SessionEnd(cwd)

Spec == Init /\ [][Next]_vars

-----------------------------------------------------------------------------
(* Properties *)

(* Every variable has its type: a record is a whole AgentRecord in one of   *)
(* the four states.                                                         *)
TypeOK ==
  /\ rec \in Record \cup {NoRecord}
  /\ op \in {"none", "upsert", "remove", "noop"}
  /\ now \in 0..MaxEvents
  /\ open \in Seq([id : Agents, label : Label])
  /\ outer \in Label
  /\ held \in 0..now
  /\ nested \in BOOLEAN

(* As long as subagents nest, record.label_stack is the list of labels      *)
(* the parent showed when each running subagent started: nothing else the   *)
(* session does pushes, pops or rewrites it.                                *)
StackMirrorsOpen ==
  rec # NoRecord /\ nested => rec.stack = [i \in DOMAIN open |-> open[i].label]

Restored(i) ==
  op' = "upsert" /\ open' = RemoveAt(open, i) => rec'.label = open[i].label

(* The module's docstring: the parent's prior label is restored exactly     *)
(* once the subagent finishes, whatever happened while it ran.              *)
RestoredExactly == [][\A i \in DOMAIN open : Restored(i)]_vars

(* It is, as long as subagents nest.                                        *)
RestoredWhenNested == [][nested' => \A i \in DOMAIN open : Restored(i)]_vars

(* Even when subagents overlap and stop in any order, the stop that leaves  *)
(* none running brings back the label shown before the first of them: no    *)
(* label is lost and none is left over.                                     *)
OuterLabelKept ==
  [][Len(open) = 1 /\ open' = <<>> /\ op' = "upsert" =>
       rec'.label = outer /\ rec'.stack = <<>>]_vars

(* state_since never predates the state it is reported with: every hook     *)
(* that changes the state restarts the clock, and PostToolUse, which may    *)
(* keep both, never keeps only the clock.                                   *)
SinceCoversState ==
  rec # NoRecord => held <= rec.since /\ rec.since <= now

(* An agent shown idle is labelled so, and one shown asking says for what:  *)
(* as long as subagents nest, a label put back by the end of one never lands *)
(* on another state.                                                        *)
LabelFitsState ==
  rec # NoRecord /\ nested =>
    /\ rec.state = "idle" => rec.label = Plain("Idle")
    /\ rec.state = "asking" => rec.label[1] = "Awaiting approval"
=============================================================================
