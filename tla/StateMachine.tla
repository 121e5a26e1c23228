---------------------------- MODULE StateMachine ----------------------------
(***************************************************************************)
(* daemon/state_machine.py: the pure transition of one agent's record       *)
(* under one hook event.  The module has no variables; SessionTimeline      *)
(* folds ApplyEvent over one session's stream and Registry applies it to    *)
(* every session the daemon tracks.                                         *)
(*                                                                          *)
(* A missing tool name, agent type or cwd (None or "") is the string "".    *)
(* A label is its fixed text with its argument.  Of AgentRecord the fields  *)
(* project_name, entrypoint, agent_kind and parent_session_id are left out: *)
(* they are written once from the fields kept here and nothing branches on  *)
(* them.                                                                    *)
(***************************************************************************)
EXTENDS Integers, Sequences

CONSTANTS
  Pids,      \* Operating-system process ids.
  NoPid,     \* A record's pid before its session file was found.
  NoRecord   \* A session the daemon does not track.

ASSUME NoPidAssumption == NoPid \notin Pids

States == {"idle", "working", "asking", "error"}

(* The hooks the installer registers (TARGET_HOOK_EVENTS). *)
TargetHookEvents ==
  { "SessionStart", "SessionEnd", "UserPromptSubmit", "PreToolUse",
    "PostToolUse", "PostToolUseFailure", "PermissionRequest", "Stop",
    "StopFailure", "SubagentStart", "SubagentStop" }

Label == STRING \X STRING

Record == [ cwd : STRING, state : States, label : Label, since : Nat,
            stack : Seq(Label), pid : Pids \cup {NoPid} ]

Event == [ name : STRING, cwd : STRING, tool : STRING, agent : STRING ]

ASSUME NoRecordAssumption == NoRecord \notin Record

(* The provers do not know it of a literal. *)
ASSUME LiteralsAreStrings ==
  /\ TargetHookEvents \subseteq STRING
  /\ { "", "Idle", "Working", "Using", "Processing prompt", "Tool error",
       "Awaiting approval", "Session error (API failure)", "Working: subagent",
       "Bash Execution", "Reading File", "Editing File", "Searching",
       "Web Research", "Delegating to subagent", "unknown", "tool", "agent",
       "home", "Notification" } \subseteq STRING

-----------------------------------------------------------------------------
(* Labels *)

ToolLabels ==
  [ Bash |-> "Bash Execution", Read |-> "Reading File",
    Write |-> "Editing File", Edit |-> "Editing File",
    Grep |-> "Searching", Glob |-> "Searching",
    WebFetch |-> "Web Research", WebSearch |-> "Web Research",
    Task |-> "Delegating to subagent" ]

Plain(text) == <<text, "">>

OrElse(value, default) == IF value = "" THEN default ELSE value

LabelForTool(tool) ==
  IF tool = "" THEN Plain("Working")
  ELSE IF tool \in DOMAIN ToolLabels THEN Plain(ToolLabels[tool])
  ELSE <<"Using", tool>>

(* The hooks that put the session in a state of their own whatever it was   *)
(* doing before: the state, and the label shown with it.                    *)
StateOn ==
  [ SessionStart |-> "idle", UserPromptSubmit |-> "working",
    PreToolUse |-> "working", PostToolUseFailure |-> "error",
    PermissionRequest |-> "asking", Stop |-> "idle",
    StopFailure |-> "error", SubagentStart |-> "working" ]

LabelOn(ev) ==
  CASE ev.name \in {"SessionStart", "Stop"} -> Plain("Idle")
    [] ev.name = "UserPromptSubmit"  -> Plain("Processing prompt")
    [] ev.name = "PreToolUse"        -> LabelForTool(ev.tool)
    [] ev.name = "PostToolUseFailure" ->
         <<"Tool error", OrElse(ev.tool, "unknown")>>
    [] ev.name = "PermissionRequest" ->
         <<"Awaiting approval", OrElse(ev.tool, "tool")>>
    [] ev.name = "StopFailure"       -> Plain("Session error (API failure)")
    [] ev.name = "SubagentStart"     ->
         <<"Working: subagent", OrElse(ev.agent, "agent")>>

-----------------------------------------------------------------------------
(* The record *)

\* Mutant: a new session starts in a state of its own.
FreshUnknown(ev, now) ==
  [ cwd |-> ev.cwd, state |-> "unknown", label |-> Plain("Idle"),
    since |-> now, stack |-> <<>>, pid |-> NoPid ]

(* A session first heard of through this event. *)
Fresh(ev, now) ==
  [ cwd |-> ev.cwd, state |-> "idle", label |-> Plain("Idle"),
    since |-> now, stack |-> <<>>, pid |-> NoPid ]

(* A known session takes the event's cwd, when it has one, before the hook  *)
(* is even looked at.                                                       *)
Known(rec, ev) == [rec EXCEPT !.cwd = OrElse(ev.cwd, rec.cwd)]

\* Mutant: the end of a turn also forgets the saved labels.
EnterForgets(rec, ev, now) ==
  [rec EXCEPT !.state = StateOn[ev.name], !.label = LabelOn(ev), !.since = now,
              !.stack = IF ev.name = "Stop" THEN <<>> ELSE @]

Enter(rec, ev, now) ==
  [rec EXCEPT !.state = StateOn[ev.name], !.label = LabelOn(ev), !.since = now]

\* Mutant: the state changes but not the time it is said to last from.
ToolDoneOldClock(rec, now) == [rec EXCEPT !.state = "working"]

\* Mutant: a tool's end is taken for the end of the turn.
ToolDoneIdle(rec, now) == [rec EXCEPT !.state = "idle", !.since = now]

(* A tool ended: working again, and no new start time if it already was. *)
ToolDone(rec, now) ==
  IF rec.state = "working" THEN rec
  ELSE [rec EXCEPT !.state = "working", !.since = now]

PushLabel(rec) == [rec EXCEPT !.stack = Append(@, rec.label)]

\* Mutant: the label is read but left on the stack.
PeekLabel(rec, now) ==
  LET n == Len(rec.stack)
  IN [rec EXCEPT
        !.label = IF n = 0 THEN Plain("Working") ELSE rec.stack[n],
        !.since = now]

\* Mutant: the outermost label comes back first.
PopOldest(rec, now) ==
  LET n == Len(rec.stack)
  IN [rec EXCEPT
        !.label = IF n = 0 THEN Plain("Working") ELSE rec.stack[1],
        !.stack = IF n = 0 THEN @ ELSE Tail(@),
        !.since = now]

(* The innermost saved label comes back; the state stays as it is. *)
PopLabel(rec, now) ==
  LET n == Len(rec.stack)
  IN [rec EXCEPT
        !.label = IF n = 0 THEN Plain("Working") ELSE rec.stack[n],
        !.stack = IF n = 0 THEN @ ELSE SubSeq(@, 1, n - 1),
        !.since = now]

Transition(rec, ev, now) ==
  CASE ev.name = "SubagentStart"  -> Enter(PushLabel(rec), ev, now)
    [] ev.name = "SubagentStop"   -> PopLabel(rec, now)
    [] ev.name = "PostToolUse"    -> ToolDone(rec, now)
    [] ev.name \in DOMAIN StateOn \ {"SubagentStart"} -> Enter(rec, ev, now)
    [] OTHER -> rec

\* Mutant: even a SessionEnd registers the session it is first heard of by.
ApplyEventCreates(old, ev, now) ==
  LET rec == IF old = NoRecord THEN Fresh(ev, now) ELSE Known(old, ev)
  IN IF ev.name = "SessionEnd" /\ old # NoRecord
     THEN [rec |-> NoRecord, op |-> "remove"]
     ELSE [ rec |-> Transition(rec, ev, now),
            op  |-> IF ev.name \in TargetHookEvents \/ old = NoRecord
                    THEN "upsert" ELSE "noop" ]

(* apply_event: what becomes of the record, and the op the daemon acts on.  *)
(* Any first event registers a session, even one of no mapped hook.         *)
ApplyEvent(old, ev, now) ==
  LET rec == IF old = NoRecord THEN Fresh(ev, now) ELSE Known(old, ev)
  IN IF ev.name = "SessionEnd" THEN [rec |-> NoRecord, op |-> "remove"]
     ELSE [ rec |-> Transition(rec, ev, now),
            op  |-> IF ev.name \in TargetHookEvents \/ old = NoRecord
                    THEN "upsert" ELSE "noop" ]
=============================================================================
