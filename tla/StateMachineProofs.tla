------------------------- MODULE StateMachineProofs -------------------------
(* What one hook event can make of a record, for every event and record.   *)
EXTENDS StateMachine, TLAPS

(* A known tool's label is a string.                                        *)
LEMMA ToolLabelsType ==
  ASSUME NEW tool \in DOMAIN ToolLabels
  PROVE  ToolLabels[tool] \in STRING
<1>1. /\ ToolLabels["Bash"] \in STRING
      /\ ToolLabels["Read"] \in STRING
      /\ ToolLabels["Write"] \in STRING
      /\ ToolLabels["Edit"] \in STRING
      /\ ToolLabels["Grep"] \in STRING
      /\ ToolLabels["Glob"] \in STRING
      /\ ToolLabels["WebFetch"] \in STRING
      /\ ToolLabels["WebSearch"] \in STRING
      /\ ToolLabels["Task"] \in STRING
  BY LiteralsAreStrings DEF ToolLabels
<1>2. tool \in { "Bash", "Read", "Write", "Edit", "Grep", "Glob", "WebFetch",
                 "WebSearch", "Task" }
  BY DEF ToolLabels
<1>. QED
  BY <1>1, <1>2

(* Every label a hook sets is a label.                                      *)
LEMMA LabelOnType ==
  ASSUME NEW ev \in Event, ev.name \in DOMAIN StateOn
  PROVE  LabelOn(ev) \in Label
<1>1. LabelForTool(ev.tool) \in Label
  <2>1. CASE ev.tool \notin DOMAIN ToolLabels
    BY <2>1, LiteralsAreStrings DEF Event, LabelForTool, Plain, Label
  <2>2. CASE ev.tool \in DOMAIN ToolLabels
    <3>1. ToolLabels[ev.tool] \in STRING
      BY <2>2, ToolLabelsType
    <3>. QED
      BY <2>2, <3>1, LiteralsAreStrings DEF Event, LabelForTool, Plain, Label
  <2>. QED
    BY <2>1, <2>2
<1>2. /\ OrElse(ev.tool, "unknown") \in STRING
      /\ OrElse(ev.tool, "tool") \in STRING
      /\ OrElse(ev.agent, "agent") \in STRING
  BY LiteralsAreStrings DEF Event, OrElse
<1>3. /\ Plain("Idle") \in Label
      /\ Plain("Processing prompt") \in Label
      /\ LabelForTool(ev.tool) \in Label
      /\ <<"Tool error", OrElse(ev.tool, "unknown")>> \in Label
      /\ <<"Awaiting approval", OrElse(ev.tool, "tool")>> \in Label
      /\ Plain("Session error (API failure)") \in Label
      /\ <<"Working: subagent", OrElse(ev.agent, "agent")>> \in Label
  BY <1>1, <1>2, LiteralsAreStrings DEF Plain, Label
<1>. QED
  BY <1>3 DEF LabelOn, StateOn

(* Entering a hook's own state keeps a record a record, and its pid.        *)
LEMMA EnterType ==
  ASSUME NEW rec \in Record, NEW ev \in Event, ev.name \in DOMAIN StateOn,
         NEW now \in Nat
  PROVE  /\ Enter(rec, ev, now) \in Record
         /\ Enter(rec, ev, now).pid = rec.pid
<1>1. StateOn[ev.name] \in States
  BY DEF StateOn, States
<1>. QED
  BY <1>1, LabelOnType DEF Enter, Record

(* Saving a label and putting one back keep a record a record.              *)
LEMMA StackType ==
  ASSUME NEW rec \in Record, NEW now \in Nat
  PROVE  /\ PushLabel(rec) \in Record
         /\ PushLabel(rec).pid = rec.pid
         /\ PopLabel(rec, now) \in Record
         /\ PopLabel(rec, now).pid = rec.pid
<1>1. rec.stack \in Seq(Label) /\ rec.label \in Label
  BY DEF Record
<1>2. Append(rec.stack, rec.label) \in Seq(Label)
  BY <1>1
<1>3. PushLabel(rec) \in Record /\ PushLabel(rec).pid = rec.pid
  BY <1>2 DEF PushLabel, Record
<1>. DEFINE n == Len(rec.stack)
<1>4. n \in Nat
  BY <1>1
<1>5. ASSUME n # 0
      PROVE  rec.stack[n] \in Label /\ SubSeq(rec.stack, 1, n - 1) \in Seq(Label)
  BY <1>1, <1>4, <1>5
<1>6. Plain("Working") \in Label
  BY LiteralsAreStrings DEF Plain, Label
<1>. HIDE DEF n
<1>7. PopLabel(rec, now) \in Record /\ PopLabel(rec, now).pid = rec.pid
  <2>1. CASE n = 0
    BY <1>1, <1>6, <2>1 DEF PopLabel, Record, n
  <2>2. CASE n # 0
    BY <1>1, <1>5, <2>2 DEF PopLabel, Record, n
  <2>. QED
    BY <2>1, <2>2
<1>. QED
  BY <1>3, <1>7

(* The transition of any hook keeps a record a record, and never touches    *)
(* its pid: only _resolve_identity and the cold start set one.              *)
LEMMA TransitionType ==
  ASSUME NEW rec \in Record, NEW ev \in Event, NEW now \in Nat
  PROVE  /\ Transition(rec, ev, now) \in Record
         /\ Transition(rec, ev, now).pid = rec.pid
<1>1. CASE ev.name = "SubagentStart"
  <2>1. PushLabel(rec) \in Record /\ PushLabel(rec).pid = rec.pid
    BY StackType
  <2>2. ev.name \in DOMAIN StateOn
    BY <1>1 DEF StateOn
  <2>. QED
    BY <1>1, <2>1, <2>2, EnterType DEF Transition
<1>2. CASE ev.name = "SubagentStop"
  <2>1. Transition(rec, ev, now) = PopLabel(rec, now)
    BY <1>2 DEF Transition, StateOn
  <2>. QED
    BY <2>1, StackType
<1>3. CASE ev.name = "PostToolUse"
  <2>1. Transition(rec, ev, now) = ToolDone(rec, now)
    BY <1>3 DEF Transition, StateOn
  <2>. QED
    BY <2>1 DEF ToolDone, Record, States
<1>4. CASE ev.name \in DOMAIN StateOn \ {"SubagentStart"}
  <2>1. Transition(rec, ev, now) = Enter(rec, ev, now)
    BY <1>4 DEF Transition, StateOn
  <2>. QED
    BY <1>4, <2>1, EnterType
<1>5. CASE ev.name \notin DOMAIN StateOn \cup {"SubagentStop", "PostToolUse"}
  <2>1. Transition(rec, ev, now) = rec
    BY <1>5 DEF Transition, StateOn
  <2>. QED
    BY <2>1
<1>. QED
  BY <1>1, <1>2, <1>3, <1>4, <1>5 DEF StateOn

(* apply_event returns no record exactly when it says "remove", which it    *)
(* does for SessionEnd only; otherwise it returns a record with the pid the *)
(* session's record had, or none if it is new.                              *)
THEOREM ApplyEventType ==
  ASSUME NEW old \in Record \cup {NoRecord}, NEW ev \in Event, NEW now \in Nat
  PROVE  LET out == ApplyEvent(old, ev, now)
         IN  /\ ev.name = "SessionEnd" =>
                  out.rec = NoRecord /\ out.op = "remove"
             /\ ev.name # "SessionEnd" =>
                  /\ out.rec \in Record
                  /\ out.op \in {"upsert", "noop"}
                  /\ out.rec.pid = IF old = NoRecord THEN NoPid ELSE old.pid
<1>. DEFINE rec == IF old = NoRecord THEN Fresh(ev, now) ELSE Known(old, ev)
<1>1. /\ rec \in Record
      /\ rec.pid = IF old = NoRecord THEN NoPid ELSE old.pid
  <2>1. CASE old = NoRecord
    <3>1. Plain("Idle") \in Label
      BY LiteralsAreStrings DEF Plain, Label
    <3>2. <<>> \in Seq(Label)
      OBVIOUS
    <3>. QED
      BY <2>1, <3>1, <3>2 DEF Fresh, Record, Event, States
  <2>2. CASE old # NoRecord
    <3>1. OrElse(ev.cwd, old.cwd) \in STRING
      BY <2>2 DEF OrElse, Event, Record
    <3>. QED
      BY <2>2, <3>1 DEF Known, Record
  <2>. QED
    BY <2>1, <2>2
<1>2. /\ Transition(rec, ev, now) \in Record
      /\ Transition(rec, ev, now).pid = rec.pid
  BY <1>1, TransitionType
<1>. QED
  BY <1>1, <1>2 DEF ApplyEvent
=============================================================================
