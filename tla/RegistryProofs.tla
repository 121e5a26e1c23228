--------------------------- MODULE RegistryProofs ---------------------------
(***************************************************************************)
(* Theorems of Registry, for any number of processes, sessions, datagrams  *)
(* and restarts.  The inductive invariant has two parts: Core, which holds *)
(* whatever the environment does, and, for environments where a session    *)
(* never moves to a second process, Owned.  Ended joins them for what an   *)
(* orderly network promises.                                               *)
(***************************************************************************)
EXTENDS Registry, StateMachineProofs

(* A process runs a session from its start on, and keeps it.                *)
StartedRuns == \A p \in Pids : proc[p] = "unused" <=> runs[p] = NoSid

Core == TypeOK /\ StartedRuns /\ IdentityTrue

(* No session is run by two processes, and a SessionEnd on its way is that  *)
(* of a process that has ended, though it may still be there.               *)
OneRunner == \A p, q \in Pids : runs[p] = runs[q] /\ runs[p] # NoSid => p = q

EndMeansOver ==
  \A d \in net : d.name = "SessionEnd" => HasEnded(d.sid)

Owned == OneRunner /\ EndMeansOver

-----------------------------------------------------------------------------
(* The record a datagram leaves: a record or none, none just after a        *)
(* SessionEnd, with the pid it had or the one just found.                   *)
LEMMA UpdatedType ==
  ASSUME NEW rec \in Record \cup {NoRecord}, NEW name \in STRING,
         NEW p \in Pids \cup {NoPid}
  PROVE  /\ Updated(rec, name, p) \in Record \cup {NoRecord}
         /\ Updated(rec, name, p) = NoRecord <=> name = "SessionEnd"
         /\ Updated(rec, name, p) # NoRecord =>
              \/ Updated(rec, name, p).pid \in {p, NoPid}
              \/ rec # NoRecord /\ Updated(rec, name, p).pid = rec.pid
<1>. DEFINE out == ApplyEvent(rec, EventOf(name), 0)
<1>1. EventOf(name) \in Event /\ EventOf(name).name = name
  BY LiteralsAreStrings DEF EventOf, Event
<1>2. /\ name = "SessionEnd" => out.rec = NoRecord /\ out.op = "remove"
      /\ name # "SessionEnd" =>
           /\ out.rec \in Record
           /\ out.op \in {"upsert", "noop"}
           /\ out.rec.pid = IF rec = NoRecord THEN NoPid ELSE rec.pid
  BY <1>1, ApplyEventType
<1>3. Updated(rec, name, p) =
        IF out.op = "upsert" THEN Identify(out.rec, p) ELSE out.rec
  BY DEF Updated
<1>. HIDE DEF out
<1>4. CASE name = "SessionEnd"
  BY <1>2, <1>3, <1>4
<1>5. CASE name # "SessionEnd"
  <2>1. out.rec \in Record /\ out.rec # NoRecord
    BY <1>2, <1>5, NoRecordAssumption
  <2>2. /\ Identify(out.rec, p) \in Record
        /\ Identify(out.rec, p).pid \in {p, out.rec.pid}
    BY <2>1 DEF Identify, Record
  <2>. QED
    BY <1>2, <1>3, <1>5, <2>1, <2>2, NoRecordAssumption
<1>. QED
  BY <1>4, <1>5

(* Whatever session file is found, its pid ran the session.                 *)
LEMMA FoundType ==
  ASSUME TypeOK, NEW s \in Sids
  PROVE  /\ Found(s) \subseteq Pids \cup {NoPid}
         /\ \A p \in Found(s) : p # NoPid => p \in RunBy(s)
BY DEF TypeOK, Found, FoundPids, RunBy

(* A sweep turns a record into itself, into itself with the pid found, or   *)
(* into none if its process is not alive.                                   *)
LEMMA SweptType ==
  ASSUME NEW rec \in Record \cup {NoRecord}, NEW p \in Pids \cup {NoPid}
  PROVE  LET new == Reap(Identify(rec, p))
         IN  /\ new \in Record \cup {NoRecord}
             /\ new # NoRecord => rec # NoRecord /\ new.pid \in {p, rec.pid}
             /\ rec # NoRecord /\ new = NoRecord =>
                  \E q \in {p, rec.pid} : q # NoPid /\ ~Alive(q)
<1>1. CASE rec = NoRecord
  BY <1>1 DEF Reap, Identify
<1>2. CASE rec \in Record
  <2>1. rec # NoRecord
    BY <1>2, NoRecordAssumption
  <2>2. /\ Identify(rec, p) \in Record
        /\ Identify(rec, p) # NoRecord
        /\ Identify(rec, p).pid \in {p, rec.pid}
    BY <1>2, <2>1, NoRecordAssumption DEF Identify, Record
  <2>. QED
    BY <2>1, <2>2 DEF Reap
<1>. QED
  BY <1>1, <1>2

(* What the cold start registers is a record with the pid it was given.     *)
LEMMA SeedType ==
  ASSUME NEW p \in Pids
  PROVE  Seed(p) \in Record /\ Seed(p).pid = p /\ Seed(p) # NoRecord
<1>1. Plain("Idle") \in Label
  BY LiteralsAreStrings DEF Plain, Label
<1>2. <<>> \in Seq(Label)
  OBVIOUS
<1>3. "home" \in STRING
  BY LiteralsAreStrings
<1>4. Seed(p) \in Record
  BY <1>1, <1>2, <1>3 DEF Seed, Record, States
<1>. QED
  BY <1>4, NoRecordAssumption DEF Seed

-----------------------------------------------------------------------------
(* The invariant holds before anything has started.                         *)
LEMMA InitCore == Init => Core
<1>. SUFFICES ASSUME Init PROVE Core
  OBVIOUS
<1>1. TypeOK
  BY DEF Init, TypeOK
<1>2. StartedRuns
  BY DEF Init, StartedRuns
<1>3. IdentityTrue
  BY DEF Init, IdentityTrue, Tracked
<1>. QED
  BY <1>1, <1>2, <1>3 DEF Core

(* A step of a process leaves the registry alone, and takes no pid away     *)
(* from the session it runs.                                                *)
LEMMA ProcessCore ==
  ASSUME Core, ProcessStep
  PROVE  Core'
<1>. USE DEF Core
<1>. PICK p \in Pids :
       \/ \E s \in Sids : Start(p, s)
       \/ WriteFile(p)
       \/ \E name \in Hooks : Hook(p, name)
       \/ End(p)
       \/ Exit(p)
       \/ Kill(p)
       \/ RemoveFile(p)
  BY DEF ProcessStep
<1>1. CASE \E s \in Sids : Start(p, s)
  <2>. PICK s \in Sids : Start(p, s)
    BY <1>1
  <2>1. [n |-> sent + 1, sid |-> s, name |-> "SessionStart"] \in Datagram
    <3>1. "SessionStart" \in STRING
      BY LiteralsAreStrings DEF TargetHookEvents
    <3>2. sent + 1 \in Nat
      BY DEF TypeOK
    <3>. QED
      BY <3>1, <3>2 DEF Datagram
  <2>2. TypeOK'
    BY <2>1 DEF Start, Emit, TypeOK, daemon
  <2>3. StartedRuns'
    BY RegistryAssumption DEF Start, StartedRuns, TypeOK
  <2>4. IdentityTrue'
    BY RegistryAssumption
    DEF Start, IdentityTrue, StartedRuns, Tracked, RunBy, TypeOK, daemon
  <2>. QED
    BY <2>2, <2>3, <2>4
<1>2. CASE WriteFile(p) \/ Exit(p) \/ Kill(p) \/ RemoveFile(p)
  <2>1. TypeOK'
    BY <1>2 DEF WriteFile, Exit, Kill, RemoveFile, TypeOK, network, daemon
  <2>2. StartedRuns'
    BY <1>2 DEF WriteFile, Exit, Kill, RemoveFile, StartedRuns, TypeOK
  <2>3. IdentityTrue'
    BY <1>2
    DEF WriteFile, Exit, Kill, RemoveFile, IdentityTrue, Tracked, RunBy, daemon
  <2>. QED
    BY <2>1, <2>2, <2>3
<1>3. CASE End(p) \/ \E name \in Hooks : Hook(p, name)
  <2>1. PICK name \in STRING : Emit(runs[p], name)
    BY <1>3, RegistryAssumption, LiteralsAreStrings DEF End, Hook, TargetHookEvents
  <2>2. proc[p] = "live" /\ runs[p] \in Sids
    BY <1>3 DEF End, Hook, StartedRuns, TypeOK
  <2>3. [n |-> sent + 1, sid |-> runs[p], name |-> name] \in Datagram
    BY <2>2 DEF Datagram, TypeOK
  <2>4. sent' \in Nat /\ net' \subseteq Datagram /\ orderly' \in BOOLEAN
    BY <2>1, <2>3 DEF Emit, TypeOK
  <2>5. TypeOK'
    BY <1>3, <2>4 DEF End, Hook, TypeOK, processes, daemon
  <2>6. StartedRuns'
    BY <1>3 DEF End, Hook, StartedRuns, TypeOK, processes
  <2>7. IdentityTrue'
    BY <1>3 DEF End, Hook, IdentityTrue, Tracked, RunBy, processes, daemon
  <2>. QED
    BY <2>5, <2>6, <2>7
<1>. QED
  BY <1>1, <1>2, <1>3

(* A step of the network or the daemon changes no process, and puts only    *)
(* pids on records that ran the record's session.                           *)
LEMMA DaemonCore ==
  ASSUME Core, NetworkStep \/ DaemonStep
  PROVE  Core'
<1>. USE DEF Core
<1>1. UNCHANGED processes
  BY DEF NetworkStep, DaemonStep, Lose, Receive, Sweep, ColdStart, Halt
<1>2. StartedRuns'
  BY <1>1 DEF StartedRuns, processes
<1>3. \A s \in Sids : RunBy(s)' = RunBy(s)
  BY <1>1 DEF RunBy, processes
<1>4. ASSUME agents' \in [Sids -> Record \cup {NoRecord}],
             net' \subseteq net, sent' = sent, orderly' \in BOOLEAN,
             up' \in BOOLEAN, boots' \in Nat, revived' \subseteq Sids
      PROVE  TypeOK'
  BY <1>1, <1>4 DEF TypeOK, processes
<1>5. ASSUME NEW d \in net, Lose(d)
      PROVE  Core'
  <2>1. TypeOK'
    BY <1>4, <1>5 DEF Lose, TypeOK, daemon
  <2>2. IdentityTrue'
    BY <1>3, <1>5 DEF Lose, IdentityTrue, Tracked, daemon
  <2>. QED
    BY <1>2, <2>1, <2>2
<1>6. ASSUME NEW d \in net, Receive(d)
      PROVE  Core'
  <2>. DEFINE s == d.sid
  <2>1. s \in Sids /\ d.name \in STRING
    BY <1>6 DEF TypeOK, Datagram
  <2>2. PICK p \in Found(s) :
          agents' = [agents EXCEPT ![s] = Updated(@, d.name, p)]
    BY <1>6 DEF Receive
  <2>. HIDE DEF s
  <2>3. p \in Pids \cup {NoPid} /\ (p # NoPid => p \in RunBy(s))
    BY <2>1, FoundType
  <2>. DEFINE new == Updated(agents[s], d.name, p)
  <2>4. /\ new \in Record \cup {NoRecord}
        /\ new # NoRecord =>
             \/ new.pid \in {p, NoPid}
             \/ agents[s] # NoRecord /\ new.pid = agents[s].pid
    BY <2>1, <2>3, UpdatedType DEF TypeOK
  <2>5. agents' = [agents EXCEPT ![s] = new]
    BY <2>2
  <2>. HIDE DEF new
  <2>6. TypeOK'
    BY <1>4, <1>6, <2>4, <2>5 DEF Receive, StillRevived, TypeOK
  <2>7. IdentityTrue'
    BY <1>3, <2>1, <2>3, <2>4, <2>5 DEF IdentityTrue, Tracked, TypeOK
  <2>. QED
    BY <1>2, <2>6, <2>7
<1>7. CASE Sweep
  <2>1. PICK found \in [Sids -> Pids \cup {NoPid}] :
          /\ \A s \in Sids : found[s] \in Found(s)
          /\ agents' = [s \in Sids |-> Reap(Identify(agents[s], found[s]))]
    BY <1>7 DEF Sweep
  <2>2. \A s \in Sids :
          /\ agents'[s] \in Record \cup {NoRecord}
          /\ agents'[s] # NoRecord =>
               agents[s] # NoRecord /\ agents'[s].pid \in {found[s], agents[s].pid}
    BY <2>1, SweptType DEF TypeOK
  <2>3. TypeOK'
    BY <1>4, <1>7, <2>1, <2>2 DEF Sweep, StillRevived, TypeOK, network
  <2>4. \A s \in Sids : found[s] # NoPid => found[s] \in RunBy(s)
    BY <2>1, FoundType
  <2>5. IdentityTrue'
    BY <1>3, <2>2, <2>4 DEF IdentityTrue, Tracked
  <2>. QED
    BY <1>2, <2>3, <2>5
<1>8. CASE ColdStart
  <2>1. PICK seed \in [Sids -> Pids \cup {NoPid}] :
          /\ \A s \in Sids : IF LivePids(s) = {} THEN seed[s] = NoPid
                             ELSE seed[s] \in LivePids(s)
          /\ agents' = [s \in Sids |->
                          IF seed[s] = NoPid THEN NoRecord ELSE Seed(seed[s])]
    BY <1>8 DEF ColdStart
  <2>2. \A s \in Sids : seed[s] # NoPid => seed[s] \in RunBy(s)
    BY <2>1 DEF LivePids, FoundPids, RunBy, TypeOK
  <2>3. \A s \in Sids :
          /\ agents'[s] \in Record \cup {NoRecord}
          /\ agents'[s] # NoRecord => agents'[s].pid = seed[s] /\ seed[s] # NoPid
    BY <2>1, SeedType
  <2>4. TypeOK'
    BY <1>4, <1>8, <2>1, <2>3 DEF ColdStart, TypeOK, network
  <2>5. IdentityTrue'
    BY <1>3, <2>2, <2>3 DEF IdentityTrue, Tracked
  <2>. QED
    BY <1>2, <2>4, <2>5
<1>9. CASE Halt
  <2>1. TypeOK'
    BY <1>4, <1>9 DEF Halt, TypeOK, network
  <2>2. IdentityTrue'
    BY <1>9 DEF Halt, IdentityTrue, Tracked
  <2>. QED
    BY <1>2, <2>1, <2>2
<1>. QED
  BY <1>5, <1>6, <1>7, <1>8, <1>9 DEF NetworkStep, DaemonStep

(* Every step of the processes, the network and the daemon keeps it.        *)
LEMMA CoreStep == Core /\ [Next]_vars => Core'
<1>1. ASSUME Core, UNCHANGED vars
      PROVE  Core'
  BY <1>1 DEF vars, processes, network, daemon, Core, TypeOK, StartedRuns,
              IdentityTrue, Tracked, RunBy
<1>. QED
  BY <1>1, ProcessCore, DaemonCore DEF Next

(* Every behaviour keeps every variable's type, and puts on a record only   *)
(* the pid of a process that ran its session (SessionRegistry,              *)
(* _resolve_identity, _cold_start).                                         *)
THEOREM CoreInvariant == Spec => []Core
<1>. QED
  BY InitCore, CoreStep, PTL DEF Spec

(* Every variable of the registry and of its environment keeps its type.    *)
THEOREM TypeCorrect == Spec => []TypeOK
<1>1. Core => TypeOK
  BY DEF Core
<1>. QED
  BY <1>1, CoreInvariant, PTL

(* A pid on a record is that of a process that ran its session: neither     *)
(* _resolve_identity nor _cold_start ever takes another session's.          *)
THEOREM IdentityCorrect == Spec => []IdentityTrue
<1>1. Core => IdentityTrue
  BY DEF Core
<1>. QED
  BY <1>1, CoreInvariant, PTL

-----------------------------------------------------------------------------
(* Environments where a session is run by one process only.                 *)

(* No session is run at first.                                              *)
LEMMA InitOwned == Init => Owned
BY DEF Init, Owned, OneRunner, EndMeansOver

(* A session whose SessionEnd is on its way is run by no process.           *)
LEMMA EndedIsNotRunning ==
  ASSUME Owned, NEW d \in net, d.sid \in Sids, d.name = "SessionEnd"
  PROVE  ~IsRunning(d.sid)
BY RegistryAssumption
DEF Owned, OneRunner, EndMeansOver, IsRunning, HasEnded, Over, RunBy

(* A step starts a session once, and sends its SessionEnd as it ends.       *)
LEMMA OwnedStep ==
  ASSUME ~Resumable, Core, Owned, Next
  PROVE  Owned'
<1>. USE DEF Core, Owned, Over
<1>1. ASSUME UNCHANGED processes, net' \subseteq net
      PROVE  Owned'
  BY <1>1 DEF OneRunner, EndMeansOver, HasEnded, RunBy, processes
<1>2. ASSUME NEW p \in Pids, NEW s \in Sids, Start(p, s)
      PROVE  Owned'
  <2>1. \A q \in Pids : runs[q] # s
    BY <1>2 DEF Start, RunBy
  <2>2. OneRunner'
    BY <1>2, <2>1 DEF Start, OneRunner, TypeOK
  <2>3. \A d \in net : d.sid # s \/ d.name # "SessionEnd"
    BY <2>1 DEF EndMeansOver, HasEnded, RunBy
  <2>4. EndMeansOver'
    <3>. SUFFICES ASSUME NEW d \in net', d.name = "SessionEnd"
                  PROVE  \E q \in Pids :
                           runs'[q] = d.sid /\ proc'[q] \in Over
      BY DEF EndMeansOver, HasEnded, RunBy
    <3>1. d \in net
      BY <1>2 DEF Start, Emit
    <3>2. PICK q \in Pids : runs[q] = d.sid /\ proc[q] \in Over
      BY <3>1 DEF EndMeansOver, HasEnded, RunBy
    <3>3. q # p
      BY <1>2, <3>2 DEF Start
    <3>. QED
      BY <1>2, <3>2, <3>3 DEF Start, TypeOK
  <2>. QED
    BY <2>2, <2>4
<1>3. ASSUME NEW p \in Pids, WriteFile(p) \/ Exit(p) \/ Kill(p) \/ RemoveFile(p)
      PROVE  Owned'
  <2>1. OneRunner'
    BY <1>3 DEF WriteFile, Exit, Kill, RemoveFile, OneRunner
  <2>2. UNCHANGED network /\ UNCHANGED runs
    BY <1>3 DEF WriteFile, Exit, Kill, RemoveFile
  <2>3. \A q \in Pids :
          proc[q] \in Over => proc'[q] \in Over
    BY <1>3 DEF WriteFile, Exit, Kill, RemoveFile, TypeOK
  <2>4. EndMeansOver'
    BY <2>2, <2>3 DEF EndMeansOver, HasEnded, RunBy, network
  <2>. QED
    BY <2>1, <2>4
<1>4. ASSUME NEW p \in Pids, NEW name \in Hooks, Hook(p, name)
      PROVE  Owned'
  <2>1. OneRunner'
    BY <1>4 DEF Hook, OneRunner, processes
  <2>2. name # "SessionEnd"
    BY RegistryAssumption
  <2>3. EndMeansOver'
    BY <1>4, <2>2 DEF Hook, Emit, EndMeansOver, HasEnded, RunBy, processes
  <2>. QED
    BY <2>1, <2>3
<1>5. ASSUME NEW p \in Pids, End(p)
      PROVE  Owned'
  <2>1. OneRunner'
    BY <1>5 DEF End, OneRunner
  <2>2. EndMeansOver'
    BY <1>5 DEF End, Emit, EndMeansOver, HasEnded, RunBy, TypeOK
  <2>. QED
    BY <2>1, <2>2
<1>6. ASSUME NetworkStep \/ DaemonStep
      PROVE  Owned'
  BY <1>1, <1>6
  DEF NetworkStep, DaemonStep, Lose, Receive, Sweep, ColdStart, Halt, network
<1>. QED
  BY <1>2, <1>3, <1>4, <1>5, <1>6 DEF Next, ProcessStep

(* The invariant of those environments.                                     *)
THEOREM OwnedInvariant ==
  ASSUME ~Resumable
  PROVE  Spec => [](Core /\ Owned)
<1>1. Init => Core /\ Owned
  BY InitCore, InitOwned
<1>2. Core /\ Owned /\ [Next]_vars => (Core /\ Owned)'
  <2>1. Core /\ [Next]_vars => Core'
    BY CoreStep
  <2>2. Core /\ Owned /\ Next => Owned'
    BY OwnedStep
  <2>3. Owned /\ UNCHANGED vars => Owned'
    BY DEF vars, processes, network, Owned, OneRunner, EndMeansOver, HasEnded, RunBy
  <2>. QED
    BY <2>1, <2>2, <2>3
<1>. QED
  BY <1>1, <1>2, PTL DEF Spec

-----------------------------------------------------------------------------
(* Every step of the registry is a step of the Roster, or leaves it alone.  *)
LEMMA RosterStep ==
  ASSUME ~Resumable, Core, Owned, Next
  PROVE  [R!Next]_(R!vars)
<1>. DEFINE running == {s \in Sids : IsRunning(s)}
            leaving == {s \in Sids : IsEnding(s)}
            roster  == {s \in Sids : Tracked(s)}
<1>1. ASSUME UNCHANGED <<proc, runs>>
      PROVE  running' = running /\ leaving' = leaving
  BY <1>1 DEF IsRunning, IsEnding, RunBy
<1>2. ASSUME UNCHANGED agents
      PROVE  roster' = roster
  BY <1>2 DEF Tracked
<1>3. ASSUME NEW p \in Pids, NEW s \in Sids, Start(p, s)
      PROVE  R!Launch(s)
  <2>1. RunBy(s) = {}
    BY <1>3 DEF Start
  <2>2. ~IsRunning(s) /\ ~IsEnding(s)
    BY <2>1 DEF IsRunning, IsEnding
  <2>3. running' = running \cup {s}
    BY <1>3 DEF Start, IsRunning, RunBy, Core, TypeOK
  <2>4. leaving' = leaving
    BY <1>3, RegistryAssumption DEF Start, IsEnding, RunBy, Core, StartedRuns, TypeOK
  <2>. QED
    BY <1>2, <1>3, <2>2, <2>3, <2>4 DEF Start, daemon, R!Launch
<1>4. ASSUME NEW p \in Pids, End(p) \/ Exit(p) \/ Kill(p)
      PROVE  (R!End(runs[p]) \/ R!Die(runs[p])) /\ runs[p] \in Sids
  <2>1. proc[p] \in {"live", "ending"} /\ runs[p] \in Sids
    BY <1>4 DEF End, Exit, Kill, Core, StartedRuns, TypeOK
  <2>2. \A q \in Pids : runs[q] = runs[p] => q = p
    BY <2>1, RegistryAssumption DEF Owned, OneRunner
  <2>3. UNCHANGED runs /\ UNCHANGED daemon
    BY <1>4 DEF End, Exit, Kill
  <2>4. \A q \in Pids : q # p => proc'[q] = proc[q]
    BY <1>4 DEF End, Exit, Kill, Core, TypeOK
  <2>5. CASE End(p)
    <3>1. proc[p] = "live" /\ proc'[p] = "ending"
      BY <2>5 DEF End, Core, TypeOK
    <3>2. runs[p] \in running /\ running' = running \ {runs[p]}
      BY <2>1, <2>2, <2>3, <2>4, <3>1 DEF IsRunning, RunBy
    <3>3. leaving' = leaving \cup {runs[p]}
      BY <2>1, <2>2, <2>3, <2>4, <3>1 DEF IsEnding, RunBy
    <3>. QED
      BY <1>2, <2>1, <2>3, <3>2, <3>3 DEF daemon, R!End
  <2>6. CASE Exit(p) \/ Kill(p)
    <3>1. proc'[p] \in {"exited", "killed"}
      BY <2>6 DEF Exit, Kill, Core, TypeOK
    <3>2. runs[p] \in running \cup leaving
      BY <2>1 DEF IsRunning, IsEnding, RunBy
    <3>3. running' = running \ {runs[p]}
      BY <2>1, <2>2, <2>3, <2>4, <3>1 DEF IsRunning, RunBy
    <3>4. leaving' = leaving \ {runs[p]}
      BY <2>1, <2>2, <2>3, <2>4, <3>1 DEF IsEnding, RunBy
    <3>. QED
      BY <1>2, <2>1, <2>3, <3>2, <3>3, <3>4 DEF daemon, R!Die
  <2>. QED
    BY <1>4, <2>1, <2>5, <2>6
<1>5. ASSUME NEW p \in Pids,
             WriteFile(p) \/ RemoveFile(p) \/ \E name \in Hooks : Hook(p, name)
      PROVE  UNCHANGED R!vars
  BY <1>1, <1>2, <1>5 DEF WriteFile, RemoveFile, Hook, processes, daemon, R!vars
<1>6. ASSUME NetworkStep
      PROVE  UNCHANGED R!vars
  BY <1>1, <1>2, <1>6 DEF NetworkStep, Lose, processes, daemon, R!vars
<1>7. ASSUME NEW d \in net, Receive(d)
      PROVE  R!Show(d.sid) \/ R!Drop({d.sid})
  <2>. DEFINE s == d.sid
  <2>1. s \in Sids /\ d.name \in STRING
    BY <1>7 DEF Core, TypeOK, Datagram
  <2>2. PICK p \in Found(s) :
          agents' = [agents EXCEPT ![s] = Updated(@, d.name, p)]
    BY <1>7 DEF Receive
  <2>3. p \in Pids \cup {NoPid}
    BY <2>1, FoundType DEF Core
  <2>4. agents[s] \in Record \cup {NoRecord}
    BY <2>1 DEF Core, TypeOK
  <2>. DEFINE new == Updated(agents[s], d.name, p)
  <2>5. new = NoRecord => d.name = "SessionEnd"
    BY <2>1, <2>3, <2>4, UpdatedType
  <2>6. agents' = [agents EXCEPT ![s] = new]
    BY <2>2
  <2>7. up /\ UNCHANGED up /\ running' = running /\ leaving' = leaving
    BY <1>1, <1>7 DEF Receive, processes
  <2>. HIDE DEF new
  <2>8. CASE new = NoRecord
    <3>1. s \notin running
      BY <2>1, <2>5, <2>8, EndedIsNotRunning
    <3>2. roster' = roster \ {s}
      BY <2>1, <2>6, <2>8 DEF Tracked, Core, TypeOK
    <3>. QED
      BY <2>7, <3>1, <3>2 DEF R!Drop
  <2>9. CASE new # NoRecord
    <3>1. roster' = roster \cup {s}
      BY <2>1, <2>6, <2>9 DEF Tracked, Core, TypeOK
    <3>. QED
      BY <2>7, <3>1 DEF R!Show
  <2>. QED
    BY <2>8, <2>9
<1>8. CASE Sweep
  <2>1. PICK found \in [Sids -> Pids \cup {NoPid}] :
          /\ \A s \in Sids : found[s] \in Found(s)
          /\ agents' = [s \in Sids |-> Reap(Identify(agents[s], found[s]))]
    BY <1>8 DEF Sweep
  <2>. DEFINE dead == {s \in Sids : Tracked(s) /\ agents'[s] = NoRecord}
  <2>2. \A s \in Sids :
          /\ agents'[s] # NoRecord => agents[s] # NoRecord
          /\ s \in dead =>
               \E q \in {found[s], agents[s].pid} : q # NoPid /\ ~Alive(q)
    BY <2>1, SweptType DEF Core, TypeOK, Tracked
  <2>3. ASSUME NEW s \in dead
        PROVE  ~IsRunning(s)
    <3>1. PICK q \in {found[s], agents[s].pid} : q # NoPid /\ ~Alive(q)
      BY <2>2
    <3>2. q \in RunBy(s)
      BY <2>1, <2>3, <3>1, FoundType DEF Core, IdentityTrue
    <3>. QED
      BY <2>3, <3>1, <3>2, RegistryAssumption
      DEF Owned, OneRunner, IsRunning, RunBy, Alive
  <2>4. roster' = roster \ dead
    BY <2>2 DEF Tracked
  <2>5. dead \cap running = {} /\ dead \in SUBSET Sids
    BY <2>3
  <2>. HIDE DEF dead
  <2>6. R!Drop(dead)
    BY <1>1, <1>8, <2>4, <2>5 DEF Sweep, processes, R!Drop
  <2>. QED
    BY <2>5, <2>6 DEF R!Next
<1>9. CASE ColdStart
  <2>1. PICK seed \in [Sids -> Pids \cup {NoPid}] :
          /\ \A s \in Sids : IF LivePids(s) = {} THEN seed[s] = NoPid
                             ELSE seed[s] \in LivePids(s)
          /\ agents' = [s \in Sids |->
                          IF seed[s] = NoPid THEN NoRecord ELSE Seed(seed[s])]
    BY <1>9 DEF ColdStart
  <2>2. \A s \in Sids : seed[s] # NoPid => IsRunning(s) \/ IsEnding(s)
    BY <2>1 DEF LivePids, FoundPids, IsRunning, IsEnding, Alive, RunBy, Core, TypeOK
  <2>3. roster' \subseteq running \cup leaving
    BY <2>1, <2>2 DEF Tracked
  <2>4. R!Boot(roster')
    BY <1>1, <1>9, <2>3 DEF ColdStart, processes, R!Boot
  <2>5. roster' \in SUBSET Sids
    OBVIOUS
  <2>. QED
    BY <2>4, <2>5 DEF R!Next
<1>10. CASE Halt
  <2>1. roster' = {}
    BY <1>10 DEF Halt, Tracked
  <2>. QED
    BY <1>1, <1>10, <2>1 DEF Halt, processes, R!Halt, R!Next
<1>11. CASE ProcessStep
  BY <1>3, <1>4, <1>5, <1>11 DEF ProcessStep, R!Next
<1>12. ASSUME NEW d \in net, Receive(d)
       PROVE  R!Next
  <2>1. d.sid \in Sids /\ {d.sid} \in SUBSET Sids
    BY DEF Core, TypeOK, Datagram
  <2>. QED
    BY <1>7, <1>12, <2>1 DEF R!Next
<1>. QED
  BY <1>6, <1>8, <1>9, <1>10, <1>11, <1>12 DEF Next, DaemonStep

(* Where no session moves to another process, the registry implements the   *)
(* Roster: it drops no session that runs, and boots with none whose process *)
(* is gone.                                                                 *)
THEOREM RegistryIsRoster ==
  ASSUME ~Resumable
  PROVE  Spec => IsRoster
<1>1. Init => R!Init
  <2>. SUFFICES ASSUME Init PROVE R!Init
    OBVIOUS
  <2>1. {s \in Sids : IsRunning(s)} = {} /\ {s \in Sids : IsEnding(s)} = {}
    BY DEF Init, IsRunning, IsEnding, RunBy
  <2>2. {s \in Sids : Tracked(s)} = {}
    BY DEF Init, Tracked
  <2>3. ~up
    BY DEF Init
  <2>. QED
    BY <2>1, <2>2, <2>3 DEF R!Init
<1>2. Core /\ Owned /\ [Next]_vars => [R!Next]_(R!vars)
  <2>1. Core /\ Owned /\ Next => [R!Next]_(R!vars)
    BY RosterStep
  <2>2. UNCHANGED vars => UNCHANGED R!vars
    BY DEF vars, processes, daemon, R!vars, IsRunning, IsEnding, RunBy, Tracked
  <2>. QED
    BY <2>1, <2>2
<1>. QED
  BY <1>1, <1>2, OwnedInvariant, PTL DEF Spec, IsRoster, R!Spec

(* Where no session moves to another process, no handler of the daemon      *)
(* despawns a session that runs and has not ended, whatever the network     *)
(* does.                                                                    *)
THEOREM AliveNeverDespawned ==
  ASSUME ~Resumable
  PROVE  Spec => NeverDespawnedAlive
<1>. DEFINE Kept == \A s \in Sids :
              up /\ up' /\ Tracked(s) /\ agents'[s] = NoRecord => ~IsRunning(s)
<1>1. [R!Next]_(R!vars) => Kept
  <2>. SUFFICES ASSUME [R!Next]_(R!vars), NEW s \in Sids, up, up', Tracked(s),
                       agents'[s] = NoRecord
                PROVE  ~IsRunning(s)
    OBVIOUS
  <2>. DEFINE running == {t \in Sids : IsRunning(t)}
              roster  == {t \in Sids : Tracked(t)}
  <2>1. s \in roster /\ s \notin roster'
    BY DEF Tracked
  <2>2. PICK S \in SUBSET Sids : R!Drop(S)
    BY <2>1 DEF R!Next, R!vars, R!Launch, R!End, R!Die, R!Boot, R!Halt, R!Show
  <2>. QED
    BY <2>1, <2>2 DEF R!Drop
<1>2. Core /\ Owned /\ [Next]_vars => [Kept]_vars
  <2>1. Core /\ Owned /\ Next => [R!Next]_(R!vars)
    BY RosterStep
  <2>. QED
    BY <1>1, <2>1
<1>. QED
  BY <1>2, OwnedInvariant, PTL DEF Spec, NeverDespawnedAlive

-----------------------------------------------------------------------------
(* Sessions that ended stay gone.                                           *)

(* A daemon that is down knows of no session.                               *)
DownIsEmpty == ~up => \A s \in Sids : ~Tracked(s)

(* Datagrams carry the numbers of the order they were sent in.              *)
Numbered ==
  /\ \A d \in net : d.n <= sent
  /\ \A d, e \in net : d.n = e.n => d = e

(* A session's SessionEnd is the last datagram it sends.                    *)
EndIsLast ==
  \A d, e \in net : d.name = "SessionEnd" /\ e.sid = d.sid => e.n <= d.n

(* While any datagram of a session that ended is on its way, so is its end. *)
EndStillComes ==
  orderly => \A d \in net :
    HasEnded(d.sid) =>
      \E e \in net : e.sid = d.sid /\ e.name = "SessionEnd"

Ended ==
  DownIsEmpty /\ Numbered /\ EndIsLast /\ EndStillComes /\ EndedStaysGone

(* Nothing has been sent at first.                                          *)
LEMMA InitEnded == Init => Ended
<1>. SUFFICES ASSUME Init PROVE Ended
  OBVIOUS
<1>1. DownIsEmpty /\ EndedStaysGone
  BY DEF Init, DownIsEmpty, EndedStaysGone, Tracked
<1>2. Numbered /\ EndIsLast /\ EndStillComes
  BY DEF Init, Numbered, EndIsLast, EndStillComes
<1>. QED
  BY <1>1, <1>2 DEF Ended

(* A datagram is sent after all those on their way.                         *)
LEMMA EmitEnded ==
  ASSUME TypeOK, Numbered, EndIsLast, NEW s \in Sids, NEW name \in STRING,
         Emit(s, name),
         \A d \in net : d.sid = s => d.name # "SessionEnd"
  PROVE  Numbered' /\ EndIsLast'
<1>. DEFINE new == [n |-> sent + 1, sid |-> s, name |-> name]
<1>1. net' = net \cup {new} /\ sent' = sent + 1
  BY DEF Emit
<1>2. sent \in Nat /\ \A d \in net : d.n \in Nat /\ d.n <= sent
  BY DEF TypeOK, Datagram, Numbered
<1>3. new.n = sent + 1 /\ new.sid = s /\ new.name = name
  OBVIOUS
<1>. HIDE DEF new
<1>4. Numbered'
  <2>1. \A d \in net' : d.n <= sent'
    BY <1>1, <1>2, <1>3
  <2>2. \A d, e \in net' : d.n = e.n => d = e
    BY <1>1, <1>2, <1>3 DEF Numbered
  <2>. QED
    BY <2>1, <2>2 DEF Numbered
<1>5. EndIsLast'
  BY <1>1, <1>2, <1>3 DEF EndIsLast
<1>. QED
  BY <1>4, <1>5

(* A session that ended has no process left to send anything: what is sent  *)
(* later is another session's.                                              *)
LEMMA ProcessEnded ==
  ASSUME ~Resumable, Core, Owned, Ended, ProcessStep
  PROVE  Ended'
<1>. USE DEF Core, Owned, Ended, Over
<1>. PICK p \in Pids :
       \/ \E s \in Sids : Start(p, s)
       \/ WriteFile(p)
       \/ \E name \in Hooks : Hook(p, name)
       \/ End(p)
       \/ Exit(p)
       \/ Kill(p)
       \/ RemoveFile(p)
  BY DEF ProcessStep
<1>1. UNCHANGED daemon
  BY DEF Start, WriteFile, Hook, End, Exit, Kill, RemoveFile
<1>2. DownIsEmpty'
  BY <1>1 DEF daemon, DownIsEmpty, Tracked
<1>3. ASSUME proc[p] = "live"
      PROVE  runs[p] \in Sids /\ \A q \in RunBy(runs[p]) : proc[q] \notin Over
  BY <1>3, RegistryAssumption DEF StartedRuns, OneRunner, RunBy, TypeOK
<1>4. CASE WriteFile(p) \/ Exit(p) \/ Kill(p) \/ RemoveFile(p)
  <2>1. UNCHANGED network /\ UNCHANGED runs
    BY <1>4 DEF WriteFile, Exit, Kill, RemoveFile
  <2>2. \A q \in Pids : proc'[q] \in Over => proc[q] \in Over
    BY <1>4 DEF WriteFile, Exit, Kill, RemoveFile, TypeOK
  <2>3. Numbered' /\ EndIsLast'
    BY <2>1 DEF network, Numbered, EndIsLast
  <2>4. EndStillComes'
    BY <2>1, <2>2 DEF network, EndStillComes, HasEnded, RunBy
  <2>5. EndedStaysGone'
    BY <1>1, <2>1, <2>2
    DEF network, daemon, EndedStaysGone, HasEnded, RunBy, Tracked
  <2>. QED
    BY <1>2, <2>3, <2>4, <2>5
<1>5. ASSUME NEW s \in Sids, NEW name \in STRING, Emit(s, name),
             \A q \in RunBy(s) : proc[q] \notin Over,
             \A t \in Sids : t # s => RunBy(t)' = RunBy(t),
             \A q \in Pids : proc'[q] \in Over /\ proc[q] \notin Over =>
               runs'[q] = s /\ name = "SessionEnd",
             \A q \in RunBy(s)' : proc'[q] \in Over => proc[q] \notin Over
      PROVE  Ended'
  <2>. DEFINE new == [n |-> sent + 1, sid |-> s, name |-> name]
  <2>1. net' = net \cup {new} /\ UNCHANGED orderly
    BY <1>5 DEF Emit
  <2>2. new.sid = s /\ new.name = name
    OBVIOUS
  <2>. HIDE DEF new
  <2>3. \A d \in net : d.sid = s => d.name # "SessionEnd"
    BY <1>5 DEF EndMeansOver, HasEnded
  <2>4. Numbered' /\ EndIsLast'
    BY <1>5, <2>3, EmitEnded
  <2>5. ASSUME NEW t \in Sids, t # s, NEW q \in RunBy(t)', proc'[q] \in Over
        PROVE  q \in RunBy(t) /\ proc[q] \in Over
    BY <1>5, <2>5 DEF RunBy
  <2>6. EndStillComes'
    <3>. SUFFICES ASSUME orderly, NEW d \in net', NEW q \in RunBy(d.sid)',
                         proc'[q] \in Over
                  PROVE  \E e \in net' : e.sid = d.sid /\ e.name = "SessionEnd"
      BY <2>1 DEF EndStillComes, HasEnded
    <3>1. CASE d.sid = s
      <4>1. q \in RunBy(s)'
        BY <3>1
      <4>2. q \in Pids
        BY DEF RunBy
      <4>3. name = "SessionEnd"
        BY <1>5, <4>1, <4>2
      <4>. QED
        BY <2>1, <2>2, <3>1, <4>3
    <3>2. CASE d.sid # s
      <4>1. d \in net /\ d.sid \in Sids
        BY <2>1, <2>2, <3>2 DEF TypeOK, Datagram
      <4>2. q \in RunBy(d.sid) /\ proc[q] \in Over
        BY <2>5, <3>2, <4>1
      <4>. QED
        BY <2>1, <4>1, <4>2 DEF EndStillComes, HasEnded
    <3>. QED
      BY <3>1, <3>2
  <2>7. EndedStaysGone'
    <3>. SUFFICES ASSUME orderly, NEW t \in Sids, Tracked(t), t \notin revived,
                         NEW q \in RunBy(t)', proc'[q] \in Over
                  PROVE  \E d \in net' : d.sid = t
      BY <1>1, <2>1 DEF EndedStaysGone, HasEnded, Tracked, daemon
    <3>1. CASE t = s
      BY <2>1, <2>2, <3>1
    <3>2. CASE t # s
      <4>1. q \in RunBy(t) /\ proc[q] \in Over
        BY <2>5, <3>2
      <4>. QED
        BY <2>1, <4>1 DEF EndedStaysGone, HasEnded
    <3>. QED
      BY <3>1, <3>2
  <2>. QED
    BY <1>2, <2>4, <2>6, <2>7
<1>6. ASSUME NEW s \in Sids, Start(p, s)
      PROVE  Ended'
  <2>1. RunBy(s) = {} /\ Emit(s, "SessionStart") /\ "SessionStart" \in STRING
    BY <1>6, LiteralsAreStrings DEF Start, TargetHookEvents
  <2>2. /\ proc[p] = "unused" /\ runs[p] = NoSid
        /\ proc' = [proc EXCEPT ![p] = "live"]
        /\ runs' = [runs EXCEPT ![p] = s]
    BY <1>6 DEF Start, StartedRuns
  <2>3. \A t \in Sids : t # s => RunBy(t)' = RunBy(t)
    BY <2>2, RegistryAssumption DEF RunBy, TypeOK
  <2>4. \A q \in Pids : proc'[q] \in Over => proc[q] \in Over /\ q # p
    BY <2>2 DEF TypeOK
  <2>5. \A q \in RunBy(s)' : q = p
    BY <2>1, <2>2 DEF RunBy, TypeOK
  <2>6. \A q \in RunBy(s)' : proc'[q] \in Over => proc[q] \notin Over
    BY <2>4, <2>5 DEF RunBy
  <2>. QED
    BY <1>5, <2>1, <2>3, <2>4, <2>6
<1>7. ASSUME NEW name \in STRING, proc[p] = "live", Emit(runs[p], name),
             UNCHANGED runs,
             \A q \in Pids : proc'[q] \in Over /\ proc[q] \notin Over =>
               q = p /\ name = "SessionEnd"
      PROVE  Ended'
  <2>1. PICK s \in Sids : s = runs[p]
    BY <1>3, <1>7
  <2>2. \A t \in Sids : RunBy(t)' = RunBy(t)
    BY <1>7 DEF RunBy
  <2>3. \A q \in RunBy(s) : proc[q] \notin Over
    BY <1>3, <1>7, <2>1
  <2>4. Emit(s, name) /\ runs'[p] = s
    BY <1>7, <2>1
  <2>5. \A q \in RunBy(s)' : proc[q] \notin Over
    BY <2>2, <2>3
  <2>. QED
    BY <1>5, <1>7, <2>2, <2>3, <2>4, <2>5
<1>8. ASSUME NEW name \in Hooks, Hook(p, name)
      PROVE  Ended'
  BY <1>7, <1>8, RegistryAssumption DEF Hook, processes
<1>9. CASE End(p)
  <2>1. /\ proc[p] = "live" /\ Emit(runs[p], "SessionEnd") /\ UNCHANGED runs
        /\ proc' = [proc EXCEPT ![p] = "ending"]
    BY <1>9 DEF End
  <2>2. "SessionEnd" \in STRING
    BY LiteralsAreStrings DEF TargetHookEvents
  <2>3. \A q \in Pids : proc'[q] \in Over /\ proc[q] \notin Over => q = p
    BY <2>1 DEF TypeOK
  <2>. QED
    BY <1>7, <2>1, <2>2, <2>3
<1>. QED
  BY <1>4, <1>6, <1>8, <1>9

(* A datagram that leaves in its turn is the SessionEnd only if none of its *)
(* session is left; a SessionEnd the daemon receives removes the record.    *)
LEMMA DaemonEnded ==
  ASSUME Core, Owned, Ended, NetworkStep \/ DaemonStep
  PROVE  Ended'
<1>. USE DEF Core, Owned, Ended, Over
<1>1. UNCHANGED processes
  BY DEF NetworkStep, DaemonStep, Lose, Receive, Sweep, ColdStart, Halt
<1>2. \A s \in Sids : RunBy(s)' = RunBy(s)
  BY <1>1 DEF RunBy, processes
<1>3. UNCHANGED proc /\ \A s \in Sids : HasEnded(s)' = HasEnded(s)
  BY <1>1 DEF processes, HasEnded, RunBy
<1>4. \A d \in net : d.sid \in Sids /\ d.name \in STRING /\ d.n \in Nat
  BY DEF TypeOK, Datagram
<1>5. ASSUME UNCHANGED network
      PROVE  Numbered' /\ EndIsLast' /\ EndStillComes'
  BY <1>1, <1>5
  DEF network, processes, Numbered, EndIsLast, EndStillComes, HasEnded, RunBy
<1>6. ASSUME NEW d \in net, net' = net \ {d}, sent' = sent,
             orderly' => orderly /\ IsNext(d)
      PROVE  Numbered' /\ EndIsLast' /\ EndStillComes'
  <2>1. Numbered' /\ EndIsLast'
    BY <1>6 DEF Numbered, EndIsLast
  <2>2. EndStillComes'
    <3>. SUFFICES ASSUME orderly', NEW e \in net', HasEnded(e.sid)
                  PROVE  \E f \in net' : f.sid = e.sid /\ f.name = "SessionEnd"
      BY <1>3, <1>4, <1>6 DEF EndStillComes
    <3>1. e \in net /\ e # d /\ orderly /\ IsNext(d)
      BY <1>6
    <3>2. PICK f \in net : f.sid = e.sid /\ f.name = "SessionEnd"
      BY <3>1 DEF EndStillComes
    <3>3. f # d
      <4>. SUFFICES ASSUME f = d PROVE FALSE
        OBVIOUS
      <4>1. e.n <= d.n /\ d.n <= e.n
        BY <3>1, <3>2 DEF EndIsLast, IsNext
      <4>2. e.n = d.n
        BY <1>4, <3>1, <4>1
      <4>. QED
        BY <3>1, <4>2 DEF Numbered
    <3>. QED
      BY <1>6, <3>2, <3>3
  <2>. QED
    BY <2>1, <2>2
<1>7. ASSUME NEW d \in net, Lose(d)
      PROVE  Ended'
  <2>1. /\ net' = net \ {d} /\ sent' = sent /\ UNCHANGED daemon
        /\ orderly' => orderly /\ IsNext(d) /\ ~up
    BY <1>7 DEF Lose
  <2>2. Numbered' /\ EndIsLast' /\ EndStillComes'
    BY <1>6, <2>1
  <2>3. DownIsEmpty'
    BY <2>1 DEF daemon, DownIsEmpty, Tracked
  <2>4. EndedStaysGone'
    BY <2>1 DEF daemon, EndedStaysGone, DownIsEmpty, Tracked
  <2>. QED
    BY <2>2, <2>3, <2>4
<1>8. ASSUME NEW d \in net, Receive(d)
      PROVE  Ended'
  <2>1. /\ up /\ UNCHANGED up /\ net' = net \ {d} /\ sent' = sent
        /\ orderly' => orderly /\ IsNext(d)
    BY <1>8 DEF Receive
  <2>2. Numbered' /\ EndIsLast' /\ EndStillComes'
    BY <1>6, <2>1
  <2>3. DownIsEmpty'
    BY <2>1 DEF DownIsEmpty
  <2>4. PICK p \in Found(d.sid) :
          agents' = [agents EXCEPT ![d.sid] = Updated(@, d.name, p)]
    BY <1>8 DEF Receive
  <2>5. /\ \A t \in Sids : t # d.sid => agents'[t] = agents[t]
        /\ agents'[d.sid] = Updated(agents[d.sid], d.name, p)
    BY <1>4, <2>4 DEF TypeOK
  <2>6. d.name = "SessionEnd" => agents'[d.sid] = NoRecord
    <3>1. p \in Pids \cup {NoPid}
      BY <1>4, FoundType
    <3>2. agents[d.sid] \in Record \cup {NoRecord}
      BY <1>4 DEF TypeOK
    <3>. QED
      BY <1>4, <2>5, <3>1, <3>2, UpdatedType
  <2>7. EndedStaysGone'
    <3>. SUFFICES ASSUME orderly', NEW t \in Sids, Tracked(t)', HasEnded(t),
                         t \notin revived'
                  PROVE  \E e \in net' : e.sid = t
      BY <1>3 DEF EndedStaysGone
    <3>0. Tracked(t) => t \notin revived
      BY <1>8 DEF Receive, StillRevived, Tracked
    <3>1. CASE t = d.sid
      <4>1. d.name # "SessionEnd"
        BY <2>6, <3>1 DEF Tracked
      <4>2. PICK e \in net : e.sid = d.sid /\ e.name = "SessionEnd"
        BY <2>1, <3>1 DEF EndStillComes
      <4>. QED
        BY <2>1, <3>1, <4>1, <4>2
    <3>2. CASE t # d.sid
      <4>1. Tracked(t)
        BY <2>5, <3>2 DEF Tracked
      <4>2. PICK e \in net : e.sid = t
        BY <2>1, <3>0, <4>1 DEF EndedStaysGone
      <4>. QED
        BY <2>1, <3>2, <4>2
    <3>. QED
      BY <3>1, <3>2
  <2>. QED
    BY <2>2, <2>3, <2>7
<1>9. CASE Sweep
  <2>1. /\ up /\ UNCHANGED up /\ UNCHANGED network
        /\ \A s \in Sids : Tracked(s)' =>
             Tracked(s) /\ (s \notin revived' => s \notin revived)
    <3>1. PICK found \in [Sids -> Pids \cup {NoPid}] :
            /\ \A s \in Sids : found[s] \in Found(s)
            /\ agents' = [s \in Sids |-> Reap(Identify(agents[s], found[s]))]
      BY <1>9 DEF Sweep
    <3>2. \A s \in Sids : agents'[s] # NoRecord => agents[s] # NoRecord
      BY <3>1, SweptType DEF TypeOK
    <3>. QED
      BY <1>9, <3>2 DEF Sweep, StillRevived, Tracked
  <2>2. DownIsEmpty'
    BY <2>1 DEF DownIsEmpty
  <2>3. EndedStaysGone'
    BY <1>3, <2>1 DEF network, EndedStaysGone
  <2>. QED
    BY <1>5, <2>1, <2>2, <2>3
<1>10. CASE ColdStart
  <2>1. UNCHANGED network /\ up'
    BY <1>10 DEF ColdStart
  <2>2. \A s \in Sids : Tracked(s)' => IsRunning(s) \/ s \in revived'
    <3>1. PICK seed \in [Sids -> Pids \cup {NoPid}] :
          /\ \A s \in Sids : IF LivePids(s) = {} THEN seed[s] = NoPid
                             ELSE seed[s] \in LivePids(s)
          /\ agents' = [s \in Sids |->
                          IF seed[s] = NoPid THEN NoRecord ELSE Seed(seed[s])]
          /\ revived' = {s \in Sids : IsEnding(s) /\ seed[s] # NoPid}
      BY <1>10 DEF ColdStart
    <3>2. \A s \in Sids : seed[s] # NoPid => IsRunning(s) \/ IsEnding(s)
      BY <3>1 DEF LivePids, FoundPids, IsRunning, IsEnding, Alive, RunBy, TypeOK
    <3>. QED
      BY <3>1, <3>2 DEF Tracked
  <2>3. \A s \in Sids : IsRunning(s) => ~HasEnded(s)
    BY RegistryAssumption DEF IsRunning, HasEnded, RunBy, OneRunner
  <2>4. EndedStaysGone'
    BY <1>3, <2>2, <2>3 DEF EndedStaysGone
  <2>. QED
    BY <1>5, <2>1, <2>4 DEF DownIsEmpty
<1>11. CASE Halt
  <2>1. UNCHANGED network /\ \A s \in Sids : ~Tracked(s)'
    BY <1>11 DEF Halt, Tracked
  <2>2. DownIsEmpty' /\ EndedStaysGone'
    BY <2>1 DEF DownIsEmpty, EndedStaysGone
  <2>. QED
    BY <1>5, <2>1, <2>2
<1>. QED
  BY <1>7, <1>8, <1>9, <1>10, <1>11 DEF NetworkStep, DaemonStep

(* Where no session moves to another process, and as long as its datagrams  *)
(* arrive in order and none is lost with the daemon up, a session that      *)
(* ended is tracked only while some of its datagrams are on their way, or   *)
(* because this daemon's cold start met its process on the way out: neither *)
(* a sweep nor a left-over file nor any other start brings it back.         *)
THEOREM EndedNeverReturns ==
  ASSUME ~Resumable
  PROVE  Spec => []EndedStaysGone
<1>1. Init => Ended
  BY InitEnded
<1>2. Core /\ Owned /\ Ended /\ [Next]_vars => Ended'
  <2>1. Core /\ Owned /\ Ended /\ Next => Ended'
    BY ProcessEnded, DaemonEnded DEF Next
  <2>2. Ended /\ UNCHANGED vars => Ended'
    BY DEF vars, processes, network, daemon, Ended, DownIsEmpty, Numbered,
           EndIsLast, EndStillComes, EndedStaysGone, HasEnded, Tracked, RunBy
  <2>. QED
    BY <2>1, <2>2
<1>3. Ended => EndedStaysGone
  BY DEF Ended
<1>. QED
  BY <1>1, <1>2, <1>3, OwnedInvariant, PTL DEF Spec
=============================================================================
