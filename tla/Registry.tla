------------------------------ MODULE Registry ------------------------------
(***************************************************************************)
(* The daemon's single source of truth, daemon/registry.py, with what feeds *)
(* it: the UDP listener (daemon/udp_listener.py), the cold start            *)
(* (daemon/main.py) and the reaper's sweep (daemon/reaper.py).              *)
(*                                                                          *)
(* Around it are the processes it is told about.  A Claude Code process     *)
(* runs one session; it sends hook events as datagrams, writes a session    *)
(* file some time after it started, and ends cleanly or is killed.  A clean *)
(* end takes two steps: the hook that sends SessionEnd is run by the        *)
(* process, which is there for a while yet.  Every handler of the daemon    *)
(* runs whole on its event loop, so each is one action; the processes,      *)
(* their files and the network move between any two of them.                *)
(***************************************************************************)
EXTENDS StateMachine

CONSTANTS
  Sids,       \* Session ids.
  NoSid,      \* A process that was never started runs no session.
  Hooks,      \* Hook events of a running session, besides its start and end.
  Resumable,  \* Whether a session whose process is gone may run in another.
  MaxSent,    \* Bound on the datagrams sent.
  MaxBoots    \* Bound on the starts of the daemon.

ASSUME RegistryAssumption ==
  /\ NoSid \notin Sids
  /\ Hooks \subseteq STRING \ {"SessionEnd"}
  /\ Resumable \in BOOLEAN
  /\ MaxSent \in Nat /\ MaxBoots \in Nat

VARIABLES
  proc,    \* proc[p]: whether process p is unused, live, ending (its SessionEnd
           \* is sent), exited or killed.
  runs,    \* runs[p]: the session p runs, or ran.
  files,   \* The processes whose session file exists.
  net,     \* Datagrams in flight, numbered in the order sent.
  sent,    \* Datagrams sent so far.
  orderly, \* Ghost: no datagram was lost with the daemon up, or overtaken by
           \* another of its session.
  agents,  \* SessionRegistry._agents.
  up,      \* Whether the daemon runs.
  boots,   \* Starts of the daemon so far.
  revived  \* Ghost: the sessions the cold start registered though they had
           \* ended, their process being still there, not dropped since.

processes == <<proc, runs, files>>
network   == <<net, sent, orderly>>
daemon    == <<agents, up, boots, revived>>
vars      == <<processes, network, daemon>>

Datagram == [n : Nat, sid : Sids, name : STRING]

(* is_pid_alive: the process is there, whatever it still does.              *)
Alive(p) == proc[p] \in {"live", "ending"}

RunBy(s) == {p \in Pids : runs[p] = s}

IsRunning(s) == \E p \in RunBy(s) : proc[p] = "live"

IsEnding(s) == \E p \in RunBy(s) : proc[p] = "ending"

(* A process that has sent its SessionEnd.                                  *)
Over == {"ending", "exited"}

HasEnded(s) == \E p \in RunBy(s) : proc[p] \in Over

Tracked(s) == agents[s] # NoRecord

-----------------------------------------------------------------------------
(* The processes, as far as the daemon can tell. *)

Emit(s, name) ==
  /\ sent < MaxSent
  /\ sent' = sent + 1
  /\ net' = net \cup {[n |-> sent + 1, sid |-> s, name |-> name]}
  /\ UNCHANGED orderly

Start(p, s) ==
  /\ proc[p] = "unused"
  /\ RunBy(s) = {} \/ (Resumable /\ ~IsRunning(s))
  /\ proc' = [proc EXCEPT ![p] = "live"]
  /\ runs' = [runs EXCEPT ![p] = s]
  /\ Emit(s, "SessionStart")
  /\ UNCHANGED <<files, daemon>>

WriteFile(p) ==
  /\ Alive(p)
  /\ p \notin files
  /\ files' = files \cup {p}
  /\ UNCHANGED <<proc, runs, network, daemon>>

Hook(p, name) ==
  /\ proc[p] = "live"
  /\ Emit(runs[p], name)
  /\ UNCHANGED <<processes, daemon>>

(* The process runs its SessionEnd hook, the last it runs.                  *)
End(p) ==
  /\ proc[p] = "live"
  /\ proc' = [proc EXCEPT ![p] = "ending"]
  /\ Emit(runs[p], "SessionEnd")
  /\ UNCHANGED <<runs, files, daemon>>

Exit(p) ==
  /\ proc[p] = "ending"
  /\ proc' = [proc EXCEPT ![p] = "exited"]
  /\ UNCHANGED <<runs, files, network, daemon>>

Kill(p) ==
  /\ proc[p] = "live"
  /\ proc' = [proc EXCEPT ![p] = "killed"]
  /\ UNCHANGED <<runs, files, network, daemon>>

(* A file goes while its process ends, or is cleaned up later, or never is. *)
RemoveFile(p) ==
  /\ p \in files
  /\ proc[p] # "live"
  /\ files' = files \ {p}
  /\ UNCHANGED <<proc, runs, network, daemon>>

IsNext(d) == \A e \in net : e.sid = d.sid => d.n <= e.n

(* A datagram sent while no daemon listens is lost in any case. *)
Lose(d) ==
  /\ net' = net \ {d}
  /\ orderly' = (orderly /\ ~up /\ IsNext(d))
  /\ UNCHANGED <<sent, processes, daemon>>

-----------------------------------------------------------------------------
(* The daemon *)

\* Mutant: the session id in the file is not compared.
AnyFile(s) == files

(* What find_session_file may return: any file of the session. *)
FoundPids(s) == {p \in files : runs[p] = s}

Found(s) == IF FoundPids(s) = {} THEN {NoPid} ELSE FoundPids(s)

(* _resolve_identity, with p the pid that was found. *)
Identify(rec, p) ==
  IF rec = NoRecord \/ rec.pid # NoPid THEN rec ELSE [rec EXCEPT !.pid = p]

\* Mutant: a pid not known yet counts as dead.
ReapUnknown(rec) ==
  IF rec # NoRecord /\ (rec.pid = NoPid \/ ~Alive(rec.pid)) THEN NoRecord
  ELSE rec

(* reap_dead, for one record. *)
Reap(rec) ==
  IF rec # NoRecord /\ rec.pid # NoPid /\ ~Alive(rec.pid) THEN NoRecord
  ELSE rec

EventOf(name) == [name |-> name, cwd |-> "home", tool |-> "", agent |-> ""]

(* SessionRegistry.apply_event, for a session whose file names pid p.  A    *)
(* record the event left as a no-op has been updated in place all the same. *)
Updated(rec, name, p) ==
  LET out == ApplyEvent(rec, EventOf(name), 0)
  IN IF out.op = "upsert" THEN Identify(out.rec, p) ELSE out.rec

StillRevived == revived' = {s \in revived : agents'[s] # NoRecord}

Receive(d) ==
  /\ up
  /\ net' = net \ {d}
  /\ orderly' = (orderly /\ IsNext(d))
  /\ \E p \in Found(d.sid) :
       agents' = [agents EXCEPT ![d.sid] = Updated(@, d.name, p)]
  /\ StillRevived
  /\ UNCHANGED <<sent, processes, up, boots>>

\* Mutant: the sweep does not look for pending pids.
SweepReapsOnly ==
  /\ up
  /\ agents' = [s \in Sids |-> Reap(agents[s])]
  /\ StillRevived
  /\ UNCHANGED <<up, boots, network, processes>>

(* One round of reaper_loop: pending identities first, then the dead. *)
Sweep ==
  /\ up
  /\ \E found \in [Sids -> Pids \cup {NoPid}] :
       /\ \A s \in Sids : found[s] \in Found(s)
       /\ agents' = [s \in Sids |-> Reap(Identify(agents[s], found[s]))]
  /\ StillRevived
  /\ UNCHANGED <<up, boots, network, processes>>

\* Mutant: the pid is left for the sweep to find.
SeedUnnamed(p) ==
  [ cwd |-> "home", state |-> "idle", label |-> Plain("Idle"), since |-> 0,
    stack |-> <<>>, pid |-> NoPid ]

Seed(p) ==
  [ cwd |-> "home", state |-> "idle", label |-> Plain("Idle"), since |-> 0,
    stack |-> <<>>, pid |-> p ]

\* Mutant: the cold start takes every file for a live session.
ListedPids(s) == FoundPids(s)

(* list_live_sessions, for one session. *)
LivePids(s) == {p \in FoundPids(s) : Alive(p)}

(* _cold_start: of several live files of a session the last one read stays. *)
ColdStart ==
  /\ ~up
  /\ boots < MaxBoots
  /\ up' = TRUE
  /\ boots' = boots + 1
  /\ \E seed \in [Sids -> Pids \cup {NoPid}] :
       /\ \A s \in Sids :
            IF LivePids(s) = {} THEN seed[s] = NoPid ELSE seed[s] \in LivePids(s)
       /\ agents' = [s \in Sids |->
                       IF seed[s] = NoPid THEN NoRecord ELSE Seed(seed[s])]
       /\ revived' = {s \in Sids : IsEnding(s) /\ seed[s] # NoPid}
  /\ UNCHANGED <<network, processes>>

(* The daemon stops; all it knew was in memory. *)
Halt ==
  /\ up
  /\ boots < MaxBoots
  /\ up' = FALSE
  /\ agents' = [s \in Sids |-> NoRecord]
  /\ revived' = {}
  /\ UNCHANGED <<boots, network, processes>>

-----------------------------------------------------------------------------
Init ==
  /\ proc = [p \in Pids |-> "unused"]
  /\ runs = [p \in Pids |-> NoSid]
  /\ files = {}
  /\ net = {} /\ sent = 0 /\ orderly = TRUE
  /\ agents = [s \in Sids |-> NoRecord]
  /\ up = FALSE /\ boots = 0 /\ revived = {}

ProcessStep ==
  \E p \in Pids :
    \/ \E s \in Sids : Start(p, s)
    \/ WriteFile(p)
    \/ \E name \in Hooks : Hook(p, name)
    \/ End(p)
    \/ Exit(p)
    \/ Kill(p)
    \/ RemoveFile(p)

NetworkStep == \E d \in net : Lose(d)

DaemonStep ==
  \/ \E d \in net : Receive(d)
  \/ Sweep
  \/ ColdStart
  \/ Halt

Next == ProcessStep \/ NetworkStep \/ DaemonStep

Spec == Init /\ [][Next]_vars

(* The sweep's timer keeps firing and the event loop keeps reading its      *)
(* socket while the daemon is up; nothing else is owed.                     *)
FairSpec ==
  /\ Spec
  /\ WF_vars(Sweep)
  /\ WF_vars(\E d \in net : Receive(d))

-----------------------------------------------------------------------------
(* Properties *)

(* Every variable has its type; a file belongs to a process that was        *)
(* started.                                                                 *)
TypeOK ==
  /\ proc \in [Pids -> {"unused", "live", "ending", "exited", "killed"}]
  /\ runs \in [Pids -> Sids \cup {NoSid}]
  /\ files \subseteq Pids
  /\ net \subseteq Datagram
  /\ sent \in Nat
  /\ orderly \in BOOLEAN
  /\ agents \in [Sids -> Record \cup {NoRecord}]
  /\ up \in BOOLEAN
  /\ boots \in Nat
  /\ revived \subseteq Sids

(* A pid on a record is that of a process that ran this very session, so    *)
(* the reaper never judges one session by another's process.                *)
IdentityTrue ==
  \A s \in Sids :
    Tracked(s) /\ agents[s].pid # NoPid => agents[s].pid \in RunBy(s)

(* While the daemon is up an agent never leaves the registry while a        *)
(* process runs its session and has not ended it: neither a sweep, nor a    *)
(* late or reordered event, nor another session's end removes it.           *)
NeverDespawnedAlive ==
  [][\A s \in Sids :
       up /\ up' /\ Tracked(s) /\ agents'[s] = NoRecord => ~IsRunning(s)]_vars


(* As long as datagrams arrive in order and none is lost with the daemon    *)
(* up, a session that ended cleanly is tracked only while some of its       *)
(* datagrams are on their way: no sweep, left-over session file or restart  *)
(* brings it back.  A restart while its process is still there is the one   *)
(* that does, since the cold start asks for no more than a live pid; once   *)
(* such a session is dropped it too stays gone.                             *)
EndedStaysGone ==
  orderly => \A s \in Sids :
    Tracked(s) /\ HasEnded(s) /\ s \notin revived =>
      \E d \in net : d.sid = s

(* A session that ended cleanly leaves the registry once its process is     *)
(* gone, as long as datagrams arrive in order and none is lost with the     *)
(* daemon up: by its SessionEnd, or, if that came when no daemon listened   *)
(* and a cold start met the process still there, by the sweep.              *)
EndedIsDespawned ==
  \A s \in Sids :
    (orderly /\ up /\ Tracked(s) /\ \E p \in RunBy(s) : proc[p] = "exited")
      ~> (~orderly \/ ~up \/ ~Tracked(s))

(* A session whose process was killed leaves the registry, its pid known or *)
(* not yet, provided its session file stays: the reaper resolves what is    *)
(* pending before it looks for the dead.                                    *)
CrashedIsDespawned ==
  \A p \in Pids :
    (up /\ proc[p] = "killed" /\ p \in files /\ Tracked(runs[p]))
      ~> (~up \/ p \notin files \/ ~Tracked(runs[p]))

(* What the docstrings of reap_dead and reaper.py say with no such proviso: *)
(* a session that crashed without a clean SessionEnd, its process killed    *)
(* and no datagram lost, is removed.                                        *)
DeadIsDespawned ==
  \A s \in Sids :
    (orderly /\ up /\ Tracked(s) /\ \E p \in RunBy(s) : proc[p] = "killed")
      ~> (~orderly \/ ~up \/ ~Tracked(s))

(* The registry is a Roster: seen as the set of tracked sessions, it drops  *)
(* none that runs and boots with none whose process is gone.                *)
R == INSTANCE Roster WITH
       up <- up,
       running <- {s \in Sids : IsRunning(s)},
       leaving <- {s \in Sids : IsEnding(s)},
       roster <- {s \in Sids : Tracked(s)}

IsRoster == R!Spec
=============================================================================
