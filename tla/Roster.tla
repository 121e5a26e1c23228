------------------------------- MODULE Roster -------------------------------
(***************************************************************************)
(* What the daemon promises about the agents it shows, told without pids,   *)
(* session files or datagrams: a session leaves the roster only when no     *)
(* process runs it any more, and a daemon that starts shows nothing but     *)
(* sessions whose process is there, one that has ended and is on its way    *)
(* out included.  Whether and when a session is shown or dropped is left    *)
(* open.                                                                    *)
(***************************************************************************)
CONSTANT Sids

VARIABLES
  up,       \* Whether the daemon runs.
  running,  \* Sessions a live process runs.
  leaving,  \* Sessions that have ended, their process being still there.
  roster    \* Sessions the daemon shows.

vars == <<up, running, leaving, roster>>

Init == ~up /\ running = {} /\ leaving = {} /\ roster = {}

Launch(s) ==
  /\ s \notin running \cup leaving
  /\ running' = running \cup {s}
  /\ UNCHANGED <<up, leaving, roster>>

End(s) ==
  /\ s \in running
  /\ running' = running \ {s}
  /\ leaving' = leaving \cup {s}
  /\ UNCHANGED <<up, roster>>

Die(s) ==
  /\ s \in running \cup leaving
  /\ running' = running \ {s}
  /\ leaving' = leaving \ {s}
  /\ UNCHANGED <<up, roster>>

Boot(S) ==
  /\ ~up /\ up'
  /\ S \subseteq running \cup leaving
  /\ roster' = S
  /\ UNCHANGED <<running, leaving>>

Halt ==
  /\ up /\ ~up'
  /\ roster' = {}
  /\ UNCHANGED <<running, leaving>>

Show(s) ==
  /\ up
  /\ roster' = roster \cup {s}
  /\ UNCHANGED <<up, running, leaving>>

Drop(S) ==
  /\ up
  /\ S \cap running = {}
  /\ roster' = roster \ S
  /\ UNCHANGED <<up, running, leaving>>

Next ==
  \/ \E s \in Sids : Launch(s) \/ End(s) \/ Die(s) \/ Show(s)
  \/ \E S \in SUBSET Sids : Boot(S) \/ Drop(S)
  \/ Halt

Spec == Init /\ [][Next]_vars
=============================================================================
