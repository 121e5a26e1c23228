------------------------------- MODULE Office -------------------------------
(***************************************************************************)
(* The frontend's picture of the office: the state of App                   *)
(* (frontend/main.py) and its desks, Layout (frontend/layout.py).           *)
(*                                                                          *)
(* One thread runs frame after frame: it drains the queue NetClient fills,  *)
(* drops the ghosts that have faded, and draws.  A message is whatever the  *)
(* daemon may send: an agent, its removal, or a snapshot of all of them; of *)
(* an agent only whether it asks matters here.  A timestamp is the time     *)
(* since it was taken, which counts no further than the length of its       *)
(* animation.                                                               *)
(***************************************************************************)
EXTENDS DeskGeometry, SequencesExt

CONSTANTS
  Sids,       \* Session ids.
  States,     \* The states of an agent, "asking" among them.
  SpawnTime,  \* SPAWN_ANIM_SECONDS
  FadeTime,   \* DESPAWN_ANIM_SECONDS
  FlashTime,  \* ASKING_FLASH_SECONDS
  Heights     \* The heights the window may have.

ASSUME OfficeAssumption ==
  /\ IsFiniteSet(Sids)
  /\ "asking" \in States
  /\ {SpawnTime, FadeTime, FlashTime} \subseteq Nat \ {0}
  /\ Heights \subseteq Nat \ {0}

VARIABLES
  frame,     \* The part of the frame that is next.
  agents,    \* App.agents: the state of each.
  ghosts,    \* App.ghosts: the age of each.
  spawn,     \* App.spawn_started: the age of each spawn.
  asking,    \* App.asking_since: the age of each flash.
  slotOf,    \* Layout._slot_of_session
  free,      \* Layout._free_slots
  nextSlot   \* Layout._next_slot

layout == <<slotOf, free, nextSlot>>
people == <<agents, ghosts, spawn, asking>>
vars   == <<frame, people, layout>>

A == DOMAIN agents
G == DOMAIN ghosts

Without(dict, S) == [s \in DOMAIN dict \ S |-> dict[s]]

(* The dict's entries put in another one. *)
Put(dict, old) ==
  [s \in DOMAIN dict \cup DOMAIN old |-> IF s \in DOMAIN dict THEN dict[s] ELSE old[s]]

Asks(s) == s \in A /\ agents[s] = "asking"

Rows == AtLeast(1, nextSlot)

-----------------------------------------------------------------------------
(* Layout *)

\* Mutant: the new slots start one too low.
SeatBelow(avail, i) ==
  IF i <= Len(avail) THEN avail[i] ELSE nextSlot + i - Len(avail) - 2

\* Mutant: the freed slots are not taken off the list in turn.
SeatFirst(avail, i) ==
  IF i <= Len(avail) THEN avail[1] ELSE nextSlot + i - Len(avail) - 1

(* The slot of the i-th agent to be seated: the freed ones come first. *)
Seat(avail, i) ==
  IF i <= Len(avail) THEN avail[i] ELSE nextSlot + i - Len(avail) - 1

\* Mutant: the slots of those who left are not given back.
SyncLeaks(ids) ==
  \E come \in SetToSeqs(ids \ DOMAIN slotOf) :
    /\ slotOf' = [s \in ids |->
                    IF s \in DOMAIN slotOf THEN slotOf[s]
                    ELSE Seat(free, CHOOSE i \in DOMAIN come : come[i] = s)]
    /\ free' = SubSeq(free, Len(come) + 1, Len(free))
    /\ nextSlot' = nextSlot + AtLeast(0, Len(come) - Len(free))

(* Layout.sync: release the slots of those who left, then seat those who    *)
(* came, each in the order of a set.                                        *)
Sync(ids) ==
  \E gone \in SetToSeqs(DOMAIN slotOf \ ids), come \in SetToSeqs(ids \ DOMAIN slotOf) :
    LET avail == free \o [i \in DOMAIN gone |-> slotOf[gone[i]]]
    IN /\ slotOf' = [s \in ids |->
                       IF s \in DOMAIN slotOf THEN slotOf[s]
                       ELSE Seat(avail, CHOOSE i \in DOMAIN come : come[i] = s)]
       /\ free' = SubSeq(avail, Len(come) + 1, Len(avail))
       /\ nextSlot' = nextSlot + AtLeast(0, Len(come) - Len(avail))

-----------------------------------------------------------------------------
(* Messages *)

\* Mutant: the state before the message is not looked at.
AskingIn(dict) == {s \in DOMAIN dict : dict[s] = "asking"}

(* The agents of the dict whose flash starts. *)
Edge(dict) == {s \in DOMAIN dict : dict[s] = "asking" /\ ~Asks(s)}

\* Mutant: a session that comes back stays a ghost.
GhostsStay(dict, S) == Put([s \in A \cap S |-> 0], ghosts)

\* Mutant: a ghost that is despawned again starts to fade again.
GhostsRestart(dict, S) ==
  Put([s \in (A \cup G) \cap S |-> 0], Without(ghosts, DOMAIN dict))

(* The agents of S become ghosts, those of the dict are none any more. *)
Ghosts(dict, S) == Put([s \in A \cap S |-> 0], Without(ghosts, DOMAIN dict))

(* _upsert_agent for every agent of the dict, then _start_despawn for every *)
(* agent of S.  Neither gives up a slot, so that the syncs after each of    *)
(* them come to one that seats the newcomers in the order of the dict.      *)
Handle(dict, S) ==
  /\ frame = "drain"
  /\ agents' = Put(dict, Without(agents, S))
  /\ ghosts' = Ghosts(dict, S)
  /\ spawn' = Put([s \in DOMAIN dict \ (A \cup G) |-> 0], Without(spawn, A \cap S))
  /\ asking' = Put([s \in Edge(dict) |-> 0], Without(asking, A \cap S))
  /\ Sync(DOMAIN agents' \cup DOMAIN ghosts')
  /\ UNCHANGED frame

NoDict == [s \in {} |-> 0]

Upsert(s, state) == Handle([t \in {s} |-> state], {})

Despawn(s) == Handle(NoDict, {s})

Snapshot(dict) == Handle(dict, Sids \ DOMAIN dict)

Dicts == UNION {[S -> States] : S \in SUBSET Sids}

HandleMessage ==
  \/ \E s \in Sids : Despawn(s) \/ \E state \in States : Upsert(s, state)
  \/ \E dict \in Dicts : Snapshot(dict)

-----------------------------------------------------------------------------
(* The frame *)

QueueEmpty ==
  /\ frame = "drain"
  /\ frame' = "ghosts"
  /\ UNCHANGED <<people, layout>>

UpdateGhosts ==
  /\ frame = "ghosts"
  /\ frame' = "draw"
  /\ ghosts' = Without(ghosts, {s \in G : ghosts[s] >= FadeTime})
  /\ Sync(A \cup DOMAIN ghosts')
  /\ UNCHANGED <<agents, spawn, asking>>

(* _draw forgets the animations that are over, of the agents it draws: those*)
(* that have a desk.                                                        *)
Draw ==
  LET drawn == A \cap DOMAIN slotOf
  IN /\ frame = "draw"
     /\ frame' = "drain"
     /\ spawn' = Without(spawn, {s \in drawn \cap DOMAIN spawn : spawn[s] >= SpawnTime})
     /\ asking' = Without(asking, {s \in drawn \cap DOMAIN asking :
                                     Asks(s) /\ asking[s] >= FlashTime})
     /\ UNCHANGED <<agents, ghosts, layout>>

Older(ages, limit) == [s \in DOMAIN ages |-> AtMost(limit, ages[s] + 1)]

Tick ==
  /\ ghosts' = Older(ghosts, FadeTime)
  /\ spawn' = Older(spawn, SpawnTime)
  /\ asking' = Older(asking, FlashTime)
  /\ UNCHANGED <<frame, agents, layout>>

Init ==
  /\ frame = "drain"
  /\ agents = NoDict /\ ghosts = NoDict /\ spawn = NoDict /\ asking = NoDict
  /\ slotOf = NoDict /\ free = <<>> /\ nextSlot = 0

Next == HandleMessage \/ QueueEmpty \/ UpdateGhosts \/ Draw \/ Tick

Spec == Init /\ [][Next]_vars

(* Time passes, frames follow each other, and no flood of messages keeps a  *)
(* frame draining for ever: the daemon sends a handful in a second.         *)
FairSpec ==
  /\ Spec
  /\ WF_vars(QueueEmpty) /\ WF_vars(UpdateGhosts) /\ WF_vars(Draw)
  /\ WF_vars(Tick)

-----------------------------------------------------------------------------
(* Properties *)

Ages(limit) == UNION {[S -> 0..limit] : S \in SUBSET Sids}

(* Every variable has its type. *)
TypeOK ==
  /\ frame \in {"drain", "ghosts", "draw"}
  /\ agents \in Dicts
  /\ ghosts \in Ages(FadeTime)
  /\ spawn \in Ages(SpawnTime)
  /\ asking \in Ages(FlashTime)
  /\ DOMAIN slotOf \subseteq Sids /\ Range(slotOf) \subseteq Nat
  /\ free \in Seq(Nat)
  /\ nextSlot \in Nat

(* The six collections agree on who is in the office: nobody is both an     *)
(* agent and a ghost, everybody drawn has a desk and nobody else keeps one, *)
(* and only agents are animated.                                            *)
OfficeConsistent ==
  /\ A \cap G = {}
  /\ DOMAIN slotOf = A \cup G
  /\ DOMAIN spawn \cup DOMAIN asking \subseteq A

(* The slots from 0 up to the next one are each held by one session or free *)
(* once: none is lost, none is given out twice.                             *)
SlotsTile ==
  /\ IsInjective(slotOf) /\ IsInjective(free)
  /\ Range(slotOf) \cap Range(free) = {}
  /\ Range(slotOf) \cup Range(free) = 0..nextSlot - 1

(* The grid grows only when every slot is taken, be it by a ghost, and      *)
(* never shrinks.                                                           *)
GridGrowsWhenFull ==
  [][/\ nextSlot' >= nextSlot
     /\ nextSlot' # nextSlot => nextSlot' = Cardinality(DOMAIN slotOf')]_vars

(* The flash starts anew exactly when an agent starts to ask, as a newcomer *)
(* or a ghost come back does: a snapshot that repeats what is known leaves  *)
(* it alone, and no agent that starts to ask goes without.                  *)
FlashOnEdge ==
  [][\A s \in Sids :
       IF s \in A' /\ agents'[s] = "asking" /\ ~Asks(s)
       THEN s \in DOMAIN asking' /\ asking'[s] = 0
       ELSE s \in DOMAIN asking' => s \in DOMAIN asking /\ asking'[s] >= asking[s]]_vars

(* Desks never overlap, and all of them are inside the office if the least  *)
(* gap lets them.                                                           *)
DesksApartAndInside ==
  \A h \in Heights : \A s, t \in DOMAIN slotOf :
    LET top(u) == DeskTop(slotOf[u], Rows, h)
    IN /\ slotOf[s] < slotOf[t] => top(s) + DESK_HEIGHT <= top(t)
       /\ (DESK_HEIGHT + DESK_MIN_GAP) * Rows <= h =>
            top(s) >= 0 /\ top(s) + DESK_HEIGHT <= h

(* A ghost fades and leaves, or the session comes back: snapshots without   *)
(* it, however many, do not start its fading anew.                          *)
GhostsFade == \A s \in Sids : s \in G ~> s \notin G
=============================================================================
