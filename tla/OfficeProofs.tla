---------------------------- MODULE OfficeProofs ----------------------------
(***************************************************************************)
(* Theorems of Office: who is in it and at which desk, for any number of    *)
(* sessions, any messages and any length of the animations.                 *)
(***************************************************************************)
EXTENDS Office, TLAPS, FiniteSetTheorems, SequenceTheorems

-----------------------------------------------------------------------------
(* The desks, for any number of rows and any height.                        *)

(* A whole quotient, by its bounds.                                         *)
LEMMA QuotientIs ==
  ASSUME NEW x \in Int, NEW n \in Nat \ {0}
  PROVE  /\ x \div n \in Int
         /\ n * (x \div n) <= x /\ x < n * (x \div n) + n
<1>1. x \div n \in Int /\ x % n \in 0..n - 1
  OBVIOUS
<1>2. x = n * (x \div n) + (x % n)
  BY Z3
<1>. QED
  BY <1>1, <1>2

(* Multiples are ordered as what they are multiples of.                     *)
LEMMA OrderOfMultiples ==
  ASSUME NEW a \in Int, NEW b \in Int, NEW n \in Nat \ {0}, n * a < n * b
  PROVE  a < b
<1>1. CASE a < b
  BY <1>1
<1>2. CASE a >= b
  <2>1. PICK d \in Nat : a = b + d
    <3>1. a - b \in Nat /\ a = b + (a - b)
      BY <1>2
    <3>. QED
      BY <3>1
  <2>2. n * a = n * b + n * d
    BY <2>1
  <2>3. n * d >= 0
    BY <2>1
  <2>. QED
    BY <2>2, <2>3
<1>. QED
  BY <1>1, <1>2

(* A quotient is at least, and at most, what the dividend is a multiple of; *)
(* and the quotient of so many multiples more is so much more.              *)
LEMMA Quotients ==
  ASSUME NEW x \in Int, NEW y \in Int, NEW k \in Int, NEW n \in Nat \ {0}
  PROVE  /\ n * k <= x => k <= x \div n
         /\ x < n * k + n => x \div n <= k
         /\ x + n * k <= y => (x \div n) + k <= y \div n
<1>. DEFINE p == x \div n
            q == y \div n
<1>1. p \in Int /\ n * p <= x /\ x < n * p + n
  BY QuotientIs
<1>2. q \in Int /\ n * q <= y /\ y < n * q + n
  BY QuotientIs
<1>. HIDE DEF p, q
<1>3. n * (p + 1) = n * p + n /\ n * (q + 1) = n * q + n /\ n * (k + 1) = n * k + n
  BY <1>1, <1>2
<1>4. n * (p + k) = n * p + n * k
  BY <1>1
<1>5. ASSUME n * k <= x PROVE k <= p
  <2>1. n * k < n * (p + 1)
    BY <1>1, <1>3, <1>5
  <2>2. k < p + 1
    BY <1>1, <2>1, OrderOfMultiples
  <2>. QED
    BY <1>1, <2>2
<1>6. ASSUME x < n * k + n PROVE p <= k
  <2>1. n * p < n * (k + 1)
    BY <1>1, <1>3, <1>6
  <2>2. p < k + 1
    BY <1>1, <2>1, OrderOfMultiples
  <2>. QED
    BY <1>1, <2>2
<1>7. ASSUME x + n * k <= y PROVE p + k <= q
  <2>1. n * (p + k) < n * (q + 1)
    BY <1>1, <1>2, <1>3, <1>4, <1>7
  <2>2. p + k < q + 1
    BY <1>1, <1>2, <2>1, OrderOfMultiples
  <2>. QED
    BY <1>1, <1>2, <2>2
<1>. QED
  BY <1>5, <1>6, <1>7 DEF p, q

(* The column is as high as the least gap asks for, at least, and fits when *)
(* that does.                                                               *)
LEMMA ColumnFits ==
  ASSUME NEW rows \in Nat \ {0}, NEW h \in Nat
  PROVE  LET column == ColumnHeight(rows, h)
         IN  /\ column \in Nat /\ 204 * rows <= column
             /\ 204 * rows <= h => column <= h
BY DEF ColumnHeight, AtLeast, AtMost, DESK_HEIGHT, DESK_MARGIN, DESK_MIN_GAP

(* However low the office, a desk begins below where the one before it ends.*)
THEOREM DesksApart ==
  ASSUME NEW rows \in Nat \ {0}, NEW h \in Nat,
         NEW slot \in 0..rows - 1, NEW other \in 0..rows - 1, slot < other
  PROVE  DeskTop(slot, rows, h) + DESK_HEIGHT <= DeskTop(other, rows, h)
<1>. DEFINE column == ColumnHeight(rows, h)
            rest   == AtLeast(0, h - column) * rows
            x      == rest + (2 * slot + 1) * column - 200 * rows
            y      == rest + (2 * other + 1) * column - 200 * rows
            n      == 2 * rows
<1>1. column \in Nat /\ 204 * rows <= column
  BY ColumnFits
<1>2. DeskTop(slot, rows, h) = x \div n /\ DeskTop(other, rows, h) = y \div n
  BY DEF DeskTop, DESK_HEIGHT
<1>. HIDE DEF column
<1>3. AtLeast(0, h - column) \in Nat
  BY <1>1 DEF AtLeast
<1>4. rest \in Int
  BY <1>3
<1>. HIDE DEF rest
<1>5. PICK d \in Nat : other = slot + 1 + d
  <2>1. other - slot - 1 \in Nat /\ other = slot + 1 + (other - slot - 1)
    OBVIOUS
  <2>. QED
    BY <2>1
<1>6. (2 * other + 1) * column = (2 * slot + 1) * column + 2 * column + 2 * (d * column)
  BY <1>1, <1>5
<1>7. d * column >= 0
  BY <1>1, <1>5
<1>8. x + n * 200 <= y
  <2>1. (2 * slot + 1) * column \in Int /\ (2 * other + 1) * column \in Int
        /\ d * column \in Int
    BY <1>1, <1>5
  <2>. QED
    BY <1>1, <1>4, <1>6, <1>7, <2>1
<1>9. x \in Int /\ y \in Int /\ n \in Nat \ {0}
  BY <1>1, <1>4
<1>. HIDE DEF x, y, n
<1>10. (x \div n) + 200 <= y \div n
  BY <1>8, <1>9, Quotients
<1>. QED
  BY <1>2, <1>10 DEF DESK_HEIGHT

(* Where the least gaps fit, every desk is inside the office.               *)
THEOREM DesksInside ==
  ASSUME NEW rows \in Nat \ {0}, NEW h \in Nat, NEW slot \in 0..rows - 1,
         (DESK_HEIGHT + DESK_MIN_GAP) * rows <= h
  PROVE  DeskTop(slot, rows, h) >= 0 /\ DeskTop(slot, rows, h) + DESK_HEIGHT <= h
<1>. DEFINE column == ColumnHeight(rows, h)
            x      == (h - column) * rows + (2 * slot + 1) * column - 200 * rows
            n      == 2 * rows
<1>1. column \in Nat /\ 204 * rows <= column /\ column <= h
  BY ColumnFits DEF DESK_HEIGHT, DESK_MIN_GAP
<1>2. DeskTop(slot, rows, h) = x \div n
  BY <1>1 DEF DeskTop, DESK_HEIGHT, AtLeast
<1>. HIDE DEF column
<1>3. /\ (2 * slot + 1) * column = 2 * (slot * column) + column
      /\ slot * column >= 0 /\ slot * column \in Int
  BY <1>1
<1>4. (h - column) * rows = h * rows - column * rows /\ h * rows \in Int /\ column * rows \in Int
  BY <1>1
<1>5. column * rows <= h * rows
  <2>1. PICK d \in Nat : h = column + d
    <3>1. h - column \in Nat /\ h = column + (h - column)
      BY <1>1
    <3>. QED
      BY <3>1
  <2>2. h * rows = column * rows + d * rows /\ d * rows >= 0 /\ d * rows \in Int
    BY <1>1, <2>1
  <2>. QED
    BY <1>4, <2>2
<1>6. slot * column + column <= column * rows
  <2>1. PICK d \in Nat : rows = slot + 1 + d
    <3>1. rows - slot - 1 \in Nat /\ rows = slot + 1 + (rows - slot - 1)
      OBVIOUS
    <3>. QED
      BY <3>1
  <2>2. column * rows = slot * column + column + column * d /\ column * d >= 0
        /\ column * d \in Int
    <3>1. column * rows = column * (slot + 1) + column * d
      BY <1>1, <2>1
    <3>2. column * (slot + 1) = slot * column + column
      BY <1>1
    <3>3. column * d >= 0 /\ column * d \in Int
      BY <1>1, <2>1
    <3>. QED
      BY <3>1, <3>2, <3>3
  <2>. QED
    BY <1>1, <1>3, <1>4, <2>2
<1>7. x \in Int /\ n \in Nat \ {0} /\ h - 200 \in Int
  BY <1>1, <1>3, <1>4
<1>8. n * 0 <= x
  BY <1>1, <1>3, <1>4, <1>5
<1>9. x < n * (h - 200) + n
  <2>1. n * (h - 200) = 2 * (h * rows) - 400 * rows
    OBVIOUS
  <2>. QED
    BY <1>1, <1>3, <1>4, <1>5, <1>6, <2>1
<1>. HIDE DEF x, n
<1>10. x \div n \in Int
  BY <1>7, QuotientIs
<1>11. 0 <= x \div n
  BY <1>7, <1>8, Quotients
<1>12. x \div n <= h - 200
  <2>. DEFINE k == h - 200
  <2>1. k \in Int /\ x < n * k + n
    BY <1>7, <1>9
  <2>. HIDE DEF k
  <2>2. x \div n <= k
    BY <1>7, <2>1, Quotients
  <2>. QED
    BY <2>2 DEF k
<1>. QED
  BY <1>2, <1>10, <1>11, <1>12 DEF DESK_HEIGHT

-----------------------------------------------------------------------------
(* The sessions.                                                            *)

(* A message's agents, and those it makes ghosts, are not the same.         *)
Parted(dict, S) == DOMAIN dict \subseteq Sids /\ DOMAIN dict \cap S = {}

-----------------------------------------------------------------------------
(* Layout.sync gives a slot to those it is told of and to nobody else, and  *)
(* leaves who had one at it.                                                *)
LEMMA SyncSlots ==
  ASSUME NEW ids, Sync(ids)
  PROVE  /\ DOMAIN slotOf' = ids
         /\ \A s \in DOMAIN slotOf \cap ids : slotOf'[s] = slotOf[s]
BY DEF Sync

(* Dicts of sessions. *)
DictsOf(T) == UNION {[S -> T] : S \in SUBSET Sids}

(* What such a dict is.                                                     *)
LEMMA DictsAre ==
  ASSUME NEW T, NEW f
  PROVE  f \in DictsOf(T) <=>
           /\ DOMAIN f \subseteq Sids /\ f = [s \in DOMAIN f |-> f[s]]
           /\ \A s \in DOMAIN f : f[s] \in T
<1>1. ASSUME f \in DictsOf(T)
      PROVE  /\ DOMAIN f \subseteq Sids /\ f = [s \in DOMAIN f |-> f[s]]
             /\ \A s \in DOMAIN f : f[s] \in T
  <2>1. PICK S \in SUBSET Sids : f \in [S -> T]
    BY <1>1 DEF DictsOf
  <2>. QED
    BY <2>1
<1>2. ASSUME DOMAIN f \subseteq Sids, f = [s \in DOMAIN f |-> f[s]],
             \A s \in DOMAIN f : f[s] \in T
      PROVE  f \in DictsOf(T)
  <2>1. f \in [DOMAIN f -> T]
    BY <1>2
  <2>. QED
    BY <1>2, <2>1 DEF DictsOf
<1>. QED
  BY <1>1, <1>2

(* Every message is one of Handle's, with a dict of agents.                 *)
LEMMA MessageIsHandled ==
  ASSUME HandleMessage
  PROVE  \E dict \in DictsOf(States) : \E S : Parted(dict, S) /\ Handle(dict, S)
<1>1. ASSUME NEW s \in Sids, Despawn(s)
      PROVE  Parted(NoDict, {s}) /\ Handle(NoDict, {s}) /\ NoDict \in DictsOf(States)
  <2>1. NoDict \in [{} -> States]
    BY DEF NoDict
  <2>. QED
    BY <1>1, <2>1 DEF Despawn, Parted, NoDict, DictsOf
<1>2. ASSUME NEW s \in Sids, NEW state \in States, Upsert(s, state)
      PROVE  LET dict == [t \in {s} |-> state]
             IN  Parted(dict, {}) /\ Handle(dict, {}) /\ dict \in DictsOf(States)
  <2>1. [t \in {s} |-> state] \in [{s} -> States] /\ {s} \in SUBSET Sids
    OBVIOUS
  <2>. QED
    BY <1>2, <2>1 DEF Upsert, Parted, DictsOf
<1>3. ASSUME NEW dict \in Dicts, Snapshot(dict)
      PROVE  /\ Parted(dict, Sids \ DOMAIN dict) /\ Handle(dict, Sids \ DOMAIN dict)
             /\ dict \in DictsOf(States)
  <2>1. dict \in DictsOf(States)
    BY DEF Dicts, DictsOf
  <2>2. DOMAIN dict \subseteq Sids
    BY <2>1, DictsAre
  <2>. QED
    BY <1>3, <2>1, <2>2 DEF Snapshot, Parted
<1>. QED
  BY <1>1, <1>2, <1>3 DEF HandleMessage

-----------------------------------------------------------------------------
(* A message leaves nobody both an agent and a ghost.                       *)
LEMMA HandleConsistent ==
  ASSUME OfficeConsistent, NEW dict, NEW S, Parted(dict, S), Handle(dict, S)
  PROVE  OfficeConsistent'
<1>1. A' = DOMAIN dict \cup (A \ S)
  BY DEF Handle, Put, Without, A
<1>2. G' = (A \cap S) \cup (G \ DOMAIN dict)
  BY DEF Handle, Ghosts, Put, Without, G
<1>3. DOMAIN spawn' = (DOMAIN dict \ (A \cup G)) \cup (DOMAIN spawn \ (A \cap S))
  BY DEF Handle, Put, Without
<1>4. DOMAIN asking' = Edge(dict) \cup (DOMAIN asking \ (A \cap S))
  BY DEF Handle, Put, Without
<1>5. DOMAIN slotOf' = A' \cup G'
  BY SyncSlots DEF Handle, A, G
<1>6. Edge(dict) \subseteq DOMAIN dict
  BY DEF Edge
<1>. QED
  BY <1>1, <1>2, <1>3, <1>4, <1>5, <1>6 DEF OfficeConsistent, Parted

(* Nor does any step of the frame.                                          *)
LEMMA ConsistentStep == OfficeConsistent /\ [Next]_vars => OfficeConsistent'
<1>. SUFFICES ASSUME OfficeConsistent, [Next]_vars PROVE OfficeConsistent'
  OBVIOUS
<1>1. CASE HandleMessage
  BY <1>1, MessageIsHandled, HandleConsistent
<1>2. CASE QueueEmpty
  BY <1>2 DEF QueueEmpty, people, layout, OfficeConsistent, A, G
<1>3. CASE UpdateGhosts
  <2>1. G' \subseteq G /\ UNCHANGED <<agents, spawn, asking>>
    BY <1>3 DEF UpdateGhosts, Without, G
  <2>2. DOMAIN slotOf' = A \cup G'
    BY <1>3, SyncSlots DEF UpdateGhosts, G
  <2>. QED
    BY <2>1, <2>2 DEF OfficeConsistent, A
<1>4. CASE Draw
  <2>1. DOMAIN spawn' \subseteq DOMAIN spawn /\ DOMAIN asking' \subseteq DOMAIN asking
    BY <1>4 DEF Draw, Without
  <2>. QED
    BY <1>4, <2>1 DEF Draw, layout, OfficeConsistent, A, G
<1>5. CASE Tick
  <2>1. /\ DOMAIN ghosts' = DOMAIN ghosts /\ DOMAIN spawn' = DOMAIN spawn
        /\ DOMAIN asking' = DOMAIN asking
    BY <1>5 DEF Tick, Older
  <2>. QED
    BY <1>5, <2>1 DEF Tick, layout, OfficeConsistent, A, G
<1>6. CASE UNCHANGED vars
  BY <1>6 DEF vars, people, layout, OfficeConsistent, A, G
<1>. QED
  BY <1>1, <1>2, <1>3, <1>4, <1>5, <1>6 DEF Next

(* Whatever the daemon sends, nobody is both an agent and a ghost, exactly  *)
(* those who are either have a desk, and only agents are animated.          *)
THEOREM AlwaysConsistent == Spec => []OfficeConsistent
<1>1. Init => OfficeConsistent
  BY DEF Init, OfficeConsistent, A, G, NoDict
<1>. QED
  BY <1>1, ConsistentStep, PTL DEF Spec

-----------------------------------------------------------------------------
(* The slots.  In the office there are sessions only, and slots are tiled.  *)
Tiled ==
  /\ DOMAIN slotOf \subseteq Sids
  /\ free \in Seq(Nat) /\ nextSlot \in Nat
  /\ SlotsTile

(* A set's order has each of its members once.                              *)
LEMMA OrderOfSet ==
  ASSUME NEW S, IsFiniteSet(S), NEW q \in SetToSeqs(S)
  PROVE  /\ q \in Seq(S) /\ Len(q) \in Nat /\ DOMAIN q = 1..Len(q)
         /\ \A i, j \in DOMAIN q : q[i] = q[j] => i = j
         /\ \A s \in S : \E i \in DOMAIN q : q[i] = s
<1>. DEFINE n == Cardinality(S)
<1>1. n \in Nat
  BY FS_CardinalityType
<1>2. q \in [1..n -> S] /\ \A i, j \in 1..n : i # j => q[i] # q[j]
  BY DEF SetToSeqs
<1>3. q \in Injection(1..n, S)
  BY <1>2 DEF Injection, IsInjective
<1>4. Cardinality(1..n) = n
  BY <1>1, FS_Interval
<1>5. q \in Surjection(1..n, S)
  BY <1>3, <1>4, FS_Injection
<1>6. \A s \in S : \E i \in 1..n : q[i] = s
  BY <1>5 DEF Surjection
<1>7. q \in Seq(S) /\ Len(q) = n
  BY <1>1, <1>2
<1>. QED
  BY <1>1, <1>2, <1>6, <1>7

(* The first c that come take the freed slots in turn, and then new ones;   *)
(* what they and the list hold then is what it held, and the new ones.      *)
LEMMA SeatsTile ==
  ASSUME NEW avail \in Seq(Nat), IsInjective(avail), nextSlot \in Nat,
         Range(avail) \subseteq 0..nextSlot - 1, NEW c \in Nat
  PROVE  LET rest == SubSeq(avail, c + 1, Len(avail))
             n    == nextSlot + AtLeast(0, c - Len(avail))
         IN  /\ n \in Nat /\ nextSlot <= n /\ rest \in Seq(Nat)
             /\ IsInjective(rest)
             /\ \A i, j \in 1..c : Seat(avail, i) = Seat(avail, j) => i = j
             /\ \A i \in 1..c : Seat(avail, i) \notin Range(rest)
             /\ \A i \in 1..c : Seat(avail, i) \in Range(avail) \cup (nextSlot..n - 1)
             /\ Range(rest) \subseteq Range(avail)
             /\ \A x \in Range(avail) \cup (nextSlot..n - 1) :
                  x \in Range(rest) \/ \E i \in 1..c : Seat(avail, i) = x
             /\ n # nextSlot => Range(rest) = {}
<1>. DEFINE L    == Len(avail)
            rest == SubSeq(avail, c + 1, L)
            n    == nextSlot + AtLeast(0, c - L)
<1>1. L \in Nat /\ DOMAIN avail = 1..L /\ \A i \in 1..L : avail[i] \in 0..nextSlot - 1
  <2>1. L \in Nat /\ DOMAIN avail = 1..L
    OBVIOUS
  <2>. QED
    BY <2>1 DEF Range
<1>2. /\ rest \in Seq(Nat) /\ Len(rest) = IF c + 1 <= L THEN L - c ELSE 0
      /\ \A i \in 1..L - c : rest[i] = avail[c + i]
  <2>1. \A i \in c + 1..L : avail[i] \in Nat
    BY <1>1
  <2>2. /\ rest \in Seq(Nat) /\ Len(rest) = IF c + 1 <= L THEN L - (c + 1) + 1 ELSE 0
        /\ \A i \in 1..L - (c + 1) + 1 : rest[i] = avail[c + 1 + i - 1]
    BY <1>1, <2>1, SubSeqProperties
  <2>. QED
    BY <1>1, <2>2
<1>3. DOMAIN rest = 1..L - c
  BY <1>1, <1>2
<1>4. \A i, j \in 1..L : avail[i] = avail[j] => i = j
  BY <1>1 DEF IsInjective
<1>5. n = IF c <= L THEN nextSlot ELSE nextSlot + c - L
  BY <1>1 DEF AtLeast
<1>6. \A i \in 1..c : Seat(avail, i) = IF i <= L THEN avail[i] ELSE nextSlot + i - L - 1
  BY DEF Seat
<1>7. Range(rest) = {avail[k] : k \in c + 1..L}
  <2>1. Range(rest) = {rest[i] : i \in 1..L - c}
    BY <1>3 DEF Range
  <2>2. ASSUME NEW k \in c + 1..L PROVE k - c \in 1..L - c /\ rest[k - c] = avail[k]
    BY <1>1, <1>2
  <2>3. ASSUME NEW i \in 1..L - c PROVE c + i \in c + 1..L /\ rest[i] = avail[c + i]
    BY <1>1, <1>2
  <2>. HIDE DEF rest, L
  <2>. QED
    BY <2>1, <2>2, <2>3
<1>8. Range(avail) = {avail[k] : k \in 1..L}
  BY <1>1 DEF Range
<1>. HIDE DEF L, rest, n
<1>9. IsInjective(rest)
  BY <1>1, <1>2, <1>3, <1>4 DEF IsInjective
<1>10. \A i, j \in 1..c : Seat(avail, i) = Seat(avail, j) => i = j
  BY <1>1, <1>4, <1>6
<1>11. \A i \in 1..c : Seat(avail, i) \notin Range(rest)
  BY <1>1, <1>4, <1>6, <1>7
<1>12. \A i \in 1..c : Seat(avail, i) \in Range(avail) \cup (nextSlot..n - 1)
  BY <1>1, <1>5, <1>6, <1>8
<1>13. Range(rest) \subseteq Range(avail)
  BY <1>1, <1>7, <1>8
<1>14. ASSUME NEW x \in Range(avail) \cup (nextSlot..n - 1)
       PROVE  x \in Range(rest) \/ \E i \in 1..c : Seat(avail, i) = x
  <2>1. CASE x \in Range(avail)
    BY <1>1, <1>6, <1>7, <1>8, <2>1
  <2>2. CASE x \in nextSlot..n - 1
    <3>1. x - nextSlot + L + 1 \in 1..c
      BY <1>1, <1>5, <2>2
    <3>2. Seat(avail, x - nextSlot + L + 1) = x
      BY <1>1, <1>6, <2>2, <3>1
    <3>. QED
      BY <3>1, <3>2
  <2>. QED
    BY <2>1, <2>2
<1>15. n # nextSlot => Range(rest) = {}
  BY <1>1, <1>5, <1>7
<1>16. n \in Nat /\ nextSlot <= n
  BY <1>1, <1>5
<1>. QED
  BY <1>2, <1>9, <1>10, <1>11, <1>12, <1>13, <1>14, <1>15, <1>16 DEF L, rest, n

(* The slots below a number, and below a higher one.                        *)
LEMMA SlotsBelow ==
  ASSUME NEW m \in Nat, NEW n \in Nat, m <= n
  PROVE  /\ 0..m - 1 \subseteq 0..n - 1
         /\ \A x \in 0..n - 1 : x \in m..n - 1 \/ x \in 0..m - 1
OBVIOUS

(* Layout.sync: the slots of those who go, put after the freed ones, are    *)
(* still each there once; and from there SeatsTile goes on.                 *)
LEMMA SyncTiles ==
  ASSUME Tiled, NEW ids \in SUBSET Sids, Sync(ids)
  PROVE  /\ Tiled'
         /\ nextSlot' >= nextSlot
         /\ nextSlot' # nextSlot => Range(free') = {}
<1>. DEFINE D == DOMAIN slotOf
<1>1. PICK gone \in SetToSeqs(D \ ids), come \in SetToSeqs(ids \ D) :
        LET avail == free \o [i \in DOMAIN gone |-> slotOf[gone[i]]]
        IN /\ slotOf' = [s \in ids |->
                           IF s \in D THEN slotOf[s]
                           ELSE Seat(avail, CHOOSE i \in DOMAIN come : come[i] = s)]
           /\ free' = SubSeq(avail, Len(come) + 1, Len(avail))
           /\ nextSlot' = nextSlot + AtLeast(0, Len(come) - Len(avail))
  BY DEF Sync
<1>. DEFINE left   == [i \in DOMAIN gone |-> slotOf[gone[i]]]
            avail  == free \o left
            c      == Len(come)
            place(s) == CHOOSE i \in DOMAIN come : come[i] = s
<1>2. IsFiniteSet(D \ ids) /\ IsFiniteSet(ids \ D) /\ D \subseteq Sids
  BY OfficeAssumption, FS_Subset DEF Tiled
<1>3. /\ gone \in Seq(D \ ids) /\ Len(gone) \in Nat /\ DOMAIN gone = 1..Len(gone)
      /\ \A i, j \in DOMAIN gone : gone[i] = gone[j] => i = j
      /\ \A s \in D \ ids : \E i \in DOMAIN gone : gone[i] = s
  BY <1>2, OrderOfSet
<1>4. /\ come \in Seq(ids \ D) /\ c \in Nat /\ DOMAIN come = 1..c
      /\ \A i, j \in DOMAIN come : come[i] = come[j] => i = j
      /\ \A s \in ids \ D : \E i \in DOMAIN come : come[i] = s
  BY <1>2, OrderOfSet
<1>5. \A s \in ids \ D : place(s) \in 1..c /\ come[place(s)] = s
  BY <1>4
<1>6. /\ \A s, t \in D : slotOf[s] = slotOf[t] => s = t
      /\ \A s \in D : slotOf[s] \in 0..nextSlot - 1 /\ slotOf[s] \notin Range(free)
      /\ \A x \in 0..nextSlot - 1 : x \in Range(free) \/ \E s \in D : slotOf[s] = x
      /\ Range(free) \subseteq 0..nextSlot - 1
      /\ free \in Seq(Nat) /\ nextSlot \in Nat /\ IsInjective(free)
  BY DEF Tiled, SlotsTile, IsInjective, Range
<1>. DEFINE m == Len(gone)
<1>7. /\ left \in Seq(Nat) /\ Len(left) = m /\ \A i \in 1..m : left[i] = slotOf[gone[i]]
  <2>1. \A i \in 1..m : gone[i] \in D \ ids
    BY <1>3
  <2>2. \A i \in 1..m : slotOf[gone[i]] \in Nat
    BY <1>6, <2>1
  <2>3. left \in [1..m -> Nat]
    BY <1>3, <2>2
  <2>. QED
    BY <1>3, <2>3
<1>. HIDE DEF left
<1>. DEFINE k == Len(free)
<1>8. /\ avail \in Seq(Nat) /\ Len(avail) = k + m /\ k \in Nat /\ DOMAIN free = 1..k
      /\ \A i \in 1..k + m : avail[i] = IF i <= k THEN free[i] ELSE left[i - k]
  <2>1. free \in Seq(Nat) /\ left \in Seq(Nat)
    BY <1>6, <1>7
  <2>2. /\ avail \in Seq(Nat) /\ Len(avail) = Len(free) + Len(left)
        /\ \A i \in 1..Len(free) + Len(left) :
             avail[i] = IF i <= Len(free) THEN free[i] ELSE left[i - Len(free)]
    <3>. HIDE DEF k, m
    <3>. QED
      BY <2>1, ConcatProperties
  <2>3. Len(free) \in Nat /\ DOMAIN free = 1..Len(free)
    BY <2>1
  <2>. HIDE DEF avail, m
  <2>. QED
    BY <1>7, <2>2, <2>3
<1>. HIDE DEF avail, m, k, c, place
<1>9. \A i \in 1..m : gone[i] \in D \ ids
  BY <1>3 DEF m
<1>10. m \in Nat /\ DOMAIN avail = 1..k + m
  BY <1>3, <1>8 DEF m
<1>11. IsInjective(avail)
  <2>1. \A i, j \in 1..k : free[i] = free[j] => i = j
    BY <1>6, <1>8 DEF IsInjective
  <2>2. ASSUME NEW i \in 1..m, NEW j \in 1..m, left[i] = left[j] PROVE i = j
    <3>1. gone[i] \in D /\ gone[j] \in D /\ slotOf[gone[i]] = slotOf[gone[j]]
      BY <1>7, <1>9, <2>2
    <3>2. gone[i] = gone[j]
      BY <1>6, <3>1
    <3>. QED
      BY <1>3, <3>2 DEF m
  <2>3. ASSUME NEW i \in 1..k, NEW j \in 1..m PROVE free[i] # left[j]
    <3>1. free[i] \in Range(free)
      BY <1>8 DEF Range
    <3>2. left[j] = slotOf[gone[j]] /\ gone[j] \in D
      BY <1>7, <1>9
    <3>. QED
      BY <1>6, <3>1, <3>2
  <2>4. ASSUME NEW i \in 1..k + m, NEW j \in 1..k + m, avail[i] = avail[j] PROVE i = j
    <3>1. CASE i <= k /\ j <= k
      BY <1>8, <1>10, <2>1, <2>4, <3>1
    <3>2. CASE i > k /\ j > k
      <4>1. i - k \in 1..m /\ j - k \in 1..m
        BY <1>8, <1>10, <3>2
      <4>2. left[i - k] = left[j - k]
        BY <1>8, <1>10, <2>4, <3>2
      <4>3. i - k = j - k
        BY <2>2, <4>1, <4>2
      <4>. QED
        BY <1>8, <1>10, <4>3
    <3>3. CASE i <= k /\ j > k
      <4>1. i \in 1..k /\ j - k \in 1..m
        BY <1>8, <1>10, <3>3
      <4>2. free[i] = left[j - k]
        BY <1>8, <1>10, <2>4, <3>3
      <4>. QED
        BY <2>3, <4>1, <4>2
    <3>4. CASE i > k /\ j <= k
      <4>1. j \in 1..k /\ i - k \in 1..m
        BY <1>8, <1>10, <3>4
      <4>2. free[j] = left[i - k]
        BY <1>8, <1>10, <2>4, <3>4
      <4>. QED
        BY <2>3, <4>1, <4>2
    <3>. QED
      BY <1>8, <1>10, <3>1, <3>2, <3>3, <3>4
  <2>. QED
    BY <1>10, <2>4 DEF IsInjective
<1>12. /\ Range(free) \subseteq Range(avail)
       /\ \A s \in D \ ids : slotOf[s] \in Range(avail)
       /\ \A x \in Range(avail) : x \in Range(free) \/ \E s \in D \ ids : slotOf[s] = x
  <2>1. ASSUME NEW i \in 1..k PROVE free[i] \in Range(avail)
    <3>1. i \in 1..k + m /\ avail[i] = free[i]
      BY <1>8, <1>10
    <3>. QED
      BY <1>10, <3>1 DEF Range
  <2>2. ASSUME NEW i \in 1..m PROVE slotOf[gone[i]] \in Range(avail)
    <3>1. k + i \in 1..k + m /\ avail[k + i] = left[i]
      BY <1>8, <1>10
    <3>. QED
      BY <1>7, <1>10, <3>1 DEF Range
  <2>3. ASSUME NEW i \in 1..k + m
        PROVE  avail[i] \in Range(free) \/ \E s \in D \ ids : slotOf[s] = avail[i]
    <3>1. CASE i <= k
      BY <1>8, <1>10, <3>1 DEF Range
    <3>2. CASE i > k
      <4>1. i - k \in 1..m /\ avail[i] = slotOf[gone[i - k]]
        BY <1>7, <1>8, <1>10, <3>2
      <4>. QED
        BY <1>9, <4>1
    <3>. QED
      BY <1>8, <1>10, <3>1, <3>2
  <2>4. Range(free) \subseteq Range(avail)
    <3>1. Range(free) = {free[i] : i \in 1..k}
      BY <1>8 DEF Range
    <3>. QED
      BY <2>1, <3>1
  <2>5. \A s \in D \ ids : slotOf[s] \in Range(avail)
    BY <1>3, <2>2 DEF m
  <2>6. \A x \in Range(avail) : x \in Range(free) \/ \E s \in D \ ids : slotOf[s] = x
    <3>1. Range(avail) = {avail[i] : i \in 1..k + m}
      BY <1>10 DEF Range
    <3>. QED
      BY <2>3, <3>1
  <2>. QED
    BY <2>4, <2>5, <2>6
<1>13. Range(avail) \subseteq 0..nextSlot - 1
  BY <1>6, <1>12
<1>14. \A s \in D \cap ids : slotOf[s] \notin Range(avail)
  BY <1>6, <1>12
<1>15. /\ slotOf' = [s \in ids |-> IF s \in D THEN slotOf[s] ELSE Seat(avail, place(s))]
       /\ free' = SubSeq(avail, c + 1, Len(avail))
       /\ nextSlot' = nextSlot + AtLeast(0, c - Len(avail))
  BY <1>1 DEF avail, left, c, place
<1>16. /\ nextSlot' \in Nat /\ nextSlot <= nextSlot' /\ free' \in Seq(Nat)
       /\ IsInjective(free')
       /\ \A i, j \in 1..c : Seat(avail, i) = Seat(avail, j) => i = j
       /\ \A i \in 1..c : Seat(avail, i) \notin Range(free')
       /\ \A i \in 1..c : Seat(avail, i) \in Range(avail) \cup (nextSlot..nextSlot' - 1)
       /\ Range(free') \subseteq Range(avail)
       /\ \A x \in Range(avail) \cup (nextSlot..nextSlot' - 1) :
            x \in Range(free') \/ \E i \in 1..c : Seat(avail, i) = x
       /\ nextSlot' # nextSlot => Range(free') = {}
  BY <1>4, <1>6, <1>8, <1>11, <1>13, <1>15, SeatsTile
<1>17. nextSlot \in Nat /\ nextSlot' \in Nat /\ nextSlot <= nextSlot'
  <2>1. nextSlot \in Nat
    BY <1>6, Zenon
  <2>2. nextSlot' \in Nat /\ nextSlot <= nextSlot'
    BY <1>16, Zenon
  <2>. QED
    BY <2>1, <2>2
<1>18. /\ \A s \in ids \cap D : slotOf'[s] = slotOf[s]
       /\ \A s \in ids \ D : slotOf'[s] = Seat(avail, place(s))
       /\ DOMAIN slotOf' = ids
  BY <1>15
<1>19. IsInjective(slotOf')
  <2>1. ASSUME NEW s \in ids, NEW t \in ids, slotOf'[s] = slotOf'[t] PROVE s = t
    <3>1. CASE s \in D /\ t \in D
      BY <1>6, <1>18, <2>1, <3>1
    <3>2. CASE s \notin D /\ t \notin D
      BY <1>5, <1>16, <1>18, <2>1, <3>2
    <3>3. ASSUME NEW u \in ids \cap D, NEW v \in ids \ D PROVE slotOf'[u] # slotOf'[v]
      <4>1. slotOf'[u] \in 0..nextSlot - 1 /\ slotOf'[u] \notin Range(avail)
        BY <1>6, <1>14, <1>18
      <4>2. slotOf'[v] \in Range(avail) \cup (nextSlot..nextSlot' - 1)
        BY <1>5, <1>16, <1>18
      <4>. QED
        BY <1>6, <1>16, <4>1, <4>2
    <3>. QED
      BY <2>1, <3>1, <3>2, <3>3
  <2>. QED
    BY <1>18, <2>1 DEF IsInjective
<1>20. \A s \in ids : slotOf'[s] \notin Range(free') /\ slotOf'[s] \in 0..nextSlot' - 1
  <2>1. ASSUME NEW s \in ids \cap D
        PROVE  slotOf'[s] \notin Range(free') /\ slotOf'[s] \in 0..nextSlot' - 1
    BY <1>6, <1>14, <1>16, <1>18
  <2>2. ASSUME NEW s \in ids \ D
        PROVE  slotOf'[s] \notin Range(free') /\ slotOf'[s] \in 0..nextSlot' - 1
    <3>1. slotOf'[s] \in Range(avail) \cup (nextSlot..nextSlot' - 1)
      BY <1>5, <1>16, <1>18
    <3>2. slotOf'[s] \notin Range(free')
      BY <1>5, <1>16, <1>18
    <3>. QED
      BY <1>6, <1>13, <1>16, <3>1, <3>2
  <2>. QED
    BY <2>1, <2>2
<1>21. \A x \in 0..nextSlot' - 1 : x \in Range(free') \/ \E s \in ids : slotOf'[s] = x
  <2>1. ASSUME NEW x \in Range(avail) \cup (nextSlot..nextSlot' - 1)
        PROVE  x \in Range(free') \/ \E s \in ids : slotOf'[s] = x
    <3>1. CASE x \in Range(free')
      BY <3>1
    <3>2. ASSUME NEW i \in 1..c, Seat(avail, i) = x PROVE \E s \in ids : slotOf'[s] = x
      <4>1. come[i] \in ids \ D
        BY <1>4
      <4>2. place(come[i]) = i
        BY <1>4, <1>5, <4>1
      <4>. QED
        BY <1>18, <3>2, <4>1, <4>2
    <3>. QED
      BY <1>16, <3>1, <3>2
  <2>2. ASSUME NEW x \in 0..nextSlot - 1, x \notin Range(avail)
        PROVE  \E s \in ids : slotOf'[s] = x
    <3>1. PICK s \in D : slotOf[s] = x
      BY <1>6, <1>12, <2>2
    <3>2. s \in ids
      BY <1>12, <2>2, <3>1
    <3>. QED
      BY <1>18, <3>1, <3>2
  <2>3. ASSUME NEW x \in 0..nextSlot' - 1
        PROVE  x \in nextSlot..nextSlot' - 1 \/ x \in 0..nextSlot - 1
    BY <1>17, SlotsBelow
  <2>. SUFFICES ASSUME NEW x \in 0..nextSlot' - 1
                PROVE  x \in Range(free') \/ \E s \in ids : slotOf'[s] = x
    OBVIOUS
  <2>4. CASE x \in Range(avail) \cup (nextSlot..nextSlot' - 1)
    BY <2>1, <2>4
  <2>5. CASE x \in 0..nextSlot - 1 /\ x \notin Range(avail)
    BY <2>2, <2>5
  <2>. QED
    BY <2>3, <2>4, <2>5
<1>22. SlotsTile'
  <2>1. Range(slotOf') \cap Range(free') = {}
    BY <1>18, <1>20 DEF Range
  <2>2. Range(slotOf') \cup Range(free') = 0..nextSlot' - 1
    <3>1. Range(slotOf') \cup Range(free') \subseteq 0..nextSlot' - 1
      <4>1. Range(slotOf') = {slotOf'[s] : s \in ids}
        BY <1>18 DEF Range
      <4>2. 0..nextSlot - 1 \subseteq 0..nextSlot' - 1
        BY <1>17, SlotsBelow
      <4>3. Range(free') \subseteq 0..nextSlot' - 1
        BY <1>13, <1>16, <4>2
      <4>. QED
        BY <1>20, <4>1, <4>3
    <3>2. 0..nextSlot' - 1 \subseteq Range(slotOf') \cup Range(free')
      BY <1>18, <1>21 DEF Range
    <3>. QED
      BY <3>1, <3>2
  <2>. QED
    BY <1>16, <1>19, <2>1, <2>2 DEF SlotsTile
<1>. QED
  BY <1>6, <1>16, <1>18, <1>22 DEF Tiled

(* The invariant of the office.                                             *)
Seated == OfficeConsistent /\ Tiled

(* Whatever happens, the layout is left alone or synced to some sessions.   *)
LEMMA LayoutStep ==
  ASSUME Seated, [Next]_vars
  PROVE  UNCHANGED layout \/ \E ids \in SUBSET Sids : Sync(ids)
<1>1. A \cup G \subseteq Sids
  BY DEF Seated, OfficeConsistent, Tiled
<1>2. CASE HandleMessage
  <2>1. PICK dict, S : Parted(dict, S) /\ Handle(dict, S)
    BY <1>2, MessageIsHandled
  <2>2. DOMAIN agents' \subseteq DOMAIN dict \cup A
    BY <2>1 DEF Handle, Put, Without, A
  <2>3. DOMAIN ghosts' \subseteq A \cup G
    BY <2>1 DEF Handle, Ghosts, Put, Without, A, G
  <2>4. DOMAIN agents' \cup DOMAIN ghosts' \in SUBSET Sids
    BY <1>1, <2>1, <2>2, <2>3 DEF Parted
  <2>. QED
    BY <2>1, <2>4 DEF Handle
<1>3. CASE UpdateGhosts
  <2>1. DOMAIN ghosts' \subseteq G
    BY <1>3 DEF UpdateGhosts, Without, G
  <2>. QED
    BY <1>1, <1>3, <2>1 DEF UpdateGhosts
<1>4. CASE QueueEmpty \/ Draw \/ Tick \/ UNCHANGED vars
  BY <1>4 DEF QueueEmpty, Draw, Tick, vars
<1>. QED
  BY <1>2, <1>3, <1>4 DEF Next

(* The invariant holds of an empty office.                                  *)
LEMMA InitSeated == Init => Seated
<1>. SUFFICES ASSUME Init PROVE Seated
  OBVIOUS
<1>1. OfficeConsistent
  BY DEF Init, OfficeConsistent, A, G, NoDict
<1>2. DOMAIN slotOf = {} /\ free = <<>> /\ nextSlot = 0
  BY DEF Init, NoDict
<1>3. Range(slotOf) = {} /\ Range(free) = {} /\ 0..nextSlot - 1 = {}
  BY <1>2 DEF Range
<1>4. free \in Seq(Nat) /\ DOMAIN free = {}
  BY <1>2
<1>. QED
  BY <1>1, <1>2, <1>3, <1>4 DEF Seated, Tiled, SlotsTile, IsInjective

(* Every step keeps it.                                                     *)
LEMMA SeatedStep == Seated /\ [Next]_vars => Seated'
<1>. SUFFICES ASSUME Seated, [Next]_vars PROVE Seated'
  OBVIOUS
<1>1. OfficeConsistent'
  BY ConsistentStep DEF Seated
<1>2. CASE UNCHANGED layout
  BY <1>1, <1>2 DEF Seated, layout, Tiled, SlotsTile, IsInjective, Range
<1>3. CASE \E ids \in SUBSET Sids : Sync(ids)
  BY <1>1, <1>3, SyncTiles DEF Seated
<1>. QED
  BY <1>2, <1>3, LayoutStep

(* No slot is ever lost, and none is given to two sessions, in whatever     *)
(* order a set gives up its members.                                        *)
THEOREM AlwaysTiled == Spec => []SlotsTile
<1>1. Seated => SlotsTile
  BY DEF Seated, Tiled
<1>. QED
  BY <1>1, InitSeated, SeatedStep, PTL DEF Spec

(* When all the slots are held, there are as many sessions.                 *)
LEMMA FullGrid ==
  ASSUME Tiled, Range(free) = {}
  PROVE  nextSlot = Cardinality(DOMAIN slotOf)
<1>. DEFINE D == DOMAIN slotOf
            f == [s \in D |-> slotOf[s]]
<1>1. Range(slotOf) = 0..nextSlot - 1 /\ IsInjective(slotOf) /\ nextSlot \in Nat
  BY DEF Tiled, SlotsTile
<1>2. IsFiniteSet(D)
  BY OfficeAssumption, FS_Subset DEF Tiled
<1>3. f \in Bijection(D, 0..nextSlot - 1)
  <2>1. f \in [D -> 0..nextSlot - 1] /\ \A x \in 0..nextSlot - 1 : \E s \in D : f[s] = x
    BY <1>1 DEF Range
  <2>2. \A s, t \in D : f[s] = f[t] => s = t
    BY <1>1 DEF IsInjective
  <2>. HIDE DEF f, D
  <2>. QED
    BY <2>1, <2>2 DEF Bijection, Injection, Surjection, IsInjective
<1>4. Cardinality(0..nextSlot - 1) = Cardinality(D)
  <2>. HIDE DEF f, D
  <2>. QED
    BY <1>2, <1>3, FS_Bijection DEF ExistsBijection
<1>5. Cardinality(0..nextSlot - 1) = nextSlot
  BY <1>1, FS_Interval
<1>. QED
  BY <1>4, <1>5

(* The grid never shrinks, and grows to exactly as many slots as there are  *)
(* agents and ghosts.                                                       *)
THEOREM GridGrows == Spec => GridGrowsWhenFull
<1>1. ASSUME Seated, [Next]_vars
      PROVE  /\ nextSlot' >= nextSlot
             /\ nextSlot' # nextSlot => nextSlot' = Cardinality(DOMAIN slotOf')
  <2>1. CASE UNCHANGED layout
    BY <1>1, <2>1 DEF layout, Seated, Tiled
  <2>2. CASE \E ids \in SUBSET Sids : Sync(ids)
    <3>1. Tiled' /\ nextSlot' >= nextSlot /\ (nextSlot' # nextSlot => Range(free') = {})
      BY <1>1, <2>2, SyncTiles DEF Seated
    <3>2. (Tiled /\ Range(free) = {} => nextSlot = Cardinality(DOMAIN slotOf))'
      BY FullGrid, PTL
    <3>. QED
      BY <3>1, <3>2
  <2>. QED
    BY <1>1, <2>1, <2>2, LayoutStep
<1>. QED
  BY <1>1, InitSeated, SeatedStep, PTL DEF Spec, GridGrowsWhenFull

-----------------------------------------------------------------------------
(* Put and Without make dicts of dicts.                                     *)
LEMMA DictsStay ==
  ASSUME NEW T, NEW f \in DictsOf(T), NEW g \in DictsOf(T), NEW S
  PROVE  Put(f, g) \in DictsOf(T) /\ Without(f, S) \in DictsOf(T)
<1>1. /\ DOMAIN f \subseteq Sids /\ \A s \in DOMAIN f : f[s] \in T
      /\ DOMAIN g \subseteq Sids /\ \A s \in DOMAIN g : g[s] \in T
  BY DictsAre
<1>2. Put(f, g) \in [DOMAIN f \cup DOMAIN g -> T]
  BY <1>1 DEF Put
<1>3. Without(f, S) \in [DOMAIN f \ S -> T]
  BY <1>1 DEF Without
<1>4. DOMAIN f \cup DOMAIN g \in SUBSET Sids /\ DOMAIN f \ S \in SUBSET Sids
  BY <1>1
<1>. QED
  BY <1>2, <1>3, <1>4 DEF DictsOf

(* An animation that starts has age zero; time lets it grow to its limit,   *)
(* and never younger.                                                       *)
LEMMA AgesStay ==
  ASSUME NEW limit \in Nat, NEW S \in SUBSET Sids, NEW ages \in DictsOf(0..limit)
  PROVE  /\ [s \in S |-> 0] \in DictsOf(0..limit)
         /\ Older(ages, limit) \in DictsOf(0..limit)
         /\ DOMAIN Older(ages, limit) = DOMAIN ages
         /\ \A s \in DOMAIN ages : ages[s] \in Int /\ Older(ages, limit)[s] >= ages[s]
<1>1. DOMAIN ages \in SUBSET Sids /\ \A s \in DOMAIN ages : ages[s] \in 0..limit
  BY DictsAre
<1>2. [s \in S |-> 0] \in [S -> 0..limit]
  OBVIOUS
<1>3. ASSUME NEW s \in DOMAIN ages
      PROVE  /\ AtMost(limit, ages[s] + 1) \in 0..limit
             /\ AtMost(limit, ages[s] + 1) >= ages[s]
  BY <1>1 DEF AtMost
<1>4. Older(ages, limit) = [s \in DOMAIN ages |-> AtMost(limit, ages[s] + 1)]
  BY DEF Older
<1>5. Older(ages, limit) \in [DOMAIN ages -> 0..limit]
  BY <1>3, <1>4
<1>6. \A s \in DOMAIN ages : ages[s] \in Int /\ Older(ages, limit)[s] >= ages[s]
  BY <1>1, <1>3, <1>4
<1>. QED
  BY <1>1, <1>2, <1>4, <1>5, <1>6 DEF DictsOf

Typed == TypeOK /\ Seated

(* The slots have their types when they are tiled.                          *)
LEMMA SlotsTyped ==
  ASSUME Tiled
  PROVE  /\ DOMAIN slotOf \subseteq Sids /\ Range(slotOf) \subseteq Nat
         /\ free \in Seq(Nat) /\ nextSlot \in Nat
<1>1. Range(slotOf) \subseteq 0..nextSlot - 1 /\ nextSlot \in Nat
  BY DEF Tiled, SlotsTile
<1>. QED
  BY <1>1 DEF Tiled

(* A message keeps every variable's type.                                   *)
LEMMA HandleTyped ==
  ASSUME Typed, Seated', NEW dict \in DictsOf(States), NEW S, Handle(dict, S)
  PROVE  TypeOK'
<1>1. /\ agents \in DictsOf(States) /\ ghosts \in DictsOf(0..FadeTime)
      /\ spawn \in DictsOf(0..SpawnTime) /\ asking \in DictsOf(0..FlashTime)
  BY DEF Typed, TypeOK, Dicts, Ages, DictsOf
<1>2. {SpawnTime, FadeTime, FlashTime} \subseteq Nat
  BY OfficeAssumption
<1>3. DOMAIN dict \subseteq Sids /\ A \subseteq Sids
  BY <1>1, DictsAre DEF A
<1>4. agents' \in DictsOf(States)
  BY <1>1, DictsStay DEF Handle
<1>5. ghosts' \in DictsOf(0..FadeTime)
  <2>1. [s \in A \cap S |-> 0] \in DictsOf(0..FadeTime)
    BY <1>1, <1>2, <1>3, AgesStay
  <2>. QED
    BY <1>1, <2>1, DictsStay DEF Handle, Ghosts
<1>6. spawn' \in DictsOf(0..SpawnTime)
  <2>1. [s \in DOMAIN dict \ (A \cup G) |-> 0] \in DictsOf(0..SpawnTime)
    BY <1>1, <1>2, <1>3, AgesStay
  <2>. QED
    BY <1>1, <2>1, DictsStay DEF Handle
<1>7. asking' \in DictsOf(0..FlashTime)
  <2>1. Edge(dict) \in SUBSET Sids
    BY <1>3 DEF Edge
  <2>2. [s \in Edge(dict) |-> 0] \in DictsOf(0..FlashTime)
    BY <1>1, <1>2, <2>1, AgesStay
  <2>. QED
    BY <1>1, <2>2, DictsStay DEF Handle
<1>8. /\ DOMAIN slotOf' \subseteq Sids /\ Range(slotOf') \subseteq Nat
      /\ free' \in Seq(Nat) /\ nextSlot' \in Nat
  <2>1. (Tiled => /\ DOMAIN slotOf \subseteq Sids /\ Range(slotOf) \subseteq Nat
                  /\ free \in Seq(Nat) /\ nextSlot \in Nat)'
    BY SlotsTyped, PTL
  <2>. QED
    BY <2>1 DEF Seated
<1>. QED
  BY <1>4, <1>5, <1>6, <1>7, <1>8 DEF Handle, TypeOK, Typed, Dicts, Ages, DictsOf

(* Every step does.                                                         *)
LEMMA TypedStep == Typed /\ [Next]_vars => Typed'
<1>. SUFFICES ASSUME Typed, [Next]_vars PROVE TypeOK'
  BY SeatedStep DEF Typed
<1>1. /\ agents \in DictsOf(States) /\ ghosts \in DictsOf(0..FadeTime)
      /\ spawn \in DictsOf(0..SpawnTime) /\ asking \in DictsOf(0..FlashTime)
      /\ frame \in {"drain", "ghosts", "draw"}
  BY DEF Typed, TypeOK, Dicts, Ages, DictsOf
<1>2. SpawnTime \in Nat /\ FadeTime \in Nat /\ FlashTime \in Nat
  BY OfficeAssumption
<1>3. Seated'
  BY SeatedStep DEF Typed
<1>4. /\ DOMAIN slotOf' \subseteq Sids /\ Range(slotOf') \subseteq Nat
      /\ free' \in Seq(Nat) /\ nextSlot' \in Nat
  <2>1. (Tiled => /\ DOMAIN slotOf \subseteq Sids /\ Range(slotOf) \subseteq Nat
                  /\ free \in Seq(Nat) /\ nextSlot \in Nat)'
    BY SlotsTyped, PTL
  <2>. QED
    BY <1>3, <2>1 DEF Seated
<1>5. CASE HandleMessage
  BY <1>3, <1>5, MessageIsHandled, HandleTyped
<1>6. ASSUME frame' \in {"drain", "ghosts", "draw"}, agents' \in DictsOf(States),
             ghosts' \in DictsOf(0..FadeTime), spawn' \in DictsOf(0..SpawnTime),
             asking' \in DictsOf(0..FlashTime)
      PROVE  TypeOK'
  BY <1>4, <1>6 DEF TypeOK, Dicts, Ages, DictsOf
<1>7. CASE QueueEmpty
  BY <1>1, <1>6, <1>7 DEF QueueEmpty, people
<1>8. CASE UpdateGhosts
  <2>1. ghosts' \in DictsOf(0..FadeTime)
    BY <1>1, <1>8, DictsStay DEF UpdateGhosts
  <2>. QED
    BY <1>1, <1>6, <1>8, <2>1 DEF UpdateGhosts
<1>9. CASE Draw
  <2>1. spawn' \in DictsOf(0..SpawnTime)
    BY <1>1, <1>9, DictsStay DEF Draw
  <2>2. asking' \in DictsOf(0..FlashTime)
    BY <1>1, <1>9, DictsStay DEF Draw
  <2>. QED
    BY <1>1, <1>6, <1>9, <2>1, <2>2 DEF Draw
<1>10. CASE Tick
  <2>1. {} \in SUBSET Sids
    OBVIOUS
  <2>2. /\ ghosts' \in DictsOf(0..FadeTime) /\ spawn' \in DictsOf(0..SpawnTime)
        /\ asking' \in DictsOf(0..FlashTime)
    BY <1>1, <1>2, <1>10, <2>1, AgesStay DEF Tick
  <2>. QED
    BY <1>1, <1>6, <1>10, <2>2 DEF Tick
<1>11. CASE UNCHANGED vars
  BY <1>1, <1>6, <1>11 DEF vars, people
<1>. QED
  BY <1>5, <1>7, <1>8, <1>9, <1>10, <1>11 DEF Next

(* The types hold of an empty office.                                       *)
LEMMA InitTyped == Init => Typed
<1>. SUFFICES ASSUME Init PROVE TypeOK
  BY InitSeated DEF Typed
<1>1. \A T : NoDict \in [{} -> T]
  BY DEF NoDict
<1>2. \A T : NoDict \in DictsOf(T)
  BY <1>1 DEF DictsOf
<1>3. /\ agents \in DictsOf(States) /\ ghosts \in DictsOf(0..FadeTime)
      /\ spawn \in DictsOf(0..SpawnTime) /\ asking \in DictsOf(0..FlashTime)
  BY <1>2 DEF Init
<1>4. /\ DOMAIN slotOf \subseteq Sids /\ Range(slotOf) \subseteq Nat
      /\ free \in Seq(Nat) /\ nextSlot \in Nat
  BY InitSeated, SlotsTyped DEF Seated
<1>. QED
  BY <1>3, <1>4 DEF Init, TypeOK, Dicts, Ages, DictsOf

(* Every variable of the office keeps its type: no age outlives its         *)
(* animation.                                                               *)
THEOREM TypeCorrect == Spec => []TypeOK
<1>1. Typed => TypeOK
  BY DEF Typed
<1>. QED
  BY <1>1, InitTyped, TypedStep, PTL DEF Spec

-----------------------------------------------------------------------------
(* What FlashOnEdge says of a session, at a step.                           *)
Flashes(s) ==
  IF s \in A' /\ agents'[s] = "asking" /\ ~Asks(s)
  THEN s \in DOMAIN asking' /\ asking'[s] = 0
  ELSE s \in DOMAIN asking' => s \in DOMAIN asking /\ asking'[s] >= asking[s]

(* A message starts the flash of those who start to ask, and of nobody else.*)
LEMMA HandleFlashes ==
  ASSUME Typed, NEW dict, NEW S, Parted(dict, S), Handle(dict, S), NEW s \in Sids
  PROVE  Flashes(s)
<1>1. asking \in DictsOf(0..FlashTime) /\ FlashTime \in Nat
  BY OfficeAssumption DEF Typed, TypeOK, Ages, DictsOf
<1>2. \A t \in DOMAIN asking : asking[t] >= asking[t]
  <2>1. \A t \in DOMAIN asking : asking[t] \in 0..FlashTime
    BY <1>1, DictsAre
  <2>. QED
    BY <1>1, <2>1
<1>3. /\ A' = DOMAIN dict \cup (A \ S)
      /\ \A t \in A' : agents'[t] = IF t \in DOMAIN dict THEN dict[t] ELSE agents[t]
  BY DEF Handle, Put, Without, A
<1>4. /\ DOMAIN asking' = Edge(dict) \cup (DOMAIN asking \ (A \cap S))
      /\ \A t \in DOMAIN asking' :
           asking'[t] = IF t \in Edge(dict) THEN 0 ELSE asking[t]
  <2>1. asking' = Put([t \in Edge(dict) |-> 0], Without(asking, A \cap S))
    BY DEF Handle
  <2>. QED
    BY <2>1 DEF Put, Without
<1>5. \A t : t \in Edge(dict) <=> t \in DOMAIN dict /\ dict[t] = "asking" /\ ~Asks(t)
  BY DEF Edge
<1>6. CASE s \in A' /\ agents'[s] = "asking" /\ ~Asks(s)
  <2>1. s \in Edge(dict)
    BY <1>3, <1>5, <1>6 DEF Asks
  <2>. QED
    BY <1>4, <1>6, <2>1 DEF Flashes
<1>7. CASE ~(s \in A' /\ agents'[s] = "asking" /\ ~Asks(s))
  <2>1. s \notin Edge(dict)
    BY <1>3, <1>5, <1>7
  <2>. QED
    BY <1>2, <1>4, <1>7, <2>1 DEF Flashes
<1>. QED
  BY <1>6, <1>7

(* Whatever snapshots repeat, the flash starts at the edge and never anew.  *)
THEOREM FlashAtEdge == Spec => FlashOnEdge
<1>1. ASSUME Typed, [Next]_vars, NEW s \in Sids PROVE Flashes(s)
  <2>1. asking \in DictsOf(0..FlashTime) /\ FlashTime \in Nat
    BY <1>1, OfficeAssumption DEF Typed, TypeOK, Ages, DictsOf
  <2>2. /\ DOMAIN Older(asking, FlashTime) = DOMAIN asking
        /\ \A t \in DOMAIN asking :
             asking[t] \in Int /\ Older(asking, FlashTime)[t] >= asking[t]
    <3>1. {} \in SUBSET Sids
      OBVIOUS
    <3>. QED
      BY <2>1, <3>1, AgesStay
  <2>3. CASE HandleMessage
    BY <1>1, <2>3, MessageIsHandled, HandleFlashes
  <2>4. ASSUME UNCHANGED agents,
               \A t \in DOMAIN asking' : t \in DOMAIN asking /\ asking'[t] >= asking[t]
        PROVE  Flashes(s)
    BY <2>4 DEF Flashes, A, Asks
  <2>5. CASE QueueEmpty \/ UpdateGhosts \/ UNCHANGED vars
    <3>1. UNCHANGED <<agents, asking>>
      BY <2>5 DEF QueueEmpty, UpdateGhosts, vars, people
    <3>. QED
      BY <2>2, <2>4, <3>1
  <2>6. CASE Draw
    <3>1. /\ UNCHANGED agents
          /\ \A t \in DOMAIN asking' : t \in DOMAIN asking /\ asking'[t] = asking[t]
      BY <2>6 DEF Draw, Without
    <3>. QED
      BY <2>2, <2>4, <3>1
  <2>7. CASE Tick
    BY <2>2, <2>4, <2>7 DEF Tick
  <2>. QED
    BY <1>1, <2>3, <2>5, <2>6, <2>7 DEF Next
<1>2. Typed /\ [Next]_vars =>
        \A s \in Sids :
          IF s \in A' /\ agents'[s] = "asking" /\ ~Asks(s)
          THEN s \in DOMAIN asking' /\ asking'[s] = 0
          ELSE s \in DOMAIN asking' => s \in DOMAIN asking /\ asking'[s] >= asking[s]
  BY <1>1 DEF Flashes
<1>. QED
  BY <1>2, InitTyped, TypedStep, PTL DEF Spec, FlashOnEdge

-----------------------------------------------------------------------------
(* However many sessions come and whatever the window's height, no desk     *)
(* overlaps another, and all are inside the office if the least gap allows. *)
THEOREM DesksStand == Spec => []DesksApartAndInside
<1>1. ASSUME Seated PROVE DesksApartAndInside
  <2>1. Rows \in Nat \ {0}
    BY <1>1 DEF Seated, Tiled, Rows, AtLeast
  <2>2. ASSUME NEW s \in DOMAIN slotOf PROVE slotOf[s] \in 0..Rows - 1
    <3>1. slotOf[s] \in 0..nextSlot - 1 /\ nextSlot \in Nat
      BY <1>1 DEF Seated, Tiled, SlotsTile, Range
    <3>. QED
      BY <3>1 DEF Rows, AtLeast
  <2>. SUFFICES ASSUME NEW h \in Heights, NEW s \in DOMAIN slotOf, NEW t \in DOMAIN slotOf
                PROVE  LET top(u) == DeskTop(slotOf[u], Rows, h)
                       IN /\ slotOf[s] < slotOf[t] => top(s) + DESK_HEIGHT <= top(t)
                          /\ (DESK_HEIGHT + DESK_MIN_GAP) * Rows <= h =>
                               top(s) >= 0 /\ top(s) + DESK_HEIGHT <= h
    BY DEF DesksApartAndInside
  <2>3. h \in Nat
    BY OfficeAssumption
  <2>4. slotOf[s] < slotOf[t] =>
          DeskTop(slotOf[s], Rows, h) + DESK_HEIGHT <= DeskTop(slotOf[t], Rows, h)
    BY <2>1, <2>2, <2>3, DesksApart
  <2>5. (DESK_HEIGHT + DESK_MIN_GAP) * Rows <= h =>
          DeskTop(slotOf[s], Rows, h) >= 0 /\ DeskTop(slotOf[s], Rows, h) + DESK_HEIGHT <= h
    BY <2>1, <2>2, <2>3, DesksInside
  <2>. QED
    BY <2>4, <2>5
<1>. QED
  BY <1>1, InitSeated, SeatedStep, PTL DEF Spec
=============================================================================
