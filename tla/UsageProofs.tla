----------------------------- MODULE UsageProofs -----------------------------
(***************************************************************************)
(* Theorems of UsageWindow and UsageTracker, for every hour, every change   *)
(* of the clocks, any transcripts and any instants.  The figures are sums   *)
(* over sets and folds over sequences, so a part of this module is about    *)
(* induction: a set that holds 0 and, with any number, the next one, holds  *)
(* all.                                                                     *)
(***************************************************************************)
EXTENDS UsageTracker, TLAPS, FiniteSetTheorems, SequenceTheorems, WellFoundedInduction

(* The reading of the clock at the reset, and the one _week_window_start    *)
(* takes: today's, a number of days ago, or a week before that.             *)
Reset == Day * WEEK_RESET_WEEKDAY + WEEK_RESET_HOUR

Candidate(wall) ==
  Day * ((wall \div Day) - ((((wall \div Day) % 7) - WEEK_RESET_WEEKDAY) % 7))
    + WEEK_RESET_HOUR

LastReset(wall) ==
  IF Candidate(wall) > wall THEN Candidate(wall) - Week ELSE Candidate(wall)

-----------------------------------------------------------------------------
(* On the clock on the wall: the reading taken is one of a reset, it is not *)
(* ahead, and the week from it on is not over.                              *)
LEMMA LastResetIsLast ==
  ASSUME NEW wall \in Int
  PROVE  /\ LastReset(wall) \in Int
         /\ LastReset(wall) % Week = Reset
         /\ LastReset(wall) <= wall
         /\ wall < LastReset(wall) + Week
<1>. DEFINE d == wall \div 24
            k == ((d % 7) - 3) % 7
            c == 24 * (d - k) + 6
<1>1. d \in Int /\ k \in 0..6 /\ c \in Int
  BY SMT
<1>2. 24 * d <= wall /\ wall <= 24 * d + 23
  BY SMT
<1>3. c % 168 = 78 /\ (c - 168) % 168 = 78
  BY <1>1, SMTT(60)
<1>4. Candidate(wall) = c
  BY DEF Candidate, Day, WEEK_RESET_WEEKDAY, WEEK_RESET_HOUR
<1>5. LastReset(wall) = IF c > wall THEN c - 168 ELSE c
  BY <1>4 DEF LastReset, Week, Day
<1>6. Reset = 78 /\ Week = 168
  BY DEF Reset, Week, Day, WEEK_RESET_WEEKDAY, WEEK_RESET_HOUR
<1>. HIDE DEF c, k, d
<1>7. c > wall => wall < c - 168 + 168 /\ c - 168 <= wall
  <2>1. c <= 24 * d + 6
    BY <1>1 DEF c
  <2>. QED
    BY <1>1, <1>2, <2>1
<1>8. wall < c + 168
  BY <1>1, <1>2 DEF c
<1>. QED
  BY <1>1, <1>3, <1>5, <1>6, <1>7, <1>8

(* The clocks are not changed when they read the hour of the reset, nor so  *)
(* near to it that the reading would be skipped or come twice: the moment   *)
(* that epoch takes for it is one at which the clock reads it.              *)
LEMMA ResetReadOnce ==
  ASSUME NEW wall \in Int, wall % Week = Reset, NEW dst \in DstChange
  PROVE  /\ wall \notin {dst.at - 1, dst.at, dst.at + 1}
         /\ Epoch(wall, dst) = IF wall >= dst.at THEN wall - dst.by ELSE wall
         /\ Local(Epoch(wall, dst), dst) = wall
<1>1. dst.at \in Int /\ dst.at % 24 \in 0..4 /\ dst.by \in {-1, 1}
  BY DEF DstChange, Day
<1>2. wall % 168 = 78
  BY DEF Week, Reset, Day, WEEK_RESET_WEEKDAY, WEEK_RESET_HOUR
<1>3. wall % 24 = 6
  BY <1>2, SMT
<1>4. wall \notin {dst.at - 1, dst.at, dst.at + 1}
  BY <1>1, <1>3, SMT
<1>5. Epoch(wall, dst) = IF wall >= dst.at THEN wall - dst.by ELSE wall
  BY <1>1, <1>4 DEF Epoch
<1>. QED
  BY <1>1, <1>4, <1>5 DEF Local

(* The clock never goes back past the hour of a reset: what it reads later  *)
(* is no less, and no reset's reading is read twice.                        *)
LEMMA ClockGoesOn ==
  ASSUME NEW s \in Int, NEW t \in Int, s <= t, NEW dst \in DstChange
  PROVE  /\ Local(s, dst) \in Int /\ Local(t, dst) \in Int
         /\ Local(s, dst) <= Local(t, dst)
         /\ s < t /\ IsReset(s, dst) => Local(s, dst) < Local(t, dst)
<1>1. dst.at \in Int /\ dst.by \in {-1, 1}
  BY DEF DstChange
<1>2. Local(s, dst) \in Int /\ Local(t, dst) \in Int
  BY <1>1 DEF Local
<1>3. Local(s, dst) <= Local(t, dst)
  BY <1>1 DEF Local
<1>4. ASSUME s < t, IsReset(s, dst) PROVE Local(s, dst) < Local(t, dst)
  <2>1. Local(s, dst) \notin {dst.at - 1, dst.at, dst.at + 1}
    BY <1>2, <1>4, ResetReadOnce DEF IsReset, Reset
  <2>. QED
    BY <1>1, <1>4, <2>1 DEF Local
<1>. QED
  BY <1>2, <1>3, <1>4

(* Two resets are a week apart. *)
LEMMA WeekBetween ==
  ASSUME NEW a \in Int, NEW b \in Int, a < b, b < a + Week
  PROVE  ~(a % Week = Reset /\ b % Week = Reset)
<1>1. Week = 168 /\ Reset = 78
  BY DEF Week, Reset, Day, WEEK_RESET_WEEKDAY, WEEK_RESET_HOUR
<1>. QED
  BY <1>1, SMT

(* At every hour and for every change of the clocks by night, the week's    *)
(* window starts at the last moment at which the clock on the wall read     *)
(* Thursday, six o'clock.                                                   *)
THEOREM WindowRight ==
  ASSUME NEW hour \in Int, NEW dst \in DstChange
  PROVE  WeekStartsAtReset(hour, dst)
<1>. DEFINE local == Local(hour, dst)
            wall  == LastReset(local)
            start == Epoch(wall, dst)
<1>1. dst.at \in Int /\ dst.by \in {-1, 1}
  BY DEF DstChange
<1>2. local \in Int
  BY <1>1 DEF Local
<1>3. wall \in Int /\ wall % Week = Reset /\ wall <= local /\ local < wall + Week
  BY <1>2, LastResetIsLast
<1>4. WeekWindowStart(hour, dst) = start
  BY DEF WeekWindowStart, LastReset, Candidate
<1>. HIDE DEF wall
<1>5. /\ start = IF wall >= dst.at THEN wall - dst.by ELSE wall
      /\ Local(start, dst) = wall
  BY <1>3, ResetReadOnce
<1>6. start \in Int /\ start <= hour
  BY <1>1, <1>3, <1>5 DEF Local
<1>7. IsReset(start, dst)
  BY <1>3, <1>5 DEF IsReset, Reset
<1>8. ASSUME NEW t \in start + 1..hour PROVE ~IsReset(t, dst)
  <2>1. t \in Int /\ start < t /\ t <= hour /\ start <= t
    BY <1>6, <1>8
  <2>. HIDE DEF start
  <2>2. wall < Local(t, dst) /\ Local(t, dst) <= local /\ Local(t, dst) \in Int
    BY <1>5, <1>6, <1>7, <2>1, ClockGoesOn
  <2>3. Local(t, dst) < wall + Week
    BY <1>2, <1>3, <2>2 DEF Week, Day
  <2>4. Local(t, dst) % Week # Reset
    BY <1>3, <2>2, <2>3, WeekBetween
  <2>. QED
    BY <2>4 DEF IsReset, Reset
<1>. HIDE DEF start
<1>. QED
  BY <1>4, <1>6, <1>7, <1>8 DEF WeekStartsAtReset


-----------------------------------------------------------------------------
(* Naturals are well-ordered, so what is not in such a set has no least     *)
(* member.                                                                  *)
LEMMA SetInduction ==
  ASSUME NEW S, 0 \in S, \A n \in Nat : n \in S => n + 1 \in S
  PROVE  Nat \subseteq S
<1>. DEFINE Out  == Nat \ S
            Less == OpToRel(<, Nat)
<1>. SUFFICES ASSUME Out # {} PROVE FALSE
  OBVIOUS
<1>1. IsWellFoundedOn(Less, Nat)
  BY NatLessThanWellFounded
<1>2. Out \subseteq Nat
  OBVIOUS
<1>3. \A x, y \in Nat : x < y => <<x, y>> \in Less
  BY DEF OpToRel
<1>. HIDE DEF Less, Out
<1>4. PICK x \in Out : \A y \in Out : <<y, x>> \notin Less
  BY <1>1, <1>2, WFMin
<1>5. x \in Nat \ {0} /\ x \notin S
  BY <1>4 DEF Out
<1>6. x - 1 \in Nat /\ x - 1 < x /\ x = (x - 1) + 1
  BY <1>5
<1>7. x - 1 \in S
  BY <1>3, <1>4, <1>5, <1>6 DEF Out
<1>. QED
  BY <1>5, <1>6, <1>7

(* A set of numbers up to a bound has a greatest one and a least one.       *)
LEMMA Extremes ==
  ASSUME NEW n \in Nat, NEW s \in SUBSET (1..n), s # {}
  PROVE  /\ Max(s) \in s /\ \A x \in s : x <= Max(s)
         /\ Min(s) \in s /\ \A x \in s : Min(s) <= x
<1>. DEFINE HasMax(t) == \E x \in t : \A y \in t : x >= y
            HasMin(t) == \E x \in t : \A y \in t : x <= y
            Good == {k \in Nat : \A t \in SUBSET (1..k) : t # {} => HasMax(t) /\ HasMin(t)}
<1>1. 0 \in Good
  <2>1. 1..0 = {}
    OBVIOUS
  <2>. QED
    BY <2>1
<1>2. ASSUME NEW k \in Nat, k \in Good
      PROVE  k + 1 \in Good
  <2>. SUFFICES ASSUME NEW t \in SUBSET (1..k + 1), t # {}
                PROVE  HasMax(t) /\ HasMin(t)
    OBVIOUS
  <2>. DEFINE u == t \ {k + 1}
  <2>1. u \in SUBSET (1..k)
    OBVIOUS
  <2>2. u # {} => HasMax(u) /\ HasMin(u)
    BY <1>2, <2>1
  <2>3. CASE u = {}
    <3>1. t = {k + 1}
      BY <2>3
    <3>. QED
      BY <3>1
  <2>4. CASE u # {}
    BY <2>1, <2>2, <2>4
  <2>. QED
    BY <2>3, <2>4
<1>. HIDE DEF Good
<1>3. n \in Good
  BY <1>1, <1>2, SetInduction
<1>4. HasMax(s) /\ HasMin(s)
  BY <1>3 DEF Good
<1>5. Max(s) = CHOOSE x \in s : \A y \in s : x >= y
  BY DEF Max
<1>6. Min(s) = CHOOSE x \in s : \A y \in s : x <= y
  BY DEF Min
<1>. QED
  BY <1>4, <1>5, <1>6

(* A fold over a set takes its elements one by one, as they are chosen.     *)
TakesSteps(h, first, step, pick, S) ==
  /\ h[{}] = first
  /\ \A s \in SUBSET S : s # {} => h[s] = step[pick[s]][h[s \ {pick[s]}]]

Picks(pick, S) == \A s \in SUBSET S : s # {} => pick[s] \in s

(* There is a function over the subsets of a finite set that does so: of    *)
(* those with one element more once it is there for the smaller ones.       *)
LEMMA FoldExists ==
  ASSUME NEW S, IsFiniteSet(S), NEW T, NEW first \in T, NEW step \in [S -> [T -> T]],
         NEW pick, Picks(pick, S)
  PROVE  \E h \in [SUBSET S -> T] : TakesSteps(h, first, step, pick, S)
<1>. DEFINE Upto(k) == {s \in SUBSET S : Cardinality(s) <= k}
            Takes(h, k) ==
              /\ h[{}] = first
              /\ \A s \in Upto(k) : s # {} => h[s] = step[pick[s]][h[s \ {pick[s]}]]
            Exists(k) == \E h \in [Upto(k) -> T] : Takes(h, k)
            Good == {k \in Nat : Exists(k)}
<1>1. \A s \in SUBSET S : IsFiniteSet(s) /\ Cardinality(s) \in Nat
  BY FS_Subset, FS_CardinalityType
<1>2. Exists(0)
  <2>. DEFINE h == [s \in Upto(0) |-> first]
  <2>1. \A s \in Upto(0) : s = {}
    BY <1>1, FS_EmptySet
  <2>2. {} \in Upto(0)
    BY FS_EmptySet
  <2>. HIDE DEF Upto
  <2>3. h \in [Upto(0) -> T] /\ h[{}] = first
    BY <2>2
  <2>. HIDE DEF h
  <2>. QED
    BY <2>1, <2>3
<1>3. ASSUME NEW k \in Nat, Exists(k) PROVE Exists(k + 1)
  <2>1. PICK g \in [Upto(k) -> T] : Takes(g, k)
    BY <1>3
  <2>. DEFINE h == [s \in Upto(k + 1) |->
                      IF s \in Upto(k) THEN g[s] ELSE step[pick[s]][g[s \ {pick[s]}]]]
  <2>2. Upto(k) \subseteq Upto(k + 1)
    BY <1>1
  <2>3. {} \in Upto(k)
    BY FS_EmptySet
  <2>4. ASSUME NEW s \in Upto(k + 1), s # {}
        PROVE  pick[s] \in s /\ pick[s] \in S /\ s \ {pick[s]} \in Upto(k)
    <3>1. pick[s] \in s /\ s \in SUBSET S /\ Cardinality(s) <= k + 1
      BY <2>4 DEF Picks
    <3>2. Cardinality(s \ {pick[s]}) = Cardinality(s) - 1
      BY <1>1, <3>1, FS_RemoveElement
    <3>3. Cardinality(s) - 1 <= k
      BY <1>1, <3>1
    <3>. QED
      BY <3>1, <3>2, <3>3
  <2>. HIDE DEF Upto
  <2>5. h \in [Upto(k + 1) -> T]
    <3>1. \A s \in Upto(k + 1) : s \notin Upto(k) => step[pick[s]][g[s \ {pick[s]}]] \in T
      BY <2>3, <2>4
    <3>. QED
      BY <3>1
  <2>6. h[{}] = first
    BY <2>1, <2>2, <2>3
  <2>7. ASSUME NEW s \in Upto(k + 1), s # {}
        PROVE  h[s] = step[pick[s]][h[s \ {pick[s]}]]
    <3>1. h[s \ {pick[s]}] = g[s \ {pick[s]}]
      BY <2>2, <2>4, <2>7
    <3>. QED
      BY <2>1, <2>7, <3>1
  <2>. HIDE DEF h
  <2>. QED
    BY <2>5, <2>6, <2>7
<1>. HIDE DEF Exists
<1>4. 0 \in Good
  BY <1>2
<1>5. \A k \in Nat : k \in Good => k + 1 \in Good
  BY <1>3
<1>. HIDE DEF Good
<1>6. Cardinality(S) \in Good
  BY <1>4, <1>5, FS_CardinalityType, SetInduction
<1>7. Exists(Cardinality(S))
  BY <1>6 DEF Good
<1>8. Upto(Cardinality(S)) = SUBSET S
  BY FS_Subset
<1>. HIDE DEF Upto
<1>9. PICK h \in [Upto(Cardinality(S)) -> T] : Takes(h, Cardinality(S))
  BY <1>7 DEF Exists
<1>10. h \in [SUBSET S -> T] /\ TakesSteps(h, first, step, pick, S)
  BY <1>8, <1>9 DEF TakesSteps
<1>. QED
  BY <1>10

-----------------------------------------------------------------------------
(* Sums over sets *)

(* What SumsUp says of h: it is the sum of w over every subset of S.        *)
SumsUp(h, w, S) ==
  /\ h \in [SUBSET S -> Nat]
  /\ h[{}] = 0
  /\ \A s \in SUBSET S : \A x \in s : h[s] = w[x] + h[s \ {x}]

Chosen(s) == CHOOSE x \in s : TRUE

ByChoice(h, w, S) ==
  /\ h[{}] = 0
  /\ \A s \in SUBSET S : s # {} => h[s] = w[Chosen(s)] + h[s \ {Chosen(s)}]

(* To sum up elements as they are chosen is to sum them up in any order.    *)
LEMMA AnyOrder ==
  ASSUME NEW S, IsFiniteSet(S), NEW w, \A x \in S : w[x] \in Nat,
         NEW h \in [SUBSET S -> Nat], ByChoice(h, w, S)
  PROVE  SumsUp(h, w, S)
<1>. DEFINE AnyFirst(s) == \A x \in s : h[s] = w[x] + h[s \ {x}]
            Good   == {k \in Nat : \A s \in SUBSET S : Cardinality(s) <= k => AnyFirst(s)}
<1>1. \A s \in SUBSET S : IsFiniteSet(s) /\ Cardinality(s) \in Nat
  BY FS_Subset, FS_CardinalityType
<1>2. 0 \in Good
  <2>1. \A s \in SUBSET S : Cardinality(s) <= 0 => s = {}
    BY <1>1, FS_EmptySet
  <2>. QED
    BY <2>1
<1>3. ASSUME NEW k \in Nat, k \in Good PROVE k + 1 \in Good
  <2>. SUFFICES ASSUME NEW s \in SUBSET S, Cardinality(s) <= k + 1, NEW x \in s
                PROVE  h[s] = w[x] + h[s \ {x}]
    OBVIOUS
  <2>. DEFINE c == Chosen(s)
  <2>1. c \in s /\ h[s] = w[c] + h[s \ {c}]
    BY DEF Chosen, ByChoice
  <2>2. \A y \in s : s \ {y} \in SUBSET S /\ Cardinality(s \ {y}) <= k
    <3>. TAKE y \in s
    <3>1. Cardinality(s \ {y}) = Cardinality(s) - 1
      BY <1>1, FS_RemoveElement
    <3>. QED
      BY <1>1, <3>1
  <2>. HIDE DEF c
  <2>3. CASE x = c
    BY <2>1, <2>3
  <2>4. CASE x # c
    <3>1. AnyFirst(s \ {c}) /\ AnyFirst(s \ {x})
      BY <1>3, <2>1, <2>2
    <3>2. h[s \ {c}] = w[x] + h[(s \ {c}) \ {x}]
      BY <2>4, <3>1
    <3>3. h[s \ {x}] = w[c] + h[(s \ {x}) \ {c}]
      BY <2>1, <2>4, <3>1
    <3>. DEFINE rest == h[(s \ {x}) \ {c}]
    <3>4. (s \ {c}) \ {x} = (s \ {x}) \ {c}
      OBVIOUS
    <3>5. w[x] \in Nat /\ w[c] \in Nat /\ rest \in Nat
      BY <2>1
    <3>6. h[s \ {c}] = w[x] + rest
      BY <3>2, <3>4
    <3>. HIDE DEF rest
    <3>. QED
      BY <2>1, <3>3, <3>5, <3>6 DEF rest
  <2>. QED
    BY <2>3, <2>4
<1>. HIDE DEF Good
<1>4. Nat \subseteq Good
  BY <1>2, <1>3, SetInduction
<1>5. \A s \in SUBSET S : AnyFirst(s)
  <2>. TAKE s \in SUBSET S
  <2>1. Cardinality(s) \in Good /\ Cardinality(s) <= Cardinality(s)
    BY <1>1, <1>4
  <2>. QED
    BY <2>1 DEF Good
<1>. QED
  BY <1>5 DEF SumsUp, ByChoice

(* Where what is summed up agrees, the sums do.                             *)
LEMMA SumsAgree ==
  ASSUME NEW S, IsFiniteSet(S), NEW w, NEW v, \A x \in S : w[x] = v[x],
         NEW h, NEW g, NEW R, S \subseteq R, SumsUp(h, w, S), SumsUp(g, v, R)
  PROVE  h[S] = g[S]
<1>. DEFINE Good == {k \in Nat : \A s \in SUBSET S : Cardinality(s) <= k => h[s] = g[s]}
<1>1. \A s \in SUBSET S : IsFiniteSet(s) /\ Cardinality(s) \in Nat
  BY FS_Subset, FS_CardinalityType
<1>2. 0 \in Good
  <2>1. \A s \in SUBSET S : Cardinality(s) <= 0 => s = {}
    BY <1>1, FS_EmptySet
  <2>. QED
    BY <2>1 DEF SumsUp
<1>3. ASSUME NEW k \in Nat, k \in Good PROVE k + 1 \in Good
  <2>. SUFFICES ASSUME NEW s \in SUBSET S, Cardinality(s) <= k + 1
                PROVE  h[s] = g[s]
    OBVIOUS
  <2>. SUFFICES ASSUME s # {} PROVE h[s] = g[s]
    BY DEF SumsUp
  <2>1. PICK x \in s : TRUE
    OBVIOUS
  <2>2. Cardinality(s \ {x}) = Cardinality(s) - 1
    BY <1>1, FS_RemoveElement
  <2>3. h[s \ {x}] = g[s \ {x}]
    BY <1>1, <1>3, <2>2
  <2>4. h[s] = w[x] + h[s \ {x}]
    BY DEF SumsUp
  <2>5. g[s] = v[x] + g[s \ {x}]
    BY DEF SumsUp
  <2>. QED
    BY <2>3, <2>4, <2>5
<1>. HIDE DEF Good
<1>4. Cardinality(S) \in Good
  BY <1>1, <1>2, <1>3, SetInduction
<1>. QED
  BY <1>1, <1>4 DEF Good

(* The sum of w over a finite set.                                          *)
SumOf(w, S) == MapThenSumSet(LAMBDA x : w[x], S)

(* There is a function that sums up by choice.                              *)
Unfolds(h, w, S) ==
  h = [s \in SUBSET S |-> IF s = {} THEN 0 ELSE w[Chosen(s)] + h[s \ {Chosen(s)}]]

(* A sum over a finite set that unfolds by one element at a time exists.    *)
LEMMA SumExists ==
  ASSUME NEW S, IsFiniteSet(S), NEW w, \A x \in S : w[x] \in Nat
  PROVE  \E h : Unfolds(h, w, S)
<1>. DEFINE step == [x \in S |-> [n \in Nat |-> w[x] + n]]
            pick == [s \in SUBSET S |-> Chosen(s)]
<1>1. step \in [S -> [Nat -> Nat]]
  OBVIOUS
<1>2. \A s \in SUBSET S : s # {} => pick[s] = Chosen(s) /\ Chosen(s) \in s
  BY DEF Chosen
<1>3. \A x \in S : \A n \in Nat : step[x][n] = w[x] + n
  OBVIOUS
<1>. HIDE DEF step, pick
<1>4. PICK h \in [SUBSET S -> Nat] : TakesSteps(h, 0, step, pick, S)
  <2>1. 0 \in Nat /\ Picks(pick, S)
    BY <1>2 DEF Picks
  <2>. QED
    BY <1>1, <2>1, FoldExists
<1>5. h[{}] = 0
  BY <1>4 DEF TakesSteps
<1>6. ASSUME NEW s \in SUBSET S, s # {}
      PROVE  h[s] = w[Chosen(s)] + h[s \ {Chosen(s)}]
  <2>1. Chosen(s) \in S /\ h[s \ {Chosen(s)}] \in Nat
    BY <1>2, <1>6
  <2>. QED
    BY <1>2, <1>3, <1>4, <1>6, <2>1 DEF TakesSteps
<1>7. Unfolds(h, w, S)
  BY <1>5, <1>6 DEF Unfolds
<1>. QED
  BY <1>7

(* Every function that does is the sum.                                     *)
LEMMA SumUnfolds ==
  ASSUME NEW S, IsFiniteSet(S), NEW w, \A x \in S : w[x] \in Nat,
         NEW h, ByChoice(h, w, S)
  PROVE  \A s \in SUBSET S : h[s] \in Nat
<1>. DEFINE Good == {k \in Nat : \A s \in SUBSET S : Cardinality(s) <= k => h[s] \in Nat}
<1>1. \A s \in SUBSET S : IsFiniteSet(s) /\ Cardinality(s) \in Nat
  BY FS_Subset, FS_CardinalityType
<1>2. h[{}] \in Nat
  BY DEF ByChoice
<1>3. 0 \in Good
  <2>1. \A s \in SUBSET S : Cardinality(s) <= 0 => s = {}
    BY <1>1, FS_EmptySet
  <2>2. \A s \in SUBSET S : Cardinality(s) <= 0 => h[s] \in Nat
    BY <1>2, <2>1
  <2>. QED
    BY <2>2
<1>4. ASSUME NEW k \in Nat, k \in Good PROVE k + 1 \in Good
  <2>. SUFFICES ASSUME NEW s \in SUBSET S, Cardinality(s) <= k + 1
                PROVE  h[s] \in Nat
    OBVIOUS
  <2>. SUFFICES ASSUME s # {} PROVE h[s] \in Nat
    BY <1>2
  <2>1. Chosen(s) \in s
    BY DEF Chosen
  <2>2. Cardinality(s \ {Chosen(s)}) = Cardinality(s) - 1
    BY <1>1, <2>1, FS_RemoveElement
  <2>3. h[s \ {Chosen(s)}] \in Nat
    BY <1>1, <1>4, <2>2
  <2>4. h[s] = w[Chosen(s)] + h[s \ {Chosen(s)}]
    BY DEF ByChoice
  <2>5. w[Chosen(s)] \in Nat
    BY <2>1
  <2>. QED
    BY <2>3, <2>4, <2>5
<1>. HIDE DEF Good
<1>5. Nat \subseteq Good
  BY <1>3, <1>4, SetInduction
<1>. SUFFICES ASSUME NEW s \in SUBSET S PROVE h[s] \in Nat
  OBVIOUS
<1>6. Cardinality(s) \in Good /\ Cardinality(s) <= Cardinality(s)
  BY <1>1, <1>5
<1>. QED
  BY <1>6 DEF Good

(* Whatever unfolds so adds up each subset, in any order of its elements.   *)
LEMMA UnfoldingSums ==
  ASSUME NEW S, IsFiniteSet(S), NEW w, \A x \in S : w[x] \in Nat,
         NEW h, Unfolds(h, w, S)
  PROVE  SumsUp(h, w, S)
<1>1. ByChoice(h, w, S)
  BY DEF ByChoice, Unfolds
<1>2. \A s \in SUBSET S : h[s] \in Nat
  BY <1>1, SumUnfolds
<1>3. h \in [SUBSET S -> Nat]
  <2>. DEFINE f == [s \in SUBSET S |-> IF s = {} THEN 0
                                       ELSE w[Chosen(s)] + h[s \ {Chosen(s)}]]
  <2>1. h = f /\ f = [s \in SUBSET S |-> f[s]]
    BY DEF Unfolds
  <2>. HIDE DEF f
  <2>. QED
    BY <1>2, <2>1
<1>. QED
  BY <1>1, <1>3, AnyOrder

(* SumOf is the sum.                                                        *)
LEMMA SumIs ==
  ASSUME NEW S, IsFiniteSet(S), NEW w, \A x \in S : w[x] \in Nat
  PROVE  \E h : SumsUp(h, w, S) /\ SumOf(w, S) = h[S]
<1>. DEFINE Is(h) == h = [s \in SUBSET S |-> IF s = {} THEN 0
                            ELSE LET x == CHOOSE y \in s : TRUE IN w[x] + h[s \ {x}]]
            iter == CHOOSE h : Is(h)
<1>1. SumOf(w, S) = iter[S]
  BY DEF SumOf, MapThenSumSet, MapThenFoldSet
<1>2. \E h : Is(h)
  <2>1. PICK h : Unfolds(h, w, S)
    BY SumExists
  <2>2. Is(h)
    BY <2>1 DEF Chosen, Unfolds
  <2>. QED
    BY <2>2
<1>3. Is(iter)
  BY <1>2
<1>. HIDE DEF iter
<1>4. Unfolds(iter, w, S)
  BY <1>3 DEF Chosen, Unfolds
<1>. QED
  BY <1>1, <1>4, UnfoldingSums

(* A sum of numbers over a finite set is a number.                          *)
LEMMA SumType ==
  ASSUME NEW S, IsFiniteSet(S), NEW w, \A x \in S : w[x] \in Nat
  PROVE  SumOf(w, S) \in Nat
<1>1. PICK h : SumsUp(h, w, S) /\ SumOf(w, S) = h[S]
  BY SumIs
<1>. QED
  BY <1>1 DEF SumsUp

(* The sum over no lines is nothing.                                        *)
LEMMA SumEmpty ==
  ASSUME NEW w
  PROVE  SumOf(w, {}) = 0
<1>1. PICK h : SumsUp(h, w, {}) /\ SumOf(w, {}) = h[{}]
  <2>1. IsFiniteSet({}) /\ \A x \in {} : w[x] \in Nat
    BY FS_EmptySet
  <2>. QED
    BY <2>1, SumIs
<1>. QED
  BY <1>1 DEF SumsUp

(* Equal parts have equal sums.                                             *)
LEMMA SumSame ==
  ASSUME NEW S, IsFiniteSet(S), NEW w, \A x \in S : w[x] \in Nat,
         NEW v, \A x \in S : w[x] = v[x]
  PROVE  SumOf(w, S) = SumOf(v, S)
<1>1. PICK h : SumsUp(h, w, S) /\ SumOf(w, S) = h[S]
  BY SumIs
<1>2. PICK g : SumsUp(g, v, S) /\ SumOf(v, S) = g[S]
  <2>1. \A x \in S : v[x] \in Nat
    OBVIOUS
  <2>. QED
    BY <2>1, SumIs
<1>3. h[S] = g[S]
  BY <1>1, <1>2, SumsAgree
<1>. QED
  BY <1>1, <1>2, <1>3

(* One part more.                                                           *)
LEMMA SumInsert ==
  ASSUME NEW S, IsFiniteSet(S), NEW w, \A y \in S : w[y] \in Nat,
         NEW x, x \notin S, NEW v, \A y \in S : w[y] = v[y], v[x] \in Nat
  PROVE  SumOf(v, S \cup {x}) = SumOf(w, S) + v[x]
<1>. DEFINE R == S \cup {x}
<1>1. PICK h : SumsUp(h, w, S) /\ SumOf(w, S) = h[S]
  BY SumIs
<1>2. PICK g : SumsUp(g, v, R) /\ SumOf(v, R) = g[R]
  <2>1. IsFiniteSet(R)
    BY FS_AddElement
  <2>2. \A y \in R : v[y] \in Nat
    OBVIOUS
  <2>. HIDE DEF R
  <2>. QED
    BY <2>1, <2>2, SumIs
<1>3. h[S] = g[S]
  <2>1. S \subseteq R
    OBVIOUS
  <2>. HIDE DEF R
  <2>. QED
    BY <1>1, <1>2, <2>1, SumsAgree
<1>4. g[R] = v[x] + g[R \ {x}]
  BY <1>2 DEF SumsUp
<1>5. R \ {x} = S
  OBVIOUS
<1>6. h[S] \in Nat
  BY <1>1 DEF SumsUp
<1>. HIDE DEF R
<1>7. g[R] = v[x] + h[S]
  BY <1>3, <1>4, <1>5
<1>8. SumOf(v, R) = SumOf(w, S) + v[x]
  BY <1>1, <1>2, <1>6, <1>7
<1>. QED
  BY <1>8 DEF R

(* What MapThenSumSet makes of lines is the sum of what each of them costs, *)
(* or of its tokens.                                                        *)
LEMMA CostsSummed ==
  ASSUME NEW S, IsFiniteSet(S), NEW txt, NEW w,
         \A l \in S : w[l] \in Nat /\ w[l] = CostForUsage(txt[l[1]][l[2]].usage)
  PROVE  MapThenSumSet(LAMBDA l : CostForUsage(txt[l[1]][l[2]].usage), S) = SumOf(w, S)
<1>. DEFINE cost(x) == CostForUsage(txt[x[1]][x[2]].usage)
            Is(h) == h = [s \in SUBSET S |-> IF s = {} THEN 0
                            ELSE LET x == CHOOSE y \in s : TRUE
                                 IN  cost(x) + h[s \ {x}]]
            iter == CHOOSE h : Is(h)
<1>1. MapThenSumSet(LAMBDA l : CostForUsage(txt[l[1]][l[2]].usage), S) = iter[S]
  BY DEF MapThenSumSet, MapThenFoldSet
<1>2. \A s \in SUBSET S : s # {} => w[Chosen(s)] = cost(Chosen(s))
  BY DEF Chosen
<1>. HIDE DEF cost
<1>3. \E h : Is(h)
  <2>1. PICK h : Unfolds(h, w, S)
    <3>1. \A l \in S : w[l] \in Nat
      OBVIOUS
    <3>. QED
      BY <3>1, SumExists
  <2>2. Is(h)
    BY <1>2, <2>1 DEF Chosen, Unfolds
  <2>. QED
    BY <2>2
<1>4. Is(iter)
  BY <1>3
<1>. HIDE DEF iter
<1>5. Unfolds(iter, w, S)
  BY <1>2, <1>4 DEF Chosen, Unfolds
<1>6. iter[S] = SumOf(w, S)
  <2>1. \A l \in S : w[l] \in Nat
    OBVIOUS
  <2>2. PICK h : SumsUp(h, w, S) /\ SumOf(w, S) = h[S]
    BY <2>1, SumIs
  <2>3. SumsUp(iter, w, S)
    BY <1>5, <2>1, UnfoldingSums
  <2>4. iter[S] = h[S]
    BY <2>2, <2>3, SumsAgree
  <2>. QED
    BY <2>2, <2>4
<1>. QED
  BY <1>1, <1>6

(* The tokens SeenAreTotals adds up are the sum of the tokens of the lines. *)
LEMMA TokensSummed ==
  ASSUME NEW S, IsFiniteSet(S), NEW txt, NEW w,
         \A l \in S : w[l] \in Nat /\ w[l] = TokensOf(txt[l[1]][l[2]].usage)
  PROVE  MapThenSumSet(LAMBDA l : TokensOf(txt[l[1]][l[2]].usage), S) = SumOf(w, S)
<1>. DEFINE tokens(x) == TokensOf(txt[x[1]][x[2]].usage)
            Is(h) == h = [s \in SUBSET S |-> IF s = {} THEN 0
                            ELSE LET x == CHOOSE y \in s : TRUE
                                 IN  tokens(x) + h[s \ {x}]]
            iter == CHOOSE h : Is(h)
<1>1. MapThenSumSet(LAMBDA l : TokensOf(txt[l[1]][l[2]].usage), S) = iter[S]
  BY DEF MapThenSumSet, MapThenFoldSet
<1>2. \A s \in SUBSET S : s # {} => w[Chosen(s)] = tokens(Chosen(s))
  BY DEF Chosen
<1>. HIDE DEF tokens
<1>3. \E h : Is(h)
  <2>1. PICK h : Unfolds(h, w, S)
    <3>1. \A l \in S : w[l] \in Nat
      OBVIOUS
    <3>. QED
      BY <3>1, SumExists
  <2>2. Is(h)
    BY <1>2, <2>1 DEF Chosen, Unfolds
  <2>. QED
    BY <2>2
<1>4. Is(iter)
  BY <1>3
<1>. HIDE DEF iter
<1>5. Unfolds(iter, w, S)
  BY <1>2, <1>4 DEF Chosen, Unfolds
<1>6. iter[S] = SumOf(w, S)
  <2>1. \A l \in S : w[l] \in Nat
    OBVIOUS
  <2>2. PICK h : SumsUp(h, w, S) /\ SumOf(w, S) = h[S]
    BY <2>1, SumIs
  <2>3. SumsUp(iter, w, S)
    BY <1>5, <2>1, UnfoldingSums
  <2>4. iter[S] = h[S]
    BY <2>2, <2>3, SumsAgree
  <2>. QED
    BY <2>2, <2>4
<1>. QED
  BY <1>1, <1>6

-----------------------------------------------------------------------------
(* The figures *)

(* What a line costs, and its tokens, are counts.                           *)
LEMMA Counts ==
  ASSUME NEW u \in Usage
  PROVE  CostForUsage(u) \in Nat /\ TokensOf(u) \in Nat
<1>1. u.input \in Nat /\ u.output \in Nat /\ u.write \in Nat /\ u.read \in Nat
  BY DEF Usage
<1>2. RateOf(u.model).input \in Nat /\ RateOf(u.model).output \in Nat
  <2>. DEFINE rate == RateOf(u.model)
  <2>1. DEFAULT_RATE.input \in Nat /\ DEFAULT_RATE.output \in Nat
    BY DEF DEFAULT_RATE, Rate
  <2>2. \A m \in DOMAIN MODEL_RATES :
          MODEL_RATES[m].input \in Nat /\ MODEL_RATES[m].output \in Nat
    BY DEF MODEL_RATES, Rate
  <2>. QED
    BY <2>1, <2>2 DEF RateOf
<1>3. \A a, b \in Nat : a * b \in Nat
  OBVIOUS
<1>. DEFINE in == RateOf(u.model).input
            out == RateOf(u.model).output
<1>4. CostForUsage(u) = 20 * u.input * in + 20 * u.output * out
                        + 25 * u.write * in + 2 * u.read * in
  BY DEF CostForUsage
<1>. HIDE DEF in, out
<1>5. in \in Nat /\ out \in Nat
  BY <1>2 DEF in, out
<1>6. /\ 20 * u.input * in \in Nat /\ 20 * u.output * out \in Nat
      /\ 25 * u.write * in \in Nat /\ 2 * u.read * in \in Nat
  <2>1. /\ 20 * u.input \in Nat /\ 20 * u.output \in Nat
        /\ 25 * u.write \in Nat /\ 2 * u.read \in Nat
    BY <1>1
  <2>. QED
    BY <1>3, <1>5, <2>1
<1>. QED
  BY <1>1, <1>4, <1>6 DEF TokensOf

(* What SumSince does with a line.                                          *)
Counting(start, s, line) == IF line.at >= start THEN Plus(s, line.usage) ELSE s

(* What one line is counted to is a sum.                                    *)
LEMMA CountingTyped ==
  ASSUME NEW start, NEW s \in Sum, NEW line \in Line
  PROVE  Counting(start, s, line) \in Sum
<1>1. line.usage \in Usage
  BY UsageAssumption DEF Line
<1>2. CostForUsage(line.usage) \in Nat /\ TokensOf(line.usage) \in Nat
  BY <1>1, Counts
<1>3. Plus(s, line.usage) \in Sum
  BY <1>2 DEF Plus, Sum
<1>. QED
  BY <1>3 DEF Counting

(* SumSince counts one line after the other.                                *)
LEMMA SumRuns ==
  ASSUME NEW start, NEW first \in Sum, NEW q \in Seq(Line)
  PROVE  \E r : /\ r[0] = first
                /\ \A i \in 1..Len(q) : r[i] = Counting(start, r[i - 1], q[i])
                /\ SumSince(start, first, q) = r[Len(q)]
<1>. DEFINE n == Len(q)
            step == [i \in 1..n |-> [s \in Sum |-> Counting(start, s, q[i])]]
            pick == [s \in SUBSET (1..n) |-> Max(s)]
            Is(h) == h = [s \in SUBSET (DOMAIN q) |->
                            IF s = {} THEN first
                            ELSE LET x == Max(s)
                                 IN  IF q[x].at >= start THEN Plus(h[s \ {x}], q[x].usage)
                                     ELSE h[s \ {x}]]
            iter == CHOOSE h : Is(h)
<1>1. n \in Nat /\ DOMAIN q = 1..n /\ \A i \in 1..n : q[i] \in Line
  OBVIOUS
<1>2. SumSince(start, first, q) = iter[DOMAIN q]
  BY DEF SumSince, FoldLeft, MapThenFoldSet
<1>3. step \in [1..n -> [Sum -> Sum]]
  BY <1>1, CountingTyped
<1>4. \A i \in 1..n : \A s \in Sum : step[i][s] = Counting(start, s, q[i])
  OBVIOUS
<1>. HIDE DEF n, step
<1>5. IsFiniteSet(1..n) /\ Picks(pick, 1..n)
  <2>1. IsFiniteSet(1..n)
    BY <1>1, FS_Interval
  <2>2. \A s \in SUBSET (1..n) : s # {} => Max(s) \in s
    BY <1>1, Extremes
  <2>. QED
    BY <2>1, <2>2 DEF Picks
<1>6. \E h : Is(h)
  <2>1. PICK h \in [SUBSET (1..n) -> Sum] : TakesSteps(h, first, step, pick, 1..n)
    <3>. HIDE DEF pick
    <3>. QED
      BY <1>3, <1>5, FoldExists
  <2>2. ASSUME NEW s \in SUBSET (1..n), s # {}
        PROVE  h[s] = Counting(start, h[s \ {Max(s)}], q[Max(s)])
    <3>1. Max(s) \in 1..n
      BY <1>1, <2>2, Extremes
    <3>2. h[s \ {Max(s)}] \in Sum /\ pick[s] = Max(s)
      OBVIOUS
    <3>. QED
      BY <1>4, <2>1, <2>2, <3>1, <3>2 DEF TakesSteps
  <2>3. h[{}] = first
    BY <2>1 DEF TakesSteps
  <2>4. Is(h)
    BY <1>1, <2>2, <2>3 DEF Counting
  <2>. QED
    BY <2>4
<1>7. Is(iter)
  BY <1>6
<1>8. iter[{}] = first
  BY <1>7
<1>9. ASSUME NEW i \in 1..n
      PROVE  iter[1..i] = Counting(start, iter[1..(i - 1)], q[i])
  <2>1. 1..i \in SUBSET (1..n) /\ 1..i # {} /\ i \in 1..i
    <3>. HIDE DEF Is, iter
    <3>1. i \in Nat /\ 1 <= i /\ i <= n
      BY <1>1
    <3>2. \A x \in 1..i : x \in 1..n
      BY <1>1, <3>1
    <3>3. i \in 1..i
      BY <3>1
    <3>. QED
      BY <3>2, <3>3
  <2>2. Max(1..i) = i
    <3>1. Max(1..i) \in 1..i /\ i <= Max(1..i)
      BY <1>1, <2>1, Extremes
    <3>. QED
      BY <1>1, <3>1
  <2>3. (1..i) \ {i} = 1..(i - 1)
    BY <1>1
  <2>. QED
    BY <1>1, <1>7, <2>1, <2>2, <2>3 DEF Counting
<1>. HIDE DEF iter
<1>. DEFINE r == [i \in 0..n |-> iter[1..i]]
<1>10. r[0] = first
  <2>1. 1..0 = {} /\ 0 \in 0..n
    BY <1>1
  <2>. QED
    BY <1>8, <2>1
<1>11. \A i \in 1..n : r[i] = Counting(start, r[i - 1], q[i])
  <2>1. \A i \in 1..n : i \in 0..n /\ i - 1 \in 0..n
    BY <1>1
  <2>. QED
    BY <1>9, <2>1
<1>12. r[n] = SumSince(start, first, q)
  BY <1>1, <1>2
<1>. HIDE DEF r
<1>. QED
  BY <1>10, <1>11, <1>12 DEF n

(* What Use counts a file's lines to is a sum.                              *)
LEMMA SumTyped ==
  ASSUME NEW start, NEW first \in Sum, NEW q \in Seq(Line)
  PROVE  SumSince(start, first, q) \in Sum
<1>. DEFINE n == Len(q)
<1>1. PICK r : /\ r[0] = first
               /\ \A i \in 1..n : r[i] = Counting(start, r[i - 1], q[i])
               /\ SumSince(start, first, q) = r[n]
  BY SumRuns
<1>2. n \in Nat /\ \A i \in 1..n : q[i] \in Line
  OBVIOUS
<1>. HIDE DEF n
<1>. DEFINE Good == {i \in Nat : i <= n => r[i] \in Sum}
<1>3. 0 \in Good
  BY <1>1
<1>4. ASSUME NEW i \in Nat, i \in Good PROVE i + 1 \in Good
  <2>. SUFFICES ASSUME i + 1 <= n PROVE r[i + 1] \in Sum
    OBVIOUS
  <2>1. i + 1 \in 1..n /\ (i + 1) - 1 = i /\ i <= n
    BY <1>2
  <2>2. r[i] \in Sum /\ q[i + 1] \in Line
    BY <1>2, <1>4, <2>1
  <2>3. r[i + 1] = Counting(start, r[i], q[i + 1])
    BY <1>1, <2>1
  <2>. QED
    BY <2>2, <2>3, CountingTyped
<1>. HIDE DEF Good
<1>5. n \in Good
  BY <1>2, <1>3, <1>4, SetInduction
<1>. QED
  BY <1>1, <1>2, <1>5 DEF Good

-----------------------------------------------------------------------------
(* What a cache is worth *)

(* The lines a cache holds, and those at or after a moment.                 *)
Held(c) == UNION {{<<f, i>> : i \in DOMAIN c[f].entries} : f \in DOMAIN c}

LineOf(c, l) == c[l[1]].entries[l[2]]

Within(c, start) == {l \in Held(c) : LineOf(c, l).at >= start}

(* What they cost, and their tokens, and the sums of both.                  *)
CostsIn(c)  == [l \in Held(c) |-> CostForUsage(LineOf(c, l).usage)]
TokensIn(c) == [l \in Held(c) |-> TokensOf(LineOf(c, l).usage)]

Worth(c, start) ==
  [ cost   |-> SumOf(CostsIn(c), Within(c, start)),
    tokens |-> SumOf(TokensIn(c), Within(c, start)) ]

(* The lines a cache holds are the places in its entries.                   *)
LEMMA HeldIs ==
  ASSUME NEW c, IsCache(c)
  PROVE  /\ \A f, i : <<f, i>> \in Held(c) <=> f \in DOMAIN c /\ i \in 1..Len(c[f].entries)
         /\ \A l \in Held(c) : /\ l = <<l[1], l[2]>> /\ l[1] \in DOMAIN c
                               /\ l[2] \in 1..Len(c[l[1]].entries)
                               /\ LineOf(c, l) \in Line
<1>1. \A f \in DOMAIN c : c[f].entries \in Seq(Line)
  BY DEF IsCache, Entries
<1>2. \A f \in DOMAIN c : DOMAIN c[f].entries = 1..Len(c[f].entries)
  BY <1>1, LenProperties
<1>3. \A f, i : <<f, i>> \in Held(c) <=> f \in DOMAIN c /\ i \in 1..Len(c[f].entries)
  BY <1>2 DEF Held
<1>4. ASSUME NEW l \in Held(c)
      PROVE  /\ l = <<l[1], l[2]>> /\ l[1] \in DOMAIN c
             /\ l[2] \in 1..Len(c[l[1]].entries)
             /\ LineOf(c, l) \in Line
  <2>1. PICK f \in DOMAIN c : l \in {<<f, i>> : i \in DOMAIN c[f].entries}
    BY DEF Held
  <2>2. PICK i \in DOMAIN c[f].entries : l = <<f, i>>
    BY <2>1
  <2>3. i \in 1..Len(c[f].entries)
    BY <1>2
  <2>4. c[f].entries[i] \in Line
    BY <1>1, <2>3, ElementOfSeq
  <2>. QED
    BY <2>2, <2>3, <2>4 DEF LineOf
<1>. QED
  BY <1>3, <1>4

(* A cache holds finitely many lines.                                       *)
LEMMA HeldFinite ==
  ASSUME NEW c, IsCache(c)
  PROVE  /\ IsFiniteSet(Held(c))
         /\ \A start : IsFiniteSet(Within(c, start)) /\ Within(c, start) \subseteq Held(c)
<1>. DEFINE Of(f) == {<<f, i>> : i \in DOMAIN c[f].entries}
            All   == {Of(f) : f \in DOMAIN c}
<1>1. \A f \in DOMAIN c : IsFiniteSet(Of(f))
  <2>. TAKE f \in DOMAIN c
  <2>1. c[f].entries \in Seq(Line)
    BY DEF IsCache, Entries
  <2>2. DOMAIN c[f].entries = 1..Len(c[f].entries) /\ Len(c[f].entries) \in Nat
    BY <2>1, LenProperties
  <2>3. IsFiniteSet(DOMAIN c[f].entries)
    BY <2>2, FS_Interval
  <2>4. IsFiniteSet({f})
    BY FS_Singleton
  <2>5. IsFiniteSet({f} \X DOMAIN c[f].entries)
    BY <2>3, <2>4, FS_Product
  <2>6. Of(f) \in SUBSET ({f} \X DOMAIN c[f].entries)
    OBVIOUS
  <2>. HIDE DEF Of
  <2>. QED
    BY <2>5, <2>6, FS_Subset
<1>2. IsFiniteSet(DOMAIN c)
  <2>1. DOMAIN c \in SUBSET Files
    BY DEF IsCache
  <2>. QED
    BY <2>1, UsageAssumption, FS_Subset
<1>. HIDE DEF Of
<1>3. IsFiniteSet(All)
  <2>. DEFINE m == [f \in DOMAIN c |-> Of(f)]
  <2>1. m \in Surjection(DOMAIN c, All)
    BY DEF Surjection
  <2>. HIDE DEF m, All
  <2>. QED
    BY <1>2, <2>1, FS_Surjection
<1>4. \A s \in All : IsFiniteSet(s)
  BY <1>1
<1>. HIDE DEF All
<1>5. IsFiniteSet(UNION All)
  BY <1>3, <1>4, FS_UNION
<1>6. Held(c) = UNION All
  BY DEF Held, All, Of
<1>7. \A start : Within(c, start) \in SUBSET Held(c)
  BY DEF Within
<1>. QED
  BY <1>5, <1>6, <1>7, FS_Subset

(* What a cache is worth since a start is a sum.                            *)
LEMMA WorthTyped ==
  ASSUME NEW c, IsCache(c), NEW start
  PROVE  /\ \A l \in Held(c) : CostsIn(c)[l] \in Nat /\ TokensIn(c)[l] \in Nat
         /\ Worth(c, start) \in Sum
<1>1. \A l \in Held(c) : LineOf(c, l).usage \in Usage
  BY HeldIs, UsageAssumption DEF Line
<1>2. \A l \in Held(c) : CostsIn(c)[l] \in Nat /\ TokensIn(c)[l] \in Nat
  BY <1>1, Counts DEF CostsIn, TokensIn
<1>. DEFINE W == Within(c, start)
<1>3. IsFiniteSet(W) /\ W \subseteq Held(c)
  BY HeldFinite
<1>. HIDE DEF W
<1>4. SumOf(CostsIn(c), W) \in Nat
  BY <1>2, <1>3, SumType
<1>5. SumOf(TokensIn(c), W) \in Nat
  BY <1>2, <1>3, SumType
<1>. QED
  BY <1>2, <1>4, <1>5 DEF Worth, Sum, W

(* An empty cache is worth nothing.                                         *)
LEMMA WorthOfNone ==
  ASSUME NEW start
  PROVE  IsCache(None) /\ Held(None) = {} /\ Worth(None, start) = Zero
<1>1. DOMAIN None = {}
  BY DEF None
<1>2. Held(None) = {}
  BY <1>1 DEF Held
<1>3. Within(None, start) = {}
  BY <1>2 DEF Within
<1>. QED
  BY <1>1, <1>2, <1>3, SumEmpty DEF IsCache, Worth, Zero

(* A cache with the entry of one more file.                                 *)
With(c, f, entry) == [g \in DOMAIN c \cup {f} |-> IF g = f THEN entry ELSE c[g]]

(* A cache with one more entry is a cache, and keeps the others.            *)
LEMMA WithIs ==
  ASSUME NEW c, IsCache(c), NEW f \in Files, NEW entry \in Entries
  PROVE  /\ IsCache(With(c, f, entry))
         /\ DOMAIN With(c, f, entry) = DOMAIN c \cup {f}
         /\ With(c, f, entry)[f] = entry
         /\ \A g \in DOMAIN c : g # f => With(c, f, entry)[g] = c[g]
BY DEF IsCache, With

(* It is worth what SumSince makes of what it was worth before.             *)
LEMMA WorthGrows ==
  ASSUME NEW c, IsCache(c), NEW f \in Files, f \notin DOMAIN c,
         NEW entry \in Entries, NEW start
  PROVE  Worth(With(c, f, entry), start) = SumSince(start, Worth(c, start), entry.entries)
<1>. DEFINE d  == With(c, f, entry)
            q  == entry.entries
            n  == Len(q)
            W0 == Within(c, start)
            New(i) == {<<f, j>> : j \in {k \in 1..i : q[k].at >= start}}
            W(i)   == W0 \cup New(i)
            Is(s, i) == /\ s.cost = SumOf(CostsIn(d), W(i))
                        /\ s.tokens = SumOf(TokensIn(d), W(i))
<1>1. q \in Seq(Line) /\ n \in Nat
  <2>1. q \in Seq(Line)
    BY DEF Entries
  <2>. QED
    BY <2>1, LenProperties
<1>2. /\ IsCache(d) /\ DOMAIN d = DOMAIN c \cup {f} /\ d[f] = entry
      /\ \A g \in DOMAIN c : d[g] = c[g]
  BY WithIs
<1>. HIDE DEF d
<1>3. \A l \in Held(c) : l \in Held(d) /\ LineOf(d, l) = LineOf(c, l)
  <2>. TAKE l \in Held(c)
  <2>1. l = <<l[1], l[2]>> /\ l[1] \in DOMAIN c /\ l[2] \in 1..Len(c[l[1]].entries)
    BY HeldIs
  <2>2. l[1] \in DOMAIN d /\ d[l[1]] = c[l[1]]
    BY <1>2, <2>1
  <2>3. <<l[1], l[2]>> \in Held(d)
    BY <1>2, <2>1, <2>2, HeldIs
  <2>. QED
    BY <2>1, <2>2, <2>3 DEF LineOf
<1>4. \A j \in 1..n : /\ <<f, j>> \in Held(d) /\ <<f, j>> \notin Held(c)
                      /\ LineOf(d, <<f, j>>) = q[j]
  BY <1>2, HeldIs DEF LineOf
<1>5. \A l \in Held(d) : l \in Held(c) \/ \E j \in 1..n : l = <<f, j>>
  <2>. TAKE l \in Held(d)
  <2>1. l = <<l[1], l[2]>> /\ l[1] \in DOMAIN d /\ l[2] \in 1..Len(d[l[1]].entries)
    BY <1>2, HeldIs
  <2>2. CASE l[1] = f
    BY <1>2, <2>1, <2>2
  <2>3. CASE l[1] # f
    <3>1. l[1] \in DOMAIN c /\ l[2] \in 1..Len(c[l[1]].entries)
      BY <1>2, <2>1, <2>3
    <3>2. <<l[1], l[2]>> \in Held(c)
      BY <3>1, HeldIs
    <3>. QED
      BY <2>1, <3>2
  <2>. QED
    BY <2>2, <2>3
<1>. HIDE DEF n, q
<1>6. W(n) = Within(d, start)
  <2>1. \A l \in W(n) : l \in Within(d, start)
    BY <1>3, <1>4 DEF Within
  <2>2. \A l \in Within(d, start) : l \in W(n)
    BY <1>3, <1>4, <1>5 DEF Within
  <2>. QED
    BY <2>1, <2>2
<1>7. \A i \in 0..n : W(i) \subseteq Held(d) /\ IsFiniteSet(W(i))
  <2>. TAKE i \in 0..n
  <2>1. \A j \in 1..i : j \in 1..n
    BY <1>1
  <2>2. New(i) \subseteq Held(d)
    BY <1>4, <2>1
  <2>3. W0 \subseteq Held(d)
    BY <1>3, HeldFinite
  <2>. HIDE DEF New, W0
  <2>4. W(i) \in SUBSET Held(d)
    BY <2>2, <2>3
  <2>. HIDE DEF W
  <2>5. IsFiniteSet(Held(d))
    BY <1>2, HeldFinite
  <2>. QED
    BY <2>4, <2>5, FS_Subset
<1>8. \A l \in Held(d) : CostsIn(d)[l] \in Nat /\ TokensIn(d)[l] \in Nat
  BY <1>2, WorthTyped
<1>9. PICK r : /\ r[0] = Worth(c, start)
               /\ \A i \in 1..n : r[i] = Counting(start, r[i - 1], q[i])
               /\ SumSince(start, Worth(c, start), q) = r[n]
  <2>1. Worth(c, start) \in Sum
    BY WorthTyped
  <2>. QED
    BY <1>1, <2>1, SumRuns DEF n
<1>10. Is(r[0], 0)
  <2>1. W(0) = W0
    <3>1. 1..0 = {}
      OBVIOUS
    <3>. QED
      BY <3>1
  <2>2. \A l \in W0 : /\ CostsIn(c)[l] \in Nat /\ TokensIn(c)[l] \in Nat
                      /\ CostsIn(d)[l] = CostsIn(c)[l] /\ TokensIn(d)[l] = TokensIn(c)[l]
    <3>1. \A l \in W0 : l \in Held(c)
      BY HeldFinite
    <3>2. \A l \in Held(c) : CostsIn(c)[l] \in Nat /\ TokensIn(c)[l] \in Nat
      BY WorthTyped
    <3>. QED
      BY <1>3, <3>1, <3>2 DEF CostsIn, TokensIn
  <2>3. IsFiniteSet(W0)
    BY HeldFinite
  <2>. HIDE DEF W0, W
  <2>4. SumOf(CostsIn(c), W0) = SumOf(CostsIn(d), W0)
    BY <2>2, <2>3, SumSame
  <2>5. SumOf(TokensIn(c), W0) = SumOf(TokensIn(d), W0)
    BY <2>2, <2>3, SumSame
  <2>. QED
    BY <1>9, <2>1, <2>4, <2>5 DEF Worth, W0
<1>11. ASSUME NEW i \in Nat, i + 1 <= n, Is(r[i], i)
       PROVE  Is(r[i + 1], i + 1)
  <2>1. i + 1 \in 1..n /\ (i + 1) - 1 = i /\ i \in 0..n
    BY <1>1, <1>11
  <2>2. r[i + 1] = Counting(start, r[i], q[i + 1])
    BY <1>9, <2>1
  <2>3. \A k \in 1..i + 1 : k \in 1..i \/ k = i + 1
    OBVIOUS
  <2>4. CASE ~(q[i + 1].at >= start)
    <3>1. New(i + 1) = New(i)
      BY <2>3, <2>4
    <3>2. r[i + 1] = r[i]
      BY <2>2, <2>4 DEF Counting
    <3>. HIDE DEF New
    <3>. QED
      BY <1>11, <3>1, <3>2
  <2>5. CASE q[i + 1].at >= start
    <3>. DEFINE x == <<f, i + 1>>
                V == W(i)
    <3>1. New(i + 1) = New(i) \cup {x}
      BY <2>3, <2>5
    <3>2. x \notin V
      <4>1. x \notin New(i)
        OBVIOUS
      <4>2. x \notin W0
        BY <1>4, <2>1, HeldFinite
      <4>. HIDE DEF New, W0
      <4>. QED
        BY <4>1, <4>2
    <3>3. W(i + 1) = V \cup {x}
      <4>. HIDE DEF New, x, W0
      <4>. QED
        BY <3>1
    <3>4. r[i + 1] = Plus(r[i], q[i + 1].usage)
      BY <2>2, <2>5 DEF Counting
    <3>5. /\ CostsIn(d)[x] = CostForUsage(q[i + 1].usage)
          /\ TokensIn(d)[x] = TokensOf(q[i + 1].usage)
      BY <1>4, <2>1 DEF CostsIn, TokensIn
    <3>6. x \in Held(d)
      BY <1>4, <2>1
    <3>7. V \subseteq Held(d) /\ IsFiniteSet(V)
      BY <1>7, <2>1
    <3>8. Is(r[i], i)
      BY <1>11
    <3>. HIDE DEF x, V, W
    <3>9. SumOf(CostsIn(d), V \cup {x}) = SumOf(CostsIn(d), V) + CostsIn(d)[x]
      <4>1. \A y \in V : CostsIn(d)[y] \in Nat
        BY <1>8, <3>7
      <4>2. CostsIn(d)[x] \in Nat
        BY <1>8, <3>6
      <4>. QED
        BY <3>2, <3>7, <4>1, <4>2, SumInsert
    <3>10. SumOf(TokensIn(d), V \cup {x}) = SumOf(TokensIn(d), V) + TokensIn(d)[x]
      <4>1. \A y \in V : TokensIn(d)[y] \in Nat
        BY <1>8, <3>7
      <4>2. TokensIn(d)[x] \in Nat
        BY <1>8, <3>6
      <4>. QED
        BY <3>2, <3>7, <4>1, <4>2, SumInsert
    <3>11. r[i].cost = SumOf(CostsIn(d), V) /\ r[i].tokens = SumOf(TokensIn(d), V)
      BY <3>8 DEF V
    <3>12. /\ r[i + 1].cost = r[i].cost + CostsIn(d)[x]
           /\ r[i + 1].tokens = r[i].tokens + TokensIn(d)[x]
      BY <3>4, <3>5 DEF Plus
    <3>13. /\ r[i + 1].cost = SumOf(CostsIn(d), V \cup {x})
           /\ r[i + 1].tokens = SumOf(TokensIn(d), V \cup {x})
      BY <3>9, <3>10, <3>11, <3>12
    <3>. QED
      BY <3>3, <3>13
  <2>. QED
    BY <2>4, <2>5
<1>. DEFINE Good == {i \in Nat : i <= n => Is(r[i], i)}
<1>. HIDE DEF Is
<1>12. 0 \in Good
  BY <1>10
<1>13. ASSUME NEW i \in Nat, i \in Good PROVE i + 1 \in Good
  <2>1. i + 1 <= n => i <= n
    BY <1>1
  <2>. QED
    BY <1>11, <1>13, <2>1
<1>. HIDE DEF Good
<1>14. n \in Good
  BY <1>1, <1>12, <1>13, SetInduction
<1>15. Is(r[n], n)
  BY <1>1, <1>14 DEF Good
<1>16. r[n] \in Sum
  BY <1>1, <1>9, WorthTyped, SumTyped
<1>17. r[n] = [cost |-> SumOf(CostsIn(d), Within(d, start)),
               tokens |-> SumOf(TokensIn(d), Within(d, start))]
  <2>. HIDE DEF W
  <2>1. /\ r[n].cost = SumOf(CostsIn(d), Within(d, start))
        /\ r[n].tokens = SumOf(TokensIn(d), Within(d, start))
    BY <1>6, <1>15 DEF Is
  <2>. QED
    BY <1>16, <2>1 DEF Sum
<1>. QED
  BY <1>9, <1>17 DEF Worth, d, q

-----------------------------------------------------------------------------
(* Types *)

(* Use keeps the types of the new cache and of the sums.                    *)
LEMMA UseTyped ==
  ASSUME TypeOK, NEW f \in Files, NEW entry \in Entries, Use(f, entry)
  PROVE  /\ IsCache(fresh') /\ sums' \in Figures
         /\ fresh' = With(fresh, f, entry)
<1>1. fresh' = With(fresh, f, entry)
  BY DEF Use, With
<1>2. IsCache(fresh')
  BY <1>1, WithIs DEF TypeOK
<1>3. sums.session \in Sum /\ sums.week \in Sum /\ entry.entries \in Seq(Line)
  BY DEF TypeOK, Figures, Entries
<1>4. /\ SumSince(SessionWindowStart(began), sums.session, entry.entries) \in Sum
      /\ SumSince(WeekWindowStart(began, Dst), sums.week, entry.entries) \in Sum
  BY <1>3, SumTyped
<1>5. sums' \in Figures
  BY <1>4 DEF Use, Figures
<1>. QED
  BY <1>1, <1>2, <1>5

(* A file's size is a number, and the beginnings of its text are lines.     *)
LEMMA StatTyped ==
  ASSUME TypeOK, NEW f \in Files
  PROVE  /\ Stat(f) \in Nat /\ Len(text[f]) \in Nat /\ text[f] \in Seq(Line)
         /\ Stat(f) \in {2 * Len(text[f]), 2 * Len(text[f]) + 1}
         /\ \A n \in 0..Len(text[f]) :
              /\ SubSeq(text[f], 1, n) \in Seq(Line) /\ Len(SubSeq(text[f], 1, n)) = n
              /\ \A i \in 1..n : SubSeq(text[f], 1, n)[i] = text[f][i]
<1>1. text[f] \in Seq(Line)
  BY DEF TypeOK
<1>2. Len(text[f]) \in Nat
  BY <1>1, LenProperties
<1>3. ASSUME NEW n \in 0..Len(text[f])
      PROVE  /\ SubSeq(text[f], 1, n) \in Seq(Line) /\ Len(SubSeq(text[f], 1, n)) = n
             /\ \A i \in 1..n : SubSeq(text[f], 1, n)[i] = text[f][i]
  <2>1. \A i \in 1..n : text[f][i] \in Line
    BY <1>1, <1>2, ElementOfSeq
  <2>2. 1 \in Int /\ n \in Int
    BY <1>2
  <2>3. /\ SubSeq(text[f], 1, n) \in Seq(Line)
        /\ Len(SubSeq(text[f], 1, n)) = IF 1 <= n THEN n - 1 + 1 ELSE 0
        /\ \A i \in 1..n - 1 + 1 : SubSeq(text[f], 1, n)[i] = text[f][1 + i - 1]
    BY <2>1, <2>2, SubSeqProperties
  <2>. QED
    BY <1>2, <2>2, <2>3
<1>4. Stat(f) = 2 * Len(text[f]) \/ Stat(f) = 2 * Len(text[f]) + 1
  <2>1. Stat(f) = 2 * Len(text[f]) + IF tail[f] = "none" THEN 0 ELSE 1
    BY DEF Stat
  <2>. DEFINE n == 2 * Len(text[f])
  <2>2. n \in Int
    BY <1>2
  <2>. HIDE DEF n
  <2>3. n + 0 = n
    BY <2>2
  <2>. QED
    BY <2>1, <2>3 DEF n
<1>5. Stat(f) \in Nat /\ Stat(f) \in {2 * Len(text[f]), 2 * Len(text[f]) + 1}
  BY <1>2, <1>4
<1>. QED
  BY <1>1, <1>2, <1>3, <1>5

(* What the walk's steps use.                                               *)
LEMMA TakesEntries ==
  ASSUME TypeOK
  PROVE  /\ \A f \in Files : VisitCached(f) => cache[f] \in Entries
         /\ pc = "scan" =>
              /\ hand.file \in Files
              /\ Entry(hand.key, Readable(hand.file), TRUE) \in Entries
              /\ \A n \in 0..Len(Readable(hand.file)) :
                   Entry(hand.key, SubSeq(text[hand.file], 1, n), FALSE) \in Entries
<1>1. \A f \in Files : VisitCached(f) => cache[f] \in Entries
  BY DEF VisitCached, Cached, TypeOK, IsCache
<1>2. ASSUME pc = "scan"
      PROVE  /\ hand.file \in Files
             /\ Entry(hand.key, Readable(hand.file), TRUE) \in Entries
             /\ \A n \in 0..Len(Readable(hand.file)) :
                  Entry(hand.key, SubSeq(text[hand.file], 1, n), FALSE) \in Entries
  <2>1. hand.file \in Files /\ hand.key \in Nat
    BY <1>2 DEF TypeOK
  <2>2. <<>> \in Seq(Line) /\ Len(<<>>) = 0
    BY EmptySeq
  <2>3. Readable(hand.file) \in Seq(Line)
    BY <2>1, <2>2, StatTyped DEF Readable
  <2>4. ASSUME NEW n \in 0..Len(Readable(hand.file))
        PROVE  SubSeq(text[hand.file], 1, n) \in Seq(Line)
    <3>1. n \in 0..Len(text[hand.file])
      BY <2>1, <2>2, StatTyped DEF Readable
    <3>. QED
      BY <2>1, <3>1, StatTyped
  <2>. QED
    BY <2>1, <2>3, <2>4 DEF Entry, Entries
<1>. QED
  BY <1>1, <1>2

(* A refresh that gives up leaves its variables their types.                *)
LEMMA ReturnTyped ==
  ASSUME TypeOK, Return
  PROVE  /\ pc' = "wait" /\ began' \in Nat /\ due' \subseteq Files /\ skipped' \subseteq Files
         /\ IsCache(fresh') /\ sums' \in Figures /\ base' \in Basis
<1>1. Nothing \in Figures
  BY DEF Nothing, Figures, Zero, Sum
<1>2. NoLines \in Basis
  BY DEF NoLines, Basis
<1>3. IsCache(None)
  BY DEF IsCache, None
<1>. QED
  BY <1>1, <1>2, <1>3 DEF Return

(* The lines of some transcripts are places in their texts.                 *)
LEMMA LinesTyped ==
  ASSUME TypeOK, NEW S \in SUBSET Files
  PROVE  /\ Lines(S) \subseteq Files \X Nat
         /\ \A f, i : <<f, i>> \in Lines(S) <=> f \in S /\ i \in 1..Len(text[f])
         /\ \A l \in Lines(S) : l = <<l[1], l[2]>>
<1>1. \A f \in S : DOMAIN text[f] = 1..Len(text[f]) /\ 1..Len(text[f]) \subseteq Nat
  BY LenProperties DEF TypeOK
<1>2. \A l \in Lines(S) : \E f \in S : \E i \in 1..Len(text[f]) : l = <<f, i>>
  BY <1>1 DEF Lines
<1>3. \A f \in S : \A i \in 1..Len(text[f]) : <<f, i>> \in Lines(S)
  BY <1>1 DEF Lines
<1>. QED
  BY <1>1, <1>2, <1>3

(* Every step keeps every variable's type.                                  *)
LEMMA TypeStep == TypeOK /\ [Next]_vars => TypeOK'
<1>. SUFFICES ASSUME TypeOK, [Next]_vars PROVE TypeOK'
  OBVIOUS
<1>. DEFINE DiskOK ==
              /\ now \in Instants /\ text \in [Files -> Seq(Line)]
              /\ tail \in [Files -> {"none", "half", "cut"}] /\ present \subseteq Files
              /\ root \in BOOLEAN
            WalkOK ==
              /\ due \subseteq Files /\ skipped \subseteq Files
              /\ pc \in {"wait", "walk", "scan", "publish", "ended"}
              /\ began \in Nat /\ (pc = "scan" => hand \in [file : Files, key : Nat])
              /\ IsCache(fresh) /\ sums \in Figures /\ base \in Basis
            SharedOK ==
              /\ IsCache(cache) /\ figures \in Figures /\ basis \in Basis
              /\ lock \in {"free", "tracker", "render"}
<1>1. DiskOK /\ WalkOK /\ SharedOK /\ half \in Sum
  BY DEF TypeOK
<1>. SUFFICES DiskOK' /\ WalkOK' /\ SharedOK' /\ half' \in Sum
  BY DEF TypeOK
<1>2. UNCHANGED disk => DiskOK'
  BY <1>1 DEF disk
<1>3. UNCHANGED walk => WalkOK'
  BY <1>1 DEF walk
<1>4. UNCHANGED shared => SharedOK'
  BY <1>1 DEF shared
<1>5. UNCHANGED half => half' \in Sum
  BY <1>1
<1>6. CASE RemoveRoot
  <2>1. DiskOK' /\ UNCHANGED <<walk, shared, half>>
    BY <1>1, <1>6 DEF RemoveRoot
  <2>. QED
    BY <1>3, <1>4, <1>5, <2>1
<1>7. CASE \E f \in Files : StartLine(f) \/ EndLine(f) \/ RemoveFile(f)
  <2>1. PICK f \in Files : StartLine(f) \/ EndLine(f) \/ RemoveFile(f)
    BY <1>7
  <2>2. UNCHANGED <<walk, shared, half>>
    BY <2>1 DEF StartLine, EndLine, RemoveFile, Touch
  <2>3. CASE StartLine(f)
    <3>1. DiskOK'
      BY <1>1, <2>3 DEF StartLine, Touch
    <3>. QED
      BY <1>3, <1>4, <1>5, <2>2, <3>1
  <2>4. CASE EndLine(f)
    <3>1. PICK u \in Usages : text' = [text EXCEPT ![f] = Append(@, [at |-> now, usage |-> u])]
      BY <2>4 DEF EndLine
    <3>2. [at |-> now, usage |-> u] \in Line
      BY <1>1 DEF Line
    <3>3. Append(text[f], [at |-> now, usage |-> u]) \in Seq(Line)
      BY <1>1, <3>2
    <3>4. text' \in [Files -> Seq(Line)]
      BY <1>1, <3>1, <3>3
    <3>5. DiskOK'
      BY <1>1, <2>4, <3>4 DEF EndLine, Touch
    <3>. QED
      BY <1>3, <1>4, <1>5, <2>2, <3>5
  <2>5. CASE RemoveFile(f)
    <3>1. DiskOK'
      BY <1>1, <2>5 DEF RemoveFile
    <3>. QED
      BY <1>3, <1>4, <1>5, <2>2, <3>1
  <2>. QED
    BY <2>1, <2>3, <2>4, <2>5
<1>8. CASE Tick
  <2>1. DiskOK' /\ UNCHANGED <<walk, shared, half>>
    BY <1>1, <1>8 DEF Tick
  <2>. QED
    BY <1>3, <1>4, <1>5, <2>1
<1>9. CASE Begin
  <2>1. UNCHANGED <<disk, shared, half>>
    BY <1>9 DEF Begin
  <2>2. IsCache(None) /\ Nothing \in Figures
    BY DEF IsCache, None, Nothing, Figures, Zero, Sum
  <2>3. now \in Nat
    BY <1>1, UsageAssumption
  <2>4. base' \in Basis
    <3>1. Lines(present) \subseteq Files \X Nat
      BY <1>1, LinesTyped
    <3>. QED
      BY <1>9, <2>3, <3>1 DEF Begin, Basis
  <2>5. WalkOK'
    BY <1>1, <1>9, <2>2, <2>3, <2>4 DEF Begin
  <2>. QED
    BY <1>2, <1>4, <1>5, <2>1, <2>5
<1>10. CASE \E f \in Files : VisitCached(f)
  <2>1. PICK f \in Files : VisitCached(f)
    BY <1>10
  <2>2. Use(f, cache[f]) /\ UNCHANGED <<pc, began, due, skipped, hand, base, disk, shared, half>>
    BY <2>1 DEF VisitCached
  <2>3. IsCache(fresh') /\ sums' \in Figures
    BY <2>1, <2>2, TakesEntries, UseTyped
  <2>4. WalkOK'
    BY <1>1, <2>2, <2>3
  <2>. QED
    BY <1>2, <1>4, <1>5, <2>2, <2>4
<1>11. CASE \E f \in Files : Visit(f)
  <2>1. PICK f \in Files : Visit(f)
    BY <1>11
  <2>2. hand' \in [file : Files, key : Nat]
    BY <2>1, StatTyped DEF Visit
  <2>3. WalkOK' /\ UNCHANGED <<disk, shared, half>>
    BY <1>1, <2>1, <2>2 DEF Visit
  <2>. QED
    BY <1>2, <1>4, <1>5, <2>3
<1>12. CASE \E f \in Files : StatFails(f)
  <2>1. PICK f \in Files : StatFails(f)
    BY <1>12
  <2>2. WalkOK' /\ UNCHANGED <<disk, shared, half>>
    BY <1>1, <2>1 DEF StatFails
  <2>. QED
    BY <1>2, <1>4, <1>5, <2>2
<1>13. CASE Scan \/ ScanFails
  <2>1. pc = "scan" /\ pc' = "walk" /\ UNCHANGED <<began, due, skipped, base, disk, shared, half>>
    BY <1>13 DEF Scan, ScanFails
  <2>2. \E entry \in Entries : Use(hand.file, entry)
    BY <1>13, <2>1, TakesEntries DEF Scan, ScanFails
  <2>3. IsCache(fresh') /\ sums' \in Figures
    BY <2>1, <2>2, TakesEntries, UseTyped
  <2>4. WalkOK'
    BY <1>1, <2>1, <2>3
  <2>. QED
    BY <1>2, <1>4, <1>5, <2>1, <2>4
<1>14. CASE ScanRaises \/ WalkRaises
  <2>1. Return /\ UNCHANGED <<disk, shared, half>>
    BY <1>14 DEF ScanRaises, WalkRaises
  <2>2. WalkOK'
    BY <2>1, ReturnTyped
  <2>. QED
    BY <1>2, <1>4, <1>5, <2>1, <2>2
<1>15. CASE Publish
  <2>1. UNCHANGED <<began, due, skipped, hand, fresh, sums, base, disk, half>>
    BY <1>15 DEF Publish
  <2>2. WalkOK'
    BY <1>1, <1>15, <2>1 DEF Publish
  <2>3. basis' \in Basis
    <3>1. Owed \subseteq base.must
      BY DEF Owed
    <3>2. base.at \in Nat /\ base.must \subseteq Files \X Nat /\ base.never \subseteq Files
      BY <1>1 DEF Basis
    <3>3. basis' = [at |-> base.at, must |-> Owed, never |-> base.never]
      BY <1>15 DEF Publish
    <3>4. Owed \subseteq Files \X Nat
      BY <3>1, <3>2
    <3>. QED
      BY <3>2, <3>3, <3>4 DEF Basis
  <2>4. figures' \in Figures
    BY <1>1, <1>15 DEF Publish, Figures
  <2>5. SharedOK'
    BY <1>1, <1>15, <2>3, <2>4 DEF Publish
  <2>. QED
    BY <1>2, <1>5, <2>1, <2>2, <2>5
<1>16. CASE Published
  <2>1. Return /\ UNCHANGED <<disk, half>>
    BY <1>16 DEF Published
  <2>2. WalkOK'
    BY <2>1, ReturnTyped
  <2>3. figures' \in Figures
    BY <1>1, <1>16 DEF Published, Figures
  <2>4. SharedOK'
    BY <1>1, <1>16, <2>3 DEF Published
  <2>. QED
    BY <1>2, <1>5, <2>1, <2>2, <2>4
<1>17. CASE Read \/ Draw
  <2>1. UNCHANGED <<cache, figures, basis, disk, walk>> /\ lock' \in {"free", "render"}
    BY <1>17 DEF Read, Draw
  <2>2. half' \in Sum
    BY <1>1, <1>17 DEF Read, Draw, Figures, Zero, Sum
  <2>3. SharedOK'
    BY <1>1, <2>1
  <2>. QED
    BY <1>2, <1>3, <2>1, <2>2, <2>3
<1>18. CASE Stop
  <2>1. WalkOK' /\ UNCHANGED <<disk, shared, half>>
    BY <1>1, <1>18 DEF Stop
  <2>. QED
    BY <1>2, <1>4, <1>5, <2>1
<1>19. CASE UNCHANGED vars
  <2>1. UNCHANGED <<disk, walk, shared, half>>
    BY <1>19 DEF vars
  <2>. QED
    BY <1>2, <1>3, <1>4, <1>5, <2>1
<1>. HIDE DEF DiskOK, WalkOK, SharedOK
<1>. QED
  BY <1>6, <1>7, <1>8, <1>9, <1>10, <1>11, <1>12, <1>13, <1>14, <1>15, <1>16, <1>17, <1>18,
     <1>19
  DEF Next, Walk, Writer

(* At the start every variable has its type.                                *)
LEMMA InitTyped == Init => TypeOK
<1>. SUFFICES ASSUME Init PROVE TypeOK
  OBVIOUS
<1>1. IsCache(None) /\ Nothing \in Figures /\ Zero \in Sum /\ NoLines \in Basis
  BY DEF IsCache, None, Nothing, Figures, Zero, Sum, NoLines, Basis
<1>2. [f \in Files |-> <<>>] \in [Files -> Seq(Line)]
  BY EmptySeq
<1>. QED
  BY <1>1, <1>2 DEF Init, TypeOK

(* Every variable has its type.                                             *)
THEOREM TypeCorrect == Spec => []TypeOK
  BY InitTyped, TypeStep, PTL DEF Spec

-----------------------------------------------------------------------------
(* Whenever the tracker looks at the clock, it takes the right week.        *)
THEOREM AlwaysTheRightWeek == Spec => []WeekWindowRight
<1>1. TypeOK => WeekWindowRight
  <2>1. TypeOK => now \in Int
    BY UsageAssumption DEF TypeOK
  <2>. QED
    BY <2>1, UsageAssumption, WindowRight DEF WeekWindowRight
<1>. QED
  BY <1>1, TypeCorrect, PTL

-----------------------------------------------------------------------------
(* Only the tracker is in the midst of publishing when it has the lock, and *)
(* what snapshot has read so far is of the figures it goes on to read.      *)
OneHolder ==
  /\ pc = "publish" <=> lock = "tracker"
  /\ lock = "render" => half = figures.session

(* Every step of the two threads keeps it, and the writer's leave it alone.  *)
LEMMA HolderStep == OneHolder /\ [Next]_vars => OneHolder'
<1>. SUFFICES ASSUME OneHolder, [Next]_vars PROVE OneHolder'
  OBVIOUS
<1>. USE DEF OneHolder
<1>1. CASE Writer \/ Tick
  BY <1>1 DEF Writer, RemoveRoot, StartLine, EndLine, RemoveFile, Touch, Tick, walk, shared
<1>2. CASE Begin \/ \E f \in Files : StatFails(f) \/ VisitCached(f) \/ Visit(f)
  BY <1>2 DEF Begin, StatFails, VisitCached, Visit, Comes, shared
<1>3. CASE Scan \/ ScanFails \/ ScanRaises \/ WalkRaises
  BY <1>3 DEF Scan, ScanFails, ScanRaises, WalkRaises, Return, shared
<1>4. CASE Publish
  BY <1>4 DEF Publish
<1>5. CASE Published
  BY <1>5 DEF Published, Return
<1>6. CASE Read \/ Draw
  BY <1>6 DEF Read, Draw, walk
<1>7. CASE Stop
  BY <1>7 DEF Stop, shared
<1>8. CASE UNCHANGED vars
  BY <1>8 DEF vars, walk, shared
<1>. QED
  BY <1>1, <1>2, <1>3, <1>4, <1>5, <1>6, <1>7, <1>8 DEF Next, Walk

(* A frame never draws the session of one refresh with the week of another. *)
THEOREM FiguresOfOneRefresh == Spec => [](lock = "render" => half = figures.session)
<1>1. Init => OneHolder
  BY DEF Init, OneHolder
<1>. QED
  BY <1>1, HolderStep, PTL DEF Spec, OneHolder

-----------------------------------------------------------------------------
(* The figures are totals *)

(* A cache holds the beginnings of transcripts, and of one that was read    *)
(* whole, and may still grow, no less than its key tells.                   *)
Begins(q, f) == Len(q) <= Len(text[f]) /\ \A i \in 1..Len(q) : q[i] = text[f][i]

Reaches(entry, f) == entry.whole /\ Writable(f) => entry.key <= 2 * Len(entry.entries) + 1

Copies(c) == \A f \in DOMAIN c : Begins(c[f].entries, f) /\ Reaches(c[f], f)

(* The file in hand was there when it was asked for its size, and is not    *)
(* counted yet.                                                             *)
InHand ==
  pc = "scan" => hand.key <= Stat(hand.file) /\ hand.file \notin DOMAIN fresh \cup base.never

(* What this refresh has counted, and what was published last, is what the  *)
(* cache is worth that goes with it.                                        *)
Counted ==
  /\ base.at = began
  /\ sums.session = Worth(fresh, SessionWindowStart(began))
  /\ sums.week = Worth(fresh, WeekWindowStart(began, Dst))
  /\ figures.session = Worth(cache, SessionWindowStart(basis.at))
  /\ pc # "publish" => figures.week = Worth(cache, WeekWindowStart(basis.at, Dst))
  /\ pc = "publish" => cache = fresh /\ basis.at = began

(* What must be counted is there to be, or has been; what may not is not.   *)
Allowed ==
  /\ \A f \in base.never : ~Writable(f)
  /\ DOMAIN fresh \cap base.never = {} /\ DOMAIN cache \cap basis.never = {}

Due ==
  /\ \A l \in base.must : /\ l = <<l[1], l[2]>> /\ l[1] \in due
                          /\ l[2] \in 1..Len(text[l[1]])
  /\ \A l \in base.must :
       l[1] \in DOMAIN fresh /\ Writable(l[1]) /\ fresh[l[1]].whole =>
         l[2] <= Len(fresh[l[1]].entries)
  /\ basis.must \subseteq Held(cache)

Right ==
  /\ TypeOK /\ OneHolder
  /\ Copies(fresh) /\ Copies(cache) /\ InHand
  /\ Counted /\ Allowed /\ Due

-----------------------------------------------------------------------------
(* The writer's steps: transcripts grow, and what is gone stays gone.       *)
Grows ==
  \A f \in Files :
    /\ Len(text[f]) <= Len(text'[f]) /\ Len(text'[f]) \in Nat
    /\ \A i \in 1..Len(text[f]) : text'[f][i] = text[f][i]
    /\ Writable(f)' => Writable(f)
    /\ \A k \in Nat : k <= Stat(f) => k <= Stat(f)'

(* Whatever the writer does, no text loses or changes a line, and a file    *)
(* stays away.                                                              *)
LEMMA WriterGrows ==
  ASSUME TypeOK, Writer \/ Tick
  PROVE  Grows /\ UNCHANGED <<walk, shared, half>>
<1>1. UNCHANGED <<walk, shared, half>>
  BY DEF Writer, RemoveRoot, StartLine, EndLine, RemoveFile, Touch, Tick
<1>. SUFFICES ASSUME NEW g \in Files
              PROVE  /\ Len(text[g]) <= Len(text'[g]) /\ Len(text'[g]) \in Nat
                     /\ \A i \in 1..Len(text[g]) : text'[g][i] = text[g][i]
                     /\ Writable(g)' => Writable(g)
                     /\ \A k \in Nat : k <= Stat(g) => k <= Stat(g)'
  BY <1>1 DEF Grows
<1>. DEFINE n    == Len(text[g])
            m    == Len(text'[g])
            bit  == IF tail[g] = "none" THEN 0 ELSE 1
            bit2 == IF tail'[g] = "none" THEN 0 ELSE 1
            Same == UNCHANGED <<text[g], tail[g]>>
<1>2. n \in Nat /\ text \in [Files -> Seq(Line)] /\ tail \in [Files -> {"none", "half", "cut"}]
      /\ text[g] \in Seq(Line)
  BY StatTyped DEF TypeOK
<1>3. Stat(g) = 2 * n + bit /\ Stat(g)' = 2 * m + bit2
  BY DEF Stat
<1>4. bit \in {0, 1} /\ bit2 \in {0, 1}
  OBVIOUS
<1>5. Same => n = m /\ bit = bit2
  OBVIOUS
<1>. HIDE DEF n, m, bit, bit2
<1>6. ASSUME m = n, text'[g] = text[g], bit <= bit2, Writable(g)' => Writable(g)
      PROVE  /\ n <= m /\ m \in Nat
             /\ \A i \in 1..n : text'[g][i] = text[g][i]
             /\ Writable(g)' => Writable(g)
             /\ \A k \in Nat : k <= Stat(g) => k <= Stat(g)'
  BY <1>2, <1>3, <1>4, <1>6
<1>7. ASSUME m = n + 1, \A i \in 1..n : text'[g][i] = text[g][i], Writable(g)' => Writable(g)
      PROVE  /\ n <= m /\ m \in Nat
             /\ \A i \in 1..n : text'[g][i] = text[g][i]
             /\ Writable(g)' => Writable(g)
             /\ \A k \in Nat : k <= Stat(g) => k <= Stat(g)'
  BY <1>2, <1>3, <1>4, <1>7
<1>8. CASE Tick
  <2>1. UNCHANGED <<text, tail, present>>
    BY <1>8 DEF Tick
  <2>2. Writable(g)' => Writable(g)
    BY <2>1 DEF Writable
  <2>. QED
    BY <1>4, <1>5, <1>6, <2>1, <2>2 DEF n, m
<1>9. CASE RemoveRoot
  <2>1. UNCHANGED <<text, tail>> /\ present' = {}
    BY <1>9 DEF RemoveRoot
  <2>2. Writable(g)' => Writable(g)
    BY <2>1 DEF Writable
  <2>. QED
    BY <1>4, <1>5, <1>6, <2>1, <2>2 DEF n, m
<1>10. CASE \E f \in Files : StartLine(f) \/ EndLine(f) \/ RemoveFile(f)
  <2>1. PICK f \in Files : StartLine(f) \/ EndLine(f) \/ RemoveFile(f)
    BY <1>10
  <2>2. CASE f # g
    <3>1. Same /\ (g \in present' => g \in present)
      BY <1>2, <2>1, <2>2 DEF StartLine, EndLine, RemoveFile, Touch
    <3>2. Writable(g)' => Writable(g)
      BY <3>1 DEF Writable
    <3>. QED
      BY <1>4, <1>5, <1>6, <3>1, <3>2 DEF n, m
  <2>3. CASE f = g
    <3>1. Writable(g)
      BY <2>1, <2>3 DEF StartLine, EndLine, RemoveFile, Touch, Writable
    <3>2. CASE StartLine(f)
      <4>1. tail[g] = "none" /\ UNCHANGED text
        BY <2>3, <3>2 DEF StartLine
      <4>2. m = n /\ text'[g] = text[g] /\ bit = 0
        BY <4>1 DEF n, m, bit
      <4>3. bit <= bit2
        BY <1>4, <4>2
      <4>. QED
        BY <1>6, <3>1, <4>2, <4>3 DEF n, m
    <3>3. CASE EndLine(f)
      <4>1. PICK u \in Usages : text' = [text EXCEPT ![f] = Append(@, [at |-> now, usage |-> u])]
        BY <3>3 DEF EndLine
      <4>2. [at |-> now, usage |-> u] \in Line
        BY DEF Line, TypeOK
      <4>3. text'[g] = Append(text[g], [at |-> now, usage |-> u])
        BY <1>2, <2>3, <4>1
      <4>4. m = n + 1 /\ \A i \in 1..n : text'[g][i] = text[g][i]
        BY <1>2, <4>2, <4>3, AppendProperties DEF n, m
      <4>. QED
        BY <1>7, <3>1, <4>4 DEF n, m
    <3>4. CASE RemoveFile(f)
      <4>1. Same
        BY <3>4 DEF RemoveFile
      <4>. QED
        BY <1>4, <1>5, <1>6, <3>1, <4>1 DEF n, m
    <3>. QED
      BY <2>1, <3>2, <3>3, <3>4
  <2>. QED
    BY <2>2, <2>3
<1>. QED
  BY <1>8, <1>9, <1>10 DEF Writer

(* Entries that are there, and no text before them, stay the beginnings.    *)
LEMMA CopiesGrow ==
  ASSUME TypeOK, Grows, NEW c, IsCache(c), Copies(c)
  PROVE  \A f \in DOMAIN c :
           /\ Len(c[f].entries) <= Len(text'[f])
           /\ \A i \in 1..Len(c[f].entries) : c[f].entries[i] = text'[f][i]
           /\ c[f].whole /\ Writable(f)' => c[f].key <= 2 * Len(c[f].entries) + 1
<1>. SUFFICES ASSUME NEW f \in DOMAIN c
              PROVE  /\ Len(c[f].entries) <= Len(text'[f])
                     /\ \A i \in 1..Len(c[f].entries) : c[f].entries[i] = text'[f][i]
                     /\ c[f].whole /\ Writable(f)' => c[f].key <= 2 * Len(c[f].entries) + 1
  OBVIOUS
<1>1. f \in Files /\ c[f].entries \in Seq(Line)
  BY DEF IsCache, Entries
<1>2. Len(c[f].entries) \in Nat /\ Len(text[f]) \in Nat
  BY <1>1, LenProperties, StatTyped
<1>3. Begins(c[f].entries, f) /\ Reaches(c[f], f)
  BY DEF Copies
<1>4. \A i \in 1..Len(c[f].entries) : i \in 1..Len(text[f])
  BY <1>2, <1>3 DEF Begins
<1>5. /\ Len(text[f]) <= Len(text'[f]) /\ Len(text'[f]) \in Nat
      /\ \A i \in 1..Len(text[f]) : text'[f][i] = text[f][i]
      /\ Writable(f)' => Writable(f)
  BY <1>1 DEF Grows
<1>. QED
  BY <1>2, <1>3, <1>4, <1>5 DEF Begins, Reaches

(* So the caches still hold beginnings of the transcripts, and nothing else *)
(* moves.                                                                   *)
LEMMA WriterRight ==
  ASSUME Right, Writer \/ Tick
  PROVE  Copies(fresh)' /\ Copies(cache)' /\ InHand' /\ Counted' /\ Allowed' /\ Due'
<1>1. TypeOK /\ Grows /\ UNCHANGED <<walk, shared, half>>
  BY WriterGrows DEF Right
<1>2. /\ UNCHANGED <<pc, began, due, hand, fresh, sums, base>>
      /\ UNCHANGED <<cache, figures, basis, lock>>
  BY <1>1 DEF walk, shared
<1>3. Copies(fresh)'
  <2>1. \A f \in DOMAIN fresh :
           /\ Len(fresh[f].entries) <= Len(text'[f])
           /\ \A i \in 1..Len(fresh[f].entries) : fresh[f].entries[i] = text'[f][i]
           /\ fresh[f].whole /\ Writable(f)' => fresh[f].key <= 2 * Len(fresh[f].entries) + 1
    BY <1>1, CopiesGrow DEF Right, TypeOK
  <2>. QED
    BY <1>2, <2>1 DEF Copies, Begins, Reaches
<1>4. Copies(cache)'
  <2>1. \A f \in DOMAIN cache :
           /\ Len(cache[f].entries) <= Len(text'[f])
           /\ \A i \in 1..Len(cache[f].entries) : cache[f].entries[i] = text'[f][i]
           /\ cache[f].whole /\ Writable(f)' => cache[f].key <= 2 * Len(cache[f].entries) + 1
    BY <1>1, CopiesGrow DEF Right, TypeOK
  <2>. QED
    BY <1>2, <2>1 DEF Copies, Begins, Reaches
<1>5. InHand'
  <2>. DEFINE StatNext(f) == 2 * Len(text'[f]) + IF tail'[f] = "none" THEN 0 ELSE 1
  <2>1. \A f \in Files : \A k \in Nat : k <= Stat(f) => k <= StatNext(f)
    <3>1. \A f \in Files : Stat(f)' = StatNext(f)
      BY DEF Stat
    <3>. HIDE DEF StatNext
    <3>. QED
      BY <1>1, <3>1 DEF Grows
  <2>2. Stat(hand.file)' = StatNext(hand.file)
    BY <1>2 DEF Stat
  <2>. HIDE DEF StatNext
  <2>3. ASSUME pc = "scan"
        PROVE  hand.key <= StatNext(hand.file) /\ hand.file \notin DOMAIN fresh \cup base.never
    <3>1. hand.file \in Files /\ hand.key \in Nat
      BY <1>1, <2>3 DEF TypeOK
    <3>. QED
      BY <2>1, <2>3, <3>1 DEF Right, InHand
  <2>. QED
    BY <1>2, <2>2, <2>3 DEF InHand
<1>6. Counted'
  BY <1>2 DEF Right, Counted
<1>7. Allowed'
  <2>1. base.never \subseteq Files
    BY <1>1 DEF TypeOK, Basis
  <2>2. \A f \in base.never : ~Writable(f)'
    BY <1>1, <2>1 DEF Right, Allowed, Grows
  <2>. QED
    BY <1>2, <2>2 DEF Right, Allowed, Writable
<1>8. Due'
  <2>1. ASSUME NEW l \in base.must
        PROVE  /\ l[2] \in 1..Len(text'[l[1]])
               /\ Writable(l[1])' => Writable(l[1])
    <3>1. l[1] \in Files /\ l[2] \in 1..Len(text[l[1]])
      BY <1>1 DEF Right, Due, TypeOK
    <3>2. Len(text[l[1]]) \in Nat
      BY <1>1, <3>1, StatTyped
    <3>. QED
      BY <1>1, <3>1, <3>2 DEF Grows
  <2>. QED
    BY <1>2, <2>1 DEF Right, Due, Writable
<1>. QED
  BY <1>3, <1>4, <1>5, <1>6, <1>7, <1>8

-----------------------------------------------------------------------------
(* The walk's steps: what is counted of a file is how it begins, and all of *)
(* it when it was read whole.                                               *)
Found(f, entry) ==
  /\ f \notin DOMAIN fresh \cup base.never
  /\ Begins(entry.entries, f) /\ Reaches(entry, f)
  /\ entry.whole /\ Writable(f) => Len(entry.entries) = Len(text[f])

(* An entry used again for a file that has not changed is one that a scan   *)
(* could have found.                                                        *)
LEMMA CachedFound ==
  ASSUME Right, NEW f \in Files, VisitCached(f)
  PROVE  cache[f] \in Entries /\ Found(f, cache[f])
<1>1. /\ TypeOK /\ f \in DOMAIN cache /\ cache[f].key = Stat(f)
      /\ f \in present /\ f \notin DOMAIN fresh
  BY DEF Right, VisitCached, Comes, Cached
<1>2. cache[f] \in Entries
  BY <1>1, TakesEntries
<1>3. f \notin base.never
  BY <1>1 DEF Right, Allowed, Writable
<1>4. Begins(cache[f].entries, f) /\ Reaches(cache[f], f)
  BY <1>1 DEF Right, Copies
<1>5. ASSUME cache[f].whole, Writable(f)
      PROVE  Len(cache[f].entries) = Len(text[f])
  <2>. DEFINE n == Len(cache[f].entries)
              m == Len(text[f])
  <2>1. n \in Nat /\ m \in Nat
    BY <1>1, <1>2, StatTyped, LenProperties DEF Entries
  <2>2. n <= m /\ Stat(f) <= 2 * n + 1 /\ (Stat(f) = 2 * m \/ Stat(f) = 2 * m + 1)
    BY <1>1, <1>4, <1>5, StatTyped DEF Begins, Reaches
  <2>. HIDE DEF n, m
  <2>3. n = m
    BY <2>1, <2>2
  <2>. QED
    BY <2>3 DEF n, m
<1>. QED
  BY <1>1, <1>2, <1>3, <1>4, <1>5 DEF Found

(* What a scan reads is the beginning of the transcript, as far as the key  *)
(* tells.                                                                   *)
LEMMA ScanFound ==
  ASSUME Right, Scan
  PROVE  LET entry == Entry(hand.key, Readable(hand.file), TRUE)
         IN  hand.file \in Files /\ entry \in Entries /\ Found(hand.file, entry)
<1>. DEFINE f     == hand.file
            q     == Readable(f)
            entry == Entry(hand.key, q, TRUE)
<1>1. TypeOK /\ pc = "scan"
  BY DEF Right, Scan
<1>2. f \in Files /\ hand.key \in Nat /\ entry \in Entries
  BY <1>1, TakesEntries DEF TypeOK
<1>3. f \notin DOMAIN fresh \cup base.never /\ hand.key <= Stat(f)
  BY <1>1 DEF Right, InHand
<1>4. entry.key = hand.key /\ entry.entries = q
  BY DEF Entry
<1>5. Len(<<>>) = 0 /\ Len(text[f]) \in Nat
  BY <1>1, <1>2, EmptySeq, StatTyped
<1>6. Begins(q, f)
  BY <1>5 DEF Begins, Readable
<1>7. ASSUME Writable(f) PROVE Len(q) = Len(text[f])
  BY <1>5, <1>7 DEF Writable, Readable
<1>8. ASSUME Writable(f) PROVE hand.key <= 2 * Len(q) + 1
  <2>1. Stat(f) <= 2 * Len(text[f]) + 1
    BY <1>1, <1>2, StatTyped
  <2>. QED
    BY <1>1, <1>2, <1>3, <1>5, <1>7, <1>8, <2>1, StatTyped
<1>. HIDE DEF f, q, entry
<1>9. Found(f, entry)
  BY <1>3, <1>4, <1>6, <1>7, <1>8 DEF Found, Reaches
<1>. QED
  BY <1>2, <1>9 DEF f, q, entry

(* A scan that fails finds a beginning too, which is not kept as whole.     *)
LEMMA ScanFailsFound ==
  ASSUME Right, ScanFails
  PROVE  \E entry \in Entries :
           hand.file \in Files /\ Found(hand.file, entry) /\ Use(hand.file, entry)
<1>. DEFINE f == hand.file
<1>1. TypeOK /\ pc = "scan"
  BY DEF Right, ScanFails
<1>2. PICK n \in 0..Len(Readable(f)) : Use(f, Entry(hand.key, SubSeq(text[f], 1, n), FALSE))
  BY DEF ScanFails
<1>. DEFINE entry == Entry(hand.key, SubSeq(text[f], 1, n), FALSE)
<1>3. f \in Files /\ entry \in Entries
  BY <1>1, TakesEntries
<1>4. f \notin DOMAIN fresh \cup base.never
  BY <1>1 DEF Right, InHand
<1>5. n \in 0..Len(text[f]) /\ Len(text[f]) \in Nat
  BY <1>1, <1>3, EmptySeq, StatTyped DEF Readable
<1>6. Begins(SubSeq(text[f], 1, n), f)
  BY <1>1, <1>3, <1>5, StatTyped DEF Begins
<1>7. entry.entries = SubSeq(text[f], 1, n) /\ ~entry.whole
  BY DEF Entry
<1>. HIDE DEF f, entry
<1>8. Found(f, entry)
  BY <1>4, <1>6, <1>7 DEF Found, Reaches
<1>. QED
  BY <1>2, <1>3, <1>8 DEF f, entry

(* With an entry that was found, Use keeps the caches and the sums in step. *)
LEMMA UseRight ==
  ASSUME Right, NEW f \in Files, NEW entry \in Entries, Found(f, entry), Use(f, entry),
         UNCHANGED <<began, due, skipped, base, disk, shared, half>>,
         pc \in {"walk", "scan"}, pc' = "walk"
  PROVE  Copies(fresh)' /\ Copies(cache)' /\ InHand' /\ Counted' /\ Allowed' /\ Due'
<1>1. /\ UNCHANGED <<now, text, tail, present, began, due, base>>
      /\ UNCHANGED <<cache, figures, basis, lock>>
  BY DEF disk, shared
<1>2. TypeOK /\ IsCache(fresh) /\ fresh' = With(fresh, f, entry)
  BY UseTyped DEF Right, TypeOK
<1>3. /\ DOMAIN fresh' = DOMAIN fresh \cup {f} /\ fresh'[f] = entry
      /\ \A g \in DOMAIN fresh : g # f => fresh'[g] = fresh[g]
  <2>. SUFFICES ASSUME NEW c, c = With(fresh, f, entry)
                PROVE  /\ DOMAIN c = DOMAIN fresh \cup {f} /\ c[f] = entry
                       /\ \A g \in DOMAIN fresh : g # f => c[g] = fresh[g]
    BY <1>2
  <2>. QED
    BY DEF With
<1>4. f \notin DOMAIN fresh /\ f \notin base.never
  BY DEF Found
<1>5. Copies(fresh)'
  <2>1. \A g : Writable(g)' <=> Writable(g)
    BY <1>1 DEF Writable
  <2>2. \A g \in DOMAIN fresh' : Begins(fresh'[g].entries, g) /\ Reaches(fresh'[g], g)
    BY <1>3 DEF Right, Found, Copies
  <2>3. ASSUME NEW g \in DOMAIN fresh'
        PROVE  Begins(fresh[g].entries, g)' /\ Reaches(fresh[g], g)'
    BY <1>1, <2>1, <2>2 DEF Begins, Reaches
  <2>. QED
    BY <2>3 DEF Copies
<1>6. Copies(cache)'
  BY <1>1 DEF Right, Copies, Begins, Reaches, Writable
<1>7. InHand'
  BY DEF InHand
<1>8. Counted'
  <2>1. /\ SumSince(SessionWindowStart(began), sums.session, entry.entries)
             = Worth(fresh', SessionWindowStart(began))
        /\ SumSince(WeekWindowStart(began, Dst), sums.week, entry.entries)
             = Worth(fresh', WeekWindowStart(began, Dst))
    BY <1>2, <1>4, WorthGrows DEF Right, Counted
  <2>2. /\ sums'.session = Worth(fresh', SessionWindowStart(began'))
        /\ sums'.week = Worth(fresh', WeekWindowStart(began', Dst))
    BY <1>1, <2>1 DEF Use
  <2>. QED
    BY <1>1, <2>2 DEF Right, Counted
<1>9. Allowed'
  BY <1>1, <1>3, <1>4 DEF Right, Allowed, Writable
<1>10. Due'
  <2>1. ASSUME NEW l \in base.must, l[1] \in DOMAIN fresh', Writable(l[1]), fresh'[l[1]].whole
        PROVE  l[2] <= Len(fresh'[l[1]].entries)
    <3>1. CASE l[1] = f
      <4>1. Len(entry.entries) = Len(text[f])
        BY <1>3, <2>1, <3>1 DEF Found
      <4>2. l[2] \in 1..Len(text[f]) /\ Len(text[f]) \in Nat
        BY <1>2, <3>1, StatTyped DEF Right, Due
      <4>. QED
        BY <1>3, <3>1, <4>1, <4>2
    <3>2. CASE l[1] # f
      BY <1>3, <2>1, <3>2 DEF Right, Due
    <3>. QED
      BY <3>1, <3>2
  <2>. QED
    BY <1>1, <2>1 DEF Right, Due, Writable
<1>. QED
  BY <1>5, <1>6, <1>7, <1>8, <1>9, <1>10

(* A refresh begins with nothing found and nothing counted.                 *)
LEMMA BeginRight ==
  ASSUME Right, Begin
  PROVE  Copies(fresh)' /\ Copies(cache)' /\ InHand' /\ Counted' /\ Allowed' /\ Due'
<1>1. /\ UNCHANGED <<now, text, tail, present>> /\ UNCHANGED <<cache, figures, basis, lock>>
      /\ fresh' = None /\ pc = "wait" /\ pc' = "walk" /\ began' = now /\ due' = present
      /\ sums' = Nothing
      /\ base' = [ at |-> now, must |-> Lines(present), never |-> {f \in Files : ~Writable(f)} ]
  BY DEF Begin, disk, shared
<1>2. DOMAIN None = {} /\ TypeOK
  BY DEF None, Right
<1>3. Copies(fresh)' /\ Copies(cache)' /\ InHand'
  BY <1>1, <1>2 DEF Right, Copies, Begins, Reaches, Writable, InHand
<1>4. Counted'
  BY <1>1, WorthOfNone DEF Right, Counted, Nothing
<1>5. Allowed'
  BY <1>1, <1>2 DEF Right, Allowed, Writable
<1>6. Due'
  <2>1. present \in SUBSET Files
    BY <1>2 DEF TypeOK
  <2>2. \A l \in Lines(present) : /\ l = <<l[1], l[2]>> /\ l[1] \in present
                                  /\ l[2] \in 1..Len(text[l[1]])
    BY <1>2, <2>1, LinesTyped
  <2>. QED
    BY <1>1, <1>2, <2>2 DEF Right, Due
<1>. QED
  BY <1>3, <1>4, <1>5, <1>6

(* A visit keeps the invariant, whether the file is gone, cached, or to be  *)
(* scanned.                                                                 *)
LEMMA VisitRight ==
  ASSUME Right, NEW f \in Files, Visit(f)
  PROVE  Copies(fresh)' /\ Copies(cache)' /\ InHand' /\ Counted' /\ Allowed' /\ Due'
<1>1. /\ UNCHANGED <<now, text, tail, present, began, due, fresh, sums, base>>
      /\ UNCHANGED <<cache, figures, basis, lock>>
      /\ pc = "walk" /\ pc' = "scan" /\ hand' = [file |-> f, key |-> Stat(f)]
      /\ f \in present /\ f \notin DOMAIN fresh
  BY DEF Visit, Comes, disk, shared
<1>2. Copies(fresh)' /\ Copies(cache)'
  BY <1>1 DEF Right, Copies, Begins, Reaches, Writable
<1>3. InHand'
  <2>1. f \notin base.never
    BY <1>1 DEF Right, Allowed, Writable
  <2>2. Stat(f) \in Nat /\ hand'.file = f /\ hand'.key = Stat(f)
    BY <1>1, StatTyped DEF Right
  <2>3. Stat(hand.file)' = Stat(f)
    BY <1>1, <2>2 DEF Stat
  <2>. QED
    BY <1>1, <2>1, <2>2, <2>3 DEF InHand
<1>4. Counted' /\ Allowed' /\ Due'
  BY <1>1 DEF Right, Counted, Allowed, Due, Writable
<1>. QED
  BY <1>2, <1>3, <1>4

(* A file passed over is not counted, and not owed.                         *)
LEMMA StatFailsRight ==
  ASSUME Right, NEW f \in Files, StatFails(f)
  PROVE  Copies(fresh)' /\ Copies(cache)' /\ InHand' /\ Counted' /\ Allowed' /\ Due'
<1>1. /\ UNCHANGED <<now, text, tail, present, pc, began, due, hand, fresh, sums, base>>
      /\ UNCHANGED <<cache, figures, basis, lock>>
  BY DEF StatFails, disk, shared
<1>2. Copies(fresh)' /\ Copies(cache)'
  BY <1>1 DEF Right, Copies, Begins, Reaches, Writable
<1>3. InHand'
  BY <1>1 DEF Right, InHand, Stat
<1>4. Counted' /\ Allowed' /\ Due'
  BY <1>1 DEF Right, Counted, Allowed, Due, Writable
<1>. QED
  BY <1>2, <1>3, <1>4

(* A refresh is over: it has published, or was given up.                    *)
LEMMA ReturnRight ==
  ASSUME Right, ScanRaises \/ WalkRaises \/ Published
  PROVE  Copies(fresh)' /\ Copies(cache)' /\ InHand' /\ Counted' /\ Allowed' /\ Due'
<1>1. /\ UNCHANGED <<now, text, tail, present>> /\ UNCHANGED <<cache, basis>>
      /\ fresh' = None /\ pc' = "wait" /\ began' = 0 /\ sums' = Nothing /\ base' = NoLines
  BY DEF ScanRaises, WalkRaises, Published, Return, disk, shared
<1>2. DOMAIN None = {} /\ NoLines.must = {} /\ NoLines.never = {} /\ NoLines.at = 0
  BY DEF None, NoLines
<1>3. Copies(fresh)' /\ Copies(cache)' /\ InHand'
  BY <1>1, <1>2 DEF Right, Copies, Begins, Reaches, Writable, InHand
<1>4. Counted'
  <2>1. /\ sums'.session = Worth(fresh', SessionWindowStart(began'))
        /\ sums'.week = Worth(fresh', WeekWindowStart(began', Dst))
        /\ base'.at = began'
    BY <1>1, <1>2, WorthOfNone DEF Nothing
  <2>2. /\ figures'.session = Worth(cache, SessionWindowStart(basis.at))
        /\ figures'.week = Worth(cache, WeekWindowStart(basis.at, Dst))
    <3>1. CASE ScanRaises \/ WalkRaises
      BY <3>1 DEF ScanRaises, WalkRaises, shared, Right, Counted
    <3>2. CASE Published
      <4>1. figures' = [figures EXCEPT !.week = sums.week] /\ pc = "publish"
        BY <3>2 DEF Published
      <4>2. figures \in Figures
        BY DEF Right, TypeOK
      <4>3. figures'.session = figures.session /\ figures'.week = sums.week
        BY <4>1, <4>2 DEF Figures
      <4>. QED
        BY <4>1, <4>3 DEF Right, Counted
    <3>. QED
      BY <3>1, <3>2
  <2>. QED
    BY <1>1, <2>1, <2>2 DEF Counted
<1>5. Allowed' /\ Due'
  BY <1>1, <1>2 DEF Right, Allowed, Due
<1>. QED
  BY <1>3, <1>4, <1>5

(* The session's figures published are those of the cache that becomes the  *)
(* tracker's.                                                               *)
LEMMA PublishRight ==
  ASSUME Right, Publish
  PROVE  Copies(fresh)' /\ Copies(cache)' /\ InHand' /\ Counted' /\ Allowed' /\ Due'
<1>1. /\ UNCHANGED <<now, text, tail, present, began, due, hand, fresh, sums, base>>
      /\ pc = "walk" /\ pc' = "publish" /\ due \cap present \subseteq DOMAIN fresh \cup skipped
      /\ cache' = fresh /\ figures' = [figures EXCEPT !.session = sums.session]
      /\ basis' = [at |-> base.at, must |-> Owed, never |-> base.never]
  BY DEF Publish, disk
<1>2. TypeOK /\ IsCache(fresh)
  BY DEF Right, TypeOK
<1>3. Copies(fresh)' /\ Copies(cache)' /\ InHand'
  BY <1>1 DEF Right, Copies, Begins, Reaches, Writable, InHand
<1>4. Counted'
  <2>1. figures'.session = sums.session
    BY <1>1, <1>2 DEF TypeOK, Figures
  <2>. QED
    BY <1>1, <2>1 DEF Right, Counted
<1>5. Allowed'
  BY <1>1 DEF Right, Allowed, Writable
<1>6. Due'
  <2>1. ASSUME NEW l \in Owed PROVE l \in Held(fresh)
    <3>1. /\ l \in base.must /\ l[1] \in present \ skipped
          /\ l[1] \in DOMAIN fresh => fresh[l[1]].whole
      BY DEF Owed
    <3>2. l = <<l[1], l[2]>> /\ l[1] \in due /\ l[2] \in 1..Len(text[l[1]])
      BY <3>1 DEF Right, Due
    <3>3. l[1] \in DOMAIN fresh /\ fresh[l[1]].whole /\ Writable(l[1])
      BY <1>1, <3>1, <3>2 DEF Writable
    <3>4. l[2] <= Len(fresh[l[1]].entries)
      BY <3>1, <3>3 DEF Right, Due
    <3>5. fresh[l[1]].entries \in Seq(Line) /\ l[1] \in Files
      BY <1>2, <3>3 DEF IsCache, Entries
    <3>6. Len(fresh[l[1]].entries) \in Nat /\ Len(text[l[1]]) \in Nat
      BY <1>2, <3>5, LenProperties, StatTyped
    <3>7. l[2] \in 1..Len(fresh[l[1]].entries)
      BY <3>2, <3>4, <3>6
    <3>8. <<l[1], l[2]>> \in Held(fresh)
      BY <1>2, <3>3, <3>7, HeldIs
    <3>. QED
      BY <3>2, <3>8
  <2>. QED
    BY <1>1, <2>1 DEF Right, Due, Writable
<1>. QED
  BY <1>3, <1>4, <1>5, <1>6

(* Every step keeps the invariant.                                          *)
LEMMA RightStep == Right /\ [Next]_vars => Right'
<1>. SUFFICES ASSUME Right, [Next]_vars
              PROVE  Copies(fresh)' /\ Copies(cache)' /\ InHand' /\ Counted' /\ Allowed' /\ Due'
  BY TypeStep, HolderStep DEF Right
<1>1. CASE Writer \/ Tick
  BY <1>1, WriterRight
<1>2. CASE Begin
  BY <1>2, BeginRight
<1>3. CASE \E f \in Files : VisitCached(f)
  <2>1. PICK f \in Files : VisitCached(f)
    BY <1>3
  <2>2. /\ Use(f, cache[f]) /\ UNCHANGED <<pc, began, due, skipped, hand, base, disk, shared, half>>
        /\ pc = "walk"
    BY <2>1 DEF VisitCached, Comes
  <2>. QED
    BY <2>1, <2>2, CachedFound, UseRight
<1>4. CASE \E f \in Files : StatFails(f) \/ Visit(f)
  BY <1>4, StatFailsRight, VisitRight
<1>5. CASE Scan
  BY <1>5, ScanFound, UseRight DEF Scan
<1>6. CASE ScanFails
  <2>1. pc = "scan" /\ pc' = "walk" /\ UNCHANGED <<began, due, skipped, base, disk, shared, half>>
    BY <1>6 DEF ScanFails
  <2>. QED
    BY <1>6, <2>1, ScanFailsFound, UseRight
<1>7. CASE ScanRaises \/ WalkRaises \/ Published
  BY <1>7, ReturnRight
<1>8. CASE Publish
  BY <1>8, PublishRight
<1>9. CASE Read \/ Draw \/ Stop \/ UNCHANGED vars
  <2>1. /\ UNCHANGED <<now, text, tail, present, began, due, hand, fresh, sums, base>>
        /\ UNCHANGED <<cache, figures, basis>>
    BY <1>9 DEF Read, Draw, Stop, vars, disk, walk, shared
  <2>2. UNCHANGED pc \/ (pc = "wait" /\ pc' = "ended")
    BY <1>9 DEF Read, Draw, Stop, vars, walk
  <2>3. Copies(fresh)' /\ Copies(cache)' /\ Allowed' /\ Due'
    BY <2>1 DEF Right, Copies, Begins, Reaches, Writable, Allowed, Due
  <2>4. InHand' /\ Counted'
    BY <2>1, <2>2 DEF Right, InHand, Counted, Stat
  <2>. QED
    BY <2>3, <2>4
<1>. QED
  BY <1>1, <1>2, <1>3, <1>4, <1>5, <1>6, <1>7, <1>8, <1>9 DEF Next, Walk

(* It holds at the start.                                                   *)
LEMMA InitRight == Init => Right
<1>. SUFFICES ASSUME Init PROVE Right
  OBVIOUS
<1>1. /\ fresh = None /\ cache = None /\ sums = Nothing /\ figures = Nothing
      /\ base = NoLines /\ basis = NoLines /\ began = 0 /\ pc = "wait" /\ lock = "free"
  BY DEF Init
<1>2. DOMAIN None = {} /\ NoLines.must = {} /\ NoLines.never = {} /\ NoLines.at = 0
  BY DEF None, NoLines
<1>3. TypeOK /\ OneHolder
  BY <1>1, InitTyped DEF OneHolder
<1>4. Copies(fresh) /\ Copies(cache) /\ InHand /\ Allowed /\ Due
  BY <1>1, <1>2 DEF Copies, InHand, Allowed, Due
<1>5. Counted
  BY <1>1, <1>2, WorthOfNone DEF Counted, Nothing
<1>. QED
  BY <1>3, <1>4, <1>5 DEF Right

(* What a cache is worth is the total of the lines it holds.                *)
LEMMA WorthIsTotal ==
  ASSUME TypeOK, NEW c, IsCache(c), Copies(c), NEW start
  PROVE  Worth(c, start) = Total(Held(c), start)
<1>. DEFINE S == {l \in Held(c) : text[l[1]][l[2]].at >= start}
<1>1. \A l \in Held(c) : LineOf(c, l) = text[l[1]][l[2]]
  BY HeldIs DEF Copies, Begins, LineOf
<1>2. S = Within(c, start)
  BY <1>1 DEF Within
<1>. HIDE DEF S
<1>3. IsFiniteSet(S) /\ S \subseteq Held(c)
  BY <1>2, HeldFinite
<1>4. \A l \in S : /\ CostsIn(c)[l] \in Nat /\ TokensIn(c)[l] \in Nat
                   /\ CostsIn(c)[l] = CostForUsage(text[l[1]][l[2]].usage)
                   /\ TokensIn(c)[l] = TokensOf(text[l[1]][l[2]].usage)
  <2>1. \A l \in Held(c) : CostsIn(c)[l] \in Nat /\ TokensIn(c)[l] \in Nat
    BY WorthTyped
  <2>. QED
    BY <1>1, <1>3, <2>1 DEF CostsIn, TokensIn
<1>5. MapThenSumSet(LAMBDA l : CostForUsage(text[l[1]][l[2]].usage), S) = SumOf(CostsIn(c), S)
  BY <1>3, <1>4, CostsSummed
<1>6. MapThenSumSet(LAMBDA l : TokensOf(text[l[1]][l[2]].usage), S) = SumOf(TokensIn(c), S)
  BY <1>3, <1>4, TokensSummed
<1>7. Total(Held(c), start)
        = [ cost   |-> MapThenSumSet(LAMBDA l : CostForUsage(text[l[1]][l[2]].usage), S),
            tokens |-> MapThenSumSet(LAMBDA l : TokensOf(text[l[1]][l[2]].usage), S) ]
  BY DEF Total, S
<1>. QED
  BY <1>2, <1>5, <1>6, <1>7 DEF Worth

(* It says what SeenAreTotals does of what the bar shows.                   *)
LEMMA RightIsTotals == Right => SeenAreTotals
<1>. SUFFICES ASSUME Right, lock = "render"
              PROVE  \E S \in SUBSET Lines(Files \ basis.never) :
                       basis.must \subseteq S /\ Seen = TotalsAt(S, basis.at)
  BY DEF SeenAreTotals
<1>. DEFINE S == Held(cache)
<1>1. TypeOK /\ IsCache(cache) /\ Copies(cache)
  BY DEF Right, TypeOK
<1>2. S \subseteq Lines(Files \ basis.never)
  <2>. SUFFICES ASSUME NEW l \in S PROVE l \in Lines(Files \ basis.never)
    OBVIOUS
  <2>1. l = <<l[1], l[2]>> /\ l[1] \in DOMAIN cache /\ l[2] \in 1..Len(cache[l[1]].entries)
    BY <1>1, HeldIs
  <2>2. l[1] \in Files /\ l[1] \notin basis.never /\ cache[l[1]].entries \in Seq(Line)
    BY <1>1, <2>1 DEF Right, Allowed, IsCache, Entries
  <2>3. Len(cache[l[1]].entries) \in Nat /\ Len(text[l[1]]) \in Nat
    BY <1>1, <2>2, LenProperties, StatTyped
  <2>4. Len(cache[l[1]].entries) <= Len(text[l[1]])
    BY <1>1, <2>1 DEF Copies, Begins
  <2>5. l[2] \in 1..Len(text[l[1]])
    BY <2>1, <2>3, <2>4
  <2>6. Files \ basis.never \in SUBSET Files
    OBVIOUS
  <2>7. <<l[1], l[2]>> \in Lines(Files \ basis.never)
    BY <1>1, <2>2, <2>5, <2>6, LinesTyped
  <2>. QED
    BY <2>1, <2>7
<1>3. basis.must \subseteq S
  BY DEF Right, Due
<1>4. half = figures.session /\ pc # "publish"
  BY DEF Right, OneHolder
<1>5. /\ half = Total(S, SessionWindowStart(basis.at))
      /\ figures.week = Total(S, WeekWindowStart(basis.at, Dst))
  BY <1>1, <1>4, WorthIsTotal DEF Right, Counted
<1>. HIDE DEF S
<1>6. Seen = TotalsAt(S, basis.at)
  BY <1>5 DEF Seen, TotalsAt
<1>. QED
  BY <1>2, <1>3, <1>6

(* What the bar shows are the totals, in both windows as of one moment, of  *)
(* one set of lines, each that was whole when the refresh began among them, *)
(* and none that is not in a transcript: whatever is written and removed    *)
(* during a refresh, and whatever the cache holds from the one before.      *)
THEOREM AlwaysTotals == Spec => []SeenAreTotals
  BY InitRight, RightStep, RightIsTotals, PTL DEF Spec
=============================================================================
