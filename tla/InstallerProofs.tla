--------------------------- MODULE InstallerProofs ---------------------------
(***************************************************************************)
(* Theorems of Installer, for any events, commands and settings, any number *)
(* of runs, of others' writes and of crashes.                               *)
(***************************************************************************)
EXTENDS Installer, TLAPS, SequenceTheorems, WellFoundedInduction

(* Every backup that is spoken of has a name. *)
Named ==
  /\ DOMAIN backups = 0..MaxSecond
  /\ second \in 0..MaxSecond /\ copy.at \in 0..MaxSecond
  /\ \A r \in replaced : r.at \in 0..MaxSecond

(* Until the file is replaced, what it holds is what the copy is being made *)
(* of, or was, unless it was written since; and nothing replaced depends on *)
(* a backup that is half made.                                              *)
Copied ==
  /\ pc = "copy" =>
       /\ \A r \in replaced : r.at # copy.at
       /\ ~gap => file = copy.of
  /\ pc \in {"write", "writing", "replace"} /\ ~gap /\ file # Absent =>
       backups[copy.at] = file

(* Named, Copied and the invariant itself.                                  *)
Kept == Named /\ Copied /\ LostOnlyInTheGap

-----------------------------------------------------------------------------
(* What a path may hold is told apart by its kind. *)
LEMMA Kinds ==
  /\ Absent # Torn /\ Broken # Torn
  /\ \A s : Holds(s) # Torn
<1>1. Absent.kind = "absent" /\ Torn.kind = "torn" /\ Broken.kind = "broken"
  BY DEF Absent, Torn, Broken
<1>2. \A s : Holds(s).kind = "settings"
  BY DEF Holds
<1>. QED
  BY <1>1, <1>2

(* No step of anyone leaves settings.json half written, and what takes its  *)
(* place has been written whole.                                            *)
LEMMA WholeStep == SettingsWhole /\ [Next]_vars => SettingsWhole'
<1>. SUFFICES ASSUME SettingsWhole, [Next]_vars PROVE SettingsWhole'
  OBVIOUS
<1>. USE Kinds DEF SettingsWhole
<1>1. CASE Edit
  <2>1. UNCHANGED <<tmp, run, pc>>
    BY <1>1 DEF Edit, PutHooks, Writes
  <2>2. file' # Torn
    BY <1>1 DEF Edit, PutHooks, Writes
  <2>. QED
    BY <2>1, <2>2 DEF run, updated
<1>2. CASE SecondPasses
  BY <1>2 DEF SecondPasses, disk, run, updated
<1>3. CASE Refuse \/ NothingToDo \/ DryRun \/ Load
  <2>1. UNCHANGED file /\ pc' \in {"idle", "backup"}
    BY <1>3 DEF Refuse, NothingToDo, DryRun, Load, Starts, Leaves, Ends, disk
  <2>. QED
    BY <2>1
<1>4. CASE NoBackup \/ BeginBackup \/ EndBackup \/ BeginWrite
  <2>1. UNCHANGED file /\ pc' \in {"copy", "write", "writing"}
    BY <1>4 DEF NoBackup, BeginBackup, EndBackup, BeginWrite, disk
  <2>. QED
    BY <2>1
<1>5. CASE EndWrite
  <2>1. UNCHANGED <<file, run>> /\ tmp' = Holds(updated)
    BY <1>5 DEF EndWrite
  <2>2. updated' = updated
    BY <2>1 DEF run, updated
  <2>. QED
    BY <2>1, <2>2
<1>6. CASE Replace
  BY <1>6 DEF Replace, Ends
<1>7. CASE Crash
  BY <1>7 DEF Crash, Leaves, Ends, disk
<1>8. CASE UNCHANGED vars
  BY <1>8 DEF vars, disk, run, updated
<1>. QED
  BY <1>1, <1>2, <1>3, <1>4, <1>5, <1>6, <1>7, <1>8 DEF Next

(* However often the installer dies and wherever, whoever else writes, and  *)
(* whatever an earlier run has left behind, settings.json is whole.         *)
THEOREM AlwaysWhole == Spec => []SettingsWhole
<1>1. Init => SettingsWhole
  BY Kinds DEF Init, SettingsWhole
<1>. QED
  BY <1>1, WholeStep, PTL DEF Spec

-----------------------------------------------------------------------------
(* No step speaks of a backup that could not have a name.                   *)
LEMMA NamedStep == Named /\ [Next]_vars => Named'
<1>. SUFFICES ASSUME Named, [Next]_vars PROVE Named'
  OBVIOUS
<1>. USE InstallerAssumption DEF Named
<1>1. CASE Edit
  BY <1>1 DEF Edit, PutHooks, Writes, run
<1>2. CASE SecondPasses
  BY <1>2 DEF SecondPasses, disk, run
<1>3. CASE Refuse \/ NothingToDo \/ DryRun \/ Load
  <2>1. copy'.at = 0
    BY <1>3 DEF Refuse, NothingToDo, DryRun, Load, Leaves, Knows, NoCopy
  <2>. QED
    BY <1>3, <2>1 DEF Refuse, NothingToDo, DryRun, Load, Starts, disk
<1>4. CASE NoBackup
  BY <1>4 DEF NoBackup, disk, run, bound
<1>5. CASE BeginBackup
  BY <1>5 DEF BeginBackup, bound
<1>6. CASE EndBackup
  BY <1>6 DEF EndBackup, run, bound
<1>7. CASE BeginWrite \/ EndWrite
  BY <1>7 DEF BeginWrite, EndWrite, run, bound
<1>8. CASE Replace
  BY <1>8 DEF Replace, run, bound
<1>9. CASE Crash
  BY <1>9 DEF Crash, Leaves, NoCopy, disk, bound
<1>10. CASE UNCHANGED vars
  BY <1>10 DEF vars, disk, run, bound
<1>. QED
  BY <1>1, <1>2, <1>3, <1>4, <1>5, <1>6, <1>7, <1>8, <1>9, <1>10 DEF Next

(* What Kept says of the files, after each step.                            *)
LEMMA KeptStep == Kept /\ [Next]_vars => Kept'
<1>. SUFFICES ASSUME Kept, [Next]_vars PROVE Copied' /\ LostOnlyInTheGap'
  BY NamedStep DEF Kept
<1>. USE DEF Kept, Copied, LostOnlyInTheGap
<1>1. CASE Edit
  BY <1>1 DEF Edit, PutHooks, Writes, run
<1>2. CASE SecondPasses
  BY <1>2 DEF SecondPasses, disk, run
<1>3. CASE Refuse \/ NothingToDo \/ DryRun \/ Load
  <2>1. pc' \in {"idle", "backup"} /\ UNCHANGED <<backups, replaced>>
    BY <1>3 DEF Refuse, NothingToDo, DryRun, Load, Starts, Leaves, Ends, disk
  <2>. QED
    BY <2>1
<1>4. CASE NoBackup
  BY <1>4 DEF NoBackup, disk, run
<1>5. CASE BeginBackup
  <2>1. pc' = "copy" /\ copy' = [at |-> second, of |-> file] /\ file' = file
    BY <1>5 DEF BeginBackup
  <2>2. replaced' = {r \in replaced : r.at # second}
    BY <1>5 DEF BeginBackup
  <2>3. \A r \in replaced' : backups'[r.at] = backups[r.at]
    BY <1>5, <2>2 DEF BeginBackup, Named
  <2>. QED
    BY <2>1, <2>2, <2>3
<1>6. CASE EndBackup
  <2>1. UNCHANGED <<file, copy, gap, replaced>> /\ pc = "copy" /\ pc' = "write"
    BY <1>6 DEF EndBackup, run
  <2>2. backups'[copy.at] = copy.of
    BY <1>6 DEF EndBackup, Named
  <2>3. \A r \in replaced : backups'[r.at] = backups[r.at]
    BY <1>6 DEF EndBackup, Named
  <2>. QED
    BY <2>1, <2>2, <2>3
<1>7. CASE BeginWrite \/ EndWrite
  BY <1>7 DEF BeginWrite, EndWrite, run
<1>8. CASE Replace
  <2>1. pc = "replace" /\ pc' = "idle" /\ UNCHANGED backups
    BY <1>8 DEF Replace, Ends
  <2>2. \A r \in replaced' :
          r \in replaced \/ (~gap /\ file # Absent /\ r = [what |-> file, at |-> copy.at])
    BY <1>8 DEF Replace
  <2>. QED
    BY <2>1, <2>2
<1>9. CASE Crash
  BY <1>9 DEF Crash, Leaves, Ends, disk
<1>10. CASE UNCHANGED vars
  BY <1>10 DEF vars, disk, run
<1>. QED
  BY <1>1, <1>2, <1>3, <1>4, <1>5, <1>6, <1>7, <1>8, <1>9, <1>10 DEF Next

(* Nothing the installer has put its own in the place of is lost: it is in  *)
(* a backup, unless written in the gap or copied over in the same second.   *)
THEOREM AlwaysInABackup == Spec => []LostOnlyInTheGap
<1>1. Init => Kept
  BY InstallerAssumption DEF Init, Kept, Named, Copied, LostOnlyInTheGap, NoCopy
<1>2. Kept => LostOnlyInTheGap
  BY DEF Kept
<1>. QED
  BY <1>1, <1>2, KeptStep, PTL DEF Spec

-----------------------------------------------------------------------------
(* Induction over the numbers, for a set of them.                           *)
LEMMA SetInduction ==
  ASSUME NEW S, 0 \in S, \A k \in Nat : k \in S => k + 1 \in S
  PROVE  Nat \subseteq S
<1>. DEFINE Less == OpToRel(<, Nat)
            Out  == Nat \ S
<1>. SUFFICES ASSUME Out # {} PROVE FALSE
  OBVIOUS
<1>1. IsWellFoundedOn(Less, Nat)
  BY NatLessThanWellFounded
<1>2. Out \subseteq Nat
  OBVIOUS
<1>3. \A x, y \in Nat : x < y => <<x, y>> \in Less
  BY DEF OpToRel
<1>. HIDE DEF Less, Out
<1>4. PICK x \in Out : \A y \in Out : <<y, x>> \notin Less
  BY <1>1, <1>2, WFMin
<1>5. x \in Nat \ {0} /\ x \notin S
  BY <1>4 DEF Out
<1>6. x - 1 \in Nat /\ x - 1 < x /\ x = (x - 1) + 1
  BY <1>5
<1>7. x - 1 \in S
  BY <1>3, <1>4, <1>5, <1>6 DEF Out
<1>. QED
  BY <1>5, <1>6, <1>7

(* Induction over sequences that grow at their end, for a set of them.      *)
LEMMA SeqInduction ==
  ASSUME NEW S, NEW G, <<>> \in G,
         \A p \in Seq(S) : p \in G => \A x \in S : Append(p, x) \in G
  PROVE  Seq(S) \subseteq G
<1>. DEFINE Good == {n \in Nat : \A q \in Seq(S) : Len(q) = n => q \in G}
<1>1. 0 \in Good
  <2>1. \A q \in Seq(S) : Len(q) = 0 => q = <<>>
    OBVIOUS
  <2>. QED
    BY <2>1
<1>2. ASSUME NEW n \in Nat, n \in Good PROVE n + 1 \in Good
  <2>. SUFFICES ASSUME NEW q \in Seq(S), Len(q) = n + 1 PROVE q \in G
    OBVIOUS
  <2>. DEFINE p == SubSeq(q, 1, n)
  <2>1. p \in Seq(S) /\ Len(p) = n /\ q[n + 1] \in S
    OBVIOUS
  <2>2. q = Append(p, q[n + 1])
    OBVIOUS
  <2>3. p \in G
    BY <1>2, <2>1
  <2>. HIDE DEF p
  <2>. QED
    BY <2>1, <2>2, <2>3
<1>. HIDE DEF Good
<1>3. Nat \subseteq Good
  BY <1>1, <1>2, SetInduction
<1>. QED
  <2>. SUFFICES ASSUME NEW q \in Seq(S) PROVE q \in G
    OBVIOUS
  <2>1. Len(q) \in Good
    BY <1>3
  <2>. QED
    BY <2>1 DEF Good

(* What starts from a value and takes a step at each place exists.          *)
Runs(r, base, step, k) ==
  r[0] = base /\ \A i \in 1..k : r[i] = step[i][r[i - 1]]

(* Such a run exists.                                                       *)
LEMMA RunExists ==
  ASSUME NEW T, NEW base \in T, NEW n \in Nat, NEW step \in [1..n -> [T -> T]]
  PROVE  \E r \in [0..n -> T] : Runs(r, base, step, n)
<1>. DEFINE Good == {k \in Nat : k <= n => \E r \in [0..k -> T] : Runs(r, base, step, k)}
<1>1. 0 \in Good
  <2>. DEFINE r == [i \in 0..0 |-> base]
  <2>1. r \in [0..0 -> T] /\ Runs(r, base, step, 0)
    BY DEF Runs
  <2>. QED
    BY <2>1
<1>2. ASSUME NEW k \in Nat, k \in Good PROVE k + 1 \in Good
  <2>. SUFFICES ASSUME k + 1 <= n
                PROVE  \E r \in [0..k + 1 -> T] : Runs(r, base, step, k + 1)
    OBVIOUS
  <2>1. PICK g \in [0..k -> T] : Runs(g, base, step, k)
    BY <1>2
  <2>. DEFINE r == [i \in 0..k + 1 |-> IF i = k + 1 THEN step[k + 1][g[k]] ELSE g[i]]
  <2>2. \A i \in 0..k : g[i] \in T
    BY <2>1
  <2>3. step[k + 1][g[k]] \in T
    BY <2>2
  <2>4. /\ \A i \in 0..k : r[i] = g[i]
        /\ r[k + 1] = step[k + 1][g[k]]
        /\ r \in [0..k + 1 -> T]
    BY <2>2, <2>3
  <2>. HIDE DEF r
  <2>5. r[0] = base
    BY <2>1, <2>4 DEF Runs
  <2>6. ASSUME NEW i \in 1..k + 1 PROVE r[i] = step[i][r[i - 1]]
    <3>1. CASE i = k + 1
      BY <2>4, <3>1
    <3>2. CASE i \in 1..k
      <4>1. i - 1 \in 0..k /\ i \in 0..k
        BY <3>2
      <4>2. r[i] = g[i] /\ r[i - 1] = g[i - 1]
        BY <2>4, <4>1
      <4>. QED
        BY <2>1, <3>2, <4>2 DEF Runs
    <3>. QED
      BY <3>1, <3>2
  <2>7. Runs(r, base, step, k + 1)
    BY <2>5, <2>6 DEF Runs
  <2>. QED
    BY <2>4, <2>7
<1>. HIDE DEF Good
<1>3. n \in Good
  BY <1>1, <1>2, SetInduction
<1>. QED
  BY <1>3 DEF Good

-----------------------------------------------------------------------------
(* What Without keeps of the first places.                                  *)
Keeps(r, q, set) ==
  /\ r[0] = <<>>
  /\ \A i \in 1..Len(q) : r[i] = IF q[i] \in set THEN r[i - 1] ELSE Append(r[i - 1], q[i])

(* There is a run that keeps what Without does, and its last value is       *)
(* Without.                                                                 *)
LEMMA WithoutRuns ==
  ASSUME NEW S, NEW q \in Seq(S), NEW set
  PROVE  \E r \in [0..Len(q) -> Seq(S)] : Keeps(r, q, set) /\ Without(q, set) = r[Len(q)]
<1>. DEFINE n == Len(q)
            step == [i \in 1..n |-> [t \in Seq(S) |-> IF q[i] \in set THEN t ELSE Append(t, q[i])]]
            Eqn(g) == g = [i \in 0..n |->
                             IF i = 0 THEN <<>>
                             ELSE IF q[i] \in set THEN g[i - 1] ELSE Append(g[i - 1], q[i])]
<1>1. n \in Nat /\ <<>> \in Seq(S) /\ step \in [1..n -> [Seq(S) -> Seq(S)]]
  OBVIOUS
<1>. HIDE DEF step
<1>2. PICK r \in [0..n -> Seq(S)] : Runs(r, <<>>, step, n)
  BY <1>1, RunExists
<1>3. \A i \in 1..n : i - 1 \in 0..n /\ r[i - 1] \in Seq(S)
  BY <1>1, <1>2
<1>4. Keeps(r, q, set)
  BY <1>2, <1>3 DEF Runs, Keeps, step
<1>5. Eqn(r)
  <2>1. \A i \in 0..n : i = 0 \/ i \in 1..n
    BY <1>1
  <2>. QED
    BY <1>2, <1>4, <2>1 DEF Keeps
<1>. DEFINE kept == CHOOSE g : Eqn(g)
<1>6. Eqn(kept)
  BY <1>5
<1>7. Without(q, set) = kept[n]
  BY DEF Without
<1>. HIDE DEF kept, n
<1>8. /\ kept[0] = <<>>
      /\ \A i \in 1..n : kept[i] = IF q[i] \in set THEN kept[i - 1] ELSE Append(kept[i - 1], q[i])
  <2>1. 0 \in 0..n /\ \A i \in 1..n : i \in 0..n /\ i # 0
    BY <1>1
  <2>2. \A i \in 0..n : kept[i] = IF i = 0 THEN <<>>
                             ELSE IF q[i] \in set THEN kept[i - 1] ELSE Append(kept[i - 1], q[i])
    BY <1>6
  <2>. QED
    BY <2>1, <2>2
<1>. DEFINE Good == {k \in Nat : k <= n => kept[k] = r[k]}
<1>9. 0 \in Good
  BY <1>4, <1>8 DEF Keeps
<1>10. ASSUME NEW k \in Nat, k \in Good PROVE k + 1 \in Good
  <2>. SUFFICES ASSUME k + 1 <= n PROVE kept[k + 1] = r[k + 1]
    OBVIOUS
  <2>1. k + 1 \in 1..n /\ (k + 1) - 1 = k /\ kept[k] = r[k]
    BY <1>1, <1>10
  <2>. QED
    BY <1>4, <1>8, <2>1 DEF Keeps, n
<1>. HIDE DEF Good
<1>11. kept[n] = r[n]
  <2>1. n \in Good
    BY <1>1, <1>9, <1>10, SetInduction
  <2>. QED
    BY <1>1, <2>1 DEF Good
<1>. QED
  BY <1>2, <1>4, <1>7, <1>11 DEF n

(* Without goes from place to place.                                        *)
LEMMA WithoutNone == ASSUME NEW set PROVE Without(<<>>, set) = <<>>
<1>1. <<>> \in Seq({}) /\ Len(<<>>) = 0
  OBVIOUS
<1>2. PICK r \in [0..Len(<<>>) -> Seq({})] :
        Keeps(r, <<>>, set) /\ Without(<<>>, set) = r[Len(<<>>)]
  BY <1>1, WithoutRuns
<1>. QED
  BY <1>1, <1>2 DEF Keeps

(* What is left of a sequence has its type.                                 *)
LEMMA WithoutTyped ==
  ASSUME NEW S, NEW q \in Seq(S), NEW set
  PROVE  Without(q, set) \in Seq(S)
  BY WithoutRuns

(* What is left when the sequence is one longer.                            *)
LEMMA WithoutAppend ==
  ASSUME NEW S, NEW q \in Seq(S), NEW x \in S, NEW set
  PROVE  Without(Append(q, x), set) =
           IF x \in set THEN Without(q, set) ELSE Append(Without(q, set), x)
<1>. DEFINE n == Len(q)
            p == Append(q, x)
<1>1. /\ n \in Nat /\ p \in Seq(S) /\ Len(p) = n + 1 /\ p[n + 1] = x
      /\ \A i \in 1..n : p[i] = q[i]
  OBVIOUS
<1>. HIDE DEF p
<1>2. PICK r \in [0..Len(q) -> Seq(S)] : Keeps(r, q, set) /\ Without(q, set) = r[Len(q)]
  BY WithoutRuns
<1>3. PICK t \in [0..Len(p) -> Seq(S)] : Keeps(t, p, set) /\ Without(p, set) = t[Len(p)]
  BY <1>1, WithoutRuns
<1>. DEFINE Good == {k \in Nat : k <= n => t[k] = r[k]}
<1>4. 0 \in Good
  BY <1>2, <1>3 DEF Keeps
<1>5. ASSUME NEW k \in Nat, k \in Good PROVE k + 1 \in Good
  <2>. SUFFICES ASSUME k + 1 <= n PROVE t[k + 1] = r[k + 1]
    OBVIOUS
  <2>1. k + 1 \in 1..n /\ (k + 1) - 1 = k /\ t[k] = r[k] /\ k + 1 \in 1..Len(p)
    BY <1>1, <1>5
  <2>. QED
    BY <1>1, <1>2, <1>3, <2>1 DEF Keeps
<1>. HIDE DEF Good
<1>6. n \in Good
  BY <1>1, <1>4, <1>5, SetInduction
<1>7. t[n] = r[n]
  BY <1>1, <1>6 DEF Good
<1>8. n + 1 \in 1..Len(p) /\ (n + 1) - 1 = n
  BY <1>1
<1>9. t[n + 1] = IF p[n + 1] \in set THEN t[(n + 1) - 1] ELSE Append(t[(n + 1) - 1], p[n + 1])
  BY <1>3, <1>8 DEF Keeps
<1>. QED
  BY <1>1, <1>2, <1>3, <1>7, <1>8, <1>9 DEF p

-----------------------------------------------------------------------------
(* What is taken out of two sequences in a row is taken out of each.        *)
LEMMA WithoutConcat ==
  ASSUME NEW S, NEW set, NEW p \in Seq(S), NEW q \in Seq(S)
  PROVE  Without(p \o q, set) = Without(p, set) \o Without(q, set)
<1>. DEFINE G == {t \in Seq(S) : Without(p \o t, set) = Without(p, set) \o Without(t, set)}
            W(t) == Without(t, set)
<1>1. W(p) \in Seq(S) /\ W(<<>>) = <<>> /\ <<>> \in Seq(S)
  BY WithoutNone, WithoutTyped
<1>. HIDE DEF W
<1>2. <<>> \in G
  <2>1. p \o <<>> = p /\ W(p) \o <<>> = W(p)
    BY <1>1
  <2>. QED
    BY <1>1, <2>1 DEF W
<1>3. ASSUME NEW t \in Seq(S), t \in G, NEW x \in S PROVE Append(t, x) \in G
  <2>1. p \o t \in Seq(S) /\ p \o Append(t, x) = Append(p \o t, x) /\ Append(t, x) \in Seq(S)
    OBVIOUS
  <2>2. W(t) \in Seq(S) /\ W(p \o t) = W(p) \o W(t)
    BY <1>3, WithoutTyped DEF W
  <2>3. W(Append(p \o t, x)) = IF x \in set THEN W(p \o t) ELSE Append(W(p \o t), x)
    <3>1. \A u \in Seq(S) : W(Append(u, x)) = IF x \in set THEN W(u) ELSE Append(W(u), x)
      BY WithoutAppend DEF W
    <3>. QED
      BY <2>1, <3>1
  <2>4. W(Append(t, x)) = IF x \in set THEN W(t) ELSE Append(W(t), x)
    BY WithoutAppend DEF W
  <2>5. W(p) \o Append(W(t), x) = Append(W(p) \o W(t), x)
    BY <1>1, <2>2
  <2>6. W(p \o Append(t, x)) = W(p) \o W(Append(t, x))
    BY <2>1, <2>2, <2>3, <2>4, <2>5
  <2>. QED
    BY <2>1, <2>6 DEF W
<1>. HIDE DEF G
<1>4. q \in G
  BY <1>2, <1>3, SeqInduction
<1>. QED
  BY <1>4 DEF G

(* Nothing of the set is left, all is that was not in it, nothing that was. *)
LEMMA WithoutIs ==
  ASSUME NEW S, NEW set, NEW q \in Seq(S)
  PROVE  /\ Without(q, set) \in Seq(S \ set)
         /\ (\A i \in 1..Len(q) : q[i] \notin set) => Without(q, set) = q
         /\ Without(q, set) = <<>> <=> \A i \in 1..Len(q) : q[i] \in set
<1>. DEFINE W(t) == Without(t, set)
            G == {t \in Seq(S) :
                    /\ W(t) \in Seq(S \ set)
                    /\ (\A i \in 1..Len(t) : t[i] \notin set) => W(t) = t
                    /\ W(t) = <<>> <=> \A i \in 1..Len(t) : t[i] \in set}
<1>1. W(<<>>) = <<>> /\ <<>> \in Seq(S) /\ <<>> \in Seq(S \ set) /\ 1..Len(<<>>) = {}
  BY WithoutNone
<1>2. \A t \in Seq(S) : \A x \in S :
        W(Append(t, x)) = IF x \in set THEN W(t) ELSE Append(W(t), x)
  BY WithoutAppend
<1>. HIDE DEF W
<1>3. <<>> \in G
  BY <1>1
<1>4. ASSUME NEW t \in Seq(S), t \in G, NEW x \in S PROVE Append(t, x) \in G
  <2>. DEFINE u == Append(t, x)
  <2>1. /\ u \in Seq(S) /\ Len(u) = Len(t) + 1 /\ u[Len(t) + 1] = x /\ Len(t) \in Nat
        /\ \A i \in 1..Len(t) : u[i] = t[i]
    OBVIOUS
  <2>2. /\ W(t) \in Seq(S \ set)
        /\ (\A i \in 1..Len(t) : t[i] \notin set) => W(t) = t
        /\ W(t) = <<>> <=> \A i \in 1..Len(t) : t[i] \in set
    BY <1>4
  <2>3. W(u) = IF x \in set THEN W(t) ELSE Append(W(t), x)
    BY <1>2
  <2>4. \A i \in 1..Len(u) : i \in 1..Len(t) \/ i = Len(t) + 1
    BY <2>1
  <2>5. 1..Len(t) \subseteq 1..Len(u) /\ Len(t) + 1 \in 1..Len(u)
    BY <2>1
  <2>6. CASE x \in set
    <3>1. W(u) = W(t)
      BY <2>3, <2>6
    <3>2. (\A i \in 1..Len(t) : t[i] \in set) <=> \A i \in 1..Len(u) : u[i] \in set
      BY <2>1, <2>4, <2>5, <2>6
    <3>3. ~\A i \in 1..Len(u) : u[i] \notin set
      BY <2>1, <2>5, <2>6
    <3>. HIDE DEF u
    <3>. QED
      BY <2>1, <2>2, <3>1, <3>2, <3>3 DEF u
  <2>7. CASE x \notin set
    <3>1. W(u) = Append(W(t), x)
      BY <2>3, <2>7
    <3>2. W(u) \in Seq(S \ set) /\ W(u) # <<>>
      BY <2>2, <2>7, <3>1
    <3>3. (\A i \in 1..Len(u) : u[i] \notin set) => W(u) = u
      <4>. SUFFICES ASSUME \A i \in 1..Len(u) : u[i] \notin set PROVE W(u) = u
        OBVIOUS
      <4>1. \A i \in 1..Len(t) : t[i] \notin set
        BY <2>1, <2>5
      <4>. QED
        BY <2>2, <3>1, <4>1
    <3>4. ~\A i \in 1..Len(u) : u[i] \in set
      BY <2>1, <2>5, <2>7
    <3>. HIDE DEF u
    <3>. QED
      BY <2>1, <3>2, <3>3, <3>4 DEF u
  <2>. QED
    BY <2>6, <2>7
<1>. HIDE DEF G
<1>5. q \in G
  BY <1>3, <1>4, SeqInduction
<1>. QED
  BY <1>5 DEF G, W

(* Only what is in the sequence matters.                                    *)
LEMMA WithoutSame ==
  ASSUME NEW S, NEW one, NEW other, \A x \in S : x \in one <=> x \in other, NEW q \in Seq(S)
  PROVE  Without(q, one) = Without(q, other)
<1>. DEFINE G == {t \in Seq(S) : Without(t, one) = Without(t, other)}
<1>1. <<>> \in G
  BY WithoutNone
<1>2. ASSUME NEW t \in Seq(S), t \in G, NEW x \in S PROVE Append(t, x) \in G
  <2>1. Without(Append(t, x), one) = IF x \in one THEN Without(t, one) ELSE Append(Without(t, one), x)
    BY WithoutAppend
  <2>2. Without(Append(t, x), other) = IF x \in other THEN Without(t, other) ELSE Append(Without(t, other), x)
    BY WithoutAppend
  <2>3. x \in one <=> x \in other
    OBVIOUS
  <2>4. Append(t, x) \in Seq(S) /\ Without(t, one) = Without(t, other)
    BY <1>2
  <2>. QED
    BY <2>1, <2>2, <2>3, <2>4
<1>. HIDE DEF G
<1>3. q \in G
  BY <1>1, <1>2, SeqInduction
<1>. QED
  BY <1>3 DEF G

-----------------------------------------------------------------------------
(* What FlattenSeq has of the first sequences.                              *)
Flattens(r, seqs) ==
  r[0] = <<>> /\ \A i \in 1..Len(seqs) : r[i] = r[i - 1] \o seqs[i]

(* There is such a run, and its last value is FlattenSeq.                   *)
LEMMA FlattenRuns ==
  ASSUME NEW S, NEW seqs \in Seq(Seq(S))
  PROVE  \E r \in [0..Len(seqs) -> Seq(S)] : Flattens(r, seqs) /\ FlattenSeq(seqs) = r[Len(seqs)]
<1>. DEFINE n == Len(seqs)
            step == [i \in 1..n |-> [t \in Seq(S) |-> t \o seqs[i]]]
            Eqn(g) == g = [i \in 1..n |-> IF i = 1 THEN seqs[i] ELSE g[i - 1] \o seqs[i]]
<1>1. n \in Nat /\ <<>> \in Seq(S) /\ \A i \in 1..n : seqs[i] \in Seq(S)
  OBVIOUS
<1>a. step \in [1..n -> [Seq(S) -> Seq(S)]]
  BY <1>1
<1>. HIDE DEF step, n
<1>2. PICK r \in [0..n -> Seq(S)] : Runs(r, <<>>, step, n)
  BY <1>1, <1>a, RunExists
<1>3. \A i \in 1..n : i - 1 \in 0..n /\ r[i - 1] \in Seq(S)
  BY <1>1, <1>2
<1>4. Flattens(r, seqs)
  BY <1>1, <1>2, <1>3 DEF Runs, Flattens, step, n
<1>5. CASE n = 0
  <2>1. seqs = <<>> /\ FlattenSeq(seqs) = seqs
    BY <1>5 DEF FlattenSeq, n
  <2>. QED
    BY <1>2, <1>4, <1>5, <2>1 DEF Flattens, n
<1>6. CASE n # 0
  <2>. DEFINE s == [i \in 1..n |-> r[i]]
              flatten == CHOOSE g : Eqn(g)
  <2>1. Eqn(s)
    <3>1. 0 \in 0..n /\ \A x \in Seq(S) : <<>> \o x = x
      BY <1>1
    <3>2. ASSUME NEW i \in 1..n PROVE r[i] = IF i = 1 THEN seqs[i] ELSE s[i - 1] \o seqs[i]
      <4>1. r[i] = r[i - 1] \o seqs[i] /\ r[0] = <<>>
        BY <1>4 DEF Flattens, n
      <4>2. i # 1 => i - 1 \in 1..n /\ s[i - 1] = r[i - 1]
        BY <1>1
      <4>3. CASE i = 1
        <5>1. r[i - 1] = <<>> /\ seqs[i] \in Seq(S)
          BY <1>1, <4>1, <4>3
        <5>. HIDE DEF s
        <5>. QED
          BY <3>1, <4>1, <4>3, <5>1
      <4>. HIDE DEF s
      <4>4. CASE i # 1
        BY <4>1, <4>2, <4>4
      <4>. QED
        BY <4>3, <4>4
    <3>. QED
      BY <3>2
  <2>2. Eqn(flatten)
    BY <2>1
  <2>3. FlattenSeq(seqs) = flatten[n]
    BY <1>6 DEF FlattenSeq, n
  <2>. HIDE DEF flatten
  <2>4. \A i \in 1..n : flatten[i] = IF i = 1 THEN seqs[i] ELSE flatten[i - 1] \o seqs[i]
    BY <2>2
  <2>. HIDE DEF Eqn, s
  <2>. DEFINE Good == {k \in Nat : 1 <= k /\ k <= n => flatten[k] = r[k]}
  <2>5. 0 \in Good
    OBVIOUS
  <2>6. ASSUME NEW k \in Nat, k \in Good PROVE k + 1 \in Good
    <3>. SUFFICES ASSUME k + 1 <= n PROVE flatten[k + 1] = r[k + 1]
      OBVIOUS
    <3>1. k + 1 \in 1..n /\ (k + 1) - 1 = k
      BY <1>1
    <3>2. r[k + 1] = r[k] \o seqs[k + 1] /\ r[0] = <<>>
      BY <1>4, <3>1 DEF Flattens, n
    <3>3. flatten[k + 1] = IF k + 1 = 1 THEN seqs[k + 1] ELSE flatten[(k + 1) - 1] \o seqs[k + 1]
      BY <2>4, <3>1
    <3>4. CASE k = 0
      <4>1. seqs[1] \in Seq(S) /\ <<>> \o seqs[1] = seqs[1]
        BY <1>1, <3>1, <3>4
      <4>. QED
        BY <3>2, <3>3, <3>4, <4>1, 0 + 1 = 1
    <3>5. CASE k # 0
      <4>1. 1 <= k /\ k <= n
        BY <1>1, <3>1, <3>5
      <4>. QED
        BY <2>6, <3>1, <3>2, <3>3, <3>5, <4>1, k + 1 # 1
    <3>. QED
      BY <3>4, <3>5
  <2>. HIDE DEF Good
  <2>7. n \in Good
    BY <1>1, <2>5, <2>6, SetInduction
  <2>8. flatten[n] = r[n]
    BY <1>1, <1>6, <2>7 DEF Good
  <2>. QED
    BY <1>2, <1>4, <2>3, <2>8 DEF n
<1>. QED
  BY <1>5, <1>6

(* FlattenSeq goes from sequence to sequence.                               *)
LEMMA FlattenNone == FlattenSeq(<<>>) = <<>>
<1>1. Len(<<>>) = 0
  OBVIOUS
<1>. QED
  BY <1>1 DEF FlattenSeq

(* Sequences in a row have the type of each.                                *)
LEMMA FlattenTyped ==
  ASSUME NEW S, NEW q \in Seq(Seq(S))
  PROVE  FlattenSeq(q) \in Seq(S)
<1>1. PICK r \in [0..Len(q) -> Seq(S)] : Flattens(r, q) /\ FlattenSeq(q) = r[Len(q)]
  BY FlattenRuns
<1>2. Len(q) \in 0..Len(q)
  OBVIOUS
<1>. QED
  BY <1>1, <1>2

(* One more sequence comes behind the others.                               *)
LEMMA FlattenAppend ==
  ASSUME NEW S, NEW q \in Seq(Seq(S)), NEW x \in Seq(S)
  PROVE  FlattenSeq(Append(q, x)) = FlattenSeq(q) \o x
<1>. DEFINE n == Len(q)
            p == Append(q, x)
<1>1. /\ n \in Nat /\ p \in Seq(Seq(S)) /\ Len(p) = n + 1 /\ p[n + 1] = x
      /\ \A i \in 1..n : p[i] = q[i]
  OBVIOUS
<1>. HIDE DEF p
<1>2. PICK r \in [0..Len(q) -> Seq(S)] : Flattens(r, q) /\ FlattenSeq(q) = r[Len(q)]
  BY FlattenRuns
<1>3. PICK t \in [0..Len(p) -> Seq(S)] : Flattens(t, p) /\ FlattenSeq(p) = t[Len(p)]
  BY <1>1, FlattenRuns
<1>. DEFINE Good == {k \in Nat : k <= n => t[k] = r[k]}
<1>4. 0 \in Good
  BY <1>2, <1>3 DEF Flattens
<1>5. ASSUME NEW k \in Nat, k \in Good PROVE k + 1 \in Good
  <2>. SUFFICES ASSUME k + 1 <= n PROVE t[k + 1] = r[k + 1]
    OBVIOUS
  <2>1. k + 1 \in 1..n /\ (k + 1) - 1 = k /\ t[k] = r[k] /\ k + 1 \in 1..Len(p)
    BY <1>1, <1>5
  <2>. QED
    BY <1>1, <1>2, <1>3, <2>1 DEF Flattens
<1>. HIDE DEF Good
<1>6. n \in Good
  BY <1>1, <1>4, <1>5, SetInduction
<1>7. t[n] = r[n]
  BY <1>1, <1>6 DEF Good
<1>8. n + 1 \in 1..Len(p) /\ (n + 1) - 1 = n
  BY <1>1
<1>9. t[n + 1] = t[(n + 1) - 1] \o p[n + 1]
  BY <1>3, <1>8 DEF Flattens
<1>. QED
  BY <1>1, <1>2, <1>3, <1>7, <1>8, <1>9 DEF p

-----------------------------------------------------------------------------
(* The commands of a group with its matcher, as Hooked lists them.          *)
PairsOf(m, hooks) == [j \in DOMAIN hooks |-> <<m, hooks[j]>>]

(* The commands of some groups, as Hooked lists them.                       *)
HookedIn(groups) ==
  FlattenSeq([ i \in DOMAIN groups |->
    [j \in DOMAIN groups[i].hooks |-> <<groups[i].matcher, groups[i].hooks[j]>>] ])

(* A command with its matcher.                                              *)
Pair == Matchers \X Commands

(* A group with commands of others only, and some.                          *)
Clean == [matcher : Matchers, hooks : Seq(Commands \ Marked) \ {<<>>}]

(* The pairs of some commands, and of one more.                             *)
LEMMA PairsAppend ==
  ASSUME NEW m \in Matchers, NEW h \in Seq(Commands)
  PROVE  /\ PairsOf(m, <<>>) = <<>>
         /\ PairsOf(m, h) \in Seq(Pair) /\ Len(PairsOf(m, h)) = Len(h)
         /\ \A j \in 1..Len(h) : PairsOf(m, h)[j] = <<m, h[j]>>
         /\ \A c \in Commands : PairsOf(m, Append(h, c)) = Append(PairsOf(m, h), <<m, c>>)
<1>1. PairsOf(m, <<>>) = <<>>
  BY DEF PairsOf
<1>2. /\ PairsOf(m, h) \in Seq(Pair) /\ Len(PairsOf(m, h)) = Len(h)
      /\ \A j \in 1..Len(h) : PairsOf(m, h)[j] = <<m, h[j]>>
  BY DEF PairsOf, Pair
<1>3. ASSUME NEW c \in Commands
      PROVE  PairsOf(m, Append(h, c)) = Append(PairsOf(m, h), <<m, c>>)
  <2>. DEFINE P(d) == <<m, d>>
  <2>1. \A t : PairsOf(m, t) = [j \in DOMAIN t |-> P(t[j])]
    BY DEF PairsOf
  <2>. HIDE DEF P
  <2>2. [j \in DOMAIN Append(h, c) |-> P(Append(h, c)[j])] = Append([j \in DOMAIN h |-> P(h[j])], P(c))
    OBVIOUS
  <2>. QED
    BY <2>1, <2>2 DEF P
<1>. QED
  BY <1>1, <1>2, <1>3

(* Ours are taken out of a group's pairs as they are out of its commands.   *)
LEMMA PairsWithout ==
  ASSUME NEW m \in Matchers, NEW h \in Seq(Commands)
  PROVE  Without(PairsOf(m, h), Matchers \X Marked) = PairsOf(m, Without(h, Marked))
<1>. DEFINE M == Matchers \X Marked
            G == {t \in Seq(Commands) : Without(PairsOf(m, t), M) = PairsOf(m, Without(t, Marked))}
<1>1. <<>> \in G
  <2>1. <<>> \in Seq(Commands) /\ PairsOf(m, <<>>) = <<>>
    BY PairsAppend
  <2>. QED
    BY <2>1, WithoutNone
<1>2. ASSUME NEW t \in Seq(Commands), t \in G, NEW c \in Commands PROVE Append(t, c) \in G
  <2>. DEFINE P(u) == PairsOf(m, u)
              w    == Without(t, Marked)
              pair == <<m, c>>
  <2>1. P(t) \in Seq(Pair) /\ P(Append(t, c)) = Append(P(t), pair) /\ pair \in Pair
    BY PairsAppend DEF Pair
  <2>2. Without(P(Append(t, c)), M) = IF pair \in M THEN Without(P(t), M) ELSE Append(Without(P(t), M), pair)
    BY <2>1, WithoutAppend
  <2>3. Without(Append(t, c), Marked) = IF c \in Marked THEN w ELSE Append(w, c)
    BY WithoutAppend
  <2>4. w \in Seq(Commands)
    BY WithoutTyped
  <2>5. P(Append(w, c)) = Append(P(w), pair)
    BY <2>4, PairsAppend
  <2>6. pair \in M <=> c \in Marked
    OBVIOUS
  <2>7. Without(P(t), M) = P(w) /\ Append(t, c) \in Seq(Commands)
    BY <1>2
  <2>. HIDE DEF P, w, pair, M
  <2>8. Without(P(Append(t, c)), M) = P(Without(Append(t, c), Marked))
    BY <2>2, <2>3, <2>5, <2>6, <2>7
  <2>. QED
    BY <2>7, <2>8 DEF P, M
<1>. HIDE DEF G
<1>3. h \in G
  BY <1>1, <1>2, SeqInduction
<1>. QED
  BY <1>3 DEF G

(* What is hooked by some groups, and by one more.                          *)
LEMMA HookedAppend ==
  ASSUME NEW G \in Seq(AGroup)
  PROVE  /\ HookedIn(<<>>) = <<>> /\ HookedIn(G) \in Seq(Pair)
         /\ \A g \in AGroup :
              HookedIn(Append(G, g)) = HookedIn(G) \o PairsOf(g.matcher, g.hooks)
<1>. DEFINE Lists(t) == [i \in DOMAIN t |-> PairsOf(t[i].matcher, t[i].hooks)]
<1>1. \A t : HookedIn(t) = FlattenSeq(Lists(t))
  BY DEF HookedIn, PairsOf
<1>2. Lists(<<>>) = <<>>
  OBVIOUS
<1>3. \A g \in AGroup : PairsOf(g.matcher, g.hooks) \in Seq(Pair)
  BY PairsAppend DEF AGroup
<1>4. Lists(G) \in Seq(Seq(Pair))
  <2>1. \A i \in 1..Len(G) : G[i] \in AGroup
    OBVIOUS
  <2>. DEFINE P(g) == PairsOf(g.matcher, g.hooks)
  <2>2. \A i \in 1..Len(G) : P(G[i]) \in Seq(Pair)
    BY <1>3, <2>1
  <2>3. Lists(G) = [i \in 1..Len(G) |-> P(G[i])]
    OBVIOUS
  <2>. HIDE DEF P
  <2>4. [i \in 1..Len(G) |-> P(G[i])] \in [1..Len(G) -> Seq(Pair)] /\ Len(G) \in Nat
    BY <2>2
  <2>5. [i \in 1..Len(G) |-> P(G[i])] \in Seq(Seq(Pair))
    BY <2>4
  <2>. QED
    BY <2>3, <2>5
<1>5. ASSUME NEW g \in AGroup
      PROVE  Lists(Append(G, g)) = Append(Lists(G), PairsOf(g.matcher, g.hooks))
  <2>. DEFINE P(x) == PairsOf(x.matcher, x.hooks)
  <2>1. Lists(Append(G, g)) = [i \in DOMAIN Append(G, g) |-> P(Append(G, g)[i])]
    OBVIOUS
  <2>2. Lists(G) = [i \in DOMAIN G |-> P(G[i])]
    OBVIOUS
  <2>. HIDE DEF P
  <2>3. [i \in DOMAIN Append(G, g) |-> P(Append(G, g)[i])] = Append([i \in DOMAIN G |-> P(G[i])], P(g))
    OBVIOUS
  <2>. QED
    BY <2>1, <2>2, <2>3 DEF P
<1>. HIDE DEF Lists
<1>6. HookedIn(<<>>) = <<>>
  BY <1>1, <1>2, FlattenNone
<1>7. HookedIn(G) \in Seq(Pair)
  BY <1>1, <1>4, FlattenTyped
<1>8. ASSUME NEW g \in AGroup
      PROVE  HookedIn(Append(G, g)) = HookedIn(G) \o PairsOf(g.matcher, g.hooks)
  <2>1. FlattenSeq(Append(Lists(G), PairsOf(g.matcher, g.hooks)))
          = FlattenSeq(Lists(G)) \o PairsOf(g.matcher, g.hooks)
    BY <1>3, <1>4, FlattenAppend
  <2>. QED
    BY <1>1, <1>5, <2>1
<1>. QED
  BY <1>6, <1>7, <1>8

-----------------------------------------------------------------------------
(* What is left of a group is a group with the same matcher.                *)
LEMMA RemainingIs ==
  ASSUME NEW g \in AGroup
  PROVE  /\ Remaining(g) \in AGroup
         /\ Remaining(g).matcher = g.matcher
         /\ Remaining(g).hooks = Without(g.hooks, Marked)
         /\ Remaining(g).hooks \in Seq(Commands \ Marked)
         /\ Remaining(g).hooks # <<>> => Remaining(g) \in Clean
         /\ g \in Clean => Remaining(g) = g /\ g.hooks # <<>>
         /\ g.hooks \in Seq(Marked) => Remaining(g).hooks = <<>>
<1>1. {c \in Commands : _is_ours(c)} = Marked
  BY InstallerAssumption DEF _is_ours
<1>2. g = [matcher |-> g.matcher, hooks |-> g.hooks] /\ g.hooks \in Seq(Commands) /\ g.matcher \in Matchers
  BY DEF AGroup
<1>. DEFINE w == Without(g.hooks, Marked)
<1>3. Remaining(g) = [matcher |-> g.matcher, hooks |-> w]
  <2>. DEFINE ours == {c \in Commands : _is_ours(c)}
  <2>1. Remaining(g) = [g EXCEPT !.hooks = Without(g.hooks, ours)]
    BY DEF Remaining
  <2>. HIDE DEF ours
  <2>2. Remaining(g) = [g EXCEPT !.hooks = w]
    BY <1>1, <2>1 DEF ours
  <2>. HIDE DEF w
  <2>. QED
    BY <1>2, <2>2
<1>4. w \in Seq(Commands) /\ w \in Seq(Commands \ Marked)
  BY <1>2, WithoutTyped, WithoutIs
<1>5. g \in Clean => w = g.hooks /\ g.hooks # <<>>
  <2>1. g \in Clean => g.hooks # <<>> /\ \A i \in 1..Len(g.hooks) : g.hooks[i] \notin Marked
    BY DEF Clean
  <2>. QED
    BY <1>2, <2>1, WithoutIs
<1>6. g.hooks \in Seq(Marked) => w = <<>>
  <2>1. g.hooks \in Seq(Marked) => \A i \in 1..Len(g.hooks) : g.hooks[i] \in Marked
    OBVIOUS
  <2>. QED
    BY <1>2, <2>1, WithoutIs
<1>. HIDE DEF w
<1>. QED
  BY <1>2, <1>3, <1>4, <1>5, <1>6 DEF AGroup, Clean, w

(* What _strip_ours leaves of some groups, and of one more.                 *)
LEMMA StripAppend ==
  ASSUME NEW G \in Seq(AGroup)
  PROVE  /\ _strip_ours(<<>>) = <<>>
         /\ \A g \in AGroup :
              _strip_ours(Append(G, g)) =
                IF Remaining(g).hooks = <<>> THEN _strip_ours(G)
                ELSE Append(_strip_ours(G), Remaining(g))
<1>. DEFINE Bare    == {g \in AGroup : Remaining(g).hooks = <<>>}
            Left(t) == [i \in DOMAIN t |-> Remaining(t[i])]
<1>1. ASSUME NEW t \in Seq(AGroup) PROVE _strip_ours(t) = Left(Without(t, Bare))
  <2>. DEFINE bare == {g \in ToSet(t) : Remaining(g).hooks = <<>>}
  <2>1. t \in Seq(ToSet(t)) /\ ToSet(t) \subseteq AGroup
    BY DEF ToSet
  <2>2. \A g \in ToSet(t) : g \in bare <=> g \in Bare
    BY <2>1
  <2>. HIDE DEF Bare, bare
  <2>3. Without(t, bare) = Without(t, Bare)
    BY <2>1, <2>2, WithoutSame
  <2>4. _strip_ours(t) = Left(Without(t, bare))
    BY DEF _strip_ours, bare
  <2>. QED
    BY <2>3, <2>4
<1>2. _strip_ours(<<>>) = <<>>
  <2>1. <<>> \in Seq(AGroup) /\ Left(<<>>) = <<>>
    OBVIOUS
  <2>. HIDE DEF Left, Bare
  <2>. QED
    BY <1>1, <2>1, WithoutNone
<1>3. ASSUME NEW g \in AGroup
      PROVE  _strip_ours(Append(G, g)) =
               IF Remaining(g).hooks = <<>> THEN _strip_ours(G)
               ELSE Append(_strip_ours(G), Remaining(g))
  <2>1. g \in Bare <=> Remaining(g).hooks = <<>>
    OBVIOUS
  <2>. HIDE DEF Bare
  <2>2. Without(Append(G, g), Bare) = IF g \in Bare THEN Without(G, Bare) ELSE Append(Without(G, Bare), g)
    BY WithoutAppend
  <2>3. Without(G, Bare) \in Seq(AGroup)
    BY WithoutTyped
  <2>4. \A t \in Seq(AGroup) : Left(Append(t, g)) = Append(Left(t), Remaining(g))
    OBVIOUS
  <2>5. Append(G, g) \in Seq(AGroup)
    OBVIOUS
  <2>. HIDE DEF Left
  <2>. QED
    BY <1>1, <2>1, <2>2, <2>3, <2>4, <2>5
<1>. QED
  BY <1>2, <1>3

-----------------------------------------------------------------------------
(* A clean group is a group.                                                *)
LEMMA CleanIs == Clean \subseteq AGroup
  BY DEF Clean, AGroup

(* What is stripped is clean; what was clean stays; ours leave nothing.     *)
LEMMA StripIs ==
  ASSUME NEW G \in Seq(AGroup)
  PROVE  /\ _strip_ours(G) \in Seq(Clean)
         /\ _strip_ours(G) \in Seq(AGroup)
         /\ HookedIn(_strip_ours(G)) = Without(HookedIn(G), Matchers \X Marked)
         /\ G \in Seq(Clean) => _strip_ours(G) = G
<1>. DEFINE M == Matchers \X Marked
            S(t) == _strip_ours(t)
            Right(t) == /\ S(t) \in Seq(Clean)
                        /\ HookedIn(S(t)) = Without(HookedIn(t), M)
                        /\ t \in Seq(Clean) => S(t) = t
            Good == {t \in Seq(AGroup) : Right(t)}
<1>1. <<>> \in Good
  <2>1. <<>> \in Seq(AGroup) /\ <<>> \in Seq(Clean)
    OBVIOUS
  <2>2. S(<<>>) = <<>> /\ HookedIn(<<>>) = <<>> /\ Without(<<>>, M) = <<>>
    BY <2>1, StripAppend, HookedAppend, WithoutNone
  <2>. QED
    BY <2>1, <2>2
<1>2. ASSUME NEW t \in Seq(AGroup), t \in Good, NEW g \in AGroup
      PROVE  Append(t, g) \in Good
  <2>. DEFINE u    == Append(t, g)
              left == Remaining(g)
              pg   == PairsOf(g.matcher, g.hooks)
              pl   == PairsOf(left.matcher, left.hooks)
  <2>1. S(u) = IF left.hooks = <<>> THEN S(t) ELSE Append(S(t), left)
    BY StripAppend
  <2>2. /\ left \in AGroup /\ left.matcher = g.matcher /\ left.hooks = Without(g.hooks, Marked)
        /\ left.hooks # <<>> => left \in Clean
        /\ g \in Clean => left = g /\ left.hooks # <<>>
    BY RemainingIs
  <2>3. Right(t) /\ S(t) \in Seq(Clean) /\ S(t) \in Seq(AGroup)
    BY <1>2, CleanIs
  <2>4. u \in Seq(AGroup) /\ (u \in Seq(Clean) => t \in Seq(Clean) /\ g \in Clean)
    <3>1. Len(u) = Len(t) + 1 /\ u[Len(t) + 1] = g /\ \A i \in 1..Len(t) : u[i] = t[i]
      OBVIOUS
    <3>2. u \in Seq(AGroup) /\ Len(t) \in Nat
      OBVIOUS
    <3>3. ASSUME u \in Seq(Clean) PROVE t \in Seq(Clean) /\ g \in Clean
      <4>. HIDE DEF u
      <4>1. \A i \in 1..Len(t) + 1 : u[i] \in Clean
        BY <3>1, <3>3
      <4>2. \A i \in 1..Len(t) : t[i] \in Clean
        BY <3>1, <3>2, <4>1
      <4>3. t \in [1..Len(t) -> Clean]
        BY <4>2
      <4>4. t \in Seq(Clean)
        BY <3>2, <4>3
      <4>. QED
        BY <3>1, <3>2, <4>1, <4>4
    <3>. QED
      BY <3>2, <3>3
  <2>5. /\ g.matcher \in Matchers /\ g.hooks \in Seq(Commands)
        /\ pg \in Seq(Pair) /\ pl = Without(pg, M)
    BY <2>2, PairsWithout, PairsAppend DEF AGroup
  <2>6. HookedIn(u) = HookedIn(t) \o pg /\ HookedIn(t) \in Seq(Pair)
    BY HookedAppend
  <2>7. Without(HookedIn(u), M) = Without(HookedIn(t), M) \o pl
    <3>. HIDE DEF M, u, pl, pg
    <3>. QED
      BY <2>5, <2>6, WithoutConcat
  <2>8. HookedIn(S(t)) = Without(HookedIn(t), M) /\ (t \in Seq(Clean) => S(t) = t)
    BY <2>3
  <2>9. HookedIn(S(t)) \in Seq(Pair)
    BY <2>3, HookedAppend
  <2>10. HookedIn(S(u)) = HookedIn(S(t)) \o pl
    <3>1. CASE left.hooks = <<>>
      <4>1. pl = <<>>
        BY <2>2, <2>5, <3>1, PairsAppend
      <4>2. HookedIn(S(t)) \o <<>> = HookedIn(S(t))
        BY <2>9
      <4>. HIDE DEF S, left, pl
      <4>. QED
        BY <2>1, <3>1, <4>1, <4>2
    <3>2. CASE left.hooks # <<>>
      <4>1. HookedIn(Append(S(t), left)) = HookedIn(S(t)) \o pl
        BY <2>2, <2>3, HookedAppend
      <4>. HIDE DEF S, left, pl
      <4>. QED
        BY <2>1, <3>2, <4>1
    <3>. QED
      BY <3>1, <3>2
  <2>11. S(u) \in Seq(Clean)
    <3>. HIDE DEF S, left
    <3>. QED
      BY <2>1, <2>2, <2>3
  <2>12. u \in Seq(Clean) => S(u) = u
    <3>1. u \in Seq(Clean) => S(u) = Append(t, g)
      <4>. HIDE DEF S, left, u
      <4>. QED
        BY <2>1, <2>2, <2>4, <2>8
    <3>. QED
      BY <3>1
  <2>13. Right(u)
    <3>. HIDE DEF S, u, M, pl
    <3>. QED
      BY <2>4, <2>7, <2>8, <2>10, <2>11, <2>12
  <2>. HIDE DEF Right
  <2>. QED
    BY <2>4, <2>13
<1>. HIDE DEF Good
<1>3. G \in Good
  BY <1>1, <1>2, SeqInduction
<1>4. Right(G)
  BY <1>3 DEF Good
<1>. QED
  BY <1>4, CleanIs

(* Everything that is hooked by clean groups is others'.                    *)
LEMMA HookedClean ==
  ASSUME NEW G \in Seq(Clean)
  PROVE  /\ HookedIn(G) \in Seq(Pair)
         /\ Without(HookedIn(G), Matchers \X Marked) = HookedIn(G)
         /\ Without(HookedIn(G), Matchers \X (Commands \ Marked)) = <<>>
<1>. DEFINE M == Matchers \X Marked
            F == Matchers \X (Commands \ Marked)
            q == HookedIn(G)
<1>1. G \in Seq(AGroup)
  BY CleanIs
<1>2. q = Without(q, M) /\ q \in Seq(Pair)
  BY <1>1, StripIs, HookedAppend
<1>3. Pair \ M \subseteq F
  BY DEF Pair
<1>. HIDE DEF M, F, q
<1>4. Without(q, M) \in Seq(Pair \ M)
  BY <1>2, WithoutIs
<1>5. \A i \in 1..Len(q) : q[i] \in F
  BY <1>2, <1>3, <1>4
<1>6. Without(q, F) = <<>>
  BY <1>2, <1>5, WithoutIs
<1>. QED
  BY <1>2, <1>6 DEF M, F, q

(* Groups among which none of ours is hooked and none is without hooks are  *)
(* clean.                                                                   *)
LEMMA TidyIsClean ==
  ASSUME NEW G \in Seq(AGroup),
         Without(HookedIn(G), Matchers \X (Commands \ Marked)) = <<>>,
         \A i \in DOMAIN G : G[i].hooks # <<>>
  PROVE  G \in Seq(Clean)
<1>. DEFINE F == Matchers \X (Commands \ Marked)
            Free(g) == \A j \in 1..Len(g.hooks) : g.hooks[j] \notin Marked
            AllFree(t) == Without(HookedIn(t), F) = <<>> => \A i \in 1..Len(t) : Free(t[i])
            Good == {t \in Seq(AGroup) : AllFree(t)}
<1>1. <<>> \in Good
  <2>1. <<>> \in Seq(AGroup) /\ 1..Len(<<>>) = {}
    OBVIOUS
  <2>. QED
    BY <2>1
<1>2. ASSUME NEW t \in Seq(AGroup), t \in Good, NEW g \in AGroup
      PROVE  Append(t, g) \in Good
  <2>. DEFINE u  == Append(t, g)
              pg == PairsOf(g.matcher, g.hooks)
  <2>. SUFFICES AllFree(u)
    <3>. HIDE DEF AllFree
    <3>. QED
      OBVIOUS
  <2>. SUFFICES ASSUME Without(HookedIn(u), F) = <<>>
                PROVE  \A i \in 1..Len(u) : Free(u[i])
    OBVIOUS
  <2>1. /\ g.matcher \in Matchers /\ g.hooks \in Seq(Commands) /\ pg \in Seq(Pair)
        /\ Len(pg) = Len(g.hooks) /\ \A j \in 1..Len(g.hooks) : pg[j] = <<g.matcher, g.hooks[j]>>
    BY PairsAppend DEF AGroup
  <2>2. HookedIn(u) = HookedIn(t) \o pg /\ HookedIn(t) \in Seq(Pair)
    BY HookedAppend
  <2>3. Without(HookedIn(u), F) = Without(HookedIn(t), F) \o Without(pg, F)
    <3>. HIDE DEF F, u, pg
    <3>. QED
      BY <2>1, <2>2, WithoutConcat
  <2>4. Without(HookedIn(t), F) \in Seq(Pair) /\ Without(pg, F) \in Seq(Pair)
    BY <2>1, <2>2, WithoutTyped
  <2>. HIDE DEF F, pg
  <2>5. Without(HookedIn(t), F) = <<>> /\ Without(pg, F) = <<>>
    <3>1. \A a, b \in Seq(Pair) : a \o b = <<>> => a = <<>> /\ b = <<>>
      OBVIOUS
    <3>. QED
      BY <2>3, <2>4, <3>1
  <2>6. \A j \in 1..Len(pg) : pg[j] \in F
    BY <2>1, <2>5, WithoutIs
  <2>7. Free(g)
    BY <2>1, <2>6 DEF F
  <2>8. \A i \in 1..Len(t) : Free(t[i])
    BY <1>2, <2>5
  <2>9. Len(u) = Len(t) + 1 /\ u[Len(t) + 1] = g /\ \A i \in 1..Len(t) : u[i] = t[i]
    OBVIOUS
  <2>10. Len(t) \in Nat
    OBVIOUS
  <2>. HIDE DEF u, Free
  <2>. QED
    BY <2>7, <2>8, <2>9, <2>10
<1>. HIDE DEF Good, F
<1>3. G \in Good
  BY <1>1, <1>2, SeqInduction
<1>4. \A i \in 1..Len(G) : Free(G[i])
  BY <1>3 DEF Good, F
<1>5. ASSUME NEW i \in 1..Len(G) PROVE G[i] \in Clean
  <2>. DEFINE g == G[i]
              h == g.hooks
  <2>1. g \in AGroup /\ h # <<>> /\ \A j \in 1..Len(h) : h[j] \notin Marked
    BY <1>4
  <2>2. g = [matcher |-> g.matcher, hooks |-> h] /\ g.matcher \in Matchers /\ h \in Seq(Commands)
    BY <2>1 DEF AGroup
  <2>. HIDE DEF g, h
  <2>3. \A j \in 1..Len(h) : h[j] \in Commands \ Marked
    BY <2>1, <2>2
  <2>4. h \in [1..Len(h) -> Commands \ Marked] /\ Len(h) \in Nat
    BY <2>2, <2>3
  <2>5. h \in Seq(Commands \ Marked)
    BY <2>4
  <2>6. g \in Clean
    BY <2>1, <2>2, <2>5 DEF Clean
  <2>. QED
    BY <2>6 DEF g
<1>6. G \in [1..Len(G) -> Clean] /\ Len(G) \in Nat
  BY <1>5
<1>. QED
  BY <1>6

(* A group of ours behind others is stripped to nothing.                    *)
LEMMA StripOurGroup ==
  ASSUME NEW G \in Seq(AGroup), NEW p \in Marked
  PROVE  /\ _our_group(p) \in AGroup
         /\ _strip_ours(Append(G, _our_group(p))) = _strip_ours(G)
         /\ PairsOf(_our_group(p).matcher, _our_group(p).hooks) = << <<"none", p>> >>
<1>. DEFINE g == _our_group(p)
<1>1. g \in AGroup /\ g.hooks = <<p>> /\ g.matcher = "none" /\ g.hooks \in Seq(Marked)
  BY InstallerAssumption DEF _our_group, Group, AGroup, Matchers
<1>2. Remaining(g).hooks = <<>>
  BY <1>1, RemainingIs
<1>3. PairsOf("none", <<p>>) = << <<"none", p>> >>
  BY DEF PairsOf
<1>. HIDE DEF g
<1>4. _strip_ours(Append(G, g)) = _strip_ours(G)
  BY <1>1, <1>2, StripAppend
<1>. QED
  BY <1>1, <1>3, <1>4 DEF g

-----------------------------------------------------------------------------
(* What the groups of a target event are merged to.                         *)
Merged(s, e, p, install) ==
  _strip_ours(Groups(s, e)) \o (IF install THEN <<_our_group(p)>> ELSE <<>>)

(* The groups of an event, and what they are merged to, are groups.         *)
LEMMA MergedIs ==
  ASSUME NEW s, IsSettings(s), NEW e, NEW p \in Commands, NEW install \in BOOLEAN
  PROVE  /\ Groups(s, e) \in Seq(AGroup)
         /\ Merged(s, e, p, install) \in Seq(AGroup)
         /\ install => /\ Merged(s, e, p, install) = Append(_strip_ours(Groups(s, e)), _our_group(p))
                       /\ Merged(s, e, p, install) # <<>>
         /\ ~install => Merged(s, e, p, install) = _strip_ours(Groups(s, e))
<1>1. Groups(s, e) \in Seq(AGroup)
  BY DEF Groups, IsSettings
<1>. DEFINE kept == _strip_ours(Groups(s, e))
            g    == _our_group(p)
<1>2. kept \in Seq(AGroup)
  BY <1>1, StripIs
<1>3. g \in AGroup
  BY DEF _our_group, Group, AGroup, Matchers
<1>4. Merged(s, e, p, install) = kept \o (IF install THEN <<g>> ELSE <<>>)
  BY DEF Merged
<1>. HIDE DEF kept, g
<1>5. CASE install
  <2>1. kept \o <<g>> = Append(kept, g) /\ Append(kept, g) \in Seq(AGroup) /\ Append(kept, g) # <<>>
    BY <1>2, <1>3
  <2>. QED
    BY <1>1, <1>4, <1>5, <2>1 DEF kept, g
<1>6. CASE ~install
  <2>1. kept \o <<>> = kept
    BY <1>2
  <2>. QED
    BY <1>1, <1>2, <1>4, <1>6, <2>1 DEF kept
<1>. QED
  BY <1>5, <1>6

(* What build_updated_settings changes, and what it leaves.                 *)
LEMMA BuildIs ==
  ASSUME NEW s, IsSettings(s), NEW p \in Commands, NEW install \in BOOLEAN
  PROVE  LET b == build_updated_settings(s, p, install)
         IN  /\ IsSettings(b) /\ b.rest = s.rest
             /\ b.keyed = (DOMAIN b.hooks # {})
             /\ DOMAIN b.hooks = (DOMAIN s.hooks \ TARGET_HOOK_EVENTS)
                                   \cup {e \in TARGET_HOOK_EVENTS : Merged(s, e, p, install) # <<>>}
             /\ \A e \in TARGET_HOOK_EVENTS : Groups(b, e) = Merged(s, e, p, install)
             /\ \A e : e \notin TARGET_HOOK_EVENTS => Groups(b, e) = Groups(s, e)
<1>. DEFINE T      == TARGET_HOOK_EVENTS
            M(e)   == Merged(s, e, p, install)
            events == (DOMAIN s.hooks \ T) \cup {e \in T : M(e) # <<>>}
            H      == [e \in events |-> IF e \in T THEN M(e) ELSE s.hooks[e]]
            b      == build_updated_settings(s, p, install)
<1>1. b = [s EXCEPT !.keyed = events # {}, !.hooks = H]
  BY DEF build_updated_settings, Merged
<1>2. /\ s = [rest |-> s.rest, keyed |-> s.keyed, hooks |-> s.hooks]
      /\ s.rest \in Rests \cup {"none"} /\ s.keyed \in BOOLEAN
      /\ DOMAIN s.hooks \subseteq Events /\ s.hooks \in [DOMAIN s.hooks -> Seq(AGroup)]
  BY DEF IsSettings
<1>3. \A e \in T : M(e) \in Seq(AGroup)
  BY MergedIs
<1>4. events \subseteq Events
  BY <1>2, InstallerAssumption
<1>. HIDE DEF M, b
<1>5. H \in [events -> Seq(AGroup)] /\ DOMAIN H = events
      /\ \A e \in events : H[e] = IF e \in T THEN M(e) ELSE s.hooks[e]
  BY <1>2, <1>3
<1>6. \A e \in T : (IF e \in events THEN H[e] ELSE <<>>) = M(e)
  BY <1>5
<1>7. \A e : e \notin T => (IF e \in events THEN H[e] ELSE <<>>) = Groups(s, e)
  BY <1>5 DEF Groups
<1>8. DOMAIN s.hooks \ T \subseteq events
      /\ events = (DOMAIN s.hooks \ T) \cup {e \in T : M(e) # <<>>}
  OBVIOUS
<1>. HIDE DEF H, events, T
<1>9. b = [rest |-> s.rest, keyed |-> events # {}, hooks |-> H]
  BY <1>1, <1>2
<1>10. b.rest = s.rest /\ b.keyed = (events # {}) /\ b.hooks = H
  BY <1>9
<1>11. \A e : Groups(b, e) = IF e \in events THEN H[e] ELSE <<>>
  BY <1>5, <1>10 DEF Groups
<1>12. IsSettings(b)
  BY <1>2, <1>4, <1>5, <1>9, <1>10 DEF IsSettings
<1>13. DOMAIN b.hooks = (DOMAIN s.hooks \ T) \cup {e \in T : M(e) # <<>>}
  BY <1>5, <1>8, <1>10
<1>14. b.keyed = (DOMAIN b.hooks # {})
  BY <1>5, <1>10
<1>15. (\A e \in T : Groups(b, e) = M(e)) /\ \A e : e \notin T => Groups(b, e) = Groups(s, e)
  BY <1>6, <1>7, <1>11
<1>. QED
  BY <1>10, <1>12, <1>13, <1>14, <1>15 DEF b, M, T

(* Settings are the same if all they are made of is.                        *)
LEMMA SameSettings ==
  ASSUME NEW a, NEW b, IsSettings(a), IsSettings(b), a.rest = b.rest, a.keyed = b.keyed,
         DOMAIN a.hooks = DOMAIN b.hooks, \A e \in DOMAIN a.hooks : Groups(a, e) = Groups(b, e)
  PROVE  a = b
<1>1. \A e \in DOMAIN a.hooks : a.hooks[e] = b.hooks[e]
  BY DEF Groups
<1>2. a.hooks = [e \in DOMAIN a.hooks |-> a.hooks[e]] /\ b.hooks = [e \in DOMAIN b.hooks |-> b.hooks[e]]
  BY DEF IsSettings
<1>3. a.hooks = b.hooks
  BY <1>1, <1>2
<1>. QED
  BY <1>3 DEF IsSettings

(* What a run asked for is what the merge makes: others' hooks stay in      *)
(* their order, and ours are there once or not at all.                      *)
LEMMA MergeDelivers ==
  ASSUME NEW s, IsSettings(s), NEW p \in Marked, NEW install \in BOOLEAN
  PROVE  LET new == build_updated_settings(s, p, install)
         IN  /\ new.rest = s.rest
             /\ \A e \in Events : Others(new, e) = Others(s, e)
             /\ \A e \in TARGET_HOOK_EVENTS :
                  Ours(new, e) = IF install THEN << <<"none", p>> >> ELSE <<>>
             /\ \A e \in Events \ TARGET_HOOK_EVENTS : Groups(new, e) = Groups(s, e)
<1>. DEFINE new == build_updated_settings(s, p, install)
            M   == Matchers \X Marked
            F   == Matchers \X (Commands \ Marked)
            pair == <<"none", p>>
<1>1. p \in Commands
  BY InstallerAssumption
<1>2. /\ new.rest = s.rest
      /\ \A e \in TARGET_HOOK_EVENTS : Groups(new, e) = Merged(s, e, p, install)
      /\ \A e : e \notin TARGET_HOOK_EVENTS => Groups(new, e) = Groups(s, e)
  BY <1>1, BuildIs
<1>3. \A t, e : Hooked(t, e) = HookedIn(Groups(t, e))
  BY DEF Hooked, HookedIn
<1>4. \A t, e : Others(t, e) = Without(Hooked(t, e), M) /\ Ours(t, e) = Without(Hooked(t, e), F)
  BY DEF Others, Ours
<1>5. pair \in Pair /\ pair \in M /\ pair \notin F
  BY <1>1 DEF Pair, Matchers
<1>. HIDE DEF new
<1>6. ASSUME NEW e \in TARGET_HOOK_EVENTS
      PROVE  /\ Others(new, e) = Others(s, e)
             /\ Ours(new, e) = IF install THEN << pair >> ELSE <<>>
  <2>. DEFINE G    == Groups(s, e)
              kept == _strip_ours(G)
              q    == HookedIn(kept)
  <2>1. G \in Seq(AGroup) /\ Hooked(new, e) = HookedIn(Merged(s, e, p, install))
    BY <1>1, <1>2, <1>3, MergedIs
  <2>2. kept \in Seq(Clean) /\ kept \in Seq(AGroup) /\ q = Without(HookedIn(G), M)
    BY <2>1, StripIs
  <2>3. q \in Seq(Pair) /\ Without(q, M) = q /\ Without(q, F) = <<>>
    BY <2>2, HookedClean
  <2>4. Others(s, e) = q
    BY <1>3, <1>4, <2>2
  <2>. HIDE DEF q, kept, G
  <2>5. CASE install
    <3>1. Hooked(new, e) = HookedIn(Append(kept, _our_group(p)))
      BY <1>1, <2>1, <2>5, MergedIs DEF kept, G
    <3>2. HookedIn(Append(kept, _our_group(p))) = q \o <<pair>>
      BY <2>1, <2>2, StripOurGroup, HookedAppend DEF q
    <3>3. Hooked(new, e) = Append(q, pair)
      BY <2>3, <3>1, <3>2
    <3>. HIDE DEF M, F, pair
    <3>4. Without(Append(q, pair), M) = q
      BY <1>5, <2>3, WithoutAppend
    <3>5. Without(Append(q, pair), F) = Append(Without(q, F), pair)
      <4>1. q \in Seq(Pair) /\ pair \in Pair
        BY <1>5, <2>3
      <4>2. Without(Append(q, pair), F) =
              IF pair \in F THEN Without(q, F) ELSE Append(Without(q, F), pair)
        BY <4>1, WithoutAppend
      <4>. QED
        BY <1>5, <4>2
    <3>6. Append(Without(q, F), pair) = <<pair>>
      BY <2>3
    <3>. QED
      BY <1>4, <2>4, <2>5, <3>3, <3>4, <3>5, <3>6
  <2>6. CASE ~install
    <3>1. Hooked(new, e) = q
      BY <1>1, <2>1, <2>6, MergedIs DEF q, kept, G
    <3>. HIDE DEF M, F, pair
    <3>. QED
      BY <1>4, <2>3, <2>4, <2>6, <3>1
  <2>. QED
    BY <2>5, <2>6
<1>7. ASSUME NEW e \in Events, e \notin TARGET_HOOK_EVENTS
      PROVE  Others(new, e) = Others(s, e) /\ Groups(new, e) = Groups(s, e)
  BY <1>2, <1>3, <1>4, <1>7
<1>. HIDE DEF M, F
<1>. QED
  BY <1>2, <1>6, <1>7 DEF new

(* Settings that differ in ours only, and in groups without hooks.          *)
Alike(a, b) ==
  /\ IsSettings(a) /\ IsSettings(b) /\ a.rest = b.rest
  /\ DOMAIN a.hooks \ TARGET_HOOK_EVENTS = DOMAIN b.hooks \ TARGET_HOOK_EVENTS
  /\ \A e \in TARGET_HOOK_EVENTS : _strip_ours(Groups(a, e)) = _strip_ours(Groups(b, e))
  /\ \A e : e \notin TARGET_HOOK_EVENTS => Groups(a, e) = Groups(b, e)

(* b is what an install of p makes of settings like s.                      *)
InstalledOn(b, s, p) ==
  /\ Alike(b, s) /\ b.keyed = (DOMAIN b.hooks # {})
  /\ TARGET_HOOK_EVENTS \subseteq DOMAIN b.hooks
  /\ \A e \in TARGET_HOOK_EVENTS :
       Groups(b, e) = Append(_strip_ours(Groups(s, e)), _our_group(p))

(* b is what an uninstall makes of settings like s.                         *)
TakenFrom(b, s) ==
  /\ Alike(b, s) /\ b.keyed = (DOMAIN b.hooks # {})
  /\ \A e \in TARGET_HOOK_EVENTS :
       /\ e \in DOMAIN b.hooks <=> _strip_ours(Groups(s, e)) # <<>>
       /\ Groups(b, e) = _strip_ours(Groups(s, e))

(* What an install makes is so.                                             *)
LEMMA InstalledIs ==
  ASSUME NEW s, IsSettings(s), NEW p \in Marked
  PROVE  InstalledOn(build_updated_settings(s, p, TRUE), s, p)
<1>. DEFINE b == build_updated_settings(s, p, TRUE)
            T == TARGET_HOOK_EVENTS
            Strip(e) == _strip_ours(Groups(s, e))
<1>1. p \in Commands
  BY InstallerAssumption
<1>2. \A e : /\ Merged(s, e, p, TRUE) = Append(Strip(e), _our_group(p))
              /\ Merged(s, e, p, TRUE) # <<>>
  BY <1>1, MergedIs
<1>3. /\ IsSettings(b) /\ b.rest = s.rest
      /\ b.keyed = (DOMAIN b.hooks # {})
      /\ DOMAIN b.hooks = (DOMAIN s.hooks \ T) \cup {e \in T : Merged(s, e, p, TRUE) # <<>>}
      /\ \A e \in T : Groups(b, e) = Merged(s, e, p, TRUE)
      /\ \A e : e \notin T => Groups(b, e) = Groups(s, e)
  BY <1>1, BuildIs
<1>4. ASSUME NEW e PROVE _strip_ours(Append(Strip(e), _our_group(p))) = Strip(e)
  <2>1. Groups(s, e) \in Seq(AGroup)
    BY <1>1, MergedIs
  <2>2. Strip(e) \in Seq(AGroup) /\ Strip(e) \in Seq(Clean)
    BY <2>1, StripIs
  <2>. HIDE DEF Strip
  <2>3. _strip_ours(Strip(e)) = Strip(e)
    BY <2>2, StripIs
  <2>. QED
    BY <2>2, <2>3, StripOurGroup
<1>. HIDE DEF b
<1>5. \A e \in T : _strip_ours(Groups(b, e)) = Strip(e)
  BY <1>2, <1>3, <1>4
<1>6. DOMAIN b.hooks = (DOMAIN s.hooks \ T) \cup T
  BY <1>2, <1>3
<1>7. Alike(b, s)
  BY <1>3, <1>5, <1>6 DEF Alike
<1>. QED
  BY <1>2, <1>3, <1>6, <1>7 DEF InstalledOn, b

(* What an uninstall makes is so.                                           *)
LEMMA TakenIs ==
  ASSUME NEW s, IsSettings(s), NEW p \in Marked
  PROVE  TakenFrom(build_updated_settings(s, p, FALSE), s)
<1>. DEFINE b == build_updated_settings(s, p, FALSE)
            T == TARGET_HOOK_EVENTS
            Strip(e) == _strip_ours(Groups(s, e))
<1>1. p \in Commands
  BY InstallerAssumption
<1>2. \A e : Merged(s, e, p, FALSE) = Strip(e)
  BY <1>1, MergedIs
<1>3. /\ IsSettings(b) /\ b.rest = s.rest
      /\ b.keyed = (DOMAIN b.hooks # {})
      /\ DOMAIN b.hooks = (DOMAIN s.hooks \ T) \cup {e \in T : Merged(s, e, p, FALSE) # <<>>}
      /\ \A e \in T : Groups(b, e) = Merged(s, e, p, FALSE)
      /\ \A e : e \notin T => Groups(b, e) = Groups(s, e)
  BY <1>1, BuildIs
<1>4. ASSUME NEW e PROVE _strip_ours(Strip(e)) = Strip(e)
  <2>1. Groups(s, e) \in Seq(AGroup)
    BY <1>1, MergedIs
  <2>2. Strip(e) \in Seq(AGroup) /\ Strip(e) \in Seq(Clean)
    BY <2>1, StripIs
  <2>. HIDE DEF Strip
  <2>. QED
    BY <2>2, StripIs
<1>. HIDE DEF b
<1>5. \A e \in T : _strip_ours(Groups(b, e)) = Strip(e)
  BY <1>2, <1>3, <1>4
<1>6. DOMAIN b.hooks \ T = DOMAIN s.hooks \ T
      /\ \A e \in T : e \in DOMAIN b.hooks <=> Strip(e) # <<>>
  <2>. HIDE DEF Strip
  <2>. QED
    BY <1>2, <1>3
<1>7. Alike(b, s)
  BY <1>3, <1>5, <1>6 DEF Alike
<1>. QED
  BY <1>2, <1>3, <1>6, <1>7 DEF TakenFrom, b

(* What is made of settings that are alike is the same.                     *)
LEMMA AlikeMerged ==
  ASSUME NEW a, NEW b, NEW s, NEW t, Alike(s, t)
  PROVE  /\ \A p : InstalledOn(a, s, p) /\ InstalledOn(b, t, p) => a = b
         /\ TakenFrom(a, s) /\ TakenFrom(b, t) => a = b
<1>. DEFINE T == TARGET_HOOK_EVENTS
<1>1. ASSUME NEW p, InstalledOn(a, s, p), InstalledOn(b, t, p) PROVE a = b
  <2>1. Alike(a, s) /\ Alike(b, t)
    BY <1>1 DEF InstalledOn
  <2>2. DOMAIN a.hooks = DOMAIN b.hooks
    BY <1>1, <2>1 DEF InstalledOn, Alike
  <2>3. \A e : Groups(a, e) = Groups(b, e)
    <3>1. \A e \in T : Groups(a, e) = Groups(b, e)
      BY <1>1 DEF InstalledOn, Alike
    <3>2. \A e : e \notin T => Groups(a, e) = Groups(b, e)
      BY <2>1 DEF Alike
    <3>. QED
      BY <3>1, <3>2
  <2>4. IsSettings(a) /\ IsSettings(b) /\ a.rest = b.rest /\ a.keyed = b.keyed
    BY <1>1, <2>1, <2>2 DEF InstalledOn, Alike
  <2>. QED
    BY <2>2, <2>3, <2>4, SameSettings
<1>2. ASSUME TakenFrom(a, s), TakenFrom(b, t) PROVE a = b
  <2>1. Alike(a, s) /\ Alike(b, t)
    BY <1>2 DEF TakenFrom
  <2>2. DOMAIN a.hooks = DOMAIN b.hooks
    <3>1. \A e \in T : e \in DOMAIN a.hooks <=> e \in DOMAIN b.hooks
      BY <1>2 DEF TakenFrom, Alike
    <3>2. DOMAIN a.hooks \ T = DOMAIN b.hooks \ T
      BY <2>1 DEF Alike
    <3>. QED
      BY <3>1, <3>2
  <2>3. \A e : Groups(a, e) = Groups(b, e)
    <3>1. \A e \in T : Groups(a, e) = Groups(b, e)
      BY <1>2 DEF TakenFrom, Alike
    <3>2. \A e : e \notin T => Groups(a, e) = Groups(b, e)
      BY <2>1 DEF Alike
    <3>. QED
      BY <3>1, <3>2
  <2>4. IsSettings(a) /\ IsSettings(b) /\ a.rest = b.rest /\ a.keyed = b.keyed
    BY <1>2, <2>1, <2>2 DEF TakenFrom, Alike
  <2>. QED
    BY <2>2, <2>3, <2>4, SameSettings
<1>. QED
  BY <1>1, <1>2

(* There is nothing to take from tidy settings.                             *)
LEMMA TidyTaken ==
  ASSUME NEW s, IsSettings(s), Tidy(s)
  PROVE  TakenFrom(s, s)
<1>1. Alike(s, s)
  BY DEF Alike
<1>2. s.keyed = (DOMAIN s.hooks # {})
  BY DEF Tidy, IsSettings
<1>3. ASSUME NEW e \in TARGET_HOOK_EVENTS, e \in DOMAIN s.hooks
      PROVE  _strip_ours(Groups(s, e)) = Groups(s, e) /\ Groups(s, e) # <<>>
  <2>. DEFINE G == Groups(s, e)
  <2>1. G = s.hooks[e] /\ G # <<>> /\ Ours(s, e) = <<>> /\ \A i \in DOMAIN G : G[i].hooks # <<>>
    BY <1>3 DEF Tidy, Groups
  <2>2. Ours(s, e) = Without(HookedIn(G), Matchers \X (Commands \ Marked))
    BY DEF Ours, Hooked, HookedIn
  <2>3. G \in Seq(AGroup)
    BY DEF Groups, IsSettings
  <2>. HIDE DEF G
  <2>4. G \in Seq(Clean)
    BY <2>1, <2>2, <2>3, TidyIsClean
  <2>5. _strip_ours(G) = G
    BY <2>3, <2>4, StripIs
  <2>. QED
    BY <2>1, <2>5 DEF G
<1>4. ASSUME NEW e \in TARGET_HOOK_EVENTS, e \notin DOMAIN s.hooks
      PROVE  _strip_ours(Groups(s, e)) = <<>> /\ Groups(s, e) = <<>>
  <2>1. Groups(s, e) = <<>> /\ <<>> \in Seq(AGroup)
    BY <1>4 DEF Groups
  <2>. QED
    BY <2>1, StripAppend
<1>. QED
  BY <1>1, <1>2, <1>3, <1>4 DEF TakenFrom

(* Settings of which nothing is taken, and that have no hook of ours, are   *)
(* tidy.                                                                    *)
LEMMA TakenTidy ==
  ASSUME NEW s, TakenFrom(s, s), \A e \in TARGET_HOOK_EVENTS : Ours(s, e) = <<>>
  PROVE  Tidy(s)
<1>1. IsSettings(s) /\ s.keyed = (DOMAIN s.hooks # {})
  BY DEF TakenFrom, Alike
<1>2. s.keyed \in BOOLEAN
  BY <1>1 DEF IsSettings
<1>3. ASSUME NEW e \in TARGET_HOOK_EVENTS \cap DOMAIN s.hooks
      PROVE  s.hooks[e] # <<>> /\ \A i \in DOMAIN s.hooks[e] : s.hooks[e][i].hooks # <<>>
  <2>. DEFINE G == s.hooks[e]
  <2>1. Groups(s, e) = G /\ G \in Seq(AGroup)
    BY <1>1 DEF Groups, IsSettings
  <2>2. G # <<>> /\ G = _strip_ours(G)
    BY <2>1 DEF TakenFrom
  <2>. HIDE DEF G
  <2>3. G \in Seq(Clean)
    BY <2>1, <2>2, StripIs
  <2>4. \A i \in DOMAIN G : G[i] \in Clean
    BY <2>3
  <2>5. \A g \in Clean : g.hooks # <<>>
    BY DEF Clean
  <2>. QED
    BY <2>2, <2>4, <2>5 DEF G
<1>. QED
  BY <1>1, <1>2, <1>3 DEF Tidy

(* Installs and uninstalls in a row, of whatever settings.                  *)
LEMMA MergesInARow ==
  ASSUME NEW s, IsSettings(s), NEW p \in Marked, NEW q \in Marked
  PROVE  LET installed   == build_updated_settings(s, p, TRUE)
             uninstalled == build_updated_settings(installed, p, FALSE)
         IN  /\ build_updated_settings(installed, q, TRUE) = build_updated_settings(s, q, TRUE)
             /\ uninstalled = build_updated_settings(s, q, FALSE)
             /\ build_updated_settings(uninstalled, q, FALSE) = uninstalled
             /\ Tidy(s) <=> uninstalled = s
<1>. DEFINE B(t, path, install) == build_updated_settings(t, path, install)
            In  == B(s, p, TRUE)
            Out == B(In, p, FALSE)
<1>1. InstalledOn(In, s, p) /\ InstalledOn(B(s, q, TRUE), s, q)
  BY InstalledIs
<1>2. Alike(In, s) /\ IsSettings(In)
  BY <1>1 DEF InstalledOn, Alike
<1>. HIDE DEF In
<1>3. InstalledOn(B(In, q, TRUE), In, q) /\ TakenFrom(Out, In) /\ TakenFrom(B(s, q, FALSE), s)
  BY <1>2, InstalledIs, TakenIs
<1>4. Alike(Out, In) /\ IsSettings(Out)
  BY <1>3 DEF TakenFrom, Alike
<1>. HIDE DEF Out
<1>5. TakenFrom(B(Out, q, FALSE), Out)
  BY <1>4, TakenIs
<1>. HIDE DEF B
<1>6. B(In, q, TRUE) = B(s, q, TRUE)
  BY <1>1, <1>2, <1>3, AlikeMerged
<1>7. Out = B(s, q, FALSE)
  BY <1>2, <1>3, AlikeMerged
<1>8. B(Out, q, FALSE) = Out
  BY <1>3, <1>4, <1>5, AlikeMerged
<1>9. Tidy(s) => Out = s
  BY <1>2, <1>3, TidyTaken, AlikeMerged
<1>10. ASSUME Out = s PROVE Tidy(s)
  <2>1. TakenFrom(s, s)
    BY <1>3, <1>7, <1>10
  <2>2. s = build_updated_settings(s, q, FALSE)
    BY <1>7, <1>10 DEF B
  <2>3. \A e \in TARGET_HOOK_EVENTS : Ours(build_updated_settings(s, q, FALSE), e) = <<>>
    BY MergeDelivers
  <2>4. \A e \in TARGET_HOOK_EVENTS : Ours(s, e) = <<>>
    BY <2>2, <2>3
  <2>. QED
    BY <2>1, <2>4, TakenTidy
<1>. QED
  BY <1>6, <1>7, <1>8, <1>9, <1>10 DEF B, In, Out

-----------------------------------------------------------------------------
(* While a run is on its way it has its arguments, and no outcome yet.      *)
Asked == pc # "idle" => args \in Args /\ outcome = "none"

(* When it is done, and nobody has written since it read the file, the file *)
(* is what it was to be.                                                    *)
Reported == outcome = "done" /\ ~edited => Read = updated

(* The invariant.                                                           *)
Sure == TypeOK /\ SettingsWhole /\ Asked /\ Reported

(* What is read of a content, and what holds settings.                      *)
LEMMA Contents ==
  /\ IsContent(Absent) /\ IsContent(Torn) /\ IsContent(Broken)
  /\ \A s : IsSettings(s) => IsContent(Holds(s))
  /\ \A s : Holds(s).kind = "settings" /\ Holds(s).is = s
  /\ \A c : IsContent(c) /\ c.kind = "settings" => c = Holds(c.is) /\ IsSettings(c.is)
  /\ IsSettings(Empty) /\ Absent.kind # "settings"
<1>1. \A s : Holds(s).kind = "settings" /\ Holds(s).is = s
  BY DEF Holds
<1>2. Absent.kind = "absent" /\ Torn.kind = "torn" /\ Broken.kind = "broken"
  BY DEF Absent, Torn, Broken
<1>3. IsSettings(Empty)
  <2>1. DOMAIN NoHooks = {} /\ NoHooks \in [{} -> Seq(AGroup)]
    BY DEF NoHooks
  <2>2. Empty.rest = "none" /\ Empty.keyed = FALSE /\ Empty.hooks = NoHooks
        /\ Empty = [rest |-> "none", keyed |-> FALSE, hooks |-> NoHooks]
    BY DEF Empty
  <2>. QED
    BY <2>1, <2>2 DEF IsSettings
<1>4. \A s : IsSettings(s) => IsContent(Holds(s))
  BY <1>1 DEF IsContent
<1>5. \A c : IsContent(c) /\ c.kind = "settings" => c = Holds(c.is) /\ IsSettings(c.is)
  BY <1>2 DEF IsContent
<1>. QED
  BY <1>1, <1>2, <1>3, <1>4, <1>5 DEF IsContent

(* Settings with an event's groups replaced are settings.                   *)
LEMMA PutTyped ==
  ASSUME NEW s, IsSettings(s), NEW event \in Events, NEW groups \in Seq(AGroup)
  PROVE  IsSettings([ s EXCEPT
           !.keyed = TRUE,
           !.hooks = [e \in DOMAIN @ \cup {event} |-> IF e = event THEN groups ELSE @[e]] ])
<1>. DEFINE H == [e \in DOMAIN s.hooks \cup {event} |-> IF e = event THEN groups ELSE s.hooks[e]]
            b == [s EXCEPT !.keyed = TRUE, !.hooks = H]
<1>1. /\ s = [rest |-> s.rest, keyed |-> s.keyed, hooks |-> s.hooks]
      /\ s.rest \in Rests \cup {"none"}
      /\ DOMAIN s.hooks \subseteq Events /\ s.hooks \in [DOMAIN s.hooks -> Seq(AGroup)]
  BY DEF IsSettings
<1>2. H \in [DOMAIN s.hooks \cup {event} -> Seq(AGroup)] /\ DOMAIN H \subseteq Events
  BY <1>1
<1>3. DOMAIN H = DOMAIN s.hooks \cup {event}
  OBVIOUS
<1>. HIDE DEF H
<1>4. b = [rest |-> s.rest, keyed |-> TRUE, hooks |-> H]
  <2>1. b = [s EXCEPT !.keyed = TRUE, !.hooks = H]
    OBVIOUS
  <2>. HIDE DEF b
  <2>. QED
    BY <1>1, <2>1
<1>5. b.rest = s.rest /\ b.keyed = TRUE /\ b.hooks = H
  BY <1>4
<1>. HIDE DEF b
<1>6. IsSettings(b)
  BY <1>1, <1>2, <1>3, <1>4, <1>5 DEF IsSettings
<1>. QED
  BY <1>6 DEF b, H

(* What others may leave in the file is content.                            *)
LEMMA EditTyped ==
  ASSUME TypeOK, Edit
  PROVE  /\ IsContent(file') /\ edits' \in 0..MaxEdits /\ edited' = TRUE /\ gap' = TRUE
         /\ UNCHANGED <<tmp, backups, run, second, runs, pc, outcome, replaced>>
<1>1. \A content : Writes(content) =>
        /\ file' = content
        /\ edits' \in 0..MaxEdits /\ edited' = TRUE /\ gap' = TRUE
        /\ UNCHANGED <<tmp, backups, run, second, runs, pc, outcome, replaced>>
  BY InstallerAssumption DEF Writes, TypeOK
<1>. DEFINE s == file.is
<1>2. file.kind = "settings" => IsSettings(s)
  BY Contents DEF TypeOK
<1>3. ASSUME file.kind = "settings", NEW e \in Events, NEW g \in Seq(AGroup), PutHooks(e, g)
      PROVE  IsContent(file') /\ \E content : Writes(content)
  <2>. DEFINE new == [ s EXCEPT
                 !.keyed = TRUE,
                 !.hooks = [x \in DOMAIN @ \cup {e} |-> IF x = e THEN g ELSE @[x]] ]
  <2>1. Writes(Holds(new))
    BY <1>3 DEF PutHooks
  <2>2. IsSettings(new)
    BY <1>2, <1>3, PutTyped
  <2>. HIDE DEF new
  <2>. QED
    BY <1>1, <2>1, <2>2, Contents
<1>4. CASE /\ file.kind = "settings"
           /\ \E e \in Events, c \in Commands \ Marked :
                LET groups == Groups(s, e)
                IN \/ PutHooks(e, Append(groups, Group("any", <<c>>)))
                   \/ \E i \in DOMAIN groups :
                        \/ PutHooks(e, [groups EXCEPT ![i].hooks = Append(@, c)])
                        \/ /\ groups[i].hooks # <<>>
                           /\ PutHooks(e, [groups EXCEPT ![i].hooks = Tail(@)])
  <2>1. PICK e \in Events, c \in Commands \ Marked :
          LET groups == Groups(s, e)
          IN \/ PutHooks(e, Append(groups, Group("any", <<c>>)))
             \/ \E i \in DOMAIN groups :
                  \/ PutHooks(e, [groups EXCEPT ![i].hooks = Append(@, c)])
                  \/ /\ groups[i].hooks # <<>>
                     /\ PutHooks(e, [groups EXCEPT ![i].hooks = Tail(@)])
    BY <1>4
  <2>. DEFINE G == Groups(s, e)
  <2>2. G \in Seq(AGroup)
    <3>1. IsSettings(s)
      BY <1>2, <1>4
    <3>. HIDE DEF s
    <3>. QED
      BY <3>1 DEF Groups, IsSettings
  <2>. HIDE DEF G
  <2>3. Append(G, Group("any", <<c>>)) \in Seq(AGroup)
    BY <2>2 DEF Group, AGroup, Matchers
  <2>4. ASSUME NEW i \in DOMAIN G
        PROVE  /\ [G EXCEPT ![i].hooks = Append(@, c)] \in Seq(AGroup)
               /\ G[i].hooks # <<>> => [G EXCEPT ![i].hooks = Tail(@)] \in Seq(AGroup)
    <3>1. G[i] \in AGroup /\ G[i].hooks \in Seq(Commands) /\ i \in 1..Len(G)
      <4>1. G[i] \in AGroup /\ i \in 1..Len(G)
        BY <2>2
      <4>. QED
        BY <4>1 DEF AGroup
    <3>2. Append(G[i].hooks, c) \in Seq(Commands)
          /\ (G[i].hooks # <<>> => Tail(G[i].hooks) \in Seq(Commands))
      BY <3>1
    <3>3. \A h \in Seq(Commands) : [G[i] EXCEPT !.hooks = h] \in AGroup
      BY <3>1 DEF AGroup
    <3>4. \A g \in AGroup : [G EXCEPT ![i] = g] \in Seq(AGroup)
      BY <2>2
    <3>. QED
      BY <3>2, <3>3, <3>4
  <2>5. PICK g \in Seq(AGroup) : PutHooks(e, g)
    BY <2>1, <2>3, <2>4 DEF G
  <2>. QED
    BY <1>1, <1>3, <1>4, <2>5
<1>5. ASSUME file.kind = "settings", NEW r \in Rests, Writes(Holds([s EXCEPT !.rest = r]))
      PROVE  IsContent(file')
  <2>1. IsSettings([s EXCEPT !.rest = r])
    BY <1>2, <1>5 DEF IsSettings
  <2>. QED
    BY <1>1, <1>5, <2>1, Contents
<1>6. CASE \/ file.kind = "settings" /\ \E r \in Rests : r # s.rest /\ Writes(Holds([s EXCEPT !.rest = r]))
           \/ file.kind = "settings" /\ Writes(Broken)
           \/ file.kind # "settings" /\ \E f \in Found : Writes(Holds(f))
  <2>1. PICK content : Writes(content) /\ IsContent(file')
    <3>1. CASE \E r \in Rests : file.kind = "settings" /\ Writes(Holds([s EXCEPT !.rest = r]))
      BY <1>5, <3>1
    <3>2. CASE Writes(Broken)
      BY <1>1, <3>2, Contents
    <3>3. CASE \E f \in Found : Writes(Holds(f))
      <4>1. PICK f \in Found : Writes(Holds(f))
        BY <3>3
      <4>2. IsContent(Holds(f))
        BY Contents, InstallerAssumption
      <4>. QED
        BY <1>1, <4>1, <4>2
    <3>. QED
      BY <1>6, <3>1, <3>2, <3>3
  <2>. QED
    BY <1>1, <2>1
<1>. QED
  BY <1>4, <1>6 DEF Edit

(* The settings a run means to write are settings.                          *)
LEMMA UpdatedTyped ==
  ASSUME TypeOK, Asked, pc # "idle"
  PROVE  IsSettings(updated) /\ IsContent(Holds(updated))
<1>1. args.path \in Commands /\ args.install \in BOOLEAN /\ IsSettings(existing)
  BY InstallerAssumption DEF TypeOK, Asked, Args
<1>2. IsSettings(updated)
  BY <1>1, BuildIs DEF updated
<1>. QED
  BY <1>2, Contents

(* What _load returns are settings.                                         *)
LEMMA ReadTyped == ASSUME TypeOK PROVE IsSettings(Read)
  BY Contents DEF Read, TypeOK

(* A run that is begun, or ended, leaves its variables their types.         *)
LEMMA BegunTyped ==
  ASSUME TypeOK, Refuse \/ NothingToDo \/ DryRun \/ Load
  PROVE  TypeOK' /\ Asked' /\ Reported'
<1>. USE InstallerAssumption
<1>1. UNCHANGED <<disk, second, edits, replaced>> /\ runs' \in 0..MaxRuns
  BY DEF Refuse, NothingToDo, DryRun, Load, Starts, TypeOK
<1>2. Read' = Read /\ IsSettings(Read)
  BY <1>1, ReadTyped DEF Read, disk
<1>3. IsSettings(Empty) /\ IsContent(NoCopy.of) /\ NoCopy.at \in 0..MaxSecond
  BY Contents DEF NoCopy
<1>4. \A a \in Args : Knows(a) =>
        /\ args' = a /\ existing' = Read /\ copy' = NoCopy
        /\ edited' = FALSE /\ gap' = FALSE
  BY DEF Knows
<1>5. \A how : Leaves(how) =>
        /\ args' = NoArgs /\ existing' = Empty /\ copy' = NoCopy
        /\ edited' = FALSE /\ gap' = FALSE /\ pc' = "idle" /\ outcome' = how
  BY DEF Leaves, Ends
<1>6. CASE Refuse \/ DryRun
  <2>1. /\ args' = NoArgs /\ existing' = Empty /\ copy' = NoCopy
        /\ edited' = FALSE /\ gap' = FALSE /\ pc' = "idle" /\ outcome' \in {"refused", "shown"}
    BY <1>5, <1>6 DEF Refuse, DryRun
  <2>. QED
    BY <1>1, <1>3, <2>1 DEF TypeOK, Asked, Reported, disk
<1>7. CASE NothingToDo
  <2>1. PICK a \in Args : UpToDate(Read, a) /\ Knows(a) /\ Ends("done")
    BY <1>7 DEF NothingToDo
  <2>2. /\ args' = a /\ existing' = Read /\ copy' = NoCopy
        /\ edited' = FALSE /\ gap' = FALSE /\ pc' = "idle" /\ outcome' = "done"
    BY <1>4, <2>1 DEF Ends
  <2>3. updated' = Read
    BY <2>1, <2>2 DEF updated, UpToDate
  <2>4. Asked' /\ Reported'
    BY <1>2, <2>2, <2>3 DEF Asked, Reported
  <2>. QED
    BY <1>1, <1>2, <1>3, <2>2, <2>4 DEF TypeOK, disk
<1>8. CASE Load
  <2>1. PICK a \in Args : Knows(a) /\ pc' = "backup" /\ outcome' = "none"
    BY <1>8 DEF Load
  <2>2. /\ args' = a /\ existing' = Read /\ copy' = NoCopy
        /\ edited' = FALSE /\ gap' = FALSE
    BY <1>4, <2>1
  <2>. QED
    BY <1>1, <1>2, <1>3, <2>1, <2>2 DEF TypeOK, Asked, Reported, disk
<1>. QED
  BY <1>6, <1>7, <1>8

(* Every step keeps the invariant.                                          *)
LEMMA SureStep == Sure /\ [Next]_vars => Sure'
<1>. SUFFICES ASSUME Sure, [Next]_vars PROVE TypeOK' /\ Asked' /\ Reported'
  BY WholeStep DEF Sure
<1>. USE InstallerAssumption
<1>0. TypeOK /\ SettingsWhole /\ Asked /\ Reported
  BY DEF Sure
<1>1. CASE Edit
  <2>1. /\ IsContent(file') /\ edits' \in 0..MaxEdits /\ edited' = TRUE /\ gap' = TRUE
        /\ UNCHANGED <<tmp, backups, run, second, runs, pc, outcome, replaced>>
    BY <1>0, <1>1, EditTyped
  <2>2. TypeOK'
    BY <1>0, <2>1 DEF TypeOK, run
  <2>. QED
    BY <1>0, <2>1, <2>2 DEF Asked, Reported, run
<1>2. CASE SecondPasses
  <2>1. UNCHANGED <<disk, run, edits, runs, pc, outcome, edited, gap, replaced>>
        /\ second' \in 0..MaxSecond
    BY <1>0, <1>2 DEF SecondPasses, TypeOK
  <2>2. TypeOK'
    BY <1>0, <2>1 DEF TypeOK, disk, run
  <2>3. updated' = updated /\ Read' = Read
    BY <2>1 DEF updated, Read, disk, run
  <2>. QED
    BY <1>0, <2>1, <2>2, <2>3 DEF Asked, Reported, run
<1>3. CASE Refuse \/ NothingToDo \/ DryRun \/ Load
  BY <1>0, <1>3, BegunTyped
<1>4. CASE NoBackup
  <2>1. UNCHANGED <<disk, run, bound, outcome, edited, replaced>>
        /\ pc = "backup" /\ pc' = "write" /\ gap' = FALSE
    BY <1>4 DEF NoBackup
  <2>2. TypeOK'
    BY <1>0, <2>1 DEF TypeOK, disk, run, bound
  <2>. QED
    BY <1>0, <2>1, <2>2 DEF Asked, Reported, run
<1>5. CASE BeginBackup
  <2>1. /\ UNCHANGED <<file, tmp, args, existing, bound, outcome, edited>>
        /\ pc = "backup" /\ pc' = "copy" /\ gap' = FALSE
        /\ copy' = [at |-> second, of |-> file]
        /\ backups' = [backups EXCEPT ![second] = Torn]
        /\ replaced' \subseteq replaced
    BY <1>5 DEF BeginBackup
  <2>2. copy'.at = second /\ copy'.of = file
    BY <2>1
  <2>3. DOMAIN backups' = 0..MaxSecond /\ \A t \in 0..MaxSecond : IsContent(backups'[t])
    BY <1>0, <2>1, Contents DEF TypeOK
  <2>4. TypeOK'
    BY <1>0, <2>1, <2>2, <2>3 DEF TypeOK, bound
  <2>. QED
    BY <1>0, <2>1, <2>4 DEF Asked, Reported
<1>6. CASE EndBackup
  <2>1. /\ UNCHANGED <<file, tmp, run, bound, outcome, edited, gap, replaced>>
        /\ pc = "copy" /\ pc' = "write"
        /\ backups' = [backups EXCEPT ![copy.at] = copy.of]
    BY <1>6 DEF EndBackup
  <2>2. DOMAIN backups' = 0..MaxSecond /\ \A t \in 0..MaxSecond : IsContent(backups'[t])
    BY <1>0, <2>1 DEF TypeOK
  <2>3. TypeOK'
    BY <1>0, <2>1, <2>2 DEF TypeOK, run, bound
  <2>. QED
    BY <1>0, <2>1, <2>3 DEF Asked, Reported, run
<1>7. CASE BeginWrite \/ EndWrite
  <2>1. /\ UNCHANGED <<file, backups, run, bound, outcome, edited, gap, replaced>>
        /\ pc # "idle" /\ pc' \in {"writing", "replace"}
        /\ tmp' \in {Torn, Holds(updated)}
    BY <1>7 DEF BeginWrite, EndWrite
  <2>2. IsContent(tmp')
    BY <1>0, <2>1, Contents, UpdatedTyped
  <2>3. TypeOK'
    BY <1>0, <2>1, <2>2 DEF TypeOK, run, bound
  <2>. QED
    BY <1>0, <2>1, <2>3 DEF Asked, Reported, run
<1>8. CASE Replace
  <2>1. /\ UNCHANGED <<backups, run, bound, edited, gap>>
        /\ pc = "replace" /\ pc' = "idle" /\ outcome' = "done"
        /\ file' = tmp /\ tmp' = Absent
    BY <1>8 DEF Replace, Ends
  <2>2. \A r \in replaced' : r \in replaced \/ r = [what |-> file, at |-> copy.at]
    BY <1>8 DEF Replace
  <2>3. \A r \in replaced' : IsContent(r.what) /\ r.at \in 0..MaxSecond
    BY <1>0, <2>2 DEF TypeOK
  <2>4. TypeOK'
    BY <1>0, <2>1, <2>3, Contents DEF TypeOK, run, bound
  <2>5. file' = Holds(updated) /\ updated' = updated
    BY <1>0, <2>1 DEF SettingsWhole, updated, run
  <2>6. Read' = updated'
    BY <2>5, Contents DEF Read
  <2>. QED
    BY <2>1, <2>4, <2>6 DEF Asked, Reported
<1>9. CASE Crash
  <2>1. /\ UNCHANGED <<disk, bound, replaced>>
        /\ args' = NoArgs /\ existing' = Empty /\ copy' = NoCopy
        /\ edited' = FALSE /\ gap' = FALSE /\ pc' = "idle" /\ outcome' = "crashed"
    BY <1>9 DEF Crash, Leaves, Ends
  <2>2. IsSettings(Empty) /\ IsContent(NoCopy.of) /\ NoCopy.at \in 0..MaxSecond
    BY Contents DEF NoCopy
  <2>3. TypeOK'
    BY <1>0, <2>1, <2>2 DEF TypeOK, disk, bound
  <2>. QED
    BY <2>1, <2>3 DEF Asked, Reported
<1>10. CASE UNCHANGED vars
  <2>1. UNCHANGED <<disk, run, bound, pc, outcome, edited, gap, replaced>>
    BY <1>10 DEF vars
  <2>2. TypeOK'
    BY <1>0, <2>1 DEF TypeOK, disk, run, bound
  <2>3. updated' = updated /\ Read' = Read
    BY <2>1 DEF updated, Read, disk, run
  <2>. QED
    BY <1>0, <2>1, <2>2, <2>3 DEF Asked, Reported, run
<1>. QED
  BY <1>1, <1>2, <1>3, <1>4, <1>5, <1>6, <1>7, <1>8, <1>9, <1>10 DEF Next

(* It holds at the start.                                                   *)
LEMMA InitSure == Init => Sure
<1>. SUFFICES ASSUME Init PROVE Sure
  OBVIOUS
<1>1. IsSettings(Empty) /\ IsContent(NoCopy.of) /\ NoCopy.at \in 0..MaxSecond
  BY Contents, InstallerAssumption DEF NoCopy
<1>2. IsContent(file)
  BY Contents, InstallerAssumption DEF Init
<1>3. TypeOK
  <2>1. IsContent(Absent)
    BY Contents
  <2>2. IsContent(tmp) /\ IsSettings(existing) /\ copy.at \in 0..MaxSecond /\ IsContent(copy.of)
    BY <1>1, <2>1 DEF Init
  <2>3. DOMAIN backups = 0..MaxSecond /\ \A t \in 0..MaxSecond : IsContent(backups[t])
    BY <2>1 DEF Init
  <2>4. second \in 0..MaxSecond /\ edits \in 0..MaxEdits /\ runs \in 0..MaxRuns
    BY InstallerAssumption DEF Init
  <2>5. args \in Args \cup {NoArgs} /\ edited \in BOOLEAN /\ gap \in BOOLEAN
    BY DEF Init
  <2>6. /\ pc \in {"idle", "backup", "copy", "write", "writing", "replace"}
        /\ outcome \in {"none", "refused", "shown", "done", "crashed"}
    BY DEF Init
  <2>7. \A r \in replaced : IsContent(r.what) /\ r.at \in 0..MaxSecond
    BY DEF Init
  <2>. QED
    BY <1>2, <2>2, <2>3, <2>4, <2>5, <2>6, <2>7 DEF TypeOK
<1>. QED
  BY <1>3, Kinds DEF Init, Sure, SettingsWhole, Asked, Reported

(* Every variable of Installer has its type.                                *)
THEOREM TypeCorrect == Spec => []TypeOK
<1>1. Sure => TypeOK
  BY DEF Sure
<1>. QED
  BY <1>1, InitSure, SureStep, PTL DEF Spec

(* A run that is done has delivered what was asked for, once, and left      *)
(* everyone else's hooks as they were, unless others wrote the file since   *)
(* it was read, for any settings, events, commands and emitter paths.       *)
THEOREM AlwaysDelivered == Spec => []Delivered
<1>1. Sure => Delivered
  <2>. SUFFICES ASSUME Sure, outcome = "done", ~edited, args.path \in Marked
                PROVE  LET new == Read
                       IN /\ new.rest = existing.rest
                          /\ \A e \in Events : Others(new, e) = Others(existing, e)
                          /\ \A e \in TARGET_HOOK_EVENTS :
                               Ours(new, e) = IF args.install THEN << <<"none", args.path>> >> ELSE <<>>
                          /\ \A e \in Events \ TARGET_HOOK_EVENTS : Groups(new, e) = Groups(existing, e)
    BY DEF Delivered
  <2>1. Read = build_updated_settings(existing, args.path, args.install) /\ IsSettings(existing)
    BY DEF Sure, Reported, TypeOK, updated
  <2>2. args.install \in BOOLEAN
    <3>1. args \in Args \/ args = NoArgs
      BY DEF Sure, TypeOK
    <3>2. CASE args \in Args
      BY <3>2 DEF Args
    <3>3. CASE args = NoArgs
      BY <3>3 DEF NoArgs
    <3>. QED
      BY <3>1, <3>2, <3>3
  <2>. QED
    BY <2>1, <2>2, MergeDelivers
<1>. QED
  BY <1>1, InitSure, SureStep, PTL DEF Spec

(* To install twice is to install once, an install over another path leaves *)
(* nothing of it, and an uninstall leaves what it would have left without   *)
(* the install, which is the settings to the letter just when they were     *)
(* tidy: of whatever settings others and earlier runs have left.            *)
THEOREM AlwaysRoundTrip == Spec => []RoundTrip
<1>1. TypeOK => RoundTrip
  <2>. SUFFICES ASSUME TypeOK, file.kind = "settings",
                       NEW p \in Emitters \cap Marked, NEW q \in Emitters \cap Marked
                PROVE  LET installed   == build_updated_settings(file.is, p, TRUE)
                           uninstalled == build_updated_settings(installed, p, FALSE)
                       IN /\ build_updated_settings(installed, q, TRUE) = build_updated_settings(file.is, q, TRUE)
                          /\ uninstalled = build_updated_settings(file.is, q, FALSE)
                          /\ build_updated_settings(uninstalled, q, FALSE) = uninstalled
                          /\ Tidy(file.is) <=> uninstalled = file.is
    BY DEF RoundTrip
  <2>1. IsSettings(file.is)
    BY Contents DEF TypeOK
  <2>. QED
    BY <2>1, MergesInARow
<1>. QED
  BY <1>1, TypeCorrect, PTL
=============================================================================
