--------------------------- MODULE NetClientProofs ---------------------------
(***************************************************************************)
(* Theorems of NetClient, for any number of connections and messages and   *)
(* any length of the queue.  What NDJSONBuffer makes of bytes is a fold, so *)
(* the first part is about induction: a set that holds 0 and, with any      *)
(* number, the next one, holds all.                                         *)
(***************************************************************************)
EXTENDS NetClient, TLAPS, SequenceTheorems, WellFoundedInduction

(* Naturals are well-ordered, so what is not in such a set has no least     *)
(* member.                                                                  *)
LEMMA SetInduction ==
  ASSUME NEW S, 0 \in S, \A n \in Nat : n \in S => n + 1 \in S
  PROVE  Nat \subseteq S
<1>. DEFINE Out  == Nat \ S
            Less == OpToRel(<, Nat)
<1>. SUFFICES ASSUME Out # {} PROVE FALSE
  OBVIOUS
<1>1. IsWellFoundedOn(Less, Nat)
  BY NatLessThanWellFounded
<1>2. Out \subseteq Nat
  OBVIOUS
<1>3. \A x, y \in Nat : x < y => <<x, y>> \in Less
  BY DEF OpToRel
<1>. HIDE DEF Less, Out
<1>4. PICK x \in Out : \A y \in Out : <<y, x>> \notin Less
  BY <1>1, <1>2, WFMin
<1>5. x \in Nat \ {0} /\ x \notin S
  BY <1>4 DEF Out
<1>6. x - 1 \in Nat /\ x - 1 < x /\ x = (x - 1) + 1
  BY <1>5
<1>7. x - 1 \in S
  BY <1>3, <1>4, <1>5, <1>6 DEF Out
<1>. QED
  BY <1>5, <1>6, <1>7

(* A set of numbers up to a bound has a greatest one and a least one.       *)
LEMMA Extremes ==
  ASSUME NEW n \in Nat, NEW s \in SUBSET (1..n), s # {}
  PROVE  /\ Max(s) \in s /\ \A x \in s : x <= Max(s)
         /\ Min(s) \in s /\ \A x \in s : Min(s) <= x
<1>. DEFINE HasMax(t) == \E x \in t : \A y \in t : x >= y
            HasMin(t) == \E x \in t : \A y \in t : x <= y
            Good == {k \in Nat : \A t \in SUBSET (1..k) : t # {} => HasMax(t) /\ HasMin(t)}
<1>1. 0 \in Good
  <2>1. 1..0 = {}
    OBVIOUS
  <2>. QED
    BY <2>1
<1>2. ASSUME NEW k \in Nat, k \in Good
      PROVE  k + 1 \in Good
  <2>. SUFFICES ASSUME NEW t \in SUBSET (1..k + 1), t # {}
                PROVE  HasMax(t) /\ HasMin(t)
    OBVIOUS
  <2>. DEFINE u == t \ {k + 1}
  <2>1. u \in SUBSET (1..k)
    OBVIOUS
  <2>2. u # {} => HasMax(u) /\ HasMin(u)
    BY <1>2, <2>1
  <2>3. CASE u = {}
    <3>1. t = {k + 1}
      BY <2>3
    <3>. QED
      BY <3>1
  <2>4. CASE u # {}
    BY <2>1, <2>2, <2>4
  <2>. QED
    BY <2>3, <2>4
<1>. HIDE DEF Good
<1>3. n \in Good
  BY <1>1, <1>2, SetInduction
<1>4. HasMax(s) /\ HasMin(s)
  BY <1>3 DEF Good
<1>5. Max(s) = CHOOSE x \in s : \A y \in s : x >= y
  BY DEF Max
<1>6. Min(s) = CHOOSE x \in s : \A y \in s : x <= y
  BY DEF Min
<1>. QED
  BY <1>4, <1>5, <1>6

(* A fold from the left is defined over the sets of indices, the greatest   *)
(* index last: there is a function over these sets that takes the steps.    *)
TakesSteps(h, base, step, k) ==
  /\ h[{}] = base
  /\ \A s \in SUBSET (1..k) : s # {} => h[s] = step[Max(s)][h[s \ {Max(s)}]]

(* A fold over a sequence's places exists.                                  *)
LEMMA FoldExists ==
  ASSUME NEW T, NEW base \in T, NEW n \in Nat, NEW step \in [1..n -> [T -> T]]
  PROVE  \E h \in [SUBSET (1..n) -> T] : TakesSteps(h, base, step, n)
<1>. DEFINE Exists(k) == \E h \in [SUBSET (1..k) -> T] : TakesSteps(h, base, step, k)
            Good == {k \in Nat : k <= n => Exists(k)}
<1>1. Exists(0)
  <2>. DEFINE h == [s \in SUBSET (1..0) |-> base]
  <2>1. 1..0 = {}
    OBVIOUS
  <2>2. \A s \in SUBSET (1..0) : s = {}
    BY <2>1
  <2>3. h \in [SUBSET (1..0) -> T] /\ h[{}] = base
    OBVIOUS
  <2>. HIDE DEF h
  <2>. QED
    BY <2>2, <2>3 DEF TakesSteps
<1>2. ASSUME NEW k \in Nat, k + 1 <= n, Exists(k)
      PROVE  Exists(k + 1)
  <2>1. PICK g \in [SUBSET (1..k) -> T] : TakesSteps(g, base, step, k)
    BY <1>2
  <2>. DEFINE top == step[k + 1]
              h == [s \in SUBSET (1..k + 1) |->
                      IF k + 1 \in s THEN top[g[s \ {k + 1}]] ELSE g[s]]
  <2>2. \A s \in SUBSET (1..k + 1) :
          /\ k + 1 \notin s => s \in SUBSET (1..k)
          /\ s \ {k + 1} \in SUBSET (1..k)
    OBVIOUS
  <2>3. top \in [T -> T]
    BY <1>2
  <2>4. g[{}] = base
    BY <2>1 DEF TakesSteps
  <2>. HIDE DEF top
  <2>5. \A s \in SUBSET (1..k + 1) :
          h[s] = IF k + 1 \in s THEN top[g[s \ {k + 1}]] ELSE g[s]
    OBVIOUS
  <2>6. \A s \in SUBSET (1..k + 1) : h[s] \in T
    BY <2>2, <2>3, <2>5
  <2>7. h \in [SUBSET (1..k + 1) -> T]
    BY <2>6
  <2>. HIDE DEF h
  <2>8. h[{}] = base
    <3>1. {} \in SUBSET (1..k + 1) /\ k + 1 \notin {}
      OBVIOUS
    <3>. QED
      BY <2>4, <2>5, <3>1
  <2>9. ASSUME NEW s \in SUBSET (1..k + 1), s # {}
        PROVE  h[s] = step[Max(s)][h[s \ {Max(s)}]]
    <3>. HIDE DEF Exists
    <3>1. Max(s) \in s /\ \A x \in s : x <= Max(s)
      <4>1. k + 1 \in Nat
        OBVIOUS
      <4>. QED
        BY <2>9, <4>1, Extremes
    <3>2. s \ {Max(s)} \in SUBSET (1..k + 1)
      OBVIOUS
    <3>3. CASE k + 1 \in s
      <4>1. Max(s) = k + 1
        <5>1. Max(s) \in 1..k + 1 /\ k + 1 <= Max(s)
          BY <3>1, <3>3
        <5>. QED
          BY <5>1
      <4>2. h[s \ {k + 1}] = g[s \ {k + 1}]
        BY <2>5, <3>2, <4>1
      <4>. QED
        BY <2>5, <3>3, <4>1, <4>2 DEF top
    <3>4. CASE k + 1 \notin s
      <4>1. h[s] = g[s] /\ h[s \ {Max(s)}] = g[s \ {Max(s)}]
        BY <2>5, <3>2, <3>4
      <4>2. s \in SUBSET (1..k)
        BY <2>2, <3>4
      <4>. QED
        BY <2>1, <2>9, <4>1, <4>2 DEF TakesSteps
    <3>. QED
      BY <3>3, <3>4
  <2>10. TakesSteps(h, base, step, k + 1)
    BY <2>8, <2>9 DEF TakesSteps
  <2>. QED
    BY <2>7, <2>10
<1>. HIDE DEF Exists
<1>3. 0 \in Good
  BY <1>1
<1>4. ASSUME NEW k \in Nat, k \in Good
      PROVE  k + 1 \in Good
  <2>1. k + 1 <= n => k <= n
    OBVIOUS
  <2>. QED
    BY <1>2, <1>4, <2>1
<1>. HIDE DEF Good
<1>5. n \in Good
  BY <1>3, <1>4, SetInduction
<1>6. Exists(n)
  BY <1>5 DEF Good
<1>. QED
  BY <1>6 DEF Exists

-----------------------------------------------------------------------------
(* NDJSONBuffer *)

Byte == Message \X (1..3)
Fed  == [buf : Seq(Message \X (1..2)), messages : Seq({Data(m) : m \in Message})]

(* A line decodes to messages.                                              *)
LEMMA DecodeTyped ==
  ASSUME NEW line \in Seq(Message \X (1..2))
  PROVE  Decode(line) \in Seq({Data(m) : m \in Message})
<1>1. CASE Len(line) = 2 /\ line[1][1] = line[2][1]
  <2>1. line[1] \in Message \X (1..2)
    BY <1>1
  <2>2. line[1][1] \in Message
    BY <2>1
  <2>. QED
    BY <1>1, <2>2 DEF Decode
<1>2. CASE ~(Len(line) = 2 /\ line[1][1] = line[2][1])
  BY <1>2 DEF Decode
<1>. QED
  BY <1>1, <1>2

(* A byte taken leaves a buffer without newlines, and messages.             *)
LEMMA TakeByteTyped ==
  ASSUME NEW acc \in Fed, NEW byte \in Byte
  PROVE  TakeByte(acc, byte) \in Fed
<1>1. acc.buf \in Seq(Message \X (1..2)) /\ acc.messages \in Seq({Data(m) : m \in Message})
  BY DEF Fed
<1>2. CASE byte[2] = 3
  <2>1. Decode(acc.buf) \in Seq({Data(m) : m \in Message})
    BY <1>1, DecodeTyped
  <2>. HIDE DEF Data
  <2>2. acc.messages \o Decode(acc.buf) \in Seq({Data(m) : m \in Message})
    BY <1>1, <2>1
  <2>. QED
    BY <1>2, <2>2 DEF TakeByte, Fed
<1>3. CASE byte[2] # 3
  <2>1. byte \in Message \X (1..2)
    BY <1>3 DEF Byte
  <2>2. Append(acc.buf, byte) \in Seq(Message \X (1..2))
    BY <1>1, <2>1
  <2>3. TakeByte(acc, byte) = [buf |-> Append(acc.buf, byte), messages |-> acc.messages]
    BY <1>3 DEF TakeByte, Fed
  <2>. QED
    BY <1>1, <2>2, <2>3 DEF Fed
<1>. QED
  BY <1>2, <1>3

(* feed takes one byte after another. *)
IsRun(r, held, data) ==
  /\ r \in [0..Len(data) -> Fed]
  /\ r[0] = [buf |-> held, messages |-> <<>>]
  /\ \A i \in 1..Len(data) : r[i] = TakeByte(r[i - 1], data[i])

(* feed is a run: one state of the buffer and the messages per byte of its  *)
(* data.                                                                    *)
LEMMA FeedRuns ==
  ASSUME NEW held \in Seq(Message \X (1..2)), NEW data \in Seq(Byte)
  PROVE  \E r : IsRun(r, held, data) /\ Feed(held, data) = r[Len(data)]
<1>. DEFINE n == Len(data)
            base == [buf |-> held, messages |-> <<>>]
            step == [i \in 1..n |-> [acc \in Fed |-> TakeByte(acc, data[i])]]
            Is(h) == h = [s \in SUBSET (DOMAIN data) |->
                            IF s = {} THEN base
                            ELSE LET x == Max(s) IN TakeByte(h[s \ {x}], data[x])]
            iter == CHOOSE h : Is(h)
<1>1. n \in Nat /\ DOMAIN data = 1..n /\ \A i \in 1..n : data[i] \in Byte
  OBVIOUS
<1>2. base \in Fed
  BY DEF Fed
<1>3. Feed(held, data) = iter[DOMAIN data]
  BY DEF Feed, FoldLeft, MapThenFoldSet
<1>4. step \in [1..n -> [Fed -> Fed]]
  BY <1>1, TakeByteTyped
<1>5. \A i \in 1..n : \A acc \in Fed : step[i][acc] = TakeByte(acc, data[i])
  OBVIOUS
<1>. HIDE DEF n, base, step
<1>6. \E h : Is(h)
  <2>1. PICK h \in [SUBSET (1..n) -> Fed] : TakesSteps(h, base, step, n)
    BY <1>1, <1>2, <1>4, FoldExists
  <2>2. ASSUME NEW s \in SUBSET (1..n), s # {}
        PROVE  h[s] = TakeByte(h[s \ {Max(s)}], data[Max(s)])
    <3>1. Max(s) \in 1..n
      BY <1>1, <2>2, Extremes
    <3>2. h[s \ {Max(s)}] \in Fed
      OBVIOUS
    <3>. QED
      BY <1>5, <2>1, <2>2, <3>1, <3>2 DEF TakesSteps
  <2>3. h[{}] = base
    BY <2>1 DEF TakesSteps
  <2>4. Is(h)
    BY <1>1, <2>2, <2>3
  <2>. QED
    BY <2>4
<1>7. Is(iter)
  BY <1>6
<1>8. iter[{}] = base
  BY <1>7
<1>9. ASSUME NEW i \in 1..n
      PROVE  iter[1..i] = TakeByte(iter[1..(i - 1)], data[i])
  <2>1. 1..i \in SUBSET (1..n) /\ 1..i # {} /\ i \in 1..i
    <3>. HIDE DEF Is, iter
    <3>1. i \in Nat /\ 1 <= i /\ i <= n
      BY <1>1
    <3>2. \A x \in 1..i : x \in 1..n
      BY <1>1, <3>1
    <3>3. i \in 1..i
      BY <3>1
    <3>. QED
      BY <3>2, <3>3
  <2>2. Max(1..i) = i
    <3>1. Max(1..i) \in 1..i /\ i <= Max(1..i)
      BY <1>1, <2>1, Extremes
    <3>. QED
      BY <1>1, <3>1
  <2>3. (1..i) \ {i} = 1..(i - 1)
    BY <1>1
  <2>. QED
    BY <1>1, <1>7, <2>1, <2>2, <2>3
<1>. HIDE DEF iter
<1>. DEFINE r == [i \in 0..n |-> iter[1..i]]
<1>10. r[0] = base
  <2>1. 1..0 = {} /\ 0 \in 0..n
    BY <1>1
  <2>. QED
    BY <1>8, <2>1
<1>11. \A i \in 1..n : r[i] = TakeByte(r[i - 1], data[i])
  <2>1. \A i \in 1..n : i \in 0..n /\ i - 1 \in 0..n
    BY <1>1
  <2>. QED
    BY <1>9, <2>1
<1>12. DOMAIN r = 0..n /\ r[n] = Feed(held, data) /\ r = [i \in 0..n |-> r[i]]
  BY <1>1, <1>3
<1>. HIDE DEF r
<1>13. \A i \in 0..n : r[i] \in Fed
  <2>. DEFINE Good == {i \in Nat : i <= n => r[i] \in Fed}
  <2>1. 0 \in Good
    BY <1>2, <1>10
  <2>2. ASSUME NEW i \in Nat, i \in Good PROVE i + 1 \in Good
    <3>. SUFFICES ASSUME i + 1 <= n PROVE r[i + 1] \in Fed
      OBVIOUS
    <3>1. i + 1 \in 1..n /\ (i + 1) - 1 = i /\ i <= n
      BY <1>1
    <3>. QED
      BY <1>1, <1>11, <2>2, <3>1, TakeByteTyped
  <2>. HIDE DEF Good
  <2>3. Nat \subseteq Good
    BY <2>1, <2>2, SetInduction
  <2>4. \A i \in 0..n : i \in Nat /\ i <= n
    BY <1>1
  <2>. QED
    BY <2>3, <2>4 DEF Good
<1>14. IsRun(r, held, data)
  BY <1>10, <1>11, <1>12, <1>13 DEF IsRun, n, base
<1>. QED
  BY <1>12, <1>14 DEF n

(* The bytes of the lines that follow the k-th, the last maybe cut off.     *)
LinesFrom(p, c, k) ==
  \A m \in Nat, l \in 1..3 :
    3 * m + l <= Len(p) => p[3 * m + l] = <<<<c, k + m + 1>>, l>>

Lines(c, k, n) == [x \in 1..n |-> Data(<<c, k + x>>)]
Torn(m, n)     == [i \in 1..n |-> <<m, i>>]

(* The next message after some that follow each other makes them one more.  *)
LEMMA LinesAppend ==
  ASSUME NEW c, NEW k \in Nat, NEW n \in Nat
  PROVE  Lines(c, k, n) \o <<Data(<<c, k + n + 1>>)>> = Lines(c, k, n + 1)
<1>. DEFINE last  == Data(<<c, k + n + 1>>)
            old   == Lines(c, k, n)
            Told  == {Data(<<c, x>>) : x \in Nat}
<1>1. old \in Seq(Told) /\ Len(old) = n /\ last \in Told
  <2>1. k + n + 1 \in Nat /\ \A x \in 1..n : k + x \in Nat
    OBVIOUS
  <2>2. last \in Told
    BY <2>1
  <2>3. \A x \in 1..n : Data(<<c, k + x>>) \in Told
    BY <2>1
  <2>. HIDE DEF Told
  <2>. QED
    BY <2>2, <2>3 DEF Lines
<1>2. Lines(c, k, n + 1) = [x \in 1..n + 1 |-> IF x <= n THEN old[x] ELSE last]
  BY DEF Lines
<1>. HIDE DEF last, old, Told
<1>3. old \o <<last>> = [x \in 1..n + 1 |-> IF x <= n THEN old[x] ELSE last]
  BY <1>1
<1>. QED
  BY <1>2, <1>3 DEF last, old

(* The next byte of a torn line makes it one byte longer.                   *)
LEMMA TornAppend ==
  ASSUME NEW m, NEW n \in Nat
  PROVE  Append(Torn(m, n), <<m, n + 1>>) = Torn(m, n + 1)
  BY DEF Torn

(* What feed makes of lines that arrive in order: the messages of those     *)
(* that are whole, and the rest held back.                                  *)
ReadsLines(held, data, c, k) ==
  \E n \in Nat, l \in 0..2 :
    /\ 3 * n + l = Len(held) + Len(data)
    /\ Feed(held, data) = [buf |-> Torn(<<c, k + n + 1>>, l), messages |-> Lines(c, k, n)]

(* If the held bytes and the data are lines from the beginning of one, feed *)
(* gives the messages of the whole ones and holds the rest.                 *)
LEMMA FeedReads ==
  ASSUME NEW held \in Seq(Message \X (1..2)), Len(held) <= 2, NEW data \in Seq(Byte),
         NEW c, NEW k \in Nat, LinesFrom(held \o data, c, k)
  PROVE  ReadsLines(held, data, c, k)
<1>1. PICK r : IsRun(r, held, data) /\ Feed(held, data) = r[Len(data)]
  BY FeedRuns
<1>. DEFINE Reads(i) ==
       \E n \in Nat, l \in 0..2 :
         /\ 3 * n + l = Len(held) + i
         /\ r[i] = [buf |-> Torn(<<c, k + n + 1>>, l), messages |-> Lines(c, k, n)]
     Good == {i \in Nat : i <= Len(data) => Reads(i)}
<1>2. Len(held) \in Nat /\ Len(data) \in Nat /\ Len(held \o data) = Len(held) + Len(data)
  OBVIOUS
<1>. HIDE DEF Reads, Good
<1>3. Reads(0)
  <2>1. ASSUME NEW i \in 1..Len(held) PROVE held[i] = <<<<c, k + 1>>, i>>
    <3>1. i \in 1..3 /\ 3 * 0 + i = i /\ k + 0 + 1 = k + 1 /\ i <= Len(held \o data)
      BY <1>2
    <3>2. (held \o data)[3 * 0 + i] = <<<<c, k + 0 + 1>>, i>>
      BY <3>1 DEF LinesFrom
    <3>. QED
      BY <1>2, <3>1, <3>2
  <2>2. held = Torn(<<c, k + 1>>, Len(held))
    BY <2>1 DEF Torn
  <2>3. Lines(c, k, 0) = <<>>
    BY DEF Lines
  <2>4. k + 0 + 1 = k + 1 /\ 3 * 0 + Len(held) = Len(held) + 0
    BY <1>2
  <2>6. Len(held) \in 0..2
    <3>1. \A x \in Nat : x <= 2 => x \in 0..2
      OBVIOUS
    <3>. QED
      BY <1>2, <3>1
  <2>5. r[0] = [buf |-> Torn(<<c, k + 0 + 1>>, Len(held)), messages |-> Lines(c, k, 0)]
    BY <1>1, <2>2, <2>3, <2>4 DEF IsRun
  <2>. QED
    BY <2>4, <2>5, <2>6 DEF Reads
<1>4. ASSUME NEW i \in Nat, i + 1 <= Len(data), Reads(i) PROVE Reads(i + 1)
  <2>1. PICK n \in Nat, l \in 0..2 :
          /\ 3 * n + l = Len(held) + i
          /\ r[i] = [buf |-> Torn(<<c, k + n + 1>>, l), messages |-> Lines(c, k, n)]
    BY <1>4 DEF Reads
  <2>. DEFINE m == <<c, k + n + 1>>
              byte == data[i + 1]
  <2>2. byte = <<m, l + 1>>
    <3>1. l + 1 \in 1..3 /\ 3 * n + (l + 1) = Len(held) + (i + 1)
          /\ Len(held) + (i + 1) <= Len(held \o data)
      BY <1>2, <1>4, <2>1
    <3>2. (held \o data)[3 * n + (l + 1)] = <<m, l + 1>>
      BY <3>1 DEF LinesFrom
    <3>. QED
      BY <1>2, <1>4, <3>1, <3>2
  <2>3. r[i + 1] = TakeByte(r[i], byte)
    <3>1. i + 1 \in 1..Len(data) /\ (i + 1) - 1 = i
      BY <1>2, <1>4
    <3>. QED
      BY <1>1, <3>1 DEF IsRun
  <2>. HIDE DEF byte, m
  <2>6. 3 * n + l = Len(held) + i
    BY <2>1
  <2>7. r[i].buf = Torn(m, l) /\ r[i].messages = Lines(c, k, n)
        /\ r[i] = [buf |-> Torn(m, l), messages |-> Lines(c, k, n)]
    BY <2>1 DEF m
  <2>4. CASE l = 2
    <3>1. Decode(Torn(m, 2)) = <<Data(m)>>
      <4>1. Torn(m, 2) \in Seq({<<m, 1>>, <<m, 2>>}) /\ Len(Torn(m, 2)) = 2
            /\ Torn(m, 2)[1][1] = m /\ Torn(m, 2)[2][1] = m
        BY DEF Torn
      <4>. QED
        BY <4>1 DEF Decode
    <3>2. r[i + 1] = [buf |-> <<>>, messages |-> Lines(c, k, n) \o <<Data(m)>>]
      <4>1. byte[2] = 3
        BY <2>2, <2>4
      <4>2. r[i + 1] = [buf |-> <<>>, messages |-> r[i].messages \o Decode(r[i].buf)]
        BY <2>3, <4>1 DEF TakeByte
      <4>. QED
        BY <2>4, <2>7, <3>1, <4>2
    <3>3. r[i + 1] = [buf |-> <<>>, messages |-> Lines(c, k, n + 1)]
      BY <3>2, LinesAppend DEF m
    <3>4. Torn(<<c, k + (n + 1) + 1>>, 0) = <<>>
      BY DEF Torn
    <3>5. n + 1 \in Nat /\ 0 \in 0..2 /\ 3 * (n + 1) + 0 = Len(held) + (i + 1)
      BY <1>2, <2>4, <2>6
    <3>. QED
      BY <3>3, <3>4, <3>5 DEF Reads
  <2>5. CASE l # 2
    <3>1. l + 1 \in 0..2 /\ 3 * n + (l + 1) = Len(held) + (i + 1) /\ l \in Nat /\ l + 1 # 3
      BY <1>2, <2>5, <2>6
    <3>2. r[i + 1] = [buf |-> Append(Torn(m, l), <<m, l + 1>>), messages |-> Lines(c, k, n)]
      BY <2>2, <2>3, <2>7, <3>1 DEF TakeByte
    <3>3. r[i + 1] = [buf |-> Torn(m, l + 1), messages |-> Lines(c, k, n)]
      BY <3>1, <3>2, TornAppend
    <3>. QED
      BY <3>1, <3>3 DEF m, Reads
  <2>. QED
    BY <2>4, <2>5
<1>5. 0 \in Good
  BY <1>3 DEF Good
<1>6. ASSUME NEW i \in Nat, i \in Good PROVE i + 1 \in Good
  <2>1. i + 1 <= Len(data) => i <= Len(data)
    BY <1>2
  <2>. QED
    BY <1>4, <1>6, <2>1 DEF Good
<1>7. Len(data) \in Good
  BY <1>2, <1>5, <1>6, SetInduction
<1>8. Reads(Len(data))
  BY <1>2, <1>7 DEF Good
<1>. QED
  BY <1>1, <1>8 DEF Reads, ReadsLines

(* Bytes and messages keep their types. *)
LEMMA FeedTyped ==
  ASSUME NEW held \in Seq(Message \X (1..2)), NEW data \in Seq(Byte)
  PROVE  Feed(held, data) \in Fed
<1>1. PICK r : IsRun(r, held, data) /\ Feed(held, data) = r[Len(data)]
  BY FeedRuns
<1>2. Len(data) \in 0..Len(data)
  OBVIOUS
<1>. QED
  BY <1>1, <1>2 DEF IsRun

-----------------------------------------------------------------------------
(* What the main thread hears *)

Items == {Status(b) : b \in BOOLEAN} \cup {Data(m) : m \in Message}

IsData(h, i) == h[i].type = "message"

(* Each message follows the status that connected, as the first of its      *)
(* connection, or the one before it.                                        *)
Chained(h) ==
  \A i \in 2..Len(h) : IsData(h, i) =>
    \/ /\ IsStatus(h, i - 1) /\ h[i - 1].connected
       /\ h[i].message[2] = 1
    \/ /\ IsData(h, i - 1)
       /\ h[i].message = <<h[i - 1].message[1], h[i - 1].message[2] + 1>>

(* The last status of it is is. *)
LastTells(h, is) ==
  \A i \in DOMAIN h :
    IsStatus(h, i) /\ (\A j \in i + 1..Len(h) : ~IsStatus(h, j)) => h[i] = Status(is)

(* It ends with the k-th message of connection c, or with the status before *)
(* the first.                                                               *)
HeardUpTo(h, c, k) ==
  IF IsStatus(h, Len(h))
  THEN h[Len(h)].connected /\ k = 0
  ELSE h[Len(h)].message = <<c, k>>

(* What stands in the queue is a status or a message, and which it is can   *)
(* be told.                                                                 *)
LEMMA ItemFacts ==
  /\ \A b \in BOOLEAN : Status(b) \in Items /\ Status(b).type = "_conn_status"
                        /\ Status(b).connected = b
  /\ \A m : Data(m).type = "message" /\ Data(m).message = m
  /\ \A m \in Message : Data(m) \in Items
  /\ \A x \in Items : \/ x.type = "_conn_status" /\ \E b \in BOOLEAN : x = Status(b)
                      \/ x.type = "message" /\ \E m \in Message : x = Data(m)
<1>1. \A b : Status(b).type = "_conn_status" /\ Status(b).connected = b
  BY DEF Status
<1>2. \A m : Data(m).type = "message" /\ Data(m).message = m
  BY DEF Data
<1>3. \A b \in BOOLEAN : Status(b) \in Items
  BY DEF Items
<1>4. \A m \in Message : Data(m) \in Items
  BY DEF Items
<1>5. ASSUME NEW x \in Items
      PROVE  (\E b \in BOOLEAN : x = Status(b)) \/ (\E m \in Message : x = Data(m))
  BY DEF Items
<1>6. ASSUME NEW x \in Items
      PROVE  \/ x.type = "_conn_status" /\ \E b \in BOOLEAN : x = Status(b)
             \/ x.type = "message" /\ \E m \in Message : x = Data(m)
  <2>1. CASE \E b \in BOOLEAN : x = Status(b)
    BY <1>1, <2>1
  <2>2. CASE \E m \in Message : x = Data(m)
    BY <1>2, <2>2
  <2>. QED
    BY <1>5, <2>1, <2>2
<1>7. \A b \in BOOLEAN : Status(b) \in Items /\ Status(b).type = "_conn_status"
                         /\ Status(b).connected = b
  BY <1>1, <1>3
<1>. QED
  BY <1>2, <1>4, <1>6, <1>7

(* A status put behind a chained queue keeps it chained; connected, it      *)
(* starts a connection anew.                                                *)
LEMMA StatusAppended ==
  ASSUME NEW h \in Seq(Items), NEW b \in BOOLEAN, Chained(h)
  PROVE  LET g == Append(h, Status(b))
         IN Chained(g) /\ LastTells(g, b) /\ (b => \A c : HeardUpTo(g, c, 0))
<1>. DEFINE n == Len(h)
            g == Append(h, Status(b))
<1>1. n \in Nat /\ Len(g) = n + 1 /\ g[n + 1] = Status(b) /\ \A i \in 1..n : g[i] = h[i]
      /\ DOMAIN g = 1..n + 1
  OBVIOUS
<1>2. g[n + 1].type = "_conn_status" /\ g[n + 1].connected = b
  BY <1>1, ItemFacts
<1>. HIDE DEF g
<1>3. Chained(g)
  <2>. SUFFICES ASSUME NEW i \in 2..n + 1, IsData(g, i)
                PROVE  \/ /\ IsStatus(g, i - 1) /\ g[i - 1].connected
                          /\ g[i].message[2] = 1
                       \/ /\ IsData(g, i - 1)
                          /\ g[i].message = <<g[i - 1].message[1], g[i - 1].message[2] + 1>>
    BY <1>1 DEF Chained
  <2>1. i # n + 1
    BY <1>2 DEF IsData
  <2>2. i \in 2..n /\ i \in 1..n /\ i - 1 \in 1..n
    BY <1>1, <2>1
  <2>3. g[i] = h[i] /\ g[i - 1] = h[i - 1]
    BY <1>1, <2>2
  <2>. QED
    BY <2>2, <2>3 DEF Chained, IsData, IsStatus
<1>4. LastTells(g, b)
  <2>. SUFFICES ASSUME NEW i \in 1..n + 1, \A j \in i + 1..n + 1 : ~IsStatus(g, j)
                PROVE  g[i] = Status(b)
    BY <1>1 DEF LastTells
  <2>1. i = n + 1
    BY <1>1, <1>2 DEF IsStatus
  <2>. QED
    BY <1>1, <2>1
<1>5. b => \A c : HeardUpTo(g, c, 0)
  BY <1>1, <1>2 DEF HeardUpTo, IsStatus
<1>. QED
  BY <1>3, <1>4, <1>5 DEF g

(* The next messages of the connection heard last keep a queue chained.     *)
LEMMA LinesAppended ==
  ASSUME NEW h \in Seq(Items), Len(h) >= 1, Chained(h), NEW c, NEW k \in Nat, NEW n \in Nat,
         HeardUpTo(h, c, k), NEW b \in BOOLEAN, LastTells(h, b)
  PROVE  LET g == h \o Lines(c, k, n)
         IN Chained(g) /\ LastTells(g, b) /\ HeardUpTo(g, c, k + n)
<1>. DEFINE w == Len(h)
            g == h \o Lines(c, k, n)
<1>1. w \in Nat \ {0} /\ DOMAIN h = 1..w
  OBVIOUS
<1>2. /\ DOMAIN g = 1..w + n /\ Len(g) = w + n
      /\ \A i \in 1..w : g[i] = h[i]
      /\ \A x \in 1..n : g[w + x] = Data(<<c, k + x>>)
  BY DEF Lines
<1>3. \A x \in 1..n : IsData(g, w + x) /\ ~IsStatus(g, w + x) /\ g[w + x].message = <<c, k + x>>
  <2>1. \A m : Data(m).type = "message" /\ Data(m).message = m
    BY ItemFacts
  <2>. HIDE DEF g, w
  <2>. QED
    BY <1>2, <2>1 DEF IsData, IsStatus
<1>4. IsStatus(h, w) \/ IsData(h, w)
  BY <1>1, ItemFacts DEF IsData, IsStatus
<1>. HIDE DEF g, w
<1>5. Chained(g)
  <2>. SUFFICES ASSUME NEW i \in 2..w + n, IsData(g, i)
                PROVE  \/ /\ IsStatus(g, i - 1) /\ g[i - 1].connected
                          /\ g[i].message[2] = 1
                       \/ /\ IsData(g, i - 1)
                          /\ g[i].message = <<g[i - 1].message[1], g[i - 1].message[2] + 1>>
    BY <1>2 DEF Chained
  <2>1. CASE i <= w
    <3>1. i \in 2..w /\ i \in 1..w /\ i - 1 \in 1..w
      BY <1>1, <2>1
    <3>2. g[i] = h[i] /\ g[i - 1] = h[i - 1]
      BY <1>2, <3>1
    <3>. QED
      BY <3>1, <3>2 DEF Chained, IsData, IsStatus, w
  <2>2. CASE i = w + 1
    <3>1. 1 \in 1..n /\ i - 1 = w /\ w \in 1..w
      BY <1>1, <2>2
    <3>2. g[i].message = <<c, k + 1>> /\ g[i - 1] = h[w]
      BY <1>2, <1>3, <2>2, <3>1
    <3>3. CASE IsStatus(h, w)
      BY <3>2, <3>3 DEF HeardUpTo, IsStatus, w
    <3>4. CASE ~IsStatus(h, w)
      BY <1>4, <3>2, <3>4 DEF HeardUpTo, IsStatus, IsData, w
    <3>. QED
      BY <3>3, <3>4
  <2>3. CASE i > w + 1
    <3>1. i - w \in 1..n /\ i - w - 1 \in 1..n /\ w + (i - w) = i /\ w + (i - w - 1) = i - 1
          /\ k + (i - w - 1) + 1 = k + (i - w)
      BY <1>1, <2>3
    <3>. QED
      BY <1>3, <3>1
  <2>. QED
    BY <1>1, <2>1, <2>2, <2>3
<1>6. LastTells(g, b)
  <2>. SUFFICES ASSUME NEW i \in 1..w + n, IsStatus(g, i),
                       \A j \in i + 1..w + n : ~IsStatus(g, j)
                PROVE  g[i] = Status(b)
    BY <1>2 DEF LastTells
  <2>1. i \in 1..w
    <3>1. i \notin 1..w => i - w \in 1..n /\ w + (i - w) = i
      BY <1>1
    <3>. QED
      BY <1>3, <3>1
  <2>2. ASSUME NEW j \in i + 1..w PROVE ~IsStatus(h, j)
    <3>1. j \in i + 1..w + n /\ j \in 1..w
      BY <1>1, <2>1
    <3>. QED
      BY <1>2, <3>1 DEF IsStatus
  <2>3. IsStatus(h, i) /\ g[i] = h[i]
    BY <1>2, <2>1 DEF IsStatus
  <2>. QED
    BY <1>1, <2>1, <2>2, <2>3 DEF LastTells, w
<1>7. HeardUpTo(g, c, k + n)
  <2>1. CASE n = 0
    <3>1. w + n = w /\ w \in 1..w /\ k + n = k
      BY <1>1, <2>1
    <3>2. Len(g) = w /\ g[w] = h[w]
      BY <1>2, <3>1
    <3>. QED
      BY <3>1, <3>2 DEF HeardUpTo, IsStatus, w
  <2>2. CASE n # 0
    <3>1. n \in 1..n
      BY <2>2
    <3>. QED
      BY <1>2, <1>3, <3>1 DEF HeardUpTo
  <2>. QED
    BY <2>1, <2>2
<1>. QED
  BY <1>5, <1>6, <1>7 DEF g

(* What is left of a chained queue when its beginning was taken is chained. *)
LEMMA Suffix ==
  ASSUME NEW h \in Seq(Items), NEW q \in Seq(Items)
  PROVE  /\ Chained(h \o q) => Chained(q)
         /\ \A b \in BOOLEAN : LastTells(h \o q, b) => LastTells(q, b)
         /\ q # <<>> => \A c, k : HeardUpTo(h \o q, c, k) => HeardUpTo(q, c, k)
<1>. DEFINE w == Len(h)
            n == Len(q)
            g == h \o q
<1>1. w \in Nat /\ n \in Nat /\ DOMAIN q = 1..n
  OBVIOUS
<1>2. DOMAIN g = 1..w + n /\ Len(g) = w + n /\ \A i \in 1..n : g[w + i] = q[i]
  OBVIOUS
<1>. HIDE DEF g, w, n
<1>3. ASSUME Chained(g) PROVE Chained(q)
  <2>. SUFFICES ASSUME NEW i \in 2..n, IsData(q, i)
                PROVE  \/ /\ IsStatus(q, i - 1) /\ q[i - 1].connected
                          /\ q[i].message[2] = 1
                       \/ /\ IsData(q, i - 1)
                          /\ q[i].message = <<q[i - 1].message[1], q[i - 1].message[2] + 1>>
    BY DEF Chained, n
  <2>1. w + i \in 2..w + n /\ i \in 1..n /\ i - 1 \in 1..n /\ w + (i - 1) = (w + i) - 1
    BY <1>1
  <2>2. q[i] = g[w + i] /\ q[i - 1] = g[(w + i) - 1]
    BY <1>2, <2>1
  <2>3. IsData(g, w + i)
    BY <2>2 DEF IsData
  <2>. QED
    BY <1>2, <1>3, <2>1, <2>2, <2>3 DEF Chained, IsData, IsStatus
<1>4. ASSUME NEW b \in BOOLEAN, LastTells(g, b) PROVE LastTells(q, b)
  <2>. SUFFICES ASSUME NEW i \in 1..n, IsStatus(q, i), \A j \in i + 1..n : ~IsStatus(q, j)
                PROVE  q[i] = Status(b)
    BY <1>1 DEF LastTells, n
  <2>1. IsStatus(g, w + i) /\ w + i \in 1..w + n /\ g[w + i] = q[i]
    BY <1>1, <1>2 DEF IsStatus
  <2>2. ASSUME NEW j \in (w + i) + 1..w + n PROVE ~IsStatus(g, j)
    <3>1. j - w \in i + 1..n /\ j - w \in 1..n /\ w + (j - w) = j
      BY <1>1
    <3>. QED
      BY <1>2, <3>1 DEF IsStatus
  <2>. QED
    BY <1>2, <1>4, <2>1, <2>2 DEF LastTells
<1>5. ASSUME q # <<>>, NEW c, NEW k, HeardUpTo(g, c, k) PROVE HeardUpTo(q, c, k)
  <2>1. n \in 1..n
    BY <1>5 DEF n
  <2>. QED
    BY <1>2, <1>5, <2>1 DEF HeardUpTo, IsStatus, n
<1>. QED
  BY <1>3, <1>4, <1>5 DEF g

-----------------------------------------------------------------------------
(* The bytes on their way *)

(* The places of a concatenation.                                           *)
LEMMA ConcatFacts ==
  ASSUME NEW S, NEW a \in Seq(S), NEW b \in Seq(S)
  PROVE  /\ a \o b \in Seq(S) /\ Len(a \o b) = Len(a) + Len(b)
         /\ Len(a) \in Nat /\ Len(b) \in Nat
         /\ \A i \in 1..Len(a) : (a \o b)[i] = a[i]
         /\ \A i \in 1..Len(b) : (a \o b)[Len(a) + i] = b[i]
  OBVIOUS

(* Concatenation is associative.                                            *)
LEMMA Joins ==
  ASSUME NEW a \in Seq(Byte), NEW b \in Seq(Byte), NEW c \in Seq(Byte)
  PROVE  (a \o b) \o c = a \o (b \o c)
  OBVIOUS

(* The places of what recv leaves on the wire.                              *)
LEMMA RestFacts ==
  ASSUME NEW S, NEW w \in Seq(S), NEW n \in 0..Len(w)
  PROVE  /\ SubSeq(w, n + 1, Len(w)) \in Seq(S)
         /\ Len(SubSeq(w, n + 1, Len(w))) = Len(w) - n
         /\ \A i \in 1..Len(w) - n : SubSeq(w, n + 1, Len(w))[i] = w[n + i]
  OBVIOUS

(* The bytes of a line.                                                     *)
LEMMA LineFacts ==
  ASSUME NEW m \in Message
  PROVE  /\ Line(m) \in Seq(Byte) /\ Len(Line(m)) = 3
         /\ \A l \in 1..3 : Line(m)[l] = <<m, l>>
  BY DEF Line, Byte

(* A stream that is cut off anywhere is still lines from the beginning of   *)
(* one.                                                                     *)
LEMMA LinesCut ==
  ASSUME NEW b \in Seq(Byte), NEW w \in Seq(Byte), NEW n \in 0..Len(w), NEW c, NEW k \in Nat,
         LinesFrom(b \o w, c, k)
  PROVE  LinesFrom(b \o SubSeq(w, 1, n), c, k)
<1>. DEFINE cut == SubSeq(w, 1, n)
            p == b \o cut
            q == b \o w
<1>1. cut \in Seq(Byte) /\ Len(cut) = n /\ \A i \in 1..n : cut[i] = w[i]
  OBVIOUS
<1>2. Len(b) \in Nat /\ Len(w) \in Nat /\ n \in Nat /\ n <= Len(w)
  OBVIOUS
<1>. HIDE DEF cut
<1>3. Len(p) = Len(b) + n /\ Len(q) = Len(b) + Len(w)
  BY <1>1
<1>4. \A i \in 1..Len(b) + n : p[i] = q[i]
  BY <1>1, <1>2
<1>. HIDE DEF p, q
<1>5. ASSUME NEW m \in Nat, NEW l \in 1..3, 3 * m + l <= Len(p)
      PROVE  p[3 * m + l] = <<<<c, k + m + 1>>, l>>
  <2>1. 3 * m + l \in 1..Len(b) + n /\ 3 * m + l <= Len(q)
    BY <1>2, <1>3, <1>5
  <2>. QED
    BY <1>4, <2>1 DEF LinesFrom, q
<1>. QED
  BY <1>5 DEF LinesFrom, p, cut

(* The next line sent continues the stream.                                 *)
LEMMA LineSent ==
  ASSUME NEW b \in Seq(Byte), NEW w \in Seq(Byte), NEW c, NEW k \in Nat, NEW s \in Nat,
         <<c, s + 1>> \in Message,
         LinesFrom(b \o w, c, k), Len(b) + Len(w) = 3 * (s - k)
  PROVE  LinesFrom(b \o (w \o Line(<<c, s + 1>>)), c, k)
<1>. DEFINE line == Line(<<c, s + 1>>)
            q == b \o w
            p == b \o (w \o line)
<1>1. line \in Seq(Byte) /\ Len(line) = 3 /\ \A l \in 1..3 : line[l] = <<<<c, s + 1>>, l>>
  BY LineFacts
<1>. HIDE DEF line
<1>2. q \in Seq(Byte) /\ Len(q) \in Nat
  OBVIOUS
<1>3. p = q \o line
  <2>1. line \in Seq(Byte)
    BY <1>1
  <2>. QED
    <3>. HIDE DEF line, p, q
    <3>1. (b \o w) \o line = b \o (w \o line)
      BY <2>1, Joins, Zenon
    <3>. QED
      BY <3>1 DEF p, q
<1>6. Len(q) = 3 * (s - k)
  BY ConcatFacts
<1>. HIDE DEF p, q
<1>4. Len(p) = Len(q) + 3 /\ (\A i \in 1..Len(q) : p[i] = q[i])
      /\ \A l \in 1..3 : p[Len(q) + l] = line[l]
  <2>1. q \in Seq(Byte) /\ line \in Seq(Byte)
    BY <1>1, <1>2
  <2>2. /\ Len(q \o line) = Len(q) + Len(line)
        /\ \A i \in 1..Len(q) : (q \o line)[i] = q[i]
        /\ \A i \in 1..Len(line) : (q \o line)[Len(q) + i] = line[i]
    BY <2>1, ConcatFacts
  <2>3. Len(line) = 3
    BY <1>1
  <2>. QED
    BY <1>3, <2>2, <2>3, Zenon
<1>5. ASSUME NEW m \in Nat, NEW l \in 1..3, 3 * m + l <= Len(p)
      PROVE  p[3 * m + l] = <<<<c, k + m + 1>>, l>>
  <2>1. CASE 3 * m + l <= Len(q)
    <3>1. 3 * m + l \in 1..Len(q)
      BY <1>2, <2>1
    <3>. QED
      BY <1>4, <2>1, <3>1 DEF LinesFrom, q
  <2>2. CASE 3 * m + l > Len(q)
    <3>1. m = s - k /\ 3 * m + l = Len(q) + l /\ k + m + 1 = s + 1
      BY <1>2, <1>4, <1>5, <1>6, <2>2
    <3>. QED
      BY <1>1, <1>4, <3>1
  <2>. QED
    BY <1>2, <2>1, <2>2
<1>. QED
  BY <1>5 DEF LinesFrom, p, line

(* What is held and what is left of the wire, once some of it is read, are  *)
(* lines from the beginning of the torn one.                                *)
LEMMA LinesRead ==
  ASSUME NEW b \in Seq(Byte), NEW w \in Seq(Byte), NEW n \in 1..Len(w), NEW c \in Nat, NEW k \in Nat,
         NEW x \in Nat, NEW t \in 0..2, 3 * x + t = Len(b) + n,
         Torn(<<c, k + x + 1>>, t) \in Seq(Byte), LinesFrom(b \o w, c, k)
  PROVE  LinesFrom(Torn(<<c, k + x + 1>>, t) \o SubSeq(w, n + 1, Len(w)), c, k + x)
<1>. DEFINE torn == Torn(<<c, k + x + 1>>, t)
            rest == SubSeq(w, n + 1, Len(w))
            q == b \o w
            p == torn \o rest
<1>1. torn \in Seq(Byte) /\ Len(torn) = t
      /\ \A i \in 1..t : torn[i] = <<<<c, k + x + 1>>, i>>
  BY DEF Torn
<1>2. rest \in Seq(Byte) /\ Len(rest) = Len(w) - n /\ \A i \in 1..Len(w) - n : rest[i] = w[n + i]
  <2>1. n \in 0..Len(w)
    OBVIOUS
  <2>. QED
    BY <2>1, RestFacts, Zenon
<1>3. Len(b) \in Nat /\ Len(w) \in Nat /\ n \in Nat /\ n <= Len(w)
  OBVIOUS
<1>4. Len(q) = Len(b) + Len(w) /\ \A i \in 1..Len(w) : q[Len(b) + i] = w[i]
  OBVIOUS
<1>. HIDE DEF torn, rest, q
<1>5. Len(p) = t + (Len(w) - n) /\ (\A i \in 1..t : p[i] = torn[i])
      /\ \A i \in 1..Len(w) - n : p[t + i] = rest[i]
  <2>1. torn \in Seq(Byte) /\ rest \in Seq(Byte)
    BY <1>1, <1>2
  <2>2. /\ Len(p) = Len(torn) + Len(rest)
        /\ \A i \in 1..Len(torn) : p[i] = torn[i]
        /\ \A i \in 1..Len(rest) : p[Len(torn) + i] = rest[i]
    BY <2>1, ConcatFacts
  <2>3. Len(torn) = t /\ Len(rest) = Len(w) - n
    BY <1>1, <1>2
  <2>. QED
    BY <2>2, <2>3, Zenon
<1>. HIDE DEF p
<1>6. ASSUME NEW m \in Nat, NEW l \in 1..3, 3 * m + l <= Len(p)
      PROVE  p[3 * m + l] = <<<<c, (k + x) + m + 1>>, l>>
  <2>1. CASE 3 * m + l <= t
    <3>1. m = 0 /\ l \in 1..t /\ 3 * m + l = l /\ k + x + 1 = (k + x) + m + 1
      BY <2>1
    <3>. QED
      BY <1>1, <1>5, <3>1
  <2>2. CASE 3 * m + l > t
    <3>. DEFINE i == 3 * m + l - t
    <3>1. i \in Nat /\ 1 <= i /\ i <= Len(w) - n /\ 3 * m + l = t + i
      BY <1>3, <1>5, <1>6, <2>2
    <3>. HIDE DEF i
    <3>2. i \in 1..Len(w) - n /\ n + i \in 1..Len(w)
      BY <1>3, <3>1
    <3>3. Len(b) + (n + i) = 3 * (x + m) + l
      <4>1. i \in Nat /\ 3 * m + l = t + i
        BY <3>1
      <4>2. Len(b) \in Nat /\ n \in Nat
        BY <1>3
      <4>. QED
        BY <4>1, <4>2
    <3>4. x + m \in Nat /\ k + (x + m) + 1 = (k + x) + m + 1
      OBVIOUS
    <3>5. p[3 * m + l] = q[3 * (x + m) + l]
      <4>1. p[3 * m + l] = rest[i]
        BY <1>5, <3>1, <3>2
      <4>2. rest[i] = w[n + i]
        BY <1>2, <3>2
      <4>3. w[n + i] = q[Len(b) + (n + i)]
        BY <1>4, <3>2
      <4>. QED
        BY <3>3, <4>1, <4>2, <4>3
    <3>6. 3 * (x + m) + l <= Len(q)
      BY <1>3, <1>4, <3>1, <3>2, <3>3
    <3>7. q[3 * (x + m) + l] = <<<<c, k + (x + m) + 1>>, l>>
      BY <3>4, <3>6 DEF LinesFrom, q
    <3>. QED
      BY <3>4, <3>5, <3>7
  <2>3. 3 * m + l \in Nat /\ t \in Nat
    OBVIOUS
  <2>. QED
    BY <2>1, <2>2, <2>3
<1>. QED
  BY <1>6 DEF LinesFrom, p, torn, rest

-----------------------------------------------------------------------------
(* The inductive invariant *)

(* While the thread reads, what is held back and on its way goes on where   *)
(* what the main thread hears ends, up to the last line sent while nothing  *)
(* has been cut off.                                                        *)
Following ==
  /\ conns >= 1 /\ Len(buf) <= 2
  /\ \E k \in Nat :
       /\ HeardUpTo(Hears, conns, k)
       /\ LinesFrom(buf \o wire, conns, k)
       /\ link = "open" => Len(buf) + Len(wire) = 3 * (sends - k)

IInv ==
  /\ TypeOK
  /\ link # "none" <=> thread = "reading"
  /\ Chained(Hears)
  /\ thread = "reading" => LastTells(Hears, TRUE) /\ Following
  /\ thread # "reading" => LastTells(Hears, FALSE)

HearsOf(c, g, q) == <<Status(c)>> \o g \o q

(* The pieces of what the main thread hears have their types.               *)
LEMMA HearsTyped ==
  ASSUME TypeOK
  PROVE  /\ connected \in BOOLEAN /\ got \in Seq(Items) /\ queue \in Seq(Items)
         /\ Status(connected) \in Items
         /\ Hears = HearsOf(connected, got, queue)
  BY ItemFacts DEF TypeOK, Items, Hears, HearsOf

LaidOut(h, c, g, q) ==
  /\ h \in Seq(Items) /\ Len(h) = 1 + Len(g) + Len(q)
  /\ h[1] = Status(c)
  /\ \A i \in 1..Len(g) : h[1 + i] = g[i]
  /\ \A i \in 1..Len(q) : h[1 + Len(g) + i] = q[i]

(* The places of the status, of what was got and of the queue.              *)
LEMMA HearsLength ==
  ASSUME NEW c \in BOOLEAN, NEW g \in Seq(Items), NEW q \in Seq(Items)
  PROVE  LaidOut(HearsOf(c, g, q), c, g, q)
<1>1. Status(c) \in Items
  BY ItemFacts
<1>. QED
  BY <1>1 DEF HearsOf, LaidOut

(* What is put into the queue is heard last.                                *)
LEMMA HearsPut ==
  ASSUME NEW c \in BOOLEAN, NEW g \in Seq(Items), NEW q \in Seq(Items)
  PROVE  /\ \A x \in Items : HearsOf(c, g, Append(q, x)) = Append(HearsOf(c, g, q), x)
         /\ \A x \in Seq(Items) : HearsOf(c, g, q \o x) = HearsOf(c, g, q) \o x
<1>1. <<Status(c)>> \o g \in Seq(Items)
  BY ItemFacts
<1>. QED
  BY <1>1 DEF HearsOf

(* A message taken off the queue is still heard; a status taken is where it *)
(* starts anew.                                                             *)
LEMMA HearsTaken ==
  ASSUME NEW c \in BOOLEAN, NEW g \in Seq(Items), NEW q \in Seq(Items), q # <<>>
  PROVE  /\ HearsOf(c, Append(g, Head(q)), Tail(q)) = HearsOf(c, g, q)
         /\ \A b \in BOOLEAN : Head(q) = Status(b) => HearsOf(b, <<>>, Tail(q)) = q
<1>1. <<Status(c)>> \o g \in Seq(Items) /\ <<Status(c)>> \in Seq(Items)
  BY ItemFacts
<1>2. Head(q) \in Items /\ Tail(q) \in Seq(Items) /\ <<Head(q)>> \o Tail(q) = q
  OBVIOUS
<1>3. <<Status(c)>> \o Append(g, Head(q)) = (<<Status(c)>> \o g) \o <<Head(q)>>
  BY <1>1, <1>2
<1>4. HearsOf(c, Append(g, Head(q)), Tail(q)) = HearsOf(c, g, q)
  BY <1>1, <1>2, <1>3 DEF HearsOf
<1>5. ASSUME NEW b \in BOOLEAN, Head(q) = Status(b)
      PROVE  HearsOf(b, <<>>, Tail(q)) = q
  BY <1>2, <1>5 DEF HearsOf
<1>. QED
  BY <1>4, <1>5

-----------------------------------------------------------------------------
(* Every step keeps the types *)

HeldByte == Message \X (1..2)
Letters  == {Data(m) : m \in Message}

(* What is no status is a message.                                          *)
LEMMA LetterFacts ==
  /\ Letters \subseteq Items
  /\ \A x \in Items : x.type # "_conn_status" => x \in Letters
  /\ \A x \in Items : x.type = "_conn_status" => x.connected \in BOOLEAN /\ x = Status(x.connected)
<1>1. Letters \subseteq Items
  BY DEF Letters, Items
<1>2. ASSUME NEW x \in Items, x.type # "_conn_status" PROVE x \in Letters
  BY <1>2, ItemFacts DEF Letters
<1>3. ASSUME NEW x \in Items, x.type = "_conn_status"
      PROVE  x.connected \in BOOLEAN /\ x = Status(x.connected)
  <2>1. \E b \in BOOLEAN : x = Status(b)
    BY <1>3, ItemFacts
  <2>. QED
    BY <2>1, ItemFacts
<1>. QED
  BY <1>1, <1>2, <1>3

(* TypeOK, with its sets named. *)
LEMMA Typed ==
  TypeOK <=>
    /\ up \in BOOLEAN /\ stop \in BOOLEAN /\ connected \in BOOLEAN
    /\ conns \in 0..MaxConns /\ sends \in 0..MaxSends
    /\ link \in {"none", "open", "closed"}
    /\ wire \in Seq(Byte) /\ buf \in Seq(HeldByte)
    /\ thread \in {"connecting", "reading", "asleep", "ended"}
    /\ backoff \in {1, 2, 4, 8}
    /\ queue \in Seq(Items) /\ got \in Seq(Letters)
  BY DEF TypeOK, Byte, HeldByte, Items, Letters

(* The invariant holds at the start.                                        *)
LEMMA InitIInv == Init => IInv
<1>. SUFFICES ASSUME Init PROVE IInv
  OBVIOUS
<1>1. TypeOK
  <2>1. MaxConns \in Nat /\ MaxSends \in Nat
    BY NetClientAssumption
  <2>2. 0 \in 0..MaxConns /\ 0 \in 0..MaxSends
    BY <2>1
  <2>. QED
    <3>1. wire \in Seq(Byte) /\ buf \in Seq(HeldByte)
          /\ queue \in Seq(Items) /\ got \in Seq(Letters)
      BY DEF Init
    <3>2. conns \in 0..MaxConns /\ sends \in 0..MaxSends
      BY <2>2 DEF Init
    <3>3. /\ up \in BOOLEAN /\ stop \in BOOLEAN /\ connected \in BOOLEAN
          /\ link \in {"none", "open", "closed"} /\ backoff \in {1, 2, 4, 8}
          /\ thread \in {"connecting", "reading", "asleep", "ended"}
      BY DEF Init
    <3>. QED
      BY <3>1, <3>2, <3>3, Typed
<1>2. HearsOf(FALSE, <<>>, <<>>) = Append(<<>>, Status(FALSE))
  BY DEF HearsOf
<1>3. Hears = Append(<<>>, Status(FALSE))
  BY <1>2 DEF Init, Hears, HearsOf
<1>4. <<>> \in Seq(Items) /\ Chained(<<>>)
  BY DEF Chained
<1>5. Chained(Hears) /\ LastTells(Hears, FALSE)
  BY <1>3, <1>4, StatusAppended
<1>. QED
  BY <1>1, <1>5 DEF IInv, Init

(* Every step keeps the types.                                              *)
LEMMA TypeStep ==
  ASSUME IInv, [Next]_vars
  PROVE  TypeOK'
<1>. DEFINE Sound ==
       /\ up \in BOOLEAN /\ stop \in BOOLEAN /\ connected \in BOOLEAN
       /\ conns \in 0..MaxConns /\ sends \in 0..MaxSends
       /\ link \in {"none", "open", "closed"}
       /\ wire \in Seq(Byte) /\ buf \in Seq(HeldByte)
       /\ thread \in {"connecting", "reading", "asleep", "ended"}
       /\ backoff \in {1, 2, 4, 8}
       /\ queue \in Seq(Items) /\ got \in Seq(Letters)
<1>1. Sound
  BY Typed DEF IInv
<1>2. MaxConns \in Nat /\ MaxSends \in Nat /\ 1 <= MaxSends
  <2>1. MaxSends \in Nat \ {0}
    BY NetClientAssumption
  <2>. QED
    BY <2>1, NetClientAssumption
<1>3. Status(TRUE) \in Items /\ Status(FALSE) \in Items
  BY ItemFacts
<1>4. \A c \in 1..MaxConns, s \in 1..MaxSends : Line(<<c, s>>) \in Seq(Byte)
  BY LineFacts DEF Message
<1>20. Append(queue, Status(TRUE)) \in Seq(Items) /\ Append(queue, Status(FALSE)) \in Seq(Items)
  <2>1. queue \in Seq(Items)
    BY <1>1
  <2>2. \A x \in Items : Append(queue, x) \in Seq(Items)
    BY <2>1
  <2>. QED
    BY <1>3, <2>2, Zenon
<1>5. \A n \in 0..Len(wire) : SubSeq(wire, 1, n) \in Seq(Byte)
  BY <1>1
<1>6. ASSUME DaemonStarts PROVE Sound'
  BY <1>1, <1>6 DEF DaemonStarts, client, app
<1>7. ASSUME DaemonStops PROVE Sound'
  BY <1>1, <1>5, <1>7 DEF DaemonStops, Cut, client, app
<1>8. ASSUME HangUp PROVE Sound'
  BY <1>1, <1>5, <1>8 DEF HangUp, Cut, client, app
<1>9. ASSUME Send PROVE Sound'
  <2>1. conns \in 1..MaxConns /\ sends + 1 \in 1..MaxSends
    BY <1>1, <1>2, <1>9 DEF Send, IInv, Following
  <2>2. Line(<<conns, sends + 1>>) \in Seq(Byte)
    BY <1>4, <2>1
  <2>. QED
    BY <1>1, <1>2, <1>9, <2>1, <2>2 DEF Send, client, app
<1>10. ASSUME Connect PROVE Sound'
  <2>1. conns + 1 \in 1..MaxConns /\ 1 \in 1..MaxSends
    BY <1>1, <1>2, <1>10 DEF Connect
  <2>2. Line(<<conns + 1, 1>>) \in Seq(Byte)
    BY <1>4, <2>1
  <2>. QED
    <3>1. conns' \in 0..MaxConns /\ sends' \in 0..MaxSends
      BY <1>2, <1>10, <2>1 DEF Connect
    <3>2. wire' \in Seq(Byte) /\ buf' \in Seq(HeldByte) /\ queue' \in Seq(Items)
      <4>1. wire' = Line(<<conns + 1, 1>>) /\ buf' = <<>> /\ queue' = Append(queue, Status(TRUE))
        BY <1>10, Zenon DEF Connect
      <4>2. <<>> \in Seq(HeldByte)
        OBVIOUS
      <4>. QED
        BY <1>20, <2>2, <4>1, <4>2, Zenon
    <3>3. link' = "open" /\ thread' = "reading" /\ backoff' = 1
          /\ UNCHANGED <<up, stop, connected, got>>
      BY <1>10 DEF Connect, app
    <3>. QED
      BY <1>1, <3>1, <3>2, <3>3
<1>11. ASSUME CannotConnect PROVE Sound'
  <2>1. queue' \in Seq(Items) /\ thread' \in {"connecting", "reading", "asleep", "ended"}
    BY <1>11, <1>20 DEF CannotConnect, LoseConnection
  <2>. QED
    BY <1>1, <1>11, <2>1 DEF CannotConnect, daemon, app
<1>12. ASSUME Recv PROVE Sound'
  <2>1. PICK n \in 1..Len(wire) :
          LET fed == Feed(buf, SubSeq(wire, 1, n))
          IN /\ wire' = SubSeq(wire, n + 1, Len(wire))
             /\ buf' = fed.buf
             /\ queue' = queue \o fed.messages
    BY <1>12 DEF Recv
  <2>. DEFINE data == SubSeq(wire, 1, n)
              fed == Feed(buf, data)
  <2>2. data \in Seq(Byte) /\ n \in 0..Len(wire)
    BY <1>5
  <2>3. fed \in Fed
    BY <1>1, <2>2, FeedTyped DEF HeldByte
  <2>4. fed.buf \in Seq(HeldByte) /\ fed.messages \in Seq(Letters)
    BY <2>3 DEF Fed, HeldByte, Letters
  <2>. HIDE DEF fed
  <2>5. fed.messages \in Seq(Items)
    BY <2>4, LetterFacts
  <2>6. queue \o fed.messages \in Seq(Items)
    BY <1>1, <2>5
  <2>7. SubSeq(wire, n + 1, Len(wire)) \in Seq(Byte)
    BY <1>1, <2>2, RestFacts
  <2>8. wire' \in Seq(Byte) /\ buf' \in Seq(HeldByte) /\ queue' \in Seq(Items)
    BY <2>1, <2>4, <2>6, <2>7 DEF fed
  <2>. QED
    BY <1>1, <1>12, <2>8 DEF Recv, app
<1>13. ASSUME ReadEnds PROVE Sound'
  <2>1. queue' \in Seq(Items) /\ thread' \in {"connecting", "reading", "asleep", "ended"}
    BY <1>13, <1>20 DEF ReadEnds, LoseConnection
  <2>. QED
    BY <1>1, <1>13, <2>1 DEF ReadEnds, app
<1>14. ASSUME Wake PROVE Sound'
  <2>1. backoff' \in {1, 2, 4, 8}
    BY <1>1, <1>14 DEF Wake, MaxBackoff
  <2>. QED
    BY <1>1, <1>14, <2>1 DEF Wake, daemon, app
<1>15. ASSUME End PROVE Sound'
  BY <1>1, <1>15 DEF End, daemon, app
<1>16. ASSUME Drain PROVE Sound'
  <2>1. Head(queue) \in Items /\ Tail(queue) \in Seq(Items)
    BY <1>1, <1>16 DEF Drain
  <2>2. connected' \in BOOLEAN /\ got' \in Seq(Letters)
    <3>1. CASE Head(queue).type = "_conn_status"
      <4>1. Head(queue).connected \in BOOLEAN
        BY <2>1, <3>1, LetterFacts
      <4>2. connected' = Head(queue).connected /\ got' = <<>>
        BY <1>16, <3>1 DEF Drain
      <4>. QED
        BY <4>1, <4>2
    <3>2. CASE Head(queue).type # "_conn_status"
      <4>1. Head(queue) \in Letters
        BY <2>1, <3>2, LetterFacts
      <4>2. connected' = connected /\ got' = Append(got, Head(queue))
        BY <1>16, <3>2 DEF Drain
      <4>. QED
        BY <1>1, <4>1, <4>2
    <3>. QED
      BY <3>1, <3>2
  <2>. QED
    BY <1>1, <1>16, <2>1, <2>2 DEF Drain, daemon, client
<1>17. ASSUME Stop PROVE Sound'
  BY <1>1, <1>17 DEF Stop, daemon, client
<1>18. ASSUME UNCHANGED vars PROVE Sound'
  BY <1>1, <1>18 DEF vars, daemon, client, app
<1>19. Sound'
  BY <1>6, <1>7, <1>8, <1>9, <1>10, <1>11, <1>12, <1>13, <1>14, <1>15, <1>16, <1>17, <1>18
     DEF Next, Thread
<1>. QED
  BY <1>19 DEF TypeOK, Byte, HeldByte, Items, Letters

(* What the inductive invariant adds to the types. *)
Heeds ==
  /\ link # "none" <=> thread = "reading"
  /\ Chained(Hears)
  /\ thread = "reading" => LastTells(Hears, TRUE) /\ Following
  /\ thread # "reading" => LastTells(Hears, FALSE)

(* Every step keeps the invariants of the thread's status and of the        *)
(* stream.                                                                  *)
LEMMA HeedStep ==
  ASSUME IInv, [Next]_vars
  PROVE  Heeds'
<1>1. /\ connected \in BOOLEAN /\ got \in Seq(Items) /\ queue \in Seq(Items)
      /\ Hears = HearsOf(connected, got, queue)
  BY HearsTyped DEF IInv
<1>2. Hears' = HearsOf(connected', got', queue')
  BY DEF Hears, HearsOf
<1>3. Hears \in Seq(Items) /\ Len(Hears) >= 1
  BY <1>1, HearsLength DEF LaidOut
<1>4. /\ wire \in Seq(Byte) /\ buf \in Seq(HeldByte) /\ buf \in Seq(Byte)
      /\ conns \in Nat /\ sends \in Nat
  <2>1. HeldByte \subseteq Byte
    BY DEF HeldByte, Byte
  <2>2. wire \in Seq(Byte) /\ buf \in Seq(HeldByte) /\ conns \in Nat /\ sends \in Nat
    BY Typed, NetClientAssumption DEF IInv
  <2>. QED
    BY <2>1, <2>2
<1>5. Heeds
  BY DEF IInv, Heeds
<1>6. ASSUME UNCHANGED <<conns, link, wire, sends, thread, buf, queue, connected, got>>
      PROVE  Heeds'
  <2>1. Hears' = Hears
    BY <1>6 DEF Hears
  <2>2. Following => Following'
    BY <1>6, <2>1 DEF Following
  <2>. QED
    BY <1>5, <1>6, <2>1, <2>2 DEF Heeds
<1>7. ASSUME UNCHANGED <<conns, sends, thread, buf, queue, connected, got>>, Cut,
             link' # "open", link' = "none" <=> link = "none"
      PROVE  Heeds'
  <2>1. Hears' = Hears
    BY <1>7 DEF Hears
  <2>2. ASSUME Following PROVE Following'
    <3>1. PICK k \in Nat : HeardUpTo(Hears, conns, k) /\ LinesFrom(buf \o wire, conns, k)
      BY <2>2 DEF Following
    <3>2. PICK n \in 0..Len(wire) : wire' = SubSeq(wire, 1, n)
      BY <1>7 DEF Cut
    <3>3. LinesFrom(buf \o SubSeq(wire, 1, n), conns, k)
      BY <1>4, <3>1, LinesCut
    <3>. QED
      BY <1>7, <2>1, <2>2, <3>1, <3>2, <3>3 DEF Following
  <2>. QED
    BY <1>5, <1>7, <2>1, <2>2 DEF Heeds
<1>8. CASE Send
  <2>1. Hears' = Hears /\ thread = "reading" /\ Following
    BY <1>5, <1>8 DEF Send, Heeds, Hears, client, app
  <2>2. PICK k \in Nat : /\ HeardUpTo(Hears, conns, k) /\ LinesFrom(buf \o wire, conns, k)
                         /\ Len(buf) + Len(wire) = 3 * (sends - k)
    BY <1>8, <2>1 DEF Following, Send
  <2>3. <<conns, sends + 1>> \in Message
    <3>1. conns \in 0..MaxConns /\ sends \in 0..MaxSends /\ sends < MaxSends /\ conns >= 1
      BY <1>8, <2>1, Typed DEF IInv, Send, Following
    <3>2. MaxConns \in Nat /\ MaxSends \in Nat
      BY NetClientAssumption
    <3>. QED
      BY <3>1, <3>2 DEF Message
  <2>. DEFINE line == Line(<<conns, sends + 1>>)
  <2>4. LinesFrom(buf \o (wire \o line), conns, k)
    BY <1>4, <2>2, <2>3, LineSent
  <2>5. line \in Seq(Byte) /\ Len(line) = 3
    BY <2>3, LineFacts
  <2>. HIDE DEF line
  <2>6. Len(buf) + Len(wire \o line) = 3 * ((sends + 1) - k)
    <3>1. Len(wire \o line) = Len(wire) + 3 /\ Len(wire) \in Nat /\ Len(buf) \in Nat
      <4>1. wire \in Seq(Byte) /\ buf \in Seq(Byte)
        BY <1>4
      <4>2. Len(wire \o line) = Len(wire) + Len(line)
        BY <2>5, <4>1, ConcatFacts
      <4>. QED
        BY <2>5, <4>1, <4>2
    <3>. QED
      BY <1>4, <2>2, <3>1
  <2>7. wire' = wire \o line /\ sends' = sends + 1 /\ link' = link
        /\ UNCHANGED <<conns, thread, buf>>
    BY <1>8 DEF Send, client, line
  <2>8. Following'
    BY <2>1, <2>2, <2>4, <2>6, <2>7 DEF Following
  <2>. QED
    BY <1>5, <2>1, <2>7, <2>8 DEF Heeds
<1>9. CASE Connect
  <2>1. /\ queue' = Append(queue, Status(TRUE)) /\ UNCHANGED <<connected, got>>
        /\ conns' = conns + 1 /\ wire' = Line(<<conns + 1, 1>>) /\ sends' = 1
        /\ thread' = "reading" /\ link' = "open" /\ buf' = <<>>
    BY <1>9 DEF Connect, app
  <2>2. Hears' = Append(Hears, Status(TRUE))
    <3>1. Status(TRUE) \in Items
      BY ItemFacts
    <3>. QED
      BY <1>1, <1>2, <2>1, <3>1, HearsPut
  <2>3. Chained(Hears') /\ LastTells(Hears', TRUE) /\ HeardUpTo(Hears', conns', 0)
    BY <1>3, <1>5, <2>2, StatusAppended DEF Heeds
  <2>. DEFINE line == Line(<<conns + 1, 1>>)
  <2>4. line \in Seq(Byte) /\ Len(line) = 3 /\ \A l \in 1..3 : line[l] = <<<<conns + 1, 1>>, l>>
    <3>1. conns \in 0..MaxConns /\ conns < MaxConns
      BY <1>9, Typed DEF IInv, Connect
    <3>2. MaxConns \in Nat /\ 1 <= MaxSends /\ MaxSends \in Nat
      <4>1. MaxSends \in Nat \ {0}
        BY NetClientAssumption
      <4>. QED
        BY <4>1, NetClientAssumption
    <3>3. <<conns + 1, 1>> \in Message
      BY <3>1, <3>2 DEF Message
    <3>. QED
      BY <3>3, LineFacts
  <2>. HIDE DEF line
  <2>5. LinesFrom(<<>> \o line, conns + 1, 0)
    <3>1. <<>> \o line = line
      BY <2>4
    <3>2. ASSUME NEW m \in Nat, NEW l \in 1..3, 3 * m + l <= 3
          PROVE  line[3 * m + l] = <<<<conns + 1, 0 + m + 1>>, l>>
      <4>1. m = 0 /\ 3 * m + l = l /\ 0 + m + 1 = 1
        BY <3>2
      <4>. QED
        BY <2>4, <4>1
    <3>. QED
      BY <2>4, <3>1, <3>2 DEF LinesFrom
  <2>6. Len(<<>>) + Len(line) = 3 * (1 - 0) /\ Len(<<>>) <= 2 /\ conns + 1 >= 1
    BY <1>4, <2>4
  <2>7. Following'
    BY <2>1, <2>3, <2>5, <2>6 DEF Following, line
  <2>. QED
    BY <2>1, <2>3, <2>7 DEF Heeds
<1>10. ASSUME queue' = Append(queue, Status(FALSE)), UNCHANGED <<connected, got>>,
              thread' # "reading", link' = "none"
       PROVE  Heeds'
  <2>1. Hears' = Append(Hears, Status(FALSE))
    <3>1. Status(FALSE) \in Items
      BY ItemFacts
    <3>. QED
      BY <1>1, <1>2, <1>10, <3>1, HearsPut
  <2>2. Chained(Hears') /\ LastTells(Hears', FALSE)
    BY <1>3, <1>5, <2>1, StatusAppended DEF Heeds
  <2>. QED
    BY <1>10, <2>2 DEF Heeds
<1>11. CASE CannotConnect
  <2>1. thread' # "reading" /\ link' = "none"
    BY <1>5, <1>11 DEF CannotConnect, LoseConnection, daemon, Heeds
  <2>. QED
    BY <1>10, <1>11, <2>1 DEF CannotConnect, LoseConnection, app
<1>12. CASE ReadEnds
  BY <1>10, <1>12 DEF ReadEnds, LoseConnection, app
<1>13. CASE Recv
  <2>1. thread = "reading" /\ Following /\ UNCHANGED <<link, sends, conns, thread, connected, got>>
    BY <1>5, <1>13 DEF Recv, Heeds, app
  <2>2. PICK n \in 1..Len(wire) :
          LET fed == Feed(buf, SubSeq(wire, 1, n))
          IN /\ wire' = SubSeq(wire, n + 1, Len(wire))
             /\ buf' = fed.buf
             /\ queue' = queue \o fed.messages
    BY <1>13 DEF Recv
  <2>3. PICK k \in Nat : /\ HeardUpTo(Hears, conns, k) /\ LinesFrom(buf \o wire, conns, k)
                         /\ link = "open" => Len(buf) + Len(wire) = 3 * (sends - k)
    BY <2>1 DEF Following
  <2>. DEFINE data == SubSeq(wire, 1, n)
              rest == SubSeq(wire, n + 1, Len(wire))
  <2>4. n \in 0..Len(wire) /\ data \in Seq(Byte) /\ Len(data) = n
    BY <1>4
  <2>5. rest \in Seq(Byte) /\ Len(rest) = Len(wire) - n
    BY <1>4, <2>4, RestFacts
  <2>6. LinesFrom(buf \o data, conns, k)
    BY <1>4, <2>3, <2>4, LinesCut
  <2>. HIDE DEF data, rest
  <2>7. PICK x \in Nat, t \in 0..2 :
          /\ 3 * x + t = Len(buf) + Len(data)
          /\ Feed(buf, data) = [buf |-> Torn(<<conns, k + x + 1>>, t),
                                messages |-> Lines(conns, k, x)]
    <3>1. Len(buf) <= 2
      BY <2>1 DEF Following
    <3>2. buf \in Seq(Message \X (1..2))
      BY <1>4 DEF HeldByte
    <3>3. conns \in Nat /\ data \in Seq(Byte)
      BY <1>4, <2>4
    <3>4. ReadsLines(buf, data, conns, k)
      BY <2>6, <3>1, <3>2, <3>3, FeedReads
    <3>. QED
      BY <3>4 DEF ReadsLines
  <2>. DEFINE torn == Torn(<<conns, k + x + 1>>, t)
              lines == Lines(conns, k, x)
  <2>8. wire' = rest /\ buf' = torn /\ queue' = queue \o lines
    BY <2>2, <2>7 DEF data, rest
  <2>9. torn \in Seq(Byte) /\ lines \in Seq(Items) /\ Len(torn) = t
    <3>1. Feed(buf, data) \in Fed
      BY <1>4, <2>4, FeedTyped DEF HeldByte
    <3>2. torn \in Seq(HeldByte) /\ lines \in Seq(Letters)
      BY <2>7, <3>1 DEF Fed, HeldByte, Letters
    <3>3. HeldByte \subseteq Byte
      BY DEF HeldByte, Byte
    <3>4. Len(torn) = t
      BY DEF Torn
    <3>. HIDE DEF torn, lines
    <3>. QED
      BY <3>2, <3>3, <3>4, LetterFacts
  <2>10. Hears' = Hears \o lines
    BY <1>1, <1>2, <2>1, <2>8, <2>9, HearsPut
  <2>11. Chained(Hears') /\ LastTells(Hears', TRUE) /\ HeardUpTo(Hears', conns, k + x)
    <3>1. Chained(Hears) /\ LastTells(Hears, TRUE)
      BY <1>5, <2>1 DEF Heeds
    <3>. QED
      BY <1>3, <2>3, <2>10, <3>1, LinesAppended
  <2>12. LinesFrom(torn \o rest, conns, k + x)
    BY <1>4, <2>3, <2>4, <2>7, <2>9, LinesRead DEF rest
  <2>13. /\ Len(torn) <= 2
         /\ link = "open" => Len(torn) + Len(rest) = 3 * (sends - (k + x))
    <3>1. Len(buf) \in Nat /\ Len(wire) \in Nat /\ n \in Nat /\ sends \in Nat
      BY <1>4
    <3>2. 3 * x + t = Len(buf) + n
      BY <2>4, <2>7
    <3>. HIDE DEF torn
    <3>. QED
      BY <2>3, <2>5, <2>9, <3>1, <3>2
  <2>. HIDE DEF torn, rest, lines
  <2>14. Following'
    <3>1. k + x \in Nat
      OBVIOUS
    <3>2. conns >= 1
      BY <2>1 DEF Following
    <3>. QED
      BY <2>1, <2>8, <2>11, <2>12, <2>13, <3>1, <3>2 DEF Following
  <2>. QED
    BY <1>5, <2>1, <2>11, <2>14 DEF Heeds
<1>14. ASSUME thread # "reading", thread' # "reading",
              UNCHANGED <<link, queue, connected, got>>
       PROVE  Heeds'
  <2>1. Hears' = Hears
    BY <1>14 DEF Hears
  <2>. QED
    BY <1>5, <1>14, <2>1 DEF Heeds
<1>15. CASE Drain
  <2>1. /\ queue # <<>> /\ queue' = Tail(queue)
        /\ UNCHANGED <<link, wire, sends, conns, thread, buf>>
    BY <1>15 DEF Drain, daemon, client
  <2>2. Head(queue) \in Items
    BY <1>1, <2>1
  <2>3. CASE Head(queue).type = "_conn_status"
    <3>1. connected' = Head(queue).connected /\ got' = <<>>
      BY <1>15, <2>3 DEF Drain
    <3>2. connected' \in BOOLEAN /\ Head(queue) = Status(connected')
      BY <2>2, <2>3, <3>1, LetterFacts
    <3>3. Hears' = queue
      BY <1>1, <1>2, <2>1, <3>1, <3>2, HearsTaken
    <3>4. <<Status(connected)>> \o got \in Seq(Items)
      <4>1. Status(connected) \in Items
        BY <1>1, ItemFacts
      <4>. QED
        BY <1>1, <4>1
    <3>5. Hears = (<<Status(connected)>> \o got) \o queue
      BY <1>1 DEF HearsOf
    <3>6. /\ Chained(Hears) => Chained(Hears')
          /\ LastTells(Hears, TRUE) => LastTells(Hears', TRUE)
          /\ LastTells(Hears, FALSE) => LastTells(Hears', FALSE)
          /\ \A c, k : HeardUpTo(Hears, c, k) => HeardUpTo(Hears', c, k)
      BY <1>1, <2>1, <3>3, <3>4, <3>5, Suffix
    <3>7. Following => Following'
      BY <2>1, <3>6 DEF Following
    <3>. QED
      BY <1>5, <2>1, <3>6, <3>7 DEF Heeds
  <2>4. CASE Head(queue).type # "_conn_status"
    <3>1. connected' = connected /\ got' = Append(got, Head(queue))
      BY <1>15, <2>4 DEF Drain
    <3>2. Hears' = Hears
      BY <1>1, <1>2, <2>1, <3>1, HearsTaken
    <3>3. Following => Following'
      BY <2>1, <3>2 DEF Following
    <3>. QED
      BY <1>5, <2>1, <3>2, <3>3 DEF Heeds
  <2>. QED
    BY <2>3, <2>4
<1>16. CASE DaemonStarts
  BY <1>6, <1>16 DEF DaemonStarts, client, app
<1>17. CASE DaemonStops
  BY <1>7, <1>17 DEF DaemonStops, client, app
<1>18. CASE HangUp
  BY <1>7, <1>18 DEF HangUp, client, app
<1>19. CASE Wake
  BY <1>14, <1>19 DEF Wake, daemon, app
<1>20. CASE End
  BY <1>14, <1>20 DEF End, daemon, app
<1>21. CASE Stop
  BY <1>6, <1>21 DEF Stop, daemon, client
<1>22. CASE UNCHANGED vars
  BY <1>6, <1>22 DEF vars, daemon, client, app
<1>. QED
  BY <1>8, <1>9, <1>11, <1>12, <1>13, <1>15, <1>16, <1>17, <1>18, <1>19, <1>20, <1>21, <1>22
     DEF Next, Thread

(* At every reachable state the inductive invariant holds. *)
THEOREM Invariance == Spec => []IInv
<1>1. IInv /\ [Next]_vars => IInv'
  <2>. SUFFICES ASSUME IInv, [Next]_vars PROVE IInv'
    OBVIOUS
  <2>. QED
    BY TypeStep, HeedStep DEF IInv, Heeds
<1>. QED
  BY <1>1, InitIInv, PTL DEF Spec

(* Every variable keeps its type, and the delay between two attempts stays  *)
(* between its bounds: NetClient._run doubles it up to the cap.             *)
THEOREM TypeCorrect == Spec => []TypeOK
<1>1. IInv => TypeOK
  BY DEF IInv
<1>. QED
  BY <1>1, Invariance, PTL

-----------------------------------------------------------------------------
(* The status *)

(* A status that no other follows is the last.                              *)
LEMMA TellsTrue ==
  ASSUME TypeOK, NEW b \in BOOLEAN, LastTells(Hears, b)
  PROVE  LET reports == {i \in DOMAIN queue : IsStatus(queue, i)}
         IN (IF reports = {} THEN connected ELSE queue[Max(reports)].connected) = b
<1>. DEFINE reports == {i \in DOMAIN queue : IsStatus(queue, i)}
            w == 1 + Len(got)
            n == Len(queue)
<1>1. /\ connected \in BOOLEAN /\ got \in Seq(Items) /\ queue \in Seq(Items)
      /\ Hears = HearsOf(connected, got, queue)
  BY HearsTyped
<1>2. /\ w \in Nat \ {0} /\ n \in Nat /\ DOMAIN queue = 1..n /\ DOMAIN Hears = 1..w + n
      /\ Len(Hears) = w + n /\ Hears[1] = Status(connected)
      /\ \A i \in 1..w - 1 : Hears[1 + i] = got[i]
      /\ \A i \in 1..n : Hears[w + i] = queue[i]
  <2>1. Len(got) \in Nat /\ n \in Nat /\ DOMAIN queue = 1..n /\ w - 1 = Len(got)
    BY <1>1
  <2>2. /\ Hears \in Seq(Items) /\ Len(Hears) = 1 + Len(got) + Len(queue)
        /\ Hears[1] = Status(connected)
        /\ \A i \in 1..Len(got) : Hears[1 + i] = got[i]
        /\ \A i \in 1..Len(queue) : Hears[1 + Len(got) + i] = queue[i]
    <3>1. LaidOut(Hears, connected, got, queue)
      BY <1>1, HearsLength
    <3>. QED
      BY <3>1 DEF LaidOut
  <2>3. DOMAIN Hears = 1..Len(Hears)
    BY <2>2
  <2>. QED
    BY <2>1, <2>2, <2>3
<1>3. \A i \in 1..w - 1 : ~IsStatus(Hears, 1 + i)
  <2>1. \A i \in 1..Len(got) : got[i] \in Letters
    BY Typed
  <2>2. \A x \in Letters : x.type # "_conn_status"
    BY ItemFacts DEF Letters
  <2>3. \A i \in 1..w - 1 : i \in 1..Len(got)
    BY <1>1
  <2>. HIDE DEF w
  <2>. QED
    BY <1>2, <2>1, <2>2, <2>3 DEF IsStatus
<1>. HIDE DEF w, n
<1>4. CASE reports = {}
  <2>1. \A i \in 1..n : ~IsStatus(queue, i)
    BY <1>2, <1>4
  <2>. HIDE DEF reports
  <2>2. ASSUME NEW j \in 1 + 1..w + n PROVE ~IsStatus(Hears, j)
    <3>1. CASE j <= w
      <4>1. j - 1 \in 1..w - 1 /\ 1 + (j - 1) = j
        BY <1>2, <3>1
      <4>. QED
        BY <1>3, <4>1
    <3>2. CASE j > w
      <4>1. j - w \in 1..n /\ w + (j - w) = j
        BY <1>2, <3>2
      <4>. QED
        BY <1>2, <2>1, <4>1 DEF IsStatus
    <3>. QED
      BY <1>2, <3>1, <3>2
  <2>3. IsStatus(Hears, 1) /\ 1 \in 1..w + n
    BY <1>1, <1>2, ItemFacts DEF IsStatus
  <2>4. Status(connected) = Status(b)
    BY <1>2, <2>2, <2>3 DEF LastTells
  <2>5. connected = b
    BY <1>1, <2>4, ItemFacts
  <2>. QED
    BY <1>4, <2>5 DEF reports
<1>5. CASE reports # {}
  <2>. DEFINE m == Max(reports)
  <2>1. reports \in SUBSET (1..n)
    BY <1>2
  <2>2. m \in reports /\ \A x \in reports : x <= m
    <3>. HIDE DEF reports
    <3>. QED
      BY <1>2, <1>5, <2>1, Extremes
  <2>3. m \in 1..n /\ IsStatus(queue, m)
    BY <2>1, <2>2
  <2>4. \A i \in 1..n : IsStatus(queue, i) => i <= m
    BY <1>2, <2>2
  <2>. HIDE DEF reports, m
  <2>5. w + m \in 1..w + n /\ IsStatus(Hears, w + m) /\ Hears[w + m] = queue[m]
    BY <1>2, <2>3 DEF IsStatus
  <2>6. ASSUME NEW j \in (w + m) + 1..w + n PROVE ~IsStatus(Hears, j)
    <3>1. j - w \in 1..n /\ w + (j - w) = j /\ ~(j - w <= m)
      BY <1>2, <2>3
    <3>. QED
      BY <1>2, <2>4, <3>1 DEF IsStatus
  <2>7. queue[m] = Status(b)
    BY <1>2, <2>5, <2>6 DEF LastTells
  <2>8. queue[m].connected = b
    BY <2>7, ItemFacts
  <2>. QED
    BY <1>5, <2>8 DEF reports, m
<1>. QED
  BY <1>4, <1>5

(* NetClient._run puts a status for every connection made, lost or refused: *)
(* the last that the main thread was or will be told is true of the thread. *)
THEOREM StatusIsTrue == Spec => []StatusTrue
<1>1. ASSUME IInv PROVE StatusTrue
  <2>. DEFINE reports == {i \in DOMAIN queue : IsStatus(queue, i)}
              told == IF reports = {} THEN connected ELSE queue[Max(reports)].connected
  <2>1. CASE thread = "reading"
    <3>1. told = TRUE
      BY <1>1, <2>1, TellsTrue DEF IInv
    <3>. QED
      BY <2>1, <3>1 DEF StatusTrue
  <2>2. CASE thread # "reading"
    <3>1. told = FALSE
      BY <1>1, <2>2, TellsTrue DEF IInv
    <3>. QED
      BY <2>2, <3>1 DEF StatusTrue
  <2>. QED
    BY <2>1, <2>2
<1>2. IInv => StatusTrue
  BY <1>1
<1>. QED
  BY <1>2, Invariance, PTL

-----------------------------------------------------------------------------
(* The messages *)

(* What follows a status in a chained sequence, up to the next status.      *)
LEMMA ChainedCounts ==
  ASSUME NEW h \in Seq(Items), Chained(h), NEW i \in 1..Len(h), IsStatus(h, i),
         NEW e \in i..Len(h), \A j \in i + 1..e : ~IsStatus(h, j)
  PROVE  /\ ~h[i].connected => e = i
         /\ \A j \in 1..e - i : h[i + j].message = <<h[i + 1].message[1], j>>
<1>1. Len(h) \in Nat /\ i \in Nat /\ e \in Nat /\ 1 <= i /\ i <= e /\ e <= Len(h)
  OBVIOUS
<1>2. \A j \in 1..Len(h) : h[j] \in Items
  OBVIOUS
<1>3. \A j \in i + 1..e : IsData(h, j) /\ j \in 2..Len(h) /\ \E m \in Message : h[j] = Data(m)
  <2>. SUFFICES ASSUME NEW j \in i + 1..e
                PROVE  IsData(h, j) /\ j \in 2..Len(h) /\ \E m \in Message : h[j] = Data(m)
    OBVIOUS
  <2>1. j \in 2..Len(h) /\ j \in 1..Len(h)
    BY <1>1
  <2>2. h[j] \in Items /\ h[j].type # "_conn_status"
    BY <1>2, <2>1 DEF IsStatus
  <2>. QED
    BY <2>1, <2>2, ItemFacts DEF IsData
<1>4. h[i].type # "message"
  BY DEF IsStatus
<1>5. ASSUME i < e
      PROVE  h[i].connected /\ h[i + 1].message[2] = 1
  <2>1. i + 1 \in i + 1..e /\ (i + 1) - 1 = i
    BY <1>1, <1>5
  <2>2. IsData(h, i + 1) /\ i + 1 \in 2..Len(h)
    BY <1>3, <2>1
  <2>. QED
    BY <1>4, <2>1, <2>2 DEF Chained, IsData
<1>. DEFINE Good == {j \in Nat : j + 1 <= e - i =>
                       h[i + (j + 1)].message = <<h[i + 1].message[1], j + 1>>}
<1>6. 0 \in Good
  <2>. SUFFICES ASSUME i < e
                PROVE  h[i + 1].message = <<h[i + 1].message[1], 1>>
    BY <1>1
  <2>1. i + 1 \in i + 1..e
    BY <1>1
  <2>2. PICK m \in Message : h[i + 1] = Data(m)
    BY <1>3, <2>1
  <2>3. h[i + 1].message = m /\ m = <<m[1], m[2]>>
    BY <2>2, ItemFacts DEF Message
  <2>. QED
    BY <1>5, <2>3
<1>7. ASSUME NEW j \in Nat, j \in Good PROVE j + 1 \in Good
  <2>. SUFFICES ASSUME (j + 1) + 1 <= e - i
                PROVE  h[i + ((j + 1) + 1)].message = <<h[i + 1].message[1], (j + 1) + 1>>
    OBVIOUS
  <2>. DEFINE x == i + (j + 1)
  <2>1. x \in i + 1..e /\ x + 1 \in i + 1..e /\ (x + 1) - 1 = x /\ x + 1 = i + ((j + 1) + 1)
        /\ j + 1 <= e - i
    BY <1>1
  <2>2. h[x].message = <<h[i + 1].message[1], j + 1>>
    BY <1>7, <2>1
  <2>. HIDE DEF x, Good
  <2>3. IsData(h, x + 1) /\ x + 1 \in 2..Len(h) /\ IsData(h, x)
    BY <1>3, <2>1
  <2>4. ~IsStatus(h, x)
    BY <2>1
  <2>5. h[x + 1].message = <<h[x].message[1], h[x].message[2] + 1>>
    BY <2>1, <2>3, <2>4 DEF Chained
  <2>6. h[x].message[1] = h[i + 1].message[1] /\ h[x].message[2] = j + 1
    BY <2>2
  <2>. QED
    BY <2>1, <2>5, <2>6
<1>. HIDE DEF Good
<1>8. Nat \subseteq Good
  BY <1>6, <1>7, SetInduction
<1>9. ASSUME NEW j \in 1..e - i
      PROVE  h[i + j].message = <<h[i + 1].message[1], j>>
  <2>1. j - 1 \in Nat /\ (j - 1) + 1 = j /\ j <= e - i
    BY <1>1
  <2>2. j - 1 \in Good
    BY <1>8, <2>1
  <2>3. h[i + ((j - 1) + 1)].message = <<h[i + 1].message[1], (j - 1) + 1>>
    BY <2>1, <2>2 DEF Good
  <2>. QED
    BY <2>1, <2>3
<1>10. ~h[i].connected => e = i
  BY <1>1, <1>5
<1>. QED
  BY <1>9, <1>10

(* _read_loop and NDJSONBuffer, through every splitting and cut of the      *)
(* stream: what the main thread hears of a connection is a beginning of     *)
(* what the daemon sent on it.                                              *)
THEOREM AlwaysABeginning == Spec => []HearsABeginning
<1>1. ASSUME IInv PROVE HearsABeginning
  <2>. DEFINE h == Hears
              n == Len(h)
  <2>1. h \in Seq(Items) /\ n \in Nat /\ DOMAIN h = 1..n /\ Chained(h)
    <3>1. h \in Seq(Items)
      BY <1>1, HearsTyped, HearsLength DEF IInv, LaidOut
    <3>. QED
      BY <1>1, <3>1 DEF IInv
  <2>. HIDE DEF h
  <2>2. ASSUME NEW i \in 1..n, IsStatus(h, i)
        PROVE  LET heard == Heard(h, i)
               IN /\ ~h[i].connected => heard = <<>>
                  /\ \A j \in DOMAIN heard : heard[j].message = <<heard[1].message[1], j>>
    <3>. DEFINE ends == {j \in i + 1..n : IsStatus(h, j)}
                e == IF ends = {} THEN n ELSE Min(ends) - 1
    <3>1. e \in i..n /\ \A j \in i + 1..e : ~IsStatus(h, j)
      <4>1. i \in Nat /\ 1 <= i /\ i <= n
        BY <2>1
      <4>2. CASE ends = {}
        <5>1. \A j \in i + 1..n : ~IsStatus(h, j)
          BY <4>2
        <5>. HIDE DEF ends
        <5>. QED
          BY <2>1, <4>1, <4>2, <5>1
      <4>3. CASE ends # {}
        <5>1. ends \in SUBSET (1..n)
          BY <2>1, <4>1
        <5>2. Min(ends) \in ends /\ \A x \in ends : Min(ends) <= x
          <6>. HIDE DEF ends
          <6>. QED
            BY <2>1, <4>3, <5>1, Extremes
        <5>3. Min(ends) \in i + 1..n
          BY <5>2
        <5>4. \A j \in i + 1..n : IsStatus(h, j) => Min(ends) <= j
          BY <5>2
        <5>. HIDE DEF ends
        <5>5. e = Min(ends) - 1
          BY <4>3
        <5>6. e \in i..n
          BY <2>1, <4>1, <5>3, <5>5
        <5>7. ASSUME NEW j \in i + 1..e PROVE ~IsStatus(h, j)
          <6>1. j \in i + 1..n /\ ~(Min(ends) <= j)
            BY <2>1, <4>1, <5>3, <5>5
          <6>. QED
            BY <5>4, <6>1
        <5>. QED
          BY <5>6, <5>7
      <4>. QED
        BY <4>2, <4>3
    <3>2. Heard(h, i) = SubSeq(h, i + 1, e)
      BY DEF Heard
    <3>. HIDE DEF ends, e
    <3>. DEFINE heard == SubSeq(h, i + 1, e)
    <3>3. DOMAIN heard = 1..e - i /\ \A j \in 1..e - i : heard[j] = h[i + j]
      BY <2>1, <3>1
    <3>4. e = i => heard = <<>>
      BY <2>1, <3>1
    <3>5. /\ ~h[i].connected => e = i
          /\ \A j \in 1..e - i : h[i + j].message = <<h[i + 1].message[1], j>>
      BY <2>1, <2>2, <3>1, ChainedCounts
    <3>. HIDE DEF heard
    <3>6. ASSUME NEW j \in 1..e - i PROVE heard[j].message = <<heard[1].message[1], j>>
      <4>1. 1 \in 1..e - i
        BY <2>1, <3>1
      <4>. QED
        BY <3>3, <3>5, <4>1
    <3>. QED
      BY <3>2, <3>3, <3>4, <3>5, <3>6 DEF heard
  <2>. QED
    BY <2>1, <2>2 DEF HearsABeginning, h
<1>2. IInv => HearsABeginning
  BY <1>1
<1>. QED
  BY <1>2, Invariance, PTL
=============================================================================
