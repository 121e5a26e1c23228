---------------------------- MODULE UsageTracker ----------------------------
(***************************************************************************)
(* What Claude Code cost lately: UsageTracker (frontend/usage.py).  A       *)
(* thread rescans the transcripts from time to time, with a cache of what   *)
(* it has read of each, and publishes the sums over two windows; the render *)
(* loop shows them.  Meanwhile Claude Code appends to the transcripts and   *)
(* removes old ones, and the directory that holds them may be missing, or   *)
(* go with all that is in it.                                               *)
(*                                                                          *)
(* A line carries its time and its usage; lines without a usage count for   *)
(* nothing and are left out.  A line may be seen half written: its JSON is  *)
(* then broken, or its last character is cut, which makes the decoder       *)
(* raise.                                                                   *)
(***************************************************************************)
EXTENDS Pricing, UsageWindow, FiniteSetsExt, SequencesExt

CONSTANTS
  Files,     \* The paths of transcripts.
  Removable, \* Those that may be removed, alone or with their directory.
  Usages,    \* What a line may carry.
  Instants,  \* The hours at which something happens.
  MaxLines,  \* Bound on the lines begun.
  Dst        \* When the clocks are changed here.

ASSUME UsageAssumption ==
  /\ IsFiniteSet(Files)
  /\ Usages \subseteq Usage
  /\ IsFiniteSet(Instants) /\ Instants # {} /\ Instants \subseteq Nat
  /\ MaxLines \in Nat
  /\ Dst \in DstChange

VARIABLES
  now,      \* The time.
  text,     \* text[f]: the whole lines of f.
  tail,     \* tail[f]: what follows them: nothing, half a line, or one cut
            \* within a character.
  present,  \* The files that exist.
  root,     \* The directory of projects exists.
  pc,       \* Where the tracker's thread stands.
  began,    \* _refresh's now.
  due,      \* The files the walk cannot miss: those there when it began.
  skipped,  \* The files whose stat failed.
  hand,     \* The file being scanned, and its stat.
  fresh,    \* fresh_cache
  sums,     \* The sums of this refresh.
  cache,    \* _file_cache
  figures,  \* _session_cost and so on
  lock,     \* Who holds _lock.
  half,     \* What snapshot has read so far: the session's figures.
  base,     \* Ghost: what this refresh must count, and may not.
  basis     \* Ghost: the same of the figures published last.

disk    == <<now, text, tail, present, root>>
walk    == <<pc, began, due, skipped, hand, fresh, sums, base>>
shared  == <<cache, figures, basis, lock>>
vars    == <<disk, walk, shared, half>>

Zero == [cost |-> 0, tokens |-> 0]

Nothing == [session |-> Zero, week |-> Zero]

None == [f \in {} |-> Zero]

NoHand == [file |-> "none"]

NoLines == [at |-> 0, must |-> {}, never |-> {}]

-----------------------------------------------------------------------------
(* The transcripts *)

(* The lines begun. *)
Begun == SumFunction([f \in Files |-> Len(text[f]) + IF tail[f] = "none" THEN 0 ELSE 1])

(* A transcript that was removed does not come back. *)
Writable(f) == f \in present \/ (text[f] = <<>> /\ tail[f] = "none")

Touch(f) ==
  /\ Writable(f)
  /\ present' = present \cup {f}
  /\ root' = TRUE
  /\ UNCHANGED <<now, walk, shared, half>>

StartLine(f) ==
  /\ Begun < MaxLines
  /\ tail[f] = "none"
  /\ \E cut \in {"half", "cut"} : tail' = [tail EXCEPT ![f] = cut]
  /\ UNCHANGED text
  /\ Touch(f)

(* The rest of the line, or all of it. *)
EndLine(f) ==
  /\ Begun < MaxLines \/ tail[f] # "none"
  /\ tail' = [tail EXCEPT ![f] = "none"]
  /\ \E u \in Usages : text' = [text EXCEPT ![f] = Append(@, [at |-> now, usage |-> u])]
  /\ Touch(f)

RemoveFile(f) ==
  /\ f \in present \cap Removable
  /\ present' = present \ {f}
  /\ UNCHANGED <<now, text, tail, root, walk, shared, half>>

(* The directory goes with all that is in it, to be made again with the     *)
(* next transcript.                                                         *)
RemoveRoot ==
  /\ root
  /\ present \subseteq Removable
  /\ root' = FALSE
  /\ present' = {}
  /\ UNCHANGED <<now, text, tail, walk, shared, half>>

Tick ==
  /\ \E t \in Instants : t > now /\ now' = t
  /\ UNCHANGED <<text, tail, present, root, walk, shared, half>>

-----------------------------------------------------------------------------
(* _refresh *)

(* What stat tells of a file: its length, in halves of lines.  The time of  *)
(* its last write is left out: a file only grows, so it tells no more.      *)
Stat(f) == 2 * Len(text[f]) + IF tail[f] = "none" THEN 0 ELSE 1

Lines(S) == UNION {{<<f, i>> : i \in DOMAIN text[f]} : f \in S}

(* What _refresh knew is gone when it returns. *)
Return ==
  /\ pc' = "wait"
  /\ began' = 0 /\ due' = {} /\ skipped' = {} /\ fresh' = None /\ sums' = Nothing /\ base' = NoLines
  /\ hand' = NoHand

(* Without its directory a refresh returns at once: nothing is published,   *)
(* and the thread waits again.                                              *)
Begin ==
  /\ pc = "wait"
  /\ root
  /\ pc' = "walk"
  /\ began' = now
  /\ due' = present
  /\ fresh' = None
  /\ sums' = Nothing
  /\ base' = [ at |-> now, must |-> Lines(present),
               never |-> {f \in Files : ~Writable(f)} ]
  /\ UNCHANGED <<skipped, hand, disk, shared, half>>

Plus(sum, u) ==
  [cost |-> sum.cost + CostForUsage(u), tokens |-> sum.tokens + TokensOf(u)]

SumSince(start, sum, entries) ==
  FoldLeft(LAMBDA s, line : IF line.at >= start THEN Plus(s, line.usage) ELSE s,
           sum, entries)

(* A file's entries go into the new cache and, those within a window, into  *)
(* its sum.                                                                 *)
Use(f, entry) ==
  /\ fresh' = [g \in DOMAIN fresh \cup {f} |-> IF g = f THEN entry ELSE fresh[g]]
  /\ sums' = [ session |-> SumSince(SessionWindowStart(began), sums.session, entry.entries),
               week    |-> SumSince(WeekWindowStart(began, Dst), sums.week, entry.entries) ]

(* The walk comes to a file that is there, and was not before. *)
Comes(f) == pc = "walk" /\ f \in present \ (DOMAIN fresh \cup skipped)

(* A file that is there cannot be asked for its size: it is passed over.    *)
StatFails(f) ==
  /\ Comes(f)
  /\ skipped' = skipped \cup {f}
  /\ UNCHANGED <<pc, began, due, hand, fresh, sums, base, disk, shared, half>>

(* A directory is gone when the walk comes to list it: some versions of     *)
(* Python raise, and the refresh is given up; others find nothing in it.    *)
WalkRaises ==
  /\ pc = "walk"
  /\ ~root \/ ~(due \subseteq present)
  /\ Return
  /\ UNCHANGED <<disk, shared, half>>

\* Mutant: what was read of a file once is never read again.
CachedForGood(f) == f \in DOMAIN cache

Cached(f) == f \in DOMAIN cache /\ cache[f].key = Stat(f)

VisitCached(f) ==
  /\ Comes(f)
  /\ Cached(f)
  /\ Use(f, cache[f])
  /\ UNCHANGED <<pc, began, due, skipped, hand, base, disk, shared, half>>

\* Mutant: the stat is taken, and not kept for the cache.
VisitUnkept(f) ==
  /\ Comes(f)
  /\ ~Cached(f)
  /\ pc' = "scan"
  /\ UNCHANGED <<began, due, skipped, hand, fresh, sums, base, disk, shared, half>>

Visit(f) ==
  /\ Comes(f)
  /\ ~Cached(f)
  /\ pc' = "scan"
  /\ hand' = [file |-> f, key |-> Stat(f)]
  /\ UNCHANGED <<began, due, skipped, fresh, sums, base, disk, shared, half>>

(* What the file holds when it is read; one that is gone holds nothing. *)
Readable(f) == IF f \in present THEN text[f] ELSE <<>>

Entry(key, entries, whole) == [key |-> key, entries |-> entries, whole |-> whole]

\* Mutant: the file is asked for its size after it was read.
ScanThenStat ==
  LET f == hand.file
  IN /\ pc = "scan"
     /\ pc' = "walk"
     /\ Use(f, Entry(Stat(f), SubSeq(text[f], 1, hand.key \div 2), TRUE))
     /\ hand' = NoHand
     /\ UNCHANGED <<began, due, skipped, base, disk, shared, half>>

(* _scan_file.  A line half written is skipped. *)
Scan ==
  LET f == hand.file
  IN /\ pc = "scan"
     /\ f \in present => tail[f] # "cut"
     /\ pc' = "walk"
     /\ Use(f, Entry(hand.key, Readable(f), TRUE))
     /\ hand' = NoHand
     /\ UNCHANGED <<began, due, skipped, base, disk, shared, half>>

(* A read fails with an OSError: what was read before counts as the file's. *)
ScanFails ==
  LET f == hand.file
  IN /\ pc = "scan"
     /\ pc' = "walk"
     /\ \E n \in 0..Len(Readable(f)) : Use(f, Entry(hand.key, SubSeq(text[f], 1, n), FALSE))
     /\ hand' = NoHand
     /\ UNCHANGED <<began, due, skipped, base, disk, shared, half>>

(* A character cut short is no OSError: the refresh is given up. *)
ScanRaises ==
  /\ pc = "scan"
  /\ hand.file \in present /\ tail[hand.file] = "cut"
  /\ Return
  /\ UNCHANGED <<disk, shared, half>>

(* The lines this refresh has to count: those there when it began, but of   *)
(* files removed, passed over or not read whole since.                      *)
Owed ==
  {l \in base.must : /\ l[1] \in present \ skipped
                     /\ l[1] \in DOMAIN fresh => fresh[l[1]].whole}

(* The assignments under the lock, the render loop going on in between. *)
Publish ==
  /\ pc = "walk"
  /\ due \cap present \subseteq DOMAIN fresh \cup skipped
  /\ lock = "free"
  /\ pc' = "publish"
  /\ lock' = "tracker"
  /\ cache' = fresh
  /\ figures' = [figures EXCEPT !.session = sums.session]
  /\ basis' = [at |-> base.at, must |-> Owed, never |-> base.never]
  /\ UNCHANGED <<began, due, skipped, hand, fresh, sums, base, disk, half>>

Published ==
  /\ pc = "publish"
  /\ Return
  /\ lock' = "free"
  /\ figures' = [figures EXCEPT !.week = sums.week]
  /\ UNCHANGED <<cache, basis, disk, half>>

-----------------------------------------------------------------------------
(* The render loop *)

\* Mutant: snapshot reads without the lock.
ReadUnlocked ==
  /\ lock # "render" /\ pc # "ended"
  /\ lock' = "render"
  /\ half' = figures.session
  /\ UNCHANGED <<cache, figures, basis, disk, walk>>

(* snapshot takes the lock and reads, the session's figures first. *)
Read ==
  /\ lock = "free" /\ pc # "ended"
  /\ lock' = "render"
  /\ half' = figures.session
  /\ UNCHANGED <<cache, figures, basis, disk, walk>>

(* The UsageSnapshot it is about to return, which the frame draws. *)
Seen == [session |-> half, week |-> figures.week]

Draw ==
  /\ lock = "render"
  /\ lock' = "free"
  /\ half' = Zero
  /\ UNCHANGED <<cache, figures, basis, disk, walk>>

(* The window is closed; the thread sees it as it wakes. *)
Stop ==
  /\ pc = "wait" /\ lock = "free"
  /\ pc' = "ended"
  /\ UNCHANGED <<began, due, skipped, hand, fresh, sums, base, disk, shared, half>>

-----------------------------------------------------------------------------
Init ==
  /\ now \in Instants
  /\ text = [f \in Files |-> <<>>]
  /\ tail = [f \in Files |-> "none"]
  /\ present = {} /\ root \in BOOLEAN
  /\ pc = "wait" /\ began = 0 /\ due = {} /\ skipped = {} /\ fresh = None /\ sums = Nothing
  /\ hand = NoHand
  /\ cache = None /\ figures = Nothing /\ lock = "free"
  /\ half = Zero
  /\ base = NoLines /\ basis = NoLines

Writer == RemoveRoot \/ \E f \in Files : StartLine(f) \/ EndLine(f) \/ RemoveFile(f)

Walk ==
  \/ Begin
  \/ \E f \in Files : StatFails(f) \/ VisitCached(f) \/ Visit(f)
  \/ WalkRaises
  \/ Scan \/ ScanFails \/ ScanRaises
  \/ Published

Next == Writer \/ Tick \/ Walk \/ Publish \/ Read \/ Draw \/ Stop

Spec == Init /\ [][Next]_vars

(* The thread's sleep ends and its walk goes on, frames follow each other,  *)
(* and each gets the lock sooner or later, since the other one gives it up  *)
(* and sleeps.  Nothing is owed by the writer.                              *)
FairSpec ==
  /\ Spec
  /\ WF_vars(Walk) /\ SF_vars(Publish)
  /\ SF_vars(Read) /\ WF_vars(Draw)

-----------------------------------------------------------------------------
(* Properties *)

Sum == [cost : Nat, tokens : Nat]

Figures == [session : Sum, week : Sum]

Line == [at : Instants, usage : Usages]

Entries == [key : Nat, entries : Seq(Line), whole : BOOLEAN]

IsCache(c) == DOMAIN c \subseteq Files /\ \A f \in DOMAIN c : c[f] \in Entries

Basis == [at : Nat, must : SUBSET (Files \X Nat), never : SUBSET Files]

(* Every variable has its type. *)
TypeOK ==
  /\ now \in Instants
  /\ text \in [Files -> Seq(Line)]
  /\ tail \in [Files -> {"none", "half", "cut"}]
  /\ present \subseteq Files /\ root \in BOOLEAN
  /\ due \subseteq Files /\ skipped \subseteq Files
  /\ pc \in {"wait", "walk", "scan", "publish", "ended"}
  /\ began \in Nat
  /\ pc = "scan" => hand \in [file : Files, key : Nat]
  /\ IsCache(fresh) /\ IsCache(cache)
  /\ {sums, figures} \subseteq Figures /\ half \in Sum
  /\ lock \in {"free", "tracker", "render"}
  /\ {base, basis} \subseteq Basis

Total(S, start) ==
  LET within == {l \in S : text[l[1]][l[2]].at >= start}
      Of(l)  == text[l[1]][l[2]].usage
  IN [ cost   |-> MapThenSumSet(LAMBDA l : CostForUsage(Of(l)), within),
       tokens |-> MapThenSumSet(LAMBDA l : TokensOf(Of(l)), within) ]

TotalsAt(S, t) ==
  [ session |-> Total(S, SessionWindowStart(t)), week |-> Total(S, WeekWindowStart(t, Dst)) ]

(* What the bar shows are the totals, in both windows as of one moment, of  *)
(* one set of lines, none counted twice: each line that was whole when the  *)
(* refresh began, and no line that is not in a transcript by now.  Lines    *)
(* written, files removed, half lines and refreshes given up in between do  *)
(* not put the figures wrong, nor does a cache entry made from a file that  *)
(* grew after it was asked for its size.  Only a stat or a read that fails  *)
(* may.                                                                     *)
SeenAreTotals ==
  lock = "render" =>
    \E S \in SUBSET Lines(Files \ basis.never) :
      basis.must \subseteq S /\ Seen = TotalsAt(S, basis.at)

(* At every hour the week's window starts at the last reset, whenever the   *)
(* clocks were changed.                                                     *)
WeekWindowRight == WeekStartsAtReset(now, Dst)

(* When the transcripts are left alone, the bar comes to show what they     *)
(* say, and stays with it, as long as their directory is there, and unless  *)
(* one of them ends in the middle of a character, was not read to its end,  *)
(* or cannot be asked for its size.  With the directory gone the bar stays  *)
(* with the figures it had, and their windows move no more.                 *)
Legible ==
  /\ root
  /\ \A f \in present : tail[f] # "cut"
  /\ \A f \in DOMAIN cache : cache[f].whole
  /\ skipped = {}

FiguresSettle ==
  <>[](pc # "ended" /\ Legible) => <>[](lock = "render" => Seen = TotalsAt(Lines(present), now))
=============================================================================
