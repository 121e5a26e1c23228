------------------------------ MODULE Installer ------------------------------
(***************************************************************************)
(* The installer (installer/install_hooks.py): it reads Claude Code's       *)
(* settings.json, merges the emitter into the hooks of the target events,   *)
(* or takes it out, and puts the new file in the place of the old one,      *)
(* which it copies to a backup first.  Between two steps it may die, and    *)
(* other programs, or the user, may write the file.                         *)
(*                                                                          *)
(* A hook entry is its command, a group a matcher and entries, and all that *)
(* is not below "hooks" is one value.  Others write the file whole; the     *)
(* user may leave it with invalid JSON.  One installer runs at a time.      *)
(***************************************************************************)
EXTENDS Integers, FiniteSets, SequencesExt

CONSTANTS
  Events,    \* The hook events.
  TARGET_HOOK_EVENTS,
  Commands,  \* The commands of hooks.
  Marked,    \* Those that contain HOOK_MARKER.
  Emitters,  \* The emitter paths it may be told to install.
  Rests,     \* What the rest of the settings may be.
  Found,     \* The settings there may be at first.
  MaxEdits,  \* Bound on the writes of others.
  MaxRuns,   \* Bound on the runs.
  MaxSecond  \* Bound on the clock.

(* A group has a matcher or none; settings have hooks for some events.      *)
Matchers == {"none", "any"}
AGroup   == [matcher : Matchers, hooks : Seq(Commands)]

IsSettings(s) ==
  /\ s = [rest |-> s.rest, keyed |-> s.keyed, hooks |-> s.hooks]
  /\ s.rest \in Rests \cup {"none"} /\ s.keyed \in BOOLEAN
  /\ DOMAIN s.hooks \subseteq Events /\ s.hooks \in [DOMAIN s.hooks -> Seq(AGroup)]

ASSUME InstallerAssumption ==
  /\ TARGET_HOOK_EVENTS \subseteq Events
  /\ Marked \subseteq Commands /\ Emitters \subseteq Commands
  /\ MaxEdits \in Nat /\ MaxRuns \in Nat /\ MaxSecond \in Nat
  /\ \A s \in Found : IsSettings(s)

VARIABLES
  file,      \* settings.json
  tmp,       \* settings.json.tmp
  backups,   \* backups[t]: the backup with second t in its name.
  second,    \* The time.
  pc,        \* Where the run stands.
  args,      \* Its arguments.
  existing,  \* What it read.
  copy,      \* The backup it makes: its name and its content.
  outcome,   \* How the last run ended.
  edits,
  runs,
  edited,    \* Ghost: the file was written by others since it was read,
  gap,       \* Ghost: and since it was copied.
  replaced   \* Ghost: what was replaced, and the backup it must be in.

disk  == <<file, tmp, backups>>
run   == <<args, existing, copy>>
bound == <<second, edits, runs>>
vars  == <<disk, run, bound, pc, outcome, edited, gap, replaced>>

(* What a path may hold. *)
Absent == [kind |-> "absent"]
Torn   == [kind |-> "torn"]
Broken == [kind |-> "broken"]
Holds(settings) == [kind |-> "settings", is |-> settings]

-----------------------------------------------------------------------------
(* The merge *)

Group(matcher, hooks) == [matcher |-> matcher, hooks |-> hooks]

(* Settings that have no "hooks" have hooks for no event. *)
NoHooks == [e \in {} |-> <<>>]
Empty   == [rest |-> "none", keyed |-> FALSE, hooks |-> NoHooks]

Groups(settings, event) ==
  IF event \in DOMAIN settings.hooks THEN settings.hooks[event] ELSE <<>>

_is_ours(command) == command \in Marked

(* What is left of a sequence without what is in a set.                     *)
Without(seq, set) ==
  LET kept[i \in 0..Len(seq)] ==
        IF i = 0 THEN <<>>
        ELSE IF seq[i] \in set THEN kept[i - 1] ELSE Append(kept[i - 1], seq[i])
  IN kept[Len(seq)]

Remaining(group) == [group EXCEPT !.hooks = Without(@, {c \in Commands : _is_ours(c)})]

\* Mutant: a group stays when its last entry is taken out.
_strip_ours_entries(groups) == [i \in DOMAIN groups |-> Remaining(groups[i])]

(* What is left of the groups without our entries; a group with no entry,   *)
(* left or from the first, goes.                                            *)
_strip_ours(groups) ==
  LET kept == Without(groups, {g \in ToSet(groups) : Remaining(g).hooks = <<>>})
  IN [i \in DOMAIN kept |-> Remaining(kept[i])]

\* Mutant: the emitter is hooked with a matcher.
_our_group_matching(path) == Group("*", <<path>>)

_our_group(path) == Group("none", <<path>>)

build_updated_settings(settings, path, install) ==
  LET merged(event) ==
        _strip_ours(Groups(settings, event)) \o (IF install THEN <<_our_group(path)>> ELSE <<>>)
      events == (DOMAIN settings.hooks \ TARGET_HOOK_EVENTS)
                  \cup {e \in TARGET_HOOK_EVENTS : merged(e) # <<>>}
  IN [ settings EXCEPT
         !.keyed = events # {},
         !.hooks = [e \in events |-> IF e \in TARGET_HOOK_EVENTS THEN merged(e) ELSE @[e]] ]

-----------------------------------------------------------------------------
(* Others: the user and other programs *)

Writes(content) ==
  /\ edits < MaxEdits
  /\ edits' = edits + 1
  /\ file' = content
  /\ edited' = TRUE /\ gap' = TRUE
  /\ UNCHANGED <<tmp, backups, run, second, runs, pc, outcome, replaced>>

PutHooks(event, groups) ==
  Writes(Holds([ file.is EXCEPT
    !.keyed = TRUE,
    !.hooks = [e \in DOMAIN @ \cup {event} |-> IF e = event THEN groups ELSE @[e]] ]))

(* A tool adds a group of its own; the user adds an entry to a group, or    *)
(* takes one out; something else changes; the file is spoilt, or written    *)
(* from scratch.                                                            *)
Edit ==
  \/ /\ file.kind = "settings"
     /\ \E e \in Events, c \in Commands \ Marked :
          LET groups == Groups(file.is, e)
          IN \/ PutHooks(e, Append(groups, Group("any", <<c>>)))
             \/ \E i \in DOMAIN groups :
                  \/ PutHooks(e, [groups EXCEPT ![i].hooks = Append(@, c)])
                  \/ /\ groups[i].hooks # <<>>
                     /\ PutHooks(e, [groups EXCEPT ![i].hooks = Tail(@)])
  \/ /\ file.kind = "settings"
     /\ \E r \in Rests : r # file.is.rest /\ Writes(Holds([file.is EXCEPT !.rest = r]))
  \/ file.kind = "settings" /\ Writes(Broken)
  \/ file.kind # "settings" /\ \E s \in Found : Writes(Holds(s))

SecondPasses ==
  /\ second < MaxSecond
  /\ second' = second + 1
  /\ UNCHANGED <<disk, run, edits, runs, pc, outcome, edited, gap, replaced>>

-----------------------------------------------------------------------------
(* run *)

NoCopy == [at |-> 0, of |-> Absent]

Args == [install : BOOLEAN, path : Emitters, dry_run : BOOLEAN]

(* What _load returns; a file that is missing is read as empty settings. *)
Read == IF file.kind = "settings" THEN file.is ELSE Empty

NoArgs == [install |-> FALSE, path |-> "none", dry_run |-> TRUE]

Ends(how) ==
  /\ pc' = "idle"
  /\ outcome' = how

(* What a run knew is gone when it has not changed the file. *)
Leaves(how) ==
  /\ Ends(how)
  /\ args' = NoArgs /\ existing' = Empty /\ copy' = NoCopy
  /\ edited' = FALSE /\ gap' = FALSE

Starts ==
  /\ pc = "idle" /\ runs < MaxRuns
  /\ runs' = runs + 1
  /\ UNCHANGED <<disk, second, edits, replaced>>

Knows(a) ==
  /\ args' = a /\ existing' = Read /\ copy' = NoCopy
  /\ edited' = FALSE /\ gap' = FALSE

updated == build_updated_settings(existing, args.path, args.install)

\* Mutant: an entry of ours is taken for the one to be installed.
UpToDateIfThere(settings, a) ==
  \A e \in TARGET_HOOK_EVENTS :
    a.install <=> \E g \in ToSet(Groups(settings, e)) : \E h \in ToSet(g.hooks) : _is_ours(h)

(* What run compares with what it read. *)
UpToDate(settings, a) == build_updated_settings(settings, a.path, a.install) = settings

Refuse ==
  /\ file.kind = "broken"
  /\ Starts
  /\ Leaves("refused")

NothingToDo ==
  \E a \in Args :
    /\ file.kind # "broken"
    /\ UpToDate(Read, a)
    /\ Starts
    /\ Knows(a)
    /\ Ends("done")

DryRun ==
  \E a \in Args :
    /\ file.kind # "broken"
    /\ ~UpToDate(Read, a) /\ a.dry_run
    /\ Starts
    /\ Leaves("shown")

Load ==
  \E a \in Args :
    /\ file.kind # "broken"
    /\ ~UpToDate(Read, a) /\ ~a.dry_run
    /\ Starts
    /\ Knows(a)
    /\ pc' = "backup" /\ outcome' = "none"

(* _backup: nothing is copied when there is no file.  The copy is begun:    *)
(* what had the same second in its name is gone.                            *)
NoBackup ==
  /\ pc = "backup" /\ file = Absent
  /\ pc' = "write"
  /\ gap' = FALSE
  /\ UNCHANGED <<disk, run, bound, outcome, edited, replaced>>

BeginBackup ==
  /\ pc = "backup" /\ file # Absent
  /\ pc' = "copy"
  /\ copy' = [at |-> second, of |-> file]
  /\ backups' = [backups EXCEPT ![second] = Torn]
  /\ gap' = FALSE
  /\ replaced' = {r \in replaced : r.at # second}
  /\ UNCHANGED <<file, tmp, args, existing, bound, outcome, edited>>

\* Mutant: the backup is made of what was read.
BackupOfRead ==
  /\ pc = "copy"
  /\ pc' = "write"
  /\ backups' = [backups EXCEPT ![copy.at] = Holds(existing)]
  /\ UNCHANGED <<file, tmp, run, bound, outcome, edited, gap, replaced>>

EndBackup ==
  /\ pc = "copy"
  /\ pc' = "write"
  /\ backups' = [backups EXCEPT ![copy.at] = copy.of]
  /\ UNCHANGED <<file, tmp, run, bound, outcome, edited, gap, replaced>>

\* Mutant: settings.json is opened and written.
WriteInPlace ==
  /\ pc = "write"
  /\ pc' = "writing"
  /\ file' = Torn
  /\ UNCHANGED <<tmp, backups, run, bound, outcome, edited, gap, replaced>>

(* _atomic_write: the temporary file is opened, and emptied; it is written; *)
(* and it takes the place of settings.json.                                 *)
BeginWrite ==
  /\ pc = "write"
  /\ pc' = "writing"
  /\ tmp' = Torn
  /\ UNCHANGED <<file, backups, run, bound, outcome, edited, gap, replaced>>

EndWrite ==
  /\ pc = "writing"
  /\ pc' = "replace"
  /\ tmp' = Holds(updated)
  /\ UNCHANGED <<file, backups, run, bound, outcome, edited, gap, replaced>>

Replace ==
  /\ pc = "replace"
  /\ Ends("done")
  /\ file' = tmp
  /\ tmp' = Absent
  /\ replaced' = IF gap \/ file = Absent THEN replaced
                 ELSE replaced \cup {[what |-> file, at |-> copy.at]}
  /\ UNCHANGED <<backups, run, bound, edited, gap>>

(* The installer is killed, or a call fails: what it wrote stays. *)
Crash ==
  /\ pc # "idle"
  /\ Leaves("crashed")
  /\ UNCHANGED <<disk, bound, replaced>>

-----------------------------------------------------------------------------
Init ==
  /\ file \in {Absent} \cup {Holds(s) : s \in Found}
  /\ tmp = Absent
  /\ backups = [t \in 0..MaxSecond |-> Absent]
  /\ second = 0 /\ edits = 0 /\ runs = 0
  /\ pc = "idle" /\ outcome = "none"
  /\ args = NoArgs /\ existing = Empty /\ copy = NoCopy
  /\ edited = FALSE /\ gap = FALSE
  /\ replaced = {}

Next ==
  \/ Edit \/ SecondPasses
  \/ Refuse \/ NothingToDo \/ DryRun \/ Load
  \/ NoBackup \/ BeginBackup \/ EndBackup
  \/ BeginWrite \/ EndWrite \/ Replace
  \/ Crash

Spec == Init /\ [][Next]_vars

-----------------------------------------------------------------------------
(* Properties *)

IsContent(c) ==
  \/ c \in {Absent, Torn, Broken}
  \/ c = Holds(c.is) /\ IsSettings(c.is)

(* Every variable has its type. *)
TypeOK ==
  /\ IsContent(file) /\ IsContent(tmp)
  /\ DOMAIN backups = 0..MaxSecond /\ \A t \in 0..MaxSecond : IsContent(backups[t])
  /\ second \in 0..MaxSecond /\ edits \in 0..MaxEdits /\ runs \in 0..MaxRuns
  /\ pc \in {"idle", "backup", "copy", "write", "writing", "replace"}
  /\ outcome \in {"none", "refused", "shown", "done", "crashed"}
  /\ args \in Args \cup {NoArgs} /\ IsSettings(existing)
  /\ copy.at \in 0..MaxSecond /\ IsContent(copy.of)
  /\ edited \in BOOLEAN /\ gap \in BOOLEAN
  /\ \A r \in replaced : IsContent(r.what) /\ r.at \in 0..MaxSecond

(* Whenever the installer dies, settings.json is whole: what it was, or all *)
(* of what it was to be, also when an earlier run left its temporary file.  *)
SettingsWhole ==
  /\ file # Torn
  /\ pc = "replace" => tmp = Holds(updated)

(* What the installer ever put something else in the place of is still in a *)
(* backup, to the letter, although it was perhaps written after the         *)
(* installer had read the file; unless it was written between the backup    *)
(* and the replacement, or a later run made its backup in the same second.  *)
LostOnlyInTheGap == \A r \in replaced : backups[r.at] = r.what

(* The commands Claude Code runs for an event, in order, with the matchers  *)
(* they depend on.                                                          *)
Hooked(settings, event) ==
  LET groups == Groups(settings, event)
  IN FlattenSeq([ i \in DOMAIN groups |->
       [j \in DOMAIN groups[i].hooks |-> <<groups[i].matcher, groups[i].hooks[j]>>] ])

Ours(settings, event)   == Without(Hooked(settings, event), Matchers \X (Commands \ Marked))
Others(settings, event) == Without(Hooked(settings, event), Matchers \X Marked)

(* When a run is done and nobody else has written since it read the file,   *)
(* the emitter is hooked once to every target event, with the path asked    *)
(* for, or not at all after an uninstall; everyone else's commands are      *)
(* hooked as before, in their order, and so is all under other events.      *)
Delivered ==
  outcome = "done" /\ ~edited /\ args.path \in Marked =>
    LET new == Read
    IN /\ new.rest = existing.rest
       /\ \A e \in Events : Others(new, e) = Others(existing, e)
       /\ \A e \in TARGET_HOOK_EVENTS :
            Ours(new, e) = IF args.install THEN << <<"none", args.path>> >> ELSE <<>>
       /\ \A e \in Events \ TARGET_HOOK_EVENTS : Groups(new, e) = Groups(existing, e)

(* "hooks" is there just when an event is, and the target events have       *)
(* groups, all of them with hooks, none of ours.                            *)
Tidy(s) ==
  /\ s.keyed <=> DOMAIN s.hooks # {}
  /\ \A e \in TARGET_HOOK_EVENTS \cap DOMAIN s.hooks :
       /\ s.hooks[e] # <<>> /\ Ours(s, e) = <<>>
       /\ \A i \in DOMAIN s.hooks[e] : s.hooks[e][i].hooks # <<>>

(* Of whatever settings others and earlier runs have left: to install twice *)
(* is to install once, to install over another path leaves nothing of that  *)
(* path, and an uninstall leaves what it would have left without the        *)
(* install.  That is the settings to the letter when they were tidy, and    *)
(* then only: a hook of ours, a group without hooks, an empty list for a    *)
(* target event and an empty "hooks" are not given back.                    *)
RoundTrip ==
  file.kind = "settings" =>
    \A p \in Emitters \cap Marked :
      LET installed   == build_updated_settings(file.is, p, TRUE)
          uninstalled == build_updated_settings(installed, p, FALSE)
      IN /\ \A q \in Emitters \cap Marked :
              /\ build_updated_settings(installed, q, TRUE) = build_updated_settings(file.is, q, TRUE)
              /\ uninstalled = build_updated_settings(file.is, q, FALSE)
              /\ build_updated_settings(uninstalled, q, FALSE) = uninstalled
         /\ Tidy(file.is) <=> uninstalled = file.is
=============================================================================
