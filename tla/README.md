# Silicon Office: a verification development

Silicon Office shows every running Claude Code session as an avatar at a desk.
Hooks send one UDP datagram per event to a daemon; the daemon keeps one record
per session, finds the process behind it, and tells every connected frontend
over TCP; a frontend animates what it is told. This directory holds TLA+ models
of that pipeline, the TLC runs that check them and proofs checked by TLAPS.
Paths below are relative to `src/silicon_office/` of the repository.

## Inventory

| component | state | operations | interacts with | what makes it correct |
|---|---|---|---|---|
| state machine (`daemon/state_machine.py`) | none: a pure function on `AgentRecord` | `apply_event` | registry calls it | label stack mirrors the running subagents; `state_since` covers the state; a label fits its state |
| registry (`daemon/registry.py`, `_cold_start` in `daemon/main.py`) | `_agents` | `apply_event`, `_resolve_identity`, `resolve_pending_identities`, `reap_dead`, `seed` | session files and pids of Claude Code; UDP listener; reaper | a record's pid is its session's; nothing that runs is dropped; what ended or crashed goes and stays gone |
| UDP listener (`daemon/udp_listener.py`) | none | `datagram_received` | the emitter's datagrams: lossy, reordered | one handler run per datagram, whole |
| broadcaster (`daemon/broadcaster.py`) | `_clients`, coroutines suspended in `drain()` | `handle_client`, `broadcast_diff`, `broadcast_snapshot`, `_write` | asyncio loop; registry; TCP clients | each frontend's copy converges; a client's first message is its snapshot; no client harms another |
| reaper and snapshot loops (`daemon/reaper.py`) | two timers | one sweep, one snapshot per period | registry, broadcaster | the sweep goes on |
| network client (`frontend/net_client.py`, `common/ipc.py`) | socket, backoff, line buffer, `_stop` | `_run`, `_read_loop`, `feed` | daemon by TCP; main thread by a queue | no line torn or mixed; the reported status is true; the thread ends |
| office (`frontend/main.py`) | `agents`, `ghosts`, `spawn_started`, `asking_since` | `_handle_message`, `_upsert_agent`, `_start_despawn`, `_update_ghosts`, `_draw` | queue; layout | a session is an agent or a ghost; animations start on edges and end |
| desk layout (`frontend/layout.py`) | `_slot_of_session`, `_free_slots`, `_next_slot` | `sync`, `desk_rect` | office | slots tile; desks do not overlap, fit; the grid grows only when full |
| usage tracker (`frontend/usage.py`) | file cache and four sums, under a lock | `_refresh`, `_scan_file`, `_week_window_start`, `snapshot` | transcripts being appended to and removed, with their directory or alone; the render loop | what is shown are the totals of one set of lines as of one moment; the week is the right one; figures settle |
| pricing (`common/pricing.py`) | none: a table | `cost_for_usage` | usage tracker | cache tokens at their share of the rate |
| installer (`installer/install_hooks.py`) | settings.json, its temporary file, its backups | install, uninstall, dry run | other writers of settings.json; its own death | the file is whole; what is replaced is in a backup; others' hooks untouched; idempotent |
| emitter (`emitter/hook_emitter.py`) | none | one datagram per hook | UDP | never blocks or fails a hook |
| drawing (`frontend/render.py`, `frontend/sprites.py`) | surface caches | painting | office | out of scope |

The hard behaviours: processes, files and datagrams move between any two of the
daemon's handlers; a session can be resumed by another process, killed before
its file is written, end while its events are still on the wire, or have sent its
end while its process is still there for a restarted daemon to find; a coroutine
that awaits a slow client is overtaken by others; a client comes, stalls or
dies in the middle of a broadcast; the connection is cut in the middle of a
line; messages and animations interleave in the frontend; a transcript grows or
goes between its stat and its scan, or the directory of all of them does in the
middle of a walk; the installer dies between two steps, or
others write the file it is about to replace. `PROJECT.json` lists
each hazard at its line with the properties that watch it.

## Modules

Each component has one module; a module's operators carry the names of the
code's functions and variables where it has one.

**StateMachine** is `apply_event` as an operator: `Fresh` (lines 58-69), `Known`
(70-71), `Transition` (the `if` chain) and `ApplyEvent`. It has no variables, so
that it can be folded over one stream and applied per session. Hooks that put
the session in a state of their own are one function `StateOn` and one operator
`LabelOn`; `SubagentStart` adds `PushLabel`, `SubagentStop` is `PopLabel`,
`PostToolUse` is `ToolDone`.

**SessionTimeline** folds it over one session's stream, lossless and in order,
with any hook between a subagent's start and its stop. Ghost variables remember
the running subagents (`open`), the label before them (`outer`) and when the
state last changed (`held`); `nested` tells whether subagents have so far nested
inside a turn, what the label stack was written for.

**Registry** is the daemon's registry with the world it looks at: processes
(`proc`, `runs`), their session files (`files`) and datagrams (`net`). The
daemon's handlers run whole on its event loop, so `Receive`, `Sweep`,
`ColdStart` and `Halt` are one action each; `Start`, `WriteFile`, `Hook`, `End`,
`Exit`, `Kill`, `RemoveFile` and `Lose` move the world between them. A clean end
is two steps, because the hook that sends SessionEnd is run by the process
(`emitter/hook_emitter.py`): after `End` the process is still there, and
`is_pid_alive` says so, until `Exit`. A cold start in between registers the
session again, since `_cold_start` asks for no more than a live pid; the ghost
`revived` remembers such sessions until they are dropped. The ghost `orderly` says
that no datagram was lost or overtaken so far, except while no daemon listened.
`EndedStaysGone` and `EndedIsDespawned` need it. The first is about sessions not in
`revived`; the second says that those in it go too, once their process has.

**Roster** is its abstract specification: a set of shown sessions that drops
none that runs, and boots only with sessions whose process is there, those that
have ended and are on their way out (`leaving`) included.

**Broadcaster** models one asyncio loop turn by turn: the callbacks of a turn in
order, those they schedule for the next, readiness of descriptors and timers,
and coroutines that suspend in a client's `drain()` when its buffer is above the
high-water mark, or its connection closes. `OnEvent` (the UDP callback) changes
the registry and makes a task; `OnDiff` is that task; `OnServe` and `OnCleanup`
are `handle_client`; `OnReap` and `OnSnap` the periodic loops. The registry is a
version per session, because only whether a copy is current matters, and whether
the name was found (`named`), because no diff tells it. Each frontend's copy is
`view`, changed by `Applied` as `_handle_message` does.

**NetClient** models the frontend's thread, the bytes of its stream with two
bytes and a newline per message, `NDJSONBuffer.feed` (a fold of `TakeByte`), and
the queue to the main thread.

**Office** and **DeskGeometry** model the frontend's state and the vertical
place of a desk. `Handle` is a whole message: the upserts of a dict, then the
despawns of a set; a diff and a snapshot are instances of it. `Sync` is
`Layout.sync`: releases, then assignments, in the order of a set. A timestamp is
an age that stops at the length of its animation.

**Pricing** is `cost_for_usage` in whole units. **UsageWindow** is the arithmetic
of the two windows, with a place that changes its clocks once. **UsageTracker** is
the tracker's thread and the frame, beside the transcripts: `Begin` to `Published`
are `_refresh`, one action for what no other thread can tell apart (`Visit` is a
file's stat and `StatFails` one that fails, `Scan`, `ScanFails` and `ScanRaises`
the three ways its scan ends, `Publish` and `Published` the two windows' figures
assigned under the lock); `Read` and `Draw` are `snapshot`. Without the projects
directory (`root`) a refresh returns before it began, as `usage.py:142-143` does:
there is then no `Begin`, nothing is published and the bar keeps what it had. With
the directory gone in the middle of the walk, `WalkRaises` is what some versions
of Python do; the walk that finds nothing more goes on to `Publish`. `StartLine`,
`EndLine`, `RemoveFile` and `RemoveRoot` are Claude Code and its user; a line is
written in one piece or two. `skipped` holds the files a walk passed over; the
ghosts `base` and `basis` say which lines a refresh must count.

**Installer** is `run`, from `Load` to `Replace`, with `build_updated_settings`
as an operator: `Remaining` is what `_strip_ours` leaves of a group, `Without` the
list comprehension in it; `BeginBackup` and `EndBackup` are `_backup`, `BeginWrite`,
`EndWrite` and `Replace` are `_atomic_write`. `Crash` may come after any of them,
`Edit` is anybody else, before or after any of them. The ghosts `edited` and `gap`
say whether somebody wrote the file since it was read, and since it was copied.

**MCBroadcaster**, **MCUsage** and **MCInstaller** add values, symmetry sets and a
state constraint for TLC. **StateMachineProofs**, **TimelineProofs**,
**RegistryProofs**, **BroadcasterProofs**, **NetClientProofs**, **OfficeProofs**,
**UsageProofs** and **InstallerProofs** hold the proofs.

## Runs

| run | bounds | shows |
|---|---|---|
| `timeline` | 6 hooks, 3 subagents, 3 tools | as long as subagents nest the stack is the labels shown when each running one started, each gets its label back exactly, and label and state agree; even if they overlap the last stop brings back the outer label and empties the stack |
| `registry_core` | 2 processes, 2 sessions, 3 datagrams, 2 boots, lossy and reordered, fair | true pids; nothing that runs is despawned; implements `Roster`; an ended session stays gone through restarts and left-over files while the network is orderly, unless a cold start met its process still there, and goes once that process has; a crashed one goes if its session file stays, its pid known or not |
| `broadcast_sync` | 2 clients, 2 sessions, 3 changes, no write waits | diffs alone keep copies current; snapshot first; diffs fresh |
| `broadcast_live` | 2 clients, 1 session, 1 change, high-water mark 1, names found late, fair | copies converge and sweeps go on, though writes wait and are overtaken by a snapshot or a sweep's diff; a name found by the sweep arrives with a snapshot |
| `office` | 3 sessions, animations of 1 and 2 ticks, 5 window heights, fair | ghosts, slots, flashes and desks; a ghost fades |
| `net_client` | 3 connections, 3 messages each, queue of 3, fair | framing, status, the thread's end; a daemon that stays is connected to and heard in full |
| `usage` | 2 files, one removable, alone or with the directory, 2 lines begun, stats and reads that fail, an hour before and one after the week's reset, clocks changed that night, fair | what the bar shows are the totals of one set of lines as of one moment, with every line that was whole when the refresh began and could be read; the week starts at the last reset; left alone, with their directory there and readable, the transcripts' figures come to be shown |
| `installer` | 2 runs, 2 other writes, 2 seconds, a target event and another, two emitter paths and a foreign command, three settings found at first: a foreign hook, an empty list of groups, an empty `"hooks"` | settings.json is whole whenever the installer dies; what it replaced is in a backup, but in the gap or the same second; a run delivers what was asked for once and leaves others' hooks alone; installs are idempotent, another path replaces the first, and an uninstall gives everything back if and only if it was tidy |

Runs that find a disagreement between code and its own words:

| run | what the code does | what is said of it |
|---|---|---|
| `timeline_exact` | with overlapping subagents the label of another one comes back | `state_machine.py:6-8` restored "exactly" |
| `registry_resume` | a session resumed under another pid is reaped by its old pid | `registry.py:104` "crash without a clean SessionEnd" |
| `registry_linger` | a session whose process is killed before its session file is written stays for ever, no datagram lost | `registry.py:104` catches a "crash without a clean SessionEnd"; `reaper.py:3-5` |
| `broadcast_stall` | one frontend that does not read stops the sweep | `reaper.py:3` "runs on a plain timer" |

Smaller ones have no run of their own:

* a hook the state machine does not map changes `cwd` (`state_machine.py:71`)
  though line 121 calls it a no-op;
* a spawn that adds a row of desks moves every desk (`layout.py:73`), though lines
  5-6 say that avatars "never jump around" when another agent spawns;
* an agent that comes while another fades gets a new slot, since ghosts are seated
  too (`main.py:170`), though `layout.py:6-7` says that the capacity tracks the
  "peak concurrent agent count": `GridGrowsWhenFull` counts ghosts;
* somebody else's group without hooks is gone after a run (`install_hooks.py:57`),
  though lines 52-53 say that everyone else's groups are "untouched": `RoundTrip`
  says that settings come back if and only if there was no such group, no hook of
  ours, no empty list of groups and no empty `"hooks"`.

Why the bounds are enough. Two sessions and two processes are the least that let
one session be judged by another's process or file, or move to another process;
two boots let a restart follow a run, also between a SessionEnd and the end of its
process; three datagrams are a start, a hook and an end, or a start and an end and
another session's start, in any order; the proofs of what the run checks of safety
need no such bound. Six hooks hold a prompt, two subagents started and stopped and
one more hook between. One version of one session and a buffer of one message
already make writes wait, be overtaken by a diff and by a snapshot. What overtakes
there is a snapshot or a sweep's diff: two diffs of one session out of order need
a second change, whose states are more than TLC can go through with full buffers
and two clients. Three changes in two sessions are two reaped together after an
event. Two sessions free two slots at once and a third grows the grid. A third
connection follows one cut in the middle of a line and one that was dropped at
once. Two transcripts are two files of one walk, of which one can go or fail while
the other is read; two lines are one that the cache knows and one it does not, or
the two halves of a race with the scan. The two instants lie on either side of the
reset and five hours apart, so that what is written at the first is still in the
session's window at the second and no more in the week's. Two runs of the
installer are an install and an uninstall, an install over another path, or a run
after one that died; two other writes are one before the backup and one behind it;
two seconds let two backups have one name, or two.

Symmetry is used in `broadcast_sync` and `installer`, which check safety only.
`broadcast_sync` also has the state constraint `Smooth`: it explores exactly the
behaviours in which no write ever waited, which its property `MirroredWhenQuiet`
is about; those in which writes wait are explored by the other runs of
`Broadcaster`. `CHECK_DEADLOCK FALSE` is set for the timelines, whose stream ends
at its bound, for `usage`, whose window may be closed, and for `installer`, whose
runs and writes end at their bounds.

## Fairness

`Registry`: the sweep's timer keeps firing and the loop reads its socket, weakly
fair. Nothing is owed by processes, files or the network. `Broadcaster`: the loop
keeps turning and notices what the sockets report; each timer's sleep ends again
and again (strong fairness, since a turn in which it is due may start without
it); frontends read, except in `broadcast_stall`. `Office`: time passes, a
frame's parts follow each other, a drain of the queue ends, since the daemon
sends a few messages a second. `NetClient`: the thread's sleeps and waits are
bounded by timeouts, and frames follow until the window is closed.
`UsageTracker`: the thread's sleep ends and its walk goes on (weakly fair), the
frame that has the lock gives it up; the lock is free again and again but never
for long, so that the thread's and the frame's share of it is strong fairness.
Nothing is owed by the writer. `Installer` checks safety only.

## Proofs

Every safety invariant and every action property that a passing run checks is also
a theorem, for every value of the constants that the modules' assumptions allow; three
of `Registry` only where no session is resumed by another process, for it is false
where one is.

`StateMachineProofs` proves, for any strings: `apply_event` takes a record or
none and a hook event to a record or none; only `SessionEnd` returns none; the
pid is never touched (`ApplyEventType`). It rests on `LiteralsAreStrings`,
because the provers do not know a literal to be a string.

`RegistryProofs` proves, for any sets of processes and sessions and any bounds:

* `TypeCorrect` and `IdentityCorrect`: `Spec => []TypeOK`, `Spec => []IdentityTrue`.
  The inductive invariant is `Core`, their conjunction with the link between
  files and processes: `FoundPids` returns only processes that ran the session,
  and a process never changes its session, so a pid once on a record stays true.
* `AliveNeverDespawned` and `RegistryIsRoster`, where no session is resumed by
  another process (`~Resumable`; the run `registry_resume` shows that they need
  it). The invariant is `Core` with `Owned`: at most one process ever ran a
  session, and once its SessionEnd was sent that process is ending or gone. The
  removal of a record then has two causes, a SessionEnd or a dead pid, and each
  implies that no process still runs the session, though the first may find it on
  its way out. The refinement has one step per action.
* `EndedNeverReturns`, in those environments too: `EndedStaysGone`. Its invariant
  `Ended` says that datagrams are numbered as they are sent, that a SessionEnd is
  the last of its session, and that, while the network is orderly, it is on its way
  as long as any other datagram of a session that ended is. What leaves in its turn
  then leaves the end behind or is the end, and the end removes the record; a sweep
  adds nothing, and a cold start lists only sessions that run or, their process
  still being there, go into `revived`. A session leaves `revived` with its record.

`TimelineProofs` proves the safety of `SessionTimeline` for any stream. `Sound`
(the record is whole, a running subagent is busy, the stack mirrors `open`, the
clock covers the state, the label fits it) is inductive and gives `TypeCorrect`,
`TimelineSound`, `TimelineMirrors` and `TimelineFits`. `OuterKept` and
`RestoredInTurn` are about a step, and need to know besides where the outer label
is while subagents overlap (`OuterAtBottom`) and that no subagent runs twice
(`Distinct`): `Whole` is `Sound` with the two.

`BroadcasterProofs` proves four invariants of `Broadcaster` for any number of
sessions and clients. `Typed` is `TypeOK` with the types of the queue of callbacks
and of suspended broadcasts. Each action then is one of a few moves of `Queue`, the
callbacks of this turn and the next: one call less and some more (`Shifted`), the
first replaced by the broadcast that follows it (`Replaced`), or some more at the
end (`Grown`). `DiffsAreFresh` follows from what never stands behind what
(`Ordered`): one datagram is read per turn and timers come after descriptors, so
no diff is ever queued behind an event or a sweep. `SnapshotsFirst` follows from
`Heard`: a client nothing was written to is in no broadcast, in the queue or
suspended, until its own snapshot. `MirrorsWhenQuiet` needs to say what a frontend
would show if it read all that was written to it (`Shown`, a fold of `Applied` over
what is on its way): it is the registry, but for the sessions a queued call has still
to tell of (`Untold`). `InStep` says so as long as no write had to wait (`Steady`),
and besides that a sweep's removals are told one after the other at the head of the
queue, of sessions that have not come back. One lemma, `SpeaksSteady`, serves every
broadcast; `QuietSteady` every step that tells nothing. All rest on
`BroadcasterAssumption`: finitely many sessions, and values for a session that is not
there and a frontend that knows nothing that are no record and no registry.

`NetClientProofs`: `FeedReads` says what `feed` does with any bytes: if those it held
back and the new ones are lines from the beginning of one, it returns the messages of
the whole lines and holds back the rest. It rests on lemmas that a fold takes one
step per element, in the order of the sequence. The invariant `IInv` is about what the
main thread hears (`Hears`: the last status taken off the queue, what came after it,
and the queue): each message in it follows the one before it, or a connecting status
(`Chained`), its last status is true (`LastTells`), and while the thread reads, the
bytes held back and those on the wire go on where it ends (`Following`), up to the last
line sent as long as nothing was cut off. A recv of any length moves bytes from one
part of this stream to the next. `StatusIsTrue` and `AlwaysABeginning` are read off it.

`OfficeProofs`: `Sync` releases and assigns slots in the order of a set, so the
lemmas `SyncTiles` and `SeatsTile` say what it does for any order: the slots held
and the free ones still tile an interval from zero. `Seated`, that is
`OfficeConsistent` and the tiling with what it rests on, is inductive. `GridGrows`
counts the free list by the cardinality of finite sets. `DesksStand` holds for any
number of desks and any height: `DesksApart` and `DesksInside` say so of the
geometry alone, from the bounds of an integer quotient.

`UsageProofs`: `WindowRight` holds for every hour and every change of the clocks
by night; the reset hour lies outside the hours at which clocks change, so the
last reset is read off the wall clock in one piece. `FiguresOfOneRefresh` follows
from the lock having one holder. `AlwaysTotals` is about sums over sets of lines: the
lemmas at the head of the module show that a sum over a finite set unfolds by any of
its elements, so that counting file by file and line by line, or taking a file's
entries over from the cache, comes to the same. The invariant `Right` says that a cache
holds beginnings of the transcripts (`Copies`), that what was counted is what the new
cache is worth and what is shown what the old one is (`Counted`, which also covers the
moment at which one window's figure is new and the other's old), that nothing of a
file gone by then is in it (`Allowed`), and that each line that was whole when the
refresh began, of a file not passed over since, is in it or in a file still to be
visited (`Due`). That a cached entry is
used again rests on the key: a file that is as long as it was has the same lines.

`InstallerProofs`: `AlwaysWhole` and `AlwaysInABackup`. The invariant of the second says
of the run in progress that its copy has the name and the content of the file as
long as there was no gap (`Named`, `Copied`), and of earlier ones that no second
they used is used again without dropping them from what is kept.

`AlwaysDelivered` and `AlwaysRoundTrip` are about what a merge does to the order
of everyone else's commands. Lemmas about `Without` and `FlattenSeq`, by induction
on the length of a sequence, show that stripping groups and listing commands
commute: `Hooked` of what `_strip_ours` leaves is `Hooked` without ours.
`MergeDelivers` follows for one merge. For several in a row, two settings are
`Alike` when they differ in ours only and in groups without hooks: an install and
an uninstall depend on settings up to that (`AlikeMerged`) and keep it. What an
uninstall gives back is the settings themselves exactly when they are `Tidy`
(`TidyTaken`, `TakenTidy`): what it leaves is tidy always, since it drops empty
groups, empty lists and an empty `"hooks"`. `RoundTrip` then holds of any
settings, and of the file because others and the installer leave only settings in
it (`TypeCorrect`); `Delivered` needs besides that a finished run has made the
file what it was to be, from what it read (`Sure`). `InstallerAssumption` asks
only that what is found at first is made of groups, commands and known events.
`Without` is a recursive function, and not the library's `SelectSeq`, because the
prover cannot expand that.

The library's induction theorems take an operator and cannot be used here; the
proofs that need induction over a sequence or a finite set derive it, for a set of
numbers, from the well-foundedness of the order on the naturals (`SetInduction`,
`SeqInduction` and their like), which takes none.

Model-checked only: liveness and all that rests on fairness (`EventuallyMirrored`,
`SweepsGoOn`, `CrashedIsDespawned`, `EndedIsDespawned`, `GhostsFade`,
`BannerSettles`, `ThreadEnds`, `FiguresSettle`), which is out of the prover's
reach; what `Pricing` computes is an operator the tracker's properties are built
from and is checked as part of them. The mutants in `PROJECT.json` show for each
checked property a plausible slip in the code that breaks it.

## Not modelled, and what is simplified

* Everything painted (`render.py`, `sprites.py`), the window and its banner: no
  state but caches of surfaces. The horizontal place of a desk is the same rule
  for all. `DeskTop` is exact where the code's floats may be a pixel off.
* A pid reused by the kernel; a session file that is JSON but not an object; a
  datagram or a line that does not parse; a message no daemon sends; how the
  emitter summarises a payload, which the daemon does not read.
* `project_name`, `entrypoint` and timestamps on the wire: nothing branches on
  them.
* The modification time in the tracker's cache key: transcripts only grow, so it
  tells no more than the length. Lines without a usage; a line that is JSON but
  no object. A transcript that was removed does not come back under its name.
* Two installers at once; a program that writes settings.json in pieces; how the
  paths are found from the arguments; an emitter path that does not contain
  the marker (`Delivered` excludes it: the installer would not know it again).

## Plan

Done: every component but drawing, each with its runs; proofs of every safety
invariant and action property those runs check. Left, by what it would add:

1. `Pipeline`: Registry, a broadcaster reduced to what `Broadcaster` shows, and
   Office together: a session that runs is seen, one that ended fades. Each half
   is checked here; the composition would say that nothing falls between them.
2. The steps behind the liveness properties that are no temporal logic: a ghost's
   age only grows, a refresh never comes back to a file, a sweep's removals grow
   fewer. Each is an action property of its own, and provable.
3. What `cost_for_usage` promises for every usage: it adds up over lines and never
   falls as tokens are added.
