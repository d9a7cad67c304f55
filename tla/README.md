# go-tmux-saver in TLA+

go-tmux-saver saves the layout of a tmux server (sessions, windows, panes, what
runs in them and their scrollback) to a data directory, and grafts a saved
layout back onto a running server. This directory holds TLA+ modules for the
parts of it where order, interruption and concurrency decide, TLC
configurations that check them on small instances, and proofs, for every part,
that hold for every size. Paths below are relative to the
repository's root; `PROJECT.json` maps every definition that models code to the
lines it stands for.

## 1. The system

Nothing of go-tmux-saver stays resident. Every command is a short-lived
process; what they share is the data directory, the tmux server and, for
Claude panes, `/proc`. systemd timers start `save --auto` and the freshness
watch; `tmux-server.service` starts `restore --on-start`.

| Component | Source | State it keeps | Operations | Talks to |
|---|---|---|---|---|
| snapshot store | `internal/snapshot/store.go` | `snap-<ts>/` (layout.json, panes/), `snap-<ts>.tmp/`, `rejected/`, `last`, `.lock` | Stage, Promote, Reject, Discard, CleanStaleTmp, Last, Load, Newest | the file system |
| save | `internal/cli/save.go` | none of its own | lock, dial, sweep, collect, compare, guard, promote, mark, prune | store, collector |
| import-resurrect | `internal/cli/importer.go` | none | the same from a tmux-resurrect file, without guard and comparison | store, importer |
| prune | `internal/cli/prune.go`, `internal/snapshot/prune.go` | none | choose by retention, remove | store |
| guard, retention | `internal/snapshot/guard.go`, `prune.go` | none | decisions from numbers | save, prune |
| restore | `internal/cli/restore.go`, `internal/restore/*.go` | `replay/` | load a snapshot without the lock, look at the server, plan, apply | store, tmux |
| control client | `internal/tmuxctl/client.go`, `parse.go` | a tmux child, a read loop, a reply channel, a mutex, the desync flag | Dial, Run, Close | tmux |
| collector | `internal/collect/collect.go` | the snapshot being built | four listings, then one capture per pane | control client, procs |
| process table | `internal/procs/*.go` | one reading of `/proc` | Scan, Subtree, Resolve, SessionFor | collector, claude-suspend |
| claude-suspend | `internal/cli/claude_suspend.go` | one capture file per parked pane | look, `/exit`, Enter, wait, type the placeholder | tmux, procs, Claude's registry |
| claude-resume | `internal/cli/claude_resume.go`, `internal/resume` | none | wait for Enter, then exec `claude --resume` | the pane's user |
| freshness, status | `internal/cli/freshness.go`, `status.go` | none | compare the marker's age with thresholds | the marker |
| setup | `internal/setup/*.go`, `internal/cli/setup.go` | managed files, the claude-resume link, systemd units | Install, Update, Validate, EnsureClaudeResumeLink | file system, systemctl |
| importer | `internal/importer/resurrect.go` | a map of windows while it reads | read a line, build the snapshot, read the tar | import-resurrect |
| timers | `internal/setup/templates/*.timer.tmpl` | the next elapse of each timer, in systemd | start `save --auto`, start `status --check-fresh` | systemd, the marker |
| config, codec, schema, event log, trace | `internal/config`, `internal/snapshot/{codec,schema,events}.go`, `internal/trace` | `events.log`, the marker `fresh` | load, validate, append, touch | all |

How they interact: a **save** takes the lock, opens a control connection, lets
the collector ask tmux, compares with `last`, stages, promotes or rejects,
touches the marker and prunes, and only then lets the lock go. **Restore**
takes no lock: it reads the directory while saves may run. It and **claude-suspend** act
on a server and on panes their user goes on using.

What is hard here, and what makes each part correct:

* *The store* is changed by processes that may be killed between any two
  system calls. Correct: `last` always names a whole snapshot; a rich snapshot
  is not replaced by a collapsed one; retention never counts what cannot be
  restored; what was left half done goes away; the marker does not lie.
* *Unlocked readers* race promotions and removals. Correct: they never mix two
  snapshots and lose one only when retention really has gone past it.
* *The control client* matches answers to questions by order alone. Correct:
  nobody gets an answer to another question, and nobody waits for ever.
* *Restore* acts by a plan made from one look. Correct: it adds and never
  touches what is there, reports what it did, and can be run again.
* *claude-suspend* types into panes by what it saw a moment ago. Correct: it
  submits nothing of the user's, ends no Claude without parking it or saying so.
* *The collector* puts one snapshot together from answers of different moments.
  Correct: what did not change meanwhile is in it, once, with its own text.
* *The timers and the readers of the marker* are all that notices when saves
  stop, over restarts, sleep and clock changes. Correct: no alarm while all is
  well, an alarm when saves have stopped, and none once they are back.
* *Setup* writes where the user and systemd also are, and may be killed. Correct:
  it replaces nothing of the user's and leaves no path empty; what validate
  approves is what systemd runs.
* *The importer* reads lines whose free texts look like separators. Correct: the
  snapshot is what was saved, and what could not be read is said.

The list of hazards, each at its line and with the properties that watch it, is
in `PROJECT.json`.

## 2. The modules

```
Policy            retention, guard: operators over numbers
  SnapshotStore   the directory and save, import-resurrect, prune
    StoreProperties   what it promises; INSTANCE Archive WITH ...
      MCStore         TLC instances
    StoreReader       restore reading beside them       -> MCReader
      StoreProofs     theorems and proofs, of the store and its readers
Archive           the abstract directory
ControlClient     Dial, Run, Close, read loop, parser   -> MCClient
  ClientProofs    theorems and proofs
Restore           QueryLive, BuildPlan, Apply           -> MCRestore
  RestoreProofs   theorems and proofs
ClaudeSuspend     claude-suspend and the panes          -> MCSuspend
  SuspendProofs   theorems and proofs
Collector         Collect, QueryLive                    -> MCCollector
  CollectorProofs theorems and proofs
Timers            both timers, freshness, status        -> MCTimers
  TimersProofs    theorems and proofs
Setup             install, update, generate, validate   -> MCSetup
  SetupProofs     theorems and proofs
Importer          FromResurrect                         -> MCImport
  ImporterProofs  theorems and proofs
```

Definitions headed *Mutant* in the comment above them are deliberate bugs; no
specification uses them. `PROJECT.json` names, for each property, the one that
breaks it in place of the right definition.

### Policy, SnapshotStore

A snapshot's name is the second it was taken in; names sort as the seconds do,
so `Stamps == 0..MaxClock` stands for both. The disk is `tmp` (the staging
directory of each second: absent, partial or complete), `layout` and `panes`
(what of `snap-<ts>/` is there), `rejected`, `last`, `fresh` (the marker's
mtime) and `lock`. A process is its place (`pc`) and its local variables
(`run`: what it collected, what it compared with, the prune's target and list).
An action is a stretch of code between two moments another process or a crash
can tell apart:

| Code | Actions |
|---|---|
| tryLockDataDir, lockOrFail | `StartSave`, `StartImport`, `StartPrune`; a process that finds the lock held takes no step |
| openTransport, procs.Scan | `Dial`, `DialFails` |
| CleanStaleTmp | `Sweep` (one directory a step), `SweepFails` |
| Collect / FromResurrect | `Collect`, `CollectFails` |
| Store.Last, Unchanged | `Compare`, `CompareFails` |
| Store.Stage | `StageBegin`, `StageEnd`, `StageFails` |
| IsDegenerate, Reject, Discard | `Reject`, `RejectFails`, `Discard`, `DiscardFails` |
| Staged.Promote | `PromoteRename`, `PromoteRefused`, `PromoteLink`, `PromoteLinkFails`, `PromoteSync`, `PromoteSyncFails` |
| TouchFresh | `TouchKept`, `TouchUnchanged` |
| PruneCandidates, Prune | `PruneReadLast`, `PruneList`, `PruneUnlinkLayout`, `PruneUnlinkPanes`, `PruneNext`, `PruneRejected`, `PruneEnd`, `PruneFails` |
| the world | `Crash`, `Tick`, `ClockBack`, `DeleteByHand` |

Crashes, failed calls, a clock set back and a deletion by hand are *mishaps*; a
configuration says which kinds happen and how many. Two choices keep the model
smaller than the code without hiding a state: the symlink beside `last` and
its rename are one step, because nobody reads `last.tmp` and the next Promote
removes it; and a directory is gone when neither its layout nor a pane file is
left, the empty directory being something that neither Load nor a rename onto
it (POSIX allows that) tells from none. Whether a pane file is linked from the
last snapshot or written anew is not told apart either: both end in a complete
staging directory, and a linked file survives the removal of its other name.

### Archive

The abstract directory: numbered snapshots appear and disappear whole, the
current one is always among them and never forgotten, the marker only ever
confirms a current one. `StoreProperties!Archived` maps onto it: `held[s]` is
the layout where layout and panes are both there, and nothing otherwise, so
the first file a prune removes is the moment a snapshot is forgotten.

### StoreReader

`Resolve`, `Load`, `FallBack`, `OpenContents`, `ReadContents` are the reads
of `RunRestore`; a step of the store may come between any two. `moved` counts
the promotions seen since `last` was resolved.

### ControlClient

tmux (external) answers what it reads in order and prints lines on a wire:
block frames, pane text, text that looks like a terminator, notifications, an
overlong line, `%exit`. `ParseOutside`, `ParseEnd`, `ParseInside`, `ParseEOF`
are the arms of `ParseReplies`; `Lock`, `Check`, `Write`, `NextReply`,
`NextClosed`, `NextTimeout` the steps of `Run`; `DialUp`, `DialFails`, `Close`,
`Reap` the life of the connection. `said` remembers what tmux answered to each
command so that `OwnAnswer` can compare.

### Restore

The server is external: sessions map indexes to windows, and a window remembers
who made it. `Fate`, `Block`, `InPlanOrder`, `SessionPlan` are `BuildPlan`;
`ApplyRun`, `ApplyUnheard`, `ApplyRefused`, `ApplySkip`, `ApplyQuiet` the cases
of `Apply`'s loop with its `winTarget`, `abortedSession` and `windowAborted`;
`Finish` and `Cancelled` its ends. A command that fails for Apply may have been
carried out (`ApplyUnheard`): its reply was lost with the connection or came
after the call gave up, or a relocation's reply has no window index. Where the
call gave up or the connection closed, every later command fails too (`up`). The
effect of such a command is taken to come at once, not after the run. The commands that dress a window (layout, options, the
active pane) are one action, since each of them can only fail for itself and
none changes which window a later one goes to. `Accepts` and `Effect` say what
tmux does with a command: base-index for a new session, the next free index for
a relocation, a split placed after the active pane. `UserOpens` may happen at
any moment. A restore that is cut short leaves what it has made; the next one
looks again.

### ClaudeSuspend

A pane runs a shell, a Claude (with its input box) or the placeholder; `pid`
counts the Claudes a pane has had, so a stale process table can be told from a
fresh one. `Scan`, `TakePane`, `SkipPane`, `Look`, `TypeExit`, `PressEnter`,
`Confirm`, `TimesOut`, `TypePlaceholder`, `PaneFails`, `Ends` are the run; the
user drafts, submits, answers dialogs, quits, launches and declines between any
two of its steps. `touched` and `meddled` record where the user acted since the
run began and since the screen was looked at: the properties promise nothing
for the second, because no program could.

### Collector

`ServerInfo`, `ListSessions`, `ListWindows`, `ListPanes`, `Capture`,
`CaptureMissed`, `Saved` and `ConnectionFails` are `Collect`; the user opens,
splits, kills, swaps, clones and closes in between. A text is stood for by the
id of the pane it was captured from. `QueryLive` is what `restore` would see of
the same server: it starts from the windows, not from the sessions, and gathers
the members of a group from the windows they show (`Bucket`), as
`restore/live.go` does beside the collector's own way.

### Timers

Time is counted from now, so that the states stay finite without a last moment:
`age` is now minus the marker's mtime, `due` the time to each timer's next
elapse, `saving` what is left of the running save. `Started` is what systemd
makes of the directives of a template (`OnBootSec`, `OnActiveSec`, and
`OnUnitActiveSec` where the service has run), `SaveStarts` and `WatchRuns` an
elapse, `SaveEnds` the outcome of RunSave and its TouchFresh. `Tier` is
classifyFreshness and `Stale` the limit of `status --check-fresh`. systemd is
external; where its manual and the comment in the template differ (does an
OnBootSec that is past fire at once, or not at all), both may happen. A save ends
by its two-minute deadline. A machine may reboot, restart its user manager,
sleep or have its clock set back; the user may stop the timer; saves may fail,
some or all.

### Setup

`disk` is what stands at each managed path: a rendering, nothing, an edit of the
user's, a config.json with another mode, a file half written. A configuration
the user edits is a valid one.

| Code | Actions |
|---|---|
| runSetupInstall, runSetupUpdate, runSetupGenerate | `StartInstall`, `StartUpdate`, `StartGenerate` |
| Update's comparison, pruneRetired | `Compare`, `Prune`, `Decide` |
| EnsureClaudeResumeLink | `Classify`, `Relink` |
| WriteFiles, writeManaged | `WritePart`, `Rename`, `FilesWritten` |
| daemon-reload, enable --now, restart | `Reload`, `Enable`, `Restart` |
| Validate | `Drifts` |

`Reload` stands for both daemon-reloads: Install's, after which `Enable` always
follows, and the one of an Update that had nothing to write but a retired unit
to forget (place `forget`), after which nothing does.

`EndBadly` is a write or a systemctl call that fails, or a kill, at any place.
`lapsed` holds the units that a run ended so had written before systemd was told
to read them, and those that a `generate` wrote, which never tells it; the next
daemon-reload empties it. `owed` remembers that such a run, or such a generate,
ended without enabling the units; `Enable` clears it. The user edits files, links and units at any moment, upgrades the binary between
runs, and the user manager may restart.

### Importer

A line is the sequence of its tab-separated fields, so a tab in a title is one
field more and a newline one line more. tmux-resurrect (external) writes the
lines; `ReadPane`, `ReadWindow`, `ReadState`, `ReadSilent` and `ReadBad` are the
cases of the loop, with `Shaped`, `Free` and `FromEnd` for splitTail and SplitN.
`Snapshot` is what is built from the map of windows, `ReadEntry` one entry of
the tar. Which patterns resume a Claude is a set of commands. `ByIndex` puts each
pane of a window where its rank among the indexes says, which is what the sort
comes to, as no two panes have one index.

What may be saved is in `SaveAssumption`: numbers are written as tmux prints
them, each in one way, so `Number` is one to one; titles, names and commands have
at least one piece, an empty one being the empty field; and neither the half of
a record broken by a newline nor any of the other lines has the shape of a
record, so that they are the malformed lines of the comment at
`importer/resurrect.go:62-69`. One that had the shape would be read as a record.

## 3. The runs

All bounds are constants of the configurations. "States" are TLC's distinct
states.

| Run | Question | Result |
|---|---|---|
| `store` | two processes, two layouts (6 panes and 1), four seconds, two days, one crash, failed call or clock set back by any amount | 4.5 M states; `StagingSafe`, `LastWhole`, `KeepsEnough`, `GuardHolds`, `FreshHonest` hold |
| `store_live` | the same with fairness and with deletions by hand | 81 k states; `LeftoversSwept`, `GuardNeverBlind` hold |
| `reader` | one restore beside one writer that saves up to three times | 1.4 M states; `ReaderProtected`, `NeverMixed`, `ImplementsArchive` hold |
| `client` | two callers, two commands, five replies of up to two lines, with every kind of line among them | 0.5 M states; four properties, two of them temporal, hold |
| `restore` | three snapshots on four servers, two runs, one command refused, unheard or cut short, one window of the user's | 0.7 M states; `RTypeOK`, `Additive`, `RightPane`, `Idempotent`, `AllMade` hold |
| `restore_as_saved` | what the design document says a created session looks like | violated, see section 6 |
| `suspend` | two panes, two conversations, four acts of the user, one failure | 0.8 M states; five properties hold |
| `suspend_live` | "never typed into a live session" | violated, see section 6 |
| `collector` | a group with and without its owner, two sessions with one key, two acts of the user | 0.2 M states; five properties hold |
| `timers` | four pairs of factors, any moment of `enable --now`, two mishaps | 92 k states; `NoFalseAlarm`, `StopIsNoticed`, `Recovers` hold |
| `setup` | two unit files, two renderings, three acts of the user, failures or upgrades | 4.5 M states; four properties hold |
| `import` | every file of up to three records in any order among other lines, with a tar | 0.9 M states; `AsSaved`, `Accounted`, `TextsFindTheirPanes` hold |

What the properties say, beyond their names:

* `StagingSafe` relates the place of one process to the sweep of another.
* `LastWhole` holds through every crash between the two renames of Promote, and
  through prunes with `last` older than other names (the clock was set back).
* `KeepsEnough` is about *whole* snapshots: half-removed ones must not count.
  It holds because a candidate is never among the newest `Keep` names, so these
  are never half-removed, whatever crashed below them.
* `GuardHolds` compares with what `last` holds when it moves, not with what the
  process read earlier; `GuardNeverBlind` adds deletion by hand.
* `ReaderProtected` measures what `retention.keep` is worth to an unlocked
  reader: `Keep` promotions, less one for each interrupted save.
* `ImplementsArchive` is checked where somebody looks at the directory without
  the lock; with two processes and a clock set back it is proved (section 5).
* `OwnAnswer` compares an answer, line by line, with what tmux said to that
  command. `CTypeOK` also bounds the reply channel: at most one reply waits in
  it, which is why the read loop never blocks on it and Close not on the read
  loop.
* `ClosedIsReaped` claims nothing once the read loop has stopped under a tmux
  that lives (`Deaf`): there the code may hang (section 6). What it claims is
  that as long as the loop reads, it is never stuck on a reply that nobody takes,
  and that a Dial that fails leaves no child behind.
* `Additive` and `RightPane` hold though the user opens windows under a plan
  that is already made, because a refused creation takes its block along.
  `AllMade` says the converse with the report: what is reported is there; what is
  there and not reported has a note; and when nothing disturbs the run, what was
  planned is made and reported.
* `Idempotent` is about a whole second run: it plans no creation of what an
  earlier one made, though that was cut short or never heard that it had, and
  after an undisturbed one no creation at all. `settled` tells a run that the user and the system left alone, and that had room: the indexes
  of the model end at `MaxIndex`, those of tmux do not (`NoRoom`).
* `EnterOnlyConfirms`, `ParkedIsResumable`, `NoneLost` and `OnlyIdleEnded` hold
  for everything the user may do except within the window between look and
  Enter. `NoneLost` is a leads-to: every run comes to its end though Claude may
  never exit, and by then each Claude it ended is parked or reported.
* `OnlyIdleEnded` leaves out a conversation that was shown in a second pane when
  the table was read: a turn taken there after the check cannot be seen here.
* `StillWindowsAreSaved` holds with two changes of the user at any of the
  moments between the questions, and says that nothing is saved twice.
* `SavedIsLive` compares the collector's choice among the members of a group with
  the live query's, which are two pieces of code that start from different
  lists, on a server that changed in between. It speaks of windows left
  alone; a group that lost a member, or that one joined while its namesake was
  gone, may have another kept member afterwards, and a restore would then make its
  windows once more under the other name.
* `NoFalseAlarm` speaks of a marker that is there: after an `enable --now` long
  after boot the watch may run before the first save, and the document promises
  nothing about it. It also says that the two readers do not contradict each
  other, whatever the factors, as long as the status line shows freshness at all
  (`freshness.go:72-74`). `StopIsNoticed` and `Recovers` are the two halves
  of what the watch is for; the second fails with a template without
  OnActiveSec.
* `ValidateSatisfied` and `ValidateSuffices` are the two directions between
  setup and validate: what setup made passes, and what passes is what systemd
  runs. Each leaves out what is not so (section 6): the first an update after a
  `generate` over the live directory or a run cut short, since it may find
  nothing left to write (`owed`; install is claimed for there too); the second the
  units that such a generate or run wrote and systemd has not read (`lapsed`),
  and of the others it claims that systemd works by them.
* `UsersThingsKept` is about every path that writes, and holds though the user
  edits while setup runs: only what was put there between the look and the
  rename is lost.
* `AsSaved` compares the snapshot with one read off the *set* of records, so the
  order of lines and every lookalike separator must drop out.
* `TextsFindTheirPanes` speaks of places whose key no other place of the save or
  of the tar has (`Rivals`), place by place, while others clash beside them: such
  a pane has its own text and no other's, and such an entry is attached to its own
  pane or to none. Between two that share a key the code does neither (section 6).

Why the bounds are enough. In `store`, `Keep = 2` with four names lets a prune
have victims, the day rule keep a third name, and `last` be the oldest; a
guard of 5 panes and divisor 3 tells the two layouts apart; one mishap at any
step is where a crash-recovery bug shows, and the proofs of section 5 cover any
number. Two processes suffice because a third can do nothing the lock does not
forbid the second. In `client`, two commands let an answer go to the wrong one
and two callers contend for the mutex. In `restore`, two runs are what
idempotence speaks of, and the snapshots have a relocation, a skip, a creation,
a missing session with three panes and an unaddressable one. In `suspend`, four
acts allow quit, launch, draft and submit in one pane. In `collector`, two acts
allow a window to leave and another to take its place between any two
questions. In `timers`, the intervals are a quarter of the defaults with the
same proportions, so that the limits are in reach, and two mishaps allow a stop
and a restart, or a sleep and a clock set back. In `setup`, three acts allow a
failed run, an edit and an upgrade. In `import`, three records are a window, its
pane and the pane of another session with the same key, in every order. The
proofs of section 5 cover any number.
`TypeOK` and its fellows also state what the shape of the variables
relies on (one caller past the mutex; nothing planned when no restore runs).

Symmetry is used where no liveness is checked: the processes of `store` are
interchangeable and no property names one. Deadlock is checked where the
system has no end (`store`, `store_live`, `reader`, `timers`, `setup`); it is
not where a behaviour really stops: a closed connection, the last bounded run
of restore or of claude-suspend, a finished collection or import.

## 4. Fairness

* `SnapshotStore!FairSpec`: a running process goes on (`WF` of its steps that
  are not mishaps) and saves keep being started (`SF` of `StartSave`, since the
  lock is not free at every moment): the timer fires every interval for ever.
  Imports and prunes by hand are never fair, nor is any mishap. The weak
  fairness of a process rests on its tmux calls ending: every one of them has
  the two-minute context of `save`. One wait has no deadline, `cmd.Wait` in
  `Client.Close`: it ends if tmux's control client leaves when its input ends,
  which the model of the client assumes of tmux while its output is read. A
  control client that hung there would keep the lock.
* `ControlClient!CFairness`: the read loop, Dial and the callers go on; a
  waiting call may always time out, because every context in the program has a
  deadline; the mutex starves nobody (Go's does not), hence `SF` of `Lock`;
  tmux owes nothing but to leave at the end of its input, and that only while the
  read loop takes what it prints: with its output undrained it may be writing to a
  full pipe for ever.
* `ClaudeSuspend!SFairSpec`: the run goes on; its waits have an end
  (`TimesOut`). Neither Claude nor the user is fair.
* `Collector!COSpec`: the collector goes on; tmux answers or the connection
  fails, which the control client guarantees.
* `Timers!TFairness`: time goes on, systemd runs what is due, and a save ends,
  by its deadline at the latest. No mishap is fair, nor is the end of trouble.

## 5. Proofs

For every number of processes, panes, sessions, seconds, user acts and mishaps,
and every setting that `config.Validate` accepts:

| Module | Theorem | States | Holds if |
|---|---|---|---|
| `StoreProofs` | `TypeCorrect`, `StagingIsSafe` | `TypeOK`, `StagingSafe` | always |
| | `LastIsWhole`, `KeepsAreKept` | `LastWhole`, `KeepsEnough` | nobody deletes by hand |
| | `GuardIsKept`, `FreshIsHonest` | `GuardHolds`, `FreshHonest` | nobody deletes by hand |
| | `GuardSeesTheBase` | `GuardNeverBlind` | always |
| | `StoreImplementsArchive` | `ImplementsArchive` | nobody deletes by hand |
| | `NewestAreEnough` | what `Newest` returns | |
| | `ReadersAreProtected`, `ReadsAreNotMixed` | `ReaderProtected`, `NeverMixed` | nor is the clock set back |
| | `ReadersSeeAnArchive` | `ImplementsArchive`, with readers | nobody deletes by hand |
| `ClientProofs` | `ClientTypes`, `AnswersAreOwn` | `CTypeOK`, `OwnAnswer` | always |
| `RestoreProofs` | `RestoreTypes` | `RTypeOK` | always |
| | `RightPanes`, `OnlyAdds` | `RightPane`, `Additive` | `FromBase` |
| | `AllIsMade`, `NothingLeftToMake` | `AllMade`, `Idempotent` | `FromBase` |
| `SuspendProofs` | `SuspendTypes`, `EnterConfirms`, `ParkedResumes`, `EndsIdleOnes` | `STypeOK`, `EnterOnlyConfirms`, `ParkedIsResumable`, `OnlyIdleEnded` | always |
| | `EndedAreParked` | `AllParked` whenever a run has stopped | always |
| `CollectorProofs` | `CollectTypes`, `StillWindows`, `TextsAreTheirs`, `SnapshotIsLive` | `COTypeOK`, `StillWindowsAreSaved`, `TextsAreThePanes`, `SavedIsLive` | always |
| `TimersProofs` | `TimersTypeCorrect`, `NoAlarmWhileWell` | `TTypeOK`, `NoFalseAlarm` | always |
| `SetupProofs` | `SetupKeepsTheUsers`, `SetupLeavesNothingMissing` | `UsersThingsKept`, `NeverMissing` | always |
| | `NoDriftNoDifference`, `SetupSatisfiesValidate` | `ValidateSuffices`, `ValidateSatisfied` | always |
| `ImporterProofs` | `ImportYieldsTheSave`, `NothingDroppedInSilence`, `TextsGoHome` | `AsSaved`, `Accounted`, `TextsFindTheirPanes` | always |

### Assumptions

Each module names those on its constants (`PolicyAssumption`, `StoreAssumption`,
`RestoreAssumption`, ...), and TLC evaluates them in its runs. What a property
itself leaves out (a run cut short before its reload, a pane the user touched)
is in the property and said in section 3. Further hypotheses stand in the theorem:

* `NoHand`: `"delete" \notin Mishaps`. A hand may take any snapshot away.
* `Forward`: `NoHand`, and the clock is never set back. With a clock set back a
  name may be given twice, and the newest name is not the last one made.
* `FromBase`: a session that restore has to create was saved with its first window
  at the server's base-index, as every session is whose first window was never
  closed or moved and whose base-index is still what it was. All four properties
  that are proved from it are false without it: with base-index 1 and sessions
  saved from 0, TLC violates each.
  new-session puts its window at base-index, whatever the snapshot says, and the
  actions that follow go to the saved index, where the user may have opened a
  window; the window may stand where another of the session was saved, whose
  own creation is then refused; and the next run finds its own index free and
  makes it again. This is the reach of the first disagreement in
  section 6 beyond what its run shows.
* `ServerAssumption` (external): tmux shows one window list to the sessions of a
  group and to no other, and gives no pane id twice.
* `SavedAssumption`: in a snapshot no two sessions have one name and no two
  windows of a session one index, as on the server it was taken from; the importer
  too keeps its windows by session and index.
* `SaveAssumption` (external): what tmux-resurrect writes, see the importer in
  section 2.

### The store

`TypeOK` and `StagingSafe` are not inductive: nothing in them
says that a process that is running holds the lock, which is why nobody else's
sweep runs. `LockInv` adds `Owned`: whoever is not idle holds the lock, what it
carries fits its place, and its staging directory is there from StageBegin
until it is renamed or removed. `LastWhole` needs `LastInv`: `Held` says of the
one running process that what it promoted is whole while it has yet to link
it, that its `base` is what `last` holds as long as the decision depends on it, and
that a prune's list excludes the target of `last`, which is still its target.
Each invariant is proved from one step per action. `GuardHolds`, `FreshHonest`
and the refinement are then step facts: under `LastInv`, every step of `Next`
moves `last` only in PromoteLink, from a base the guard passed, moves the
marker only where `last` is whole, and is a Publish, MakeCurrent, Forget or
Confirm of the archive, or leaves it alone.

`KeepsEnough` counts. `KeepInv` says that every name that is not whole has `Keep`
whole ones newer than it, and that what a prune has on its list has as many that
are not on it: `PruneCandidates` spares the newest `Keep` names
(`NewestAreEnough`), and the half-removed ones are all older. `GuardNeverBlind` does not rest on
`NoHand`: `BaseInv` relates only whether there is a base to whether there is a
`last`, and a hand deletes snapshots, never the link.

### The readers

A restore takes no lock, so nothing in `LockInv` speaks of it. Three facts do.
`NameInv`: no name is later than the clock or than a name chosen after it, and
what a prune may remove is older than any name still to come; so no name is given
twice (`NeverMixed`). `AheadInv`: the names newer than `last` number at most
the mishaps so far, and one for a promotion between its renames. `ReadInv`: what
a reader resolved is whole, on no list, and has at most as many newer names as
there were promotions since, mishaps and links to come; so it leaves the newest
`Keep` only when these make `Keep`. `Calm` gathers what most of the steps of the
directory leave alone.

### The control client

Nothing numbers the replies. `Pipe` says where the one outstanding reply is:
not yet given, on the wire with some of its lines read by the parser, or on the
channel, whole. `Quiet` says that none is, and `Callings` that it is so whenever
nobody waits and the connection is not desynchronised, which is when the next
caller writes. A caller that gives up sets `desynced` before it lets the mutex
go, and that is why a late reply is nobody's. What `Heard` leaves of a reply is
a recursive function; `HeardBy` is its defining equation.

### Restore

A plan names windows by index and nothing in it says whose they are. `Tied`, for
any two neighbours of a plan: what follows on a creation is for the window
created, until the next creation; so `Current`: when a split, a text or a
command is about to be sent, the window at its index is the one its own creation
made. The user cannot take that index meanwhile, since something stands there,
and a refused creation sets `skipping` or `aborted`, under which nothing of the
block is sent. `PlanMade` and the lemmas before it show that `BuildPlan`
makes tied plans of any snapshot and server. `RightPane` is then kept by each
effect. `RTypeOK`, whose last part says that no more is reported than planned,
needs the count of creations that remain (`Counts`).

`AllMade` and `Idempotent` are about a plan as a whole. `PlanLaid` says what one
holds: a command for every saved window that is not there and no other (`Supplied`),
no two of which are for one place, a session before its windows, relocations last
(`Apart`, for every action and every later one). `Undisturbed` carries this through
a run: as long as nobody interferes, each command still to come will be accepted
(`Ready`), since no earlier one takes its index and its session is there or made
before it; hence no creation is refused, and what was made, what was noted and
what remains together are what was planned (`Exact`). The order of `InPlanOrder` is what
makes this inductive: a relocated window takes the next free index, which no
window still to come was saved with. `Tally`, which holds under any
disturbance, keeps the report no larger than what was made and what was made no
larger than the report and its notes.
`Provided` is what the second run meets: of each saved window, either something
stands at its index and a window has its name, or the command that brings that about
is still to come; neither user nor restore ever renames or removes a window. After
a run that was disturbed, `Origins` takes its place: a window that restore made
has a saved window's name, and something stands at that one's index, which is
all that `BuildPlan` skips by. For a relocated window that is so because it is
relocated only where the index is taken (`Displaced`).

### claude-suspend

`SInv` has the types and counts, and `AtHand`: the box of the pane at hand is
what claude-suspend has seen or typed unless the user meddled since. `Same`:
where the user has left a pane alone, a Claude in it is the one of the process table.
`Single`: a conversation shown in one pane when the table was read is shown
nowhere else while its Claude runs. `Kept`: while nothing failed, what was
ended is parked or at hand. `OnlyIdleEnded` without its `Alone` turned out not
to follow: with one conversation in two panes, a turn taken in one is not
looked for when the other is ended, though that one was left alone. The
property now says so.

### The collector

Three looks at a changing server agree because of the owner of a window: of the
sessions that show it exactly one is kept and stays kept until a session that
showed it is closed (`Looks`, `OneOfEach`). `Orderly` says that tmux stays a
tmux whatever its user does. `SavedIsLive` rests on `Chosen`: as long as nothing
has happened to a group that may change its kept member (`Steady`), what was
listed is what would be kept now; and as no session is without a window, the members
gathered from the windows are those of the sessions.

### The timers

`NoFalseAlarm` says how old the marker is, which no
step shows by itself. `InTime` does: while nothing has gone wrong and no save
runs, age and time to the next save together stay within interval and accuracy;
while one runs, age and time left to it stay within `LongestGap`; and the next
elapse is then in sight. Every tick keeps the sums, an elapse turns the first
into the second, and a save that ends begins anew. That the limits exceed
`LongestGap` is the condition `Sensible`.

### Setup

`SetupInv` has five parts: `Shape`, the types; `Looked`,
that a process about to rename has seen nothing of the user's there, or the user
came after; `Stages`, what the process has written at each of its places; `Read`,
that systemd has read every unit file as rendered whenever nothing is owed and
nothing was written since; `Lapses`, that a rendered unit systemd has not read
was written by the process that runs or is among the `lapsed`. `Looked` gives the first theorem, `Shape` the second
(no file is ever partial, and a rename puts something where something was), and
`Lapses` the third. The fourth, that validate is satisfied, adds `Seen` to `Read`: which
files the process, undisturbed, has seen to (those not on its list), that the
link is in order, that a retired unit is forgotten or about to be, and that
units that were never enabled were never rendered without a reload being owed.

### The importer

The three properties are about the end of a loop, and the invariants say what
holds in it. `PendingInv`: what is written and not read is the last record, on one line,
or lines that are none; so the records read so far are known (`Known`), and so is
what the windows show of them (`Shows`): of each record its number, and of one without an
oddity all of it. That the reader finds a record's fields again behind and before
any number of tabs is shown for each kind of line, by position from either end.
At the end `Shows` turns into `AsSaved`: the panes of a window are the
saved ones, each once, and the rank of an index is one to one, so the sorted
sequence is the only one there can be. `Accounted` counts lines and entries as they
are read; `TextsFindTheirPanes` follows a text by its key, which determines the
place among those without `Rivals` (`OneKey`), since every key looked for is that
of a pane that was read (`ValidIsHeld`).

### What is only model-checked

* Liveness under fairness (`LeftoversSwept`, `CallReturns`, `ClosedIsReaped`,
  `NoneLost`, `CollectEnds`, `StopIsNoticed`, `Recovers`) and ENABLED, which are
  beyond the proof system. The safety half of `NoneLost` is `EndedAreParked`.

Induction over data takes no induction theorem here: where a lemma is about
every set or sequence (`NewestAreEnough`, `FlattensExists`, `FlatSteps`, `HeardBy`), the proof
takes a least counterexample and shows that there is a smaller one.

## 6. Where the code and its documents disagree

Two runs end in a counterexample. Each checks one sentence of the repository.

* `restore_as_saved` (`CreatedAsSaved`). "Missing sessions are created exactly as
  saved (name, windows, indices, ...)" and "each pane starts the default shell
  with `-c <cwd>`" (design document, lines 266-267 and 276-278). new-session puts
  the first window at base-index; when it was saved elsewhere, the splits, layout
  and commands for it go to an index where nothing is. And every split goes to
  the active pane, the first, and tmux puts the new pane right after it: from
  three panes on, directories and commands are out of step. Where the saved
  first index is not base-index, the index those commands go to may hold a window
  that the user opened meanwhile (`FromBase`, section 5).
* `suspend_live` (`NeverIntoLive`). "The placeholder is never typed into a live
  session" (`docs/claude-integration.md`, line 92). The process table is
  read once; a Claude launched later in a pane gets `/exit`, but the wait looks
  at the pid of the one before it.

Others were met while modelling and have no run of their own; the properties
named here are stated around them.

* "A crash mid-save leaves at most a `*.tmp/` directory, never a partial
  snapshot" (design document, lines 158-159). A save prunes before it returns,
  and RemoveAll takes a snapshot apart file by file: killed there, it leaves a
  partial `snap-<ts>/`. `LastWhole` and `KeepsEnough` show that it is never
  `last` and never counts towards `retention.keep`.
* "Partial restores are completed by re-running" (lines 292 and 405;
  `restore/apply.go:50-52`). A window that was created and not filled has the
  saved name at the saved index, so the next run skips it. `Idempotent` says only
  that nothing is made twice.
* "`setup update`: re-render, apply, daemon-reload, restart timers" (lines
  321-322). After an update that was cut short between its writes and the reload,
  the next one finds the files as they should be and neither reloads nor
  restarts; only install mends it. Hence `owed` in `ValidateSatisfied`.
* validate asks systemd "that the drop-in file on disk is the one systemd is
  using" (`setup/validate.go:133-136`). It looks for `restore --on-start` in what
  systemd shows, which an older drop-in has too, and of the other units it reads
  the files only. After a `generate` over the live directory that ended well, or a
  run cut short before its reload, it finds no drift while systemd works by the
  old units. Hence `lapsed` in `ValidateSuffices`.
* `Close` waits for the control client without a deadline
  (`tmuxctl/client.go:216`). After a line longer than the scanner's buffer the read
  loop has ended (`tmuxctl/parse.go:90-92`) and nobody drains tmux's output, so a
  tmux with more to say may block on it and never see its input closed. Hence
  `Deaf` in `ClosedIsReaped`.
* Inside a block, pane text that begins like one of the whitelisted notifications
  is dropped with them (`tmuxctl/parse.go:84-86`). `OwnAnswer` takes an answer as what
  is left without such lines.
* `PaneKey` gives "a b" and "a-b" one key (`snapshot/schema.go:77`). In a save one
  text overwrites the other. In an import an entry of a session that is not in the
  save is attached to the pane of one that is and has the same key, without the
  warning that `importer/resurrect.go:81-84` promises for every entry that names a
  pane not in the save file. `TextsAreThePanes` accepts either text there and
  `TextsFindTheirPanes` claims nothing of such a pair.
* `Apply` counts a window when its reply comes (`restore/apply.go:111-134`). One
  that tmux made and whose reply was lost, or, of a relocation, had no index in it, is
  on the server and not in the report's counts, but for a note. Its contents and
  commands are not sent, and the next run skips it. `AllMade` is stated around
  that.
* "`validate`/`update` exit 1 when drift was found" (`README.md:145-146`). update
  exits 0 when it has applied the drift.
* validate reports a config.json of another mode than 0600 for ever, since no
  command touches an existing one; and it does not look at the mode of the data
  directory or at control mode, which the design document (lines 318-320) lists.
* A tab in `full_command` is not caught by the field count, as the comment in
  `importer/resurrect.go:55-59` says, since the title takes any number of fields:
  the directory, the active mark and the command are read from the wrong places
  and no warning is given. `AsSaved` leaves such records out.

## 7. What is not modelled

* `events.log`, messages, summaries, exit codes and `--strict`: output only.
* Power loss. A crash ends a process; what the disk holds is what its system
  calls did. Promote's fsyncs are steps that may fail, no more.
* The order in which a sweep or a removal takes directory entries is any order;
  empty directories count as gone; a snapshot rejected is removed in one step.
* Of restore: a command whose call gave up and that tmux carries out only after
  the run or between its later commands (it takes effect at once here); quoting, `cwdOrHome`, `pane-base-index`, option values, group
  members among the saved sessions, `--dry-run`, the sandbox server and the
  replay directory. `--on-start` only adds a precondition (an untouched
  server) to a run, and every state it accepts is among the servers.
* Of claude-suspend: pids used again by another process, windows linked into
  several sessions, a pane that is closed (it shows as a failed command), two
  runs at once.
* Of the collector: parsing of rows, directories, titles, and the command of
  each pane (`procs.Resolve`). Its user does not rename sessions or move a window
  from one session to another.
* Two restores over one data directory, each wiping the other's replay files;
  the code documents it as a limitation (`cli/restore.go:282`).
* Of the timers: `Persistent=`, which systemd ignores for monotonic timers; how
  the texts of `status` and `freshness` look; what a save by key does to the
  marker, which is what a timed one does.
* Of setup: `systemd-analyze verify` and the key bindings in validate,
  `--dry-run`, left-over `.part` files, a configuration that does not parse, the
  content of the templates, and two setups at once, which would write the same
  `.part` file (`setup/install.go:98`) with nothing to lock them against each
  other.
* Of the importer: the patterns of a resume command, the file that does not
  open, the tar that breaks off (the import fails as a whole).
* Configuration files, tracing, tests, packaging: see the notes in
  `PROJECT.json`.

## 8. Plan

Done, in this order: the store with its abstract specification and proofs, the
reader, the control client, restore, claude-suspend, the collector; the timers
with the marker's readers, setup, the importer; then proofs about all of
these: of every property of the runs that is not liveness under fairness. Next:

1. `LastWhole` and `KeepsEnough` with deletions by hand, of the snapshots that no
   hand took; restore without `FromBase`, of the sessions that it holds of.
2. The client as an implementation of an abstract request/answer channel.
3. Durability: what of Promote's renames is on the disk after a power loss, as a
   refinement of the store's Promote steps.
4. `procs.Resolve` as an operator, checked over bounded process trees; the
   `--on-start` gate (client count and IsSeedOnly) before a restore.

## 9. Running it

    tlc -workers 2 -config MCStore.cfg MCStore
    tlapm StoreProofs.tla

and so for the other seven modules named `...Proofs`. From nothing the longest
takes some minutes.

The runs, with the module and configuration of each, are listed in
`PROJECT.json`. The longest takes a few minutes.
