---------------------------- MODULE SnapshotStore ----------------------------
(***************************************************************************)
(* The data directory and the programs that change it: `save`,             *)
(* `import-resurrect` and `prune`.  Each is a process that takes the       *)
(* directory's lock without waiting, works through its system calls one    *)
(* step at a time, and leaves.  A process may be killed between any two    *)
(* steps, a system call may fail, the wall clock may be set back, and      *)
(* somebody may delete a snapshot by hand: each of those is a mishap, and  *)
(* a behaviour has at most MaxMishaps of them, of the kinds in Mishaps.    *)
(*                                                                         *)
(* A snapshot directory is its layout.json and its panes/.  It is whole    *)
(* when both are there; removing the tree takes them away in any order.    *)
(***************************************************************************)
EXTENDS Policy

CONSTANTS
    Procs,          \* the processes that may change the directory
    NoProc,         \* nobody holds the lock
    Layouts,        \* the tmux states a save or an import can find
    None,           \* no layout, no snapshot
    PaneCount,      \* the number of panes of each layout
    MaxClock,       \* bound on the wall clock, in seconds
    Mishaps,        \* kinds of mishap that may happen
    MaxMishaps      \* bound on the number of mishaps

Stamps == 0..MaxClock

MishapKinds == {"crash", "fault", "clock_back", "delete"}

ASSUME StoreAssumption ==
    /\ MaxClock \in Nat
    /\ MaxMishaps \in Nat
    /\ Mishaps \subseteq MishapKinds
    /\ PaneCount \in [Layouts -> Nat]
    /\ NoProc \notin Procs
    /\ None \notin Layouts
    /\ None \notin Stamps

Jobs == {"save", "import", "import_counts", "prune"}

(* Where a process is: what it does next. *)
PCs == {"idle", "dial", "sweep", "collect", "compare", "unchanged", "stage",
        "staging", "staged", "link", "sync", "fresh", "read_last", "list",
        "remove"}

VARIABLES
    clock,      \* the wall clock
    mishaps,    \* mishaps so far
    lock,       \* who holds the flock on .lock
    tmp,        \* snap-<s>.tmp/: absent, partial or complete
    layout,     \* layout.json of snap-<s>/, or None
    panes,      \* panes/ of snap-<s>/: none, some or all of its files
    rejected,   \* the names under rejected/
    last,       \* the name the `last` symlink holds, or None
    fresh,      \* mtime of the freshness marker, or None
    pc,         \* where each process is
    run         \* the local variables of each process

env == <<clock, mishaps>>
snapshots == <<layout, panes>>
disk == <<tmp, layout, panes, rejected, last, fresh>>
vars == <<clock, mishaps, lock, tmp, layout, panes, rejected, last, fresh, pc, run>>

(* The local variables of a process that has not started. *)
Blank == [job |-> "save", stamp |-> 0, new |-> None, base |-> None,
          target |-> None, todo |-> {}, junk |-> {}]

RunType ==
    [job : Jobs, stamp : Stamps, new : Layouts \cup {None},
     base : Layouts \cup {None}, target : Stamps \cup {None},
     todo : SUBSET Stamps, junk : SUBSET Stamps]

DiskTypeOK ==
    /\ clock \in Stamps
    /\ mishaps \in 0..MaxMishaps
    /\ tmp \in [Stamps -> {"absent", "partial", "complete"}]
    /\ layout \in [Stamps -> Layouts \cup {None}]
    /\ panes \in [Stamps -> {"none", "some", "all"}]
    /\ rejected \in SUBSET Stamps
    /\ last \in Stamps \cup {None}
    /\ fresh \in Stamps \cup {None}

ProcessTypeOK ==
    /\ lock \in Procs \cup {NoProc}
    /\ pc \in [Procs -> PCs]
    /\ run \in [Procs -> RunType]

TypeOK == DiskTypeOK /\ ProcessTypeOK

-----------------------------------------------------------------------------
(* What is in the directory *)

(* A directory of that name is there, in whatever state. *)
Exists(s) == layout[s] # None \/ panes[s] # "none"

(* Store.Load succeeds as soon as layout.json can be read. *)
Loads(s) == layout[s] # None

Whole(s) == layout[s] # None /\ panes[s] = "all"

Listed == {s \in Stamps : Exists(s)}

WholeSnapshots == {s \in Stamps : Whole(s)}

Leftover == {s \in Stamps : tmp[s] # "absent"}

-----------------------------------------------------------------------------
(* Steps shared by the programs *)

Goto(p, where) == pc' = [pc EXCEPT ![p] = where]

(* The deferred release of the lock, or what the kernel does when the
   process dies. *)
Leave(p) ==
    /\ pc' = [pc EXCEPT ![p] = "idle"]
    /\ run' = [run EXCEPT ![p] = Blank]
    /\ lock' = NoProc

Mishap(kind) ==
    /\ kind \in Mishaps
    /\ mishaps < MaxMishaps
    /\ mishaps' = mishaps + 1

(* tryLockDataDir.  A process that finds the lock held reports that and
   leaves the directory as it is: it takes no step here. *)
LockIgnored == TRUE     \* mutant: nobody looks at the lock

Unlocked == lock = NoProc

Acquire(p, job, where) ==
    /\ pc[p] = "idle"
    /\ Unlocked
    /\ lock' = p
    /\ Goto(p, where)
    /\ run' = [run EXCEPT ![p] = [Blank EXCEPT !.job = job]]
    /\ UNCHANGED <<env, disk>>

StartSave(p) == Acquire(p, "save", "dial")

StartImport(p) ==
    \E job \in {"import", "import_counts"} : Acquire(p, job, "collect")

StartPrune(p) == Acquire(p, "prune", "read_last")

-----------------------------------------------------------------------------
(* save: reach tmux, sweep, collect, compare *)

(* Mutant: the staging sweep is left out. *)
DialUnswept(p) ==
    /\ pc[p] = "dial"
    /\ Goto(p, "collect")
    /\ UNCHANGED <<env, lock, disk, run>>

Dial(p) ==
    /\ pc[p] = "dial"
    /\ Goto(p, "sweep")
    /\ UNCHANGED <<env, lock, disk, run>>

(* No server, or any other failure before RunSave. *)
DialFails(p) ==
    /\ pc[p] = "dial"
    /\ Mishap("fault")
    /\ Leave(p)
    /\ UNCHANGED <<clock, disk>>

(* CleanStaleTmp removes the staging directories it finds one by one. *)
Sweep(p) ==
    /\ pc[p] = "sweep"
    /\ \/ /\ Leftover = {}
          /\ Goto(p, "collect")
          /\ UNCHANGED tmp
       \/ /\ \E s \in Leftover : tmp' = [tmp EXCEPT ![s] = "absent"]
          /\ UNCHANGED pc
    /\ UNCHANGED <<env, lock, snapshots, rejected, last, fresh, run>>

(* A failed sweep is a warning: the save goes on. *)
SweepFails(p) ==
    /\ pc[p] = "sweep"
    /\ Mishap("fault")
    /\ Goto(p, "collect")
    /\ UNCHANGED <<clock, lock, disk, run>>

(* Collect, or FromResurrect for an import: the layout found is stamped with
   the present second.  An import is not compared with `last`. *)
Collect(p) ==
    /\ pc[p] = "collect"
    /\ \E l \in Layouts :
          run' = [run EXCEPT ![p].new = l, ![p].stamp = clock]
    /\ Goto(p, IF run[p].job = "save" THEN "compare" ELSE "stage")
    /\ UNCHANGED <<env, lock, disk>>

CollectFails(p) ==
    /\ pc[p] = "collect"
    /\ Mishap("fault")
    /\ Leave(p)
    /\ UNCHANGED <<clock, disk>>

(* Store.Last, then collect.Unchanged.  No `last` at all means there is
   nothing to compare with. *)
Comparable == last # None => Loads(last)

(* A layout stands for all that collect.Unchanged tells apart: the sessions,
   windows and panes, their directories and commands.  Two saves of one layout
   may differ in the panes' texts, which Unchanged does not look at. *)
Unchanged(found, base) == found = base

(* Mutant: a dangling `last` counts as none. *)
CompareBlind(p) ==
    /\ pc[p] = "compare"
    /\ LET base == IF last = None THEN None ELSE layout[last]
       IN  /\ run' = [run EXCEPT ![p].base = base]
           /\ Goto(p, IF Unchanged(run[p].new, base) THEN "unchanged" ELSE "stage")
    /\ UNCHANGED <<env, lock, disk>>

Compare(p) ==
    /\ pc[p] = "compare"
    /\ Comparable
    /\ LET base == IF last = None THEN None ELSE layout[last]
       IN  /\ run' = [run EXCEPT ![p].base = base]
           /\ Goto(p, IF Unchanged(run[p].new, base) THEN "unchanged" ELSE "stage")
    /\ UNCHANGED <<env, lock, disk>>

(* A `last` that does not load, or cannot be read, ends the save with an
   error. *)
CompareFails(p) ==
    /\ pc[p] = "compare"
    /\ \/ ~Comparable /\ UNCHANGED mishaps
       \/ Mishap("fault")
    /\ Leave(p)
    /\ UNCHANGED <<clock, disk>>

-----------------------------------------------------------------------------
(* Stage *)

(* A leftover of the same name is removed and the directory made. *)
StageBegin(p) ==
    /\ pc[p] = "stage"
    /\ tmp' = [tmp EXCEPT ![run[p].stamp] = "partial"]
    /\ Goto(p, "staging")
    /\ UNCHANGED <<env, lock, snapshots, rejected, last, fresh, run>>

(* The pane files are linked or written, and layout.json last of all. *)
StageEnd(p) ==
    /\ pc[p] = "staging"
    /\ tmp[run[p].stamp] # "absent"
    /\ tmp' = [tmp EXCEPT ![run[p].stamp] = "complete"]
    /\ Goto(p, "staged")
    /\ UNCHANGED <<env, lock, snapshots, rejected, last, fresh, run>>

(* What cannot be staged is removed, unless the directory itself could not be
   made. *)
StageFails(p) ==
    /\ Mishap("fault")
    /\ \/ /\ pc[p] = "stage"
          /\ \E left \in {"absent", "partial"} :
                tmp' = [tmp EXCEPT ![run[p].stamp] = left]
       \/ /\ pc[p] = "staging"
          /\ tmp' = [tmp EXCEPT ![run[p].stamp] = "absent"]
    /\ Leave(p)
    /\ UNCHANGED <<clock, snapshots, rejected, last, fresh>>

(* Mutant: the guard is given the two counts in the wrong order. *)
DegenerateSwapped(p) ==
    /\ run[p].job = "save"
    /\ run[p].base # None
    /\ IsDegenerate(PaneCount[run[p].base], PaneCount[run[p].new])

(* What the guard says of a staged save: it applies only where there was a
   `last` to compare with, and never to an import. *)
Degenerate(p) ==
    /\ run[p].job = "save"
    /\ run[p].base # None
    /\ IsDegenerate(PaneCount[run[p].new], PaneCount[run[p].base])

-----------------------------------------------------------------------------
(* Reject, Discard, Promote *)

(* Mutant: a rejected save counts as a good one. *)
RejectMarked(p) ==
    /\ pc[p] = "staged"
    /\ Degenerate(p)
    /\ tmp' = [tmp EXCEPT ![run[p].stamp] = "absent"]
    /\ rejected' = rejected \cup {run[p].stamp}
    /\ fresh' = clock
    /\ Leave(p)
    /\ UNCHANGED <<env, snapshots, last>>

(* Staged.Reject moves the staged directory under rejected/, over an earlier
   one of that name. *)
Reject(p) ==
    /\ pc[p] = "staged"
    /\ Degenerate(p)
    /\ tmp' = [tmp EXCEPT ![run[p].stamp] = "absent"]
    /\ rejected' = rejected \cup {run[p].stamp}
    /\ Leave(p)
    /\ UNCHANGED <<env, snapshots, last, fresh>>

(* Either the rename fails, the earlier one gone and the staged one left to
   the next save's sweep, or the fsync after it. *)
RejectFails(p) ==
    /\ pc[p] = "staged"
    /\ Degenerate(p)
    /\ Mishap("fault")
    /\ \/ /\ rejected' = rejected \ {run[p].stamp}
          /\ UNCHANGED tmp
       \/ /\ rejected' = rejected \cup {run[p].stamp}
          /\ tmp' = [tmp EXCEPT ![run[p].stamp] = "absent"]
    /\ Leave(p)
    /\ UNCHANGED <<clock, snapshots, last, fresh>>

(* import-resurrect --promote=false only counts. *)
Discard(p) ==
    /\ pc[p] = "staged"
    /\ run[p].job = "import_counts"
    /\ tmp' = [tmp EXCEPT ![run[p].stamp] = "absent"]
    /\ Leave(p)
    /\ UNCHANGED <<env, snapshots, rejected, last, fresh>>

DiscardFails(p) ==
    /\ pc[p] = "staged"
    /\ run[p].job = "import_counts"
    /\ Mishap("fault")
    /\ tmp' = [tmp EXCEPT ![run[p].stamp] = "partial"]
    /\ Leave(p)
    /\ UNCHANGED <<clock, snapshots, rejected, last, fresh>>

Promotable(p) ==
    /\ pc[p] = "staged"
    /\ ~Degenerate(p)
    /\ run[p].job # "import_counts"

(* Mutant: the rename replaces a directory that is there. *)
PromoteRenameOver(p) ==
    /\ Promotable(p)
    /\ layout' = [layout EXCEPT ![run[p].stamp] = run[p].new]
    /\ panes' = [panes EXCEPT ![run[p].stamp] = "all"]
    /\ tmp' = [tmp EXCEPT ![run[p].stamp] = "absent"]
    /\ Goto(p, "link")
    /\ UNCHANGED <<env, lock, rejected, last, fresh, run>>

(* Mutant: the staging state is taken for the state of the pane files. *)
PromoteRenameRaw(p) ==
    /\ Promotable(p)
    /\ ~Exists(run[p].stamp)
    /\ layout' = [layout EXCEPT ![run[p].stamp] = run[p].new]
    /\ panes' = [panes EXCEPT ![run[p].stamp] = tmp[run[p].stamp]]
    /\ tmp' = [tmp EXCEPT ![run[p].stamp] = "absent"]
    /\ Goto(p, "link")
    /\ UNCHANGED <<env, lock, rejected, last, fresh, run>>

(* Promote renames the staged directory to its final name.  The rename is
   refused when a directory of that name is there already. *)
PromoteRename(p) ==
    /\ Promotable(p)
    /\ ~Exists(run[p].stamp)
    /\ layout' = [layout EXCEPT ![run[p].stamp] = run[p].new]
    /\ panes' = [panes EXCEPT ![run[p].stamp] =
                     IF tmp[run[p].stamp] = "complete" THEN "all" ELSE "some"]
    /\ tmp' = [tmp EXCEPT ![run[p].stamp] = "absent"]
    /\ Goto(p, "link")
    /\ UNCHANGED <<env, lock, rejected, last, fresh, run>>

(* Nothing was promoted.  A save discards what it staged; an import leaves
   it to the next save's sweep. *)
PromoteRefused(p) ==
    /\ Promotable(p)
    /\ \/ Exists(run[p].stamp) /\ UNCHANGED mishaps
       \/ Mishap("fault")
    /\ tmp' = IF run[p].job = "save"
              THEN [tmp EXCEPT ![run[p].stamp] = "absent"]
              ELSE tmp
    /\ Leave(p)
    /\ UNCHANGED <<clock, snapshots, rejected, last, fresh>>

(* A symlink made beside `last` is renamed over it. *)
PromoteLink(p) ==
    /\ pc[p] = "link"
    /\ last' = run[p].stamp
    /\ Goto(p, "sync")
    /\ UNCHANGED <<env, lock, tmp, snapshots, rejected, fresh, run>>

(* The snapshot stays where it is, and `last` where it was. *)
PromoteLinkFails(p) ==
    /\ pc[p] = "link"
    /\ Mishap("fault")
    /\ Leave(p)
    /\ UNCHANGED <<clock, disk>>

PromoteSync(p) ==
    /\ pc[p] = "sync"
    /\ Goto(p, "fresh")
    /\ UNCHANGED <<env, lock, disk, run>>

(* The caller takes a failed fsync for a failed promotion. *)
PromoteSyncFails(p) ==
    /\ pc[p] = "sync"
    /\ Mishap("fault")
    /\ Leave(p)
    /\ UNCHANGED <<clock, disk>>

-----------------------------------------------------------------------------
(* TouchFresh, after a promotion or for a save that found nothing new.  A
   marker that cannot be touched is a warning. *)

Marked(p) ==
    \/ fresh' = clock /\ UNCHANGED mishaps
    \/ Mishap("fault") /\ UNCHANGED fresh

TouchKept(p) ==
    /\ pc[p] = "fresh"
    /\ Marked(p)
    /\ IF run[p].job = "save"
       THEN Goto(p, "read_last") /\ UNCHANGED <<lock, run>>
       ELSE Leave(p)
    /\ UNCHANGED <<clock, tmp, snapshots, rejected, last>>

TouchUnchanged(p) ==
    /\ pc[p] = "unchanged"
    /\ Marked(p)
    /\ Leave(p)
    /\ UNCHANGED <<clock, tmp, snapshots, rejected, last>>

-----------------------------------------------------------------------------
(* Prune, at the end of a kept save or as a command *)

PruneReadLast(p) ==
    /\ pc[p] = "read_last"
    /\ run' = [run EXCEPT ![p].target = last]
    /\ Goto(p, "list")
    /\ UNCHANGED <<env, lock, disk>>

PruneList(p) ==
    /\ pc[p] = "list"
    /\ run' = [run EXCEPT
                  ![p].todo = PruneCandidates(Listed, run[p].target, clock),
                  ![p].junk = RejectedCandidates(rejected)]
    /\ Goto(p, "remove")
    /\ UNCHANGED <<env, lock, disk>>

(* Candidates go newest first. *)
IsVictim(p, v) ==
    /\ pc[p] = "remove"
    /\ v \in run[p].todo
    /\ \A t \in run[p].todo : t <= v

(* RemoveAll takes a directory apart in the order the file system lists it. *)
PruneUnlinkLayout(p) ==
    /\ \E v \in Stamps :
          /\ IsVictim(p, v)
          /\ layout[v] # None
          /\ layout' = [layout EXCEPT ![v] = None]
    /\ UNCHANGED <<env, lock, tmp, panes, rejected, last, fresh, pc, run>>

PruneUnlinkPanes(p) ==
    /\ \E v \in Stamps, left \in {"none", "some"} :
          /\ IsVictim(p, v)
          /\ panes[v] \notin {"none", left}
          /\ panes' = [panes EXCEPT ![v] = left]
    /\ UNCHANGED <<env, lock, tmp, layout, rejected, last, fresh, pc, run>>

PruneNext(p) ==
    /\ \E v \in Stamps :
          /\ IsVictim(p, v)
          /\ ~Exists(v)
          /\ run' = [run EXCEPT ![p].todo = @ \ {v}]
    /\ UNCHANGED <<env, lock, disk, pc>>

(* Nobody reads a rejected snapshot: one step removes it. *)
PruneRejected(p) ==
    /\ pc[p] = "remove"
    /\ run[p].todo = {}
    /\ \E v \in run[p].junk :
          /\ \A t \in run[p].junk : t <= v
          /\ rejected' = rejected \ {v}
          /\ run' = [run EXCEPT ![p].junk = @ \ {v}]
    /\ UNCHANGED <<env, lock, tmp, snapshots, last, fresh, pc>>

PruneEnd(p) ==
    /\ pc[p] = "remove"
    /\ run[p].todo = {}
    /\ run[p].junk = {}
    /\ Leave(p)
    /\ UNCHANGED <<env, disk>>

(* Prune stops at the first directory it cannot remove. *)
PruneFails(p) ==
    /\ pc[p] = "remove"
    /\ Mishap("fault")
    /\ Leave(p)
    /\ UNCHANGED <<clock, disk>>

-----------------------------------------------------------------------------
(* The world around the programs *)

Crash(p) ==
    /\ pc[p] # "idle"
    /\ Mishap("crash")
    /\ Leave(p)
    /\ UNCHANGED <<clock, disk>>

Tick ==
    /\ clock < MaxClock
    /\ clock' = clock + 1
    /\ UNCHANGED <<mishaps, lock, disk, pc, run>>

(* By any amount: an NTP correction or a resumed machine. *)
ClockBack ==
    /\ Mishap("clock_back")
    /\ \E t \in Stamps : t < clock /\ clock' = t
    /\ UNCHANGED <<lock, disk, pc, run>>

(* Somebody removes a snapshot by hand. *)
DeleteByHand(s) ==
    /\ Exists(s)
    /\ Mishap("delete")
    /\ layout' = [layout EXCEPT ![s] = None]
    /\ panes' = [panes EXCEPT ![s] = "none"]
    /\ UNCHANGED <<clock, lock, tmp, rejected, last, fresh, pc, run>>

-----------------------------------------------------------------------------
Init ==
    /\ clock = 0
    /\ mishaps = 0
    /\ lock = NoProc
    /\ tmp = [s \in Stamps |-> "absent"]
    /\ layout = [s \in Stamps |-> None]
    /\ panes = [s \in Stamps |-> "none"]
    /\ rejected = {}
    /\ last = None
    /\ fresh = None
    /\ pc = [p \in Procs |-> "idle"]
    /\ run = [p \in Procs |-> Blank]

Start(p) == StartSave(p) \/ StartImport(p) \/ StartPrune(p)

(* The steps of a process that is running; at each place one is possible
   that is not a mishap. *)
Work(p) ==
    \/ Dial(p) \/ Sweep(p) \/ Collect(p) \/ Compare(p) \/ CompareFails(p)
    \/ StageBegin(p) \/ StageEnd(p)
    \/ Reject(p) \/ Discard(p)
    \/ PromoteRename(p) \/ PromoteRefused(p) \/ PromoteLink(p) \/ PromoteSync(p)
    \/ TouchKept(p) \/ TouchUnchanged(p)
    \/ PruneReadLast(p) \/ PruneList(p)
    \/ PruneUnlinkLayout(p) \/ PruneUnlinkPanes(p) \/ PruneNext(p)
    \/ PruneRejected(p) \/ PruneEnd(p)

Fault(p) ==
    \/ DialFails(p) \/ SweepFails(p) \/ CollectFails(p)
    \/ StageFails(p) \/ RejectFails(p) \/ DiscardFails(p)
    \/ PromoteLinkFails(p) \/ PromoteSyncFails(p)
    \/ PruneFails(p)

Next ==
    \/ \E p \in Procs : Start(p) \/ Work(p) \/ Fault(p) \/ Crash(p)
    \/ Tick
    \/ ClockBack
    \/ \E s \in Stamps : DeleteByHand(s)

Spec == Init /\ [][Next]_vars

(* A running process goes on (its tmux calls end at a two-minute deadline),
   and the autosave timer tries again for ever: a save starts if the lock is
   free often enough.  Nothing makes anybody import or prune, and mishaps are
   never fair. *)
Fairness ==
    /\ \A p \in Procs : WF_vars(Work(p))
    /\ SF_vars(\E p \in Procs : StartSave(p))

FairSpec == Spec /\ Fairness
=============================================================================
