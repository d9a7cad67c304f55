----------------------------- MODULE StoreReader -----------------------------
(***************************************************************************)
(* `restore` reading the data directory.  RunRestore takes no lock: it     *)
(* resolves `last`, loads the layout, loads it once more for the codec and *)
(* decodes pane files while it is already building windows, and saves and  *)
(* prunes go on meanwhile.  The steps of the directory's own processes are *)
(* those of SnapshotStore; a reader changes nothing there.                 *)
(***************************************************************************)
EXTENDS SnapshotStore

CONSTANT Readers

(* rpc ends at "complete", with the layout and all its pane files; at
   "textless", where some of those are gone; at "failed"; or at "nothing",
   where there is nothing to restore from. *)
VARIABLES
    rpc,        \* where each reader is, and at the end how it ended
    target,     \* the snapshot it reads
    seen,       \* the layout it loaded
    moved       \* how often `last` moved since it was resolved, up to Keep

rvars == <<rpc, target, seen, moved>>
allvars == <<vars, rvars>>

At(r, where) == rpc' = [rpc EXCEPT ![r] = where]

(* Store.Last, first half: read the link. *)
Resolve(r) ==
    /\ rpc[r] = "resolve"
    /\ target' = [target EXCEPT ![r] = last]
    /\ moved' = [moved EXCEPT ![r] = 0]
    /\ At(r, IF last = None THEN "nothing" ELSE "load")
    /\ UNCHANGED <<vars, seen>>

(* Second half: load what it named.  A layout that is not there makes the
   link a dangling one, and the newest snapshot is looked for. *)
Load(r) ==
    /\ rpc[r] = "load"
    /\ seen' = [seen EXCEPT ![r] = layout[target[r]]]
    /\ At(r, IF Loads(target[r]) THEN "open" ELSE "newest")
    /\ UNCHANGED <<vars, target, moved>>

(* Store.Newest: the newest by name whose layout loads. *)
FallBack(r) ==
    /\ rpc[r] = "newest"
    /\ LET loadable == {s \in Stamps : Loads(s)}
       IN  \/ /\ loadable = {}
              /\ At(r, "failed")
              /\ UNCHANGED <<target, seen>>
           \/ \E s \in Newest(loadable, 1) :
                 /\ target' = [target EXCEPT ![r] = s]
                 /\ seen' = [seen EXCEPT ![r] = layout[s]]
                 /\ At(r, "open")
    /\ UNCHANGED <<vars, moved>>

(* Store.ContentReader loads the layout again and fails hard without it. *)
OpenContents(r) ==
    /\ rpc[r] = "open"
    /\ At(r, IF Loads(target[r]) THEN "read" ELSE "failed")
    /\ UNCHANGED <<vars, target, seen, moved>>

(* A pane file that cannot be read is passed over in silence. *)
ReadContents(r) ==
    /\ rpc[r] = "read"
    /\ At(r, IF panes[target[r]] = "all" THEN "complete" ELSE "textless")
    /\ UNCHANGED <<vars, target, seen, moved>>

ReaderInit ==
    /\ Init
    /\ rpc = [r \in Readers |-> "resolve"]
    /\ target = [r \in Readers |-> None]
    /\ seen = [r \in Readers |-> None]
    /\ moved = [r \in Readers |-> 0]

Read(r) == Resolve(r) \/ Load(r) \/ FallBack(r) \/ OpenContents(r) \/ ReadContents(r)

(* A step of the directory, counted where it moves `last`. *)
StoreStep ==
    /\ Next
    /\ moved' = [r \in Readers |->
                    IF last' # last /\ moved[r] < Keep THEN moved[r] + 1 ELSE moved[r]]
    /\ UNCHANGED <<rpc, target, seen>>

ReaderNext == StoreStep \/ \E r \in Readers : Read(r)

ReaderSpec == ReaderInit /\ [][ReaderNext]_allvars

-----------------------------------------------------------------------------
(* A reader that had to give up on what `last` named, or finds its files
   gone. *)
Lost(r) == rpc[r] \in {"newest", "failed", "textless"}

(* A restore that has resolved `last` loses what it reads only after Keep   *)
(* saves were promoted meanwhile, one fewer for every save that was cut     *)
(* short: retention.keep is what an unlocked reader lives on.  Holds where  *)
(* the clock runs forward and nobody deletes by hand.                       *)
ReaderProtected ==
    \A r \in Readers : Lost(r) => moved[r] + mishaps >= Keep

(* The pane files a restore reads belong to the layout it loaded: a name is *)
(* never used again for another snapshot.  Holds where the clock runs       *)
(* forward and nobody deletes by hand.                                      *)
NeverMixed ==
    \A r \in Readers : rpc[r] \in {"open", "read"} =>
        seen[r] # None /\ layout[target[r]] \in {None, seen[r]}
=============================================================================
