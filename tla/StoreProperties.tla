--------------------------- MODULE StoreProperties ---------------------------
(***************************************************************************)
(* What the data directory promises to whoever reads it and to the next    *)
(* program that takes its lock.                                            *)
(***************************************************************************)
EXTENDS SnapshotStore

Staging == {"staging", "staged"}

(* A running save or import still has the directory it is staging into:     *)
(* nobody else's sweep took it (store.go:28-33, the sweep moved under the   *)
(* lock).                                                                   *)
StagingSafe ==
    \A p \in Procs : pc[p] \in Staging => tmp[run[p].stamp] # "absent"

(* Whatever was interrupted, `last` names a snapshot with its layout and    *)
(* all its pane files.  Holds where nobody deletes by hand.                 *)
LastWhole == last # None => Whole(last)

(* A prune takes no whole snapshot away unless Keep whole ones remain:      *)
(* what crashed prunes left behind and clocks set back never count towards  *)
(* retention.keep in place of a usable snapshot.                            *)
KeepsEnough ==
    [][ WholeSnapshots' \subseteq WholeSnapshots /\ WholeSnapshots' # WholeSnapshots
        => Cardinality(WholeSnapshots') >= Keep ]_vars

(* The clobber guard: when a save moves `last`, what the reader now finds   *)
(* is not a collapse of what the reader found before -- not merely of what  *)
(* the save read some steps earlier.                                        *)
GuardHolds ==
    [][ \A p \in Procs :
          (last' # last /\ last # None /\ pc[p] = "link" /\ run[p].job = "save")
          => ~IsDegenerate(PaneCount[layout[last']], PaneCount[layout[last]]) ]_vars

(* The freshness marker moves only when `last` holds the layout the process *)
(* that touches it has just seen in tmux or in the file it imported: an     *)
(* error, a rejection or a lock that was held never looks like a good save. *)
FreshHonest ==
    [][ fresh' # fresh =>
          \E p \in Procs : /\ lock = p
                           /\ last # None
                           /\ Whole(last)
                           /\ layout[last] = run[p].new ]_vars

(* The guard is never blind: a save that moves `last` has either read the   *)
(* snapshot `last` named, or there was no `last` to read.  A `last` whose   *)
(* target is gone stops every save (store.go:239-244).                      *)
GuardNeverBlind ==
    [][ \A p \in Procs :
          (last' # last /\ pc[p] = "link" /\ run[p].job = "save")
          => (run[p].base = None <=> last = None) ]_vars

(* The directory implements an archive of whole snapshots: one appears when *)
(* its staged directory is renamed, and is gone with the first file that is *)
(* removed from it.  Holds where nobody deletes by hand.                    *)
Archived == INSTANCE Archive WITH
    Names <- Stamps, Content <- Layouts, Nothing <- None,
    held <- [s \in Stamps |-> IF Whole(s) THEN layout[s] ELSE None],
    current <- last,
    marker <- fresh

ImplementsArchive == Archived!ArchiveSpec

(* Once a save has been killed, or an import has failed to promote, what it *)
(* left in staging is swept away by a later save.                           *)
LeftoversSwept ==
    \A s \in Stamps : tmp[s] # "absent" ~> tmp[s] = "absent"

=============================================================================
