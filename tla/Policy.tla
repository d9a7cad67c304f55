------------------------------- MODULE Policy -------------------------------
(***************************************************************************)
(* The decisions go-tmux-saver takes from numbers alone: which snapshot    *)
(* directories a prune removes (internal/snapshot/prune.go), and whether a *)
(* new snapshot is a degenerate one that must not replace the current      *)
(* (internal/snapshot/guard.go).                                           *)
(*                                                                         *)
(* A snapshot directory is named after the second it was taken in, and the *)
(* names sort as the seconds do, so a name is a natural number here.       *)
(***************************************************************************)
EXTENDS Integers, FiniteSets

CONSTANTS
    Keep,           \* retention.keep: how many of the newest are always kept
    DailyDays,      \* retention.daily_days: how far back one per day is kept
    RejectedKeep,   \* retention.rejected: how many rejected ones are kept
    DayLength,      \* seconds in a day
    MinPanes,       \* guard.min_panes
    Divisor         \* guard.divisor

(* What config.Validate accepts; DailyDays and RejectedKeep are not checked
   there, and their defaults are positive. *)
ASSUME PolicyAssumption ==
    /\ Keep \in Nat /\ Keep >= 1
    /\ DailyDays \in Nat
    /\ RejectedKeep \in Nat
    /\ DayLength \in Nat /\ DayLength >= 1
    /\ MinPanes \in Nat /\ MinPanes >= 1
    /\ Divisor \in Nat /\ Divisor >= 2

-----------------------------------------------------------------------------
(* Retention *)

(* Mutant: one too few. *)
NewestOffByOne(names, n) == {s \in names : Cardinality({t \in names : t > s}) < n - 1}

(* The n newest of a set of names: listSnaps sorts them in reverse and the
   caller takes those at an index below n. *)
Newest(names, n) == {s \in names : Cardinality({t \in names : t > s}) < n}

Day(s) == s \div DayLength

(* The newest name of each day that is not older than the cutoff. *)
DailyKept(names, now) ==
    {s \in names : /\ s > now - DailyDays * DayLength
                   /\ \A t \in names : Day(t) = Day(s) => t <= s}

(* Mutant: the target of `last` is not spared. *)
PruneCandidatesUnspared(names, target, now) ==
    names \ (Newest(names, Keep) \cup DailyKept(names, now))

(* PruneCandidates for the snapshots: everything but the target of `last`,
   the newest Keep, and one a day. *)
PruneCandidates(names, target, now) ==
    names \ ({target} \cup Newest(names, Keep) \cup DailyKept(names, now))

(* PruneCandidates for rejected/. *)
RejectedCandidates(names) == names \ Newest(names, RejectedKeep)

-----------------------------------------------------------------------------
(* The degenerate-save guard *)

IsDegenerate(newPanes, lastPanes) ==
    /\ lastPanes >= MinPanes
    /\ newPanes * Divisor <= lastPanes

=============================================================================
