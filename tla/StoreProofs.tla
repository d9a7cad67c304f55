----------------------------- MODULE StoreProofs -----------------------------
(***************************************************************************)
(* The safety of the data directory for every number of processes,         *)
(* layouts, seconds and mishaps, and of the restores that read it without  *)
(* its lock.  The argument is one inductive invariant, in two parts: what  *)
(* follows from the lock alone (LockInv), and what holds of `last` where   *)
(* nobody deletes a snapshot by hand (LastInv); the readers add a third,   *)
(* further down.                                                           *)
(***************************************************************************)
EXTENDS StoreProperties, StoreReader, FiniteSetTheorems, TLAPS

(* The steps that work on, or after, what Collect found. *)
AfterCollect == {"compare", "unchanged", "stage", "staging", "staged", "link",
                 "sync", "fresh"}

(* Whoever is at work holds the lock, has a layout once it has collected,   *)
(* and owns a staging directory while it stages: no other process is        *)
(* between acquiring and leaving, so no other process can sweep.            *)
Owned(p) ==
    /\ pc[p] # "idle" => lock = p
    /\ pc[p] \in AfterCollect => run[p].new \in Layouts
    /\ pc[p] = "staging" => tmp[run[p].stamp] # "absent"
    /\ pc[p] = "staged" => tmp[run[p].stamp] = "complete"

LockInv == TypeOK /\ \A p \in Procs : Owned(p)

(* What the lock holder knows of `last`. *)
Held(p) ==
    /\ pc[p] \in {"stage", "staging", "staged", "link"} /\ run[p].job = "save"
         => run[p].base = (IF last = None THEN None ELSE layout[last])
    /\ pc[p] = "link" => /\ Whole(run[p].stamp)
                         /\ layout[run[p].stamp] = run[p].new
                         /\ ~Degenerate(p)
    /\ pc[p] \in {"sync", "fresh"} => /\ last = run[p].stamp
                                      /\ layout[last] = run[p].new
    /\ pc[p] = "unchanged" => /\ last # None
                              /\ layout[last] = run[p].new
    /\ pc[p] = "list" => run[p].target = last
    /\ pc[p] = "remove" => last \notin run[p].todo

LastInv == LastWhole /\ \A p \in Procs : Held(p)

-----------------------------------------------------------------------------
(* The records a process's local variables turn into are of their type.     *)
LEMMA RunUpdates ==
  ASSUME NEW r \in RunType
  PROVE  /\ Blank \in RunType
         /\ \A job \in Jobs : [Blank EXCEPT !.job = job] \in RunType
         /\ \A l \in Layouts, s \in Stamps : [r EXCEPT !.new = l, !.stamp = s] \in RunType
         /\ \A l \in Layouts \cup {None} : [r EXCEPT !.base = l] \in RunType
         /\ \A s \in Stamps \cup {None} : [r EXCEPT !.target = s] \in RunType
<1>1. Blank \in RunType /\ \A job \in Jobs : [Blank EXCEPT !.job = job] \in RunType
  BY StoreAssumption DEF RunType, Blank, Jobs, Stamps
<1>2. \A l \in Layouts, s \in Stamps : [r EXCEPT !.new = l, !.stamp = s] \in RunType
  BY DEF RunType
<1>3. \A l \in Layouts \cup {None} : [r EXCEPT !.base = l] \in RunType
  BY DEF RunType
<1>4. \A s \in Stamps \cup {None} : [r EXCEPT !.target = s] \in RunType
  BY DEF RunType
<1> QED BY <1>1, <1>2, <1>3, <1>4

LEMMA ListUpdates ==
  ASSUME NEW r \in RunType, NEW S \in SUBSET Stamps, NEW T \in SUBSET Stamps
  PROVE  /\ [r EXCEPT !.todo = S, !.junk = T] \in RunType
         /\ [r EXCEPT !.todo = S] \in RunType
         /\ [r EXCEPT !.junk = S] \in RunType
  BY DEF RunType

LEMMA RunFields ==
  ASSUME NEW r \in RunType
  PROVE  /\ r.job \in Jobs /\ r.stamp \in Stamps
         /\ r.new \in Layouts \cup {None} /\ r.base \in Layouts \cup {None}
         /\ r.target \in Stamps \cup {None}
         /\ r.todo \in SUBSET Stamps /\ r.junk \in SUBSET Stamps
  BY DEF RunType

LEMMA InitLockInv == Init => LockInv
  BY StoreAssumption DEF Init, LockInv, Owned, TypeOK, DiskTypeOK, ProcessTypeOK,
     Stamps, Blank, RunType, Jobs, AfterCollect, PCs

(* Only the holder of the lock is not idle. *)
LEMMA OthersIdle ==
  ASSUME LockInv, NEW p \in Procs, NEW q \in Procs, pc[p] # "idle", q # p
  PROVE  lock = p /\ pc[q] = "idle"
  BY DEF LockInv, Owned

(* A process that leaves keeps LockInv whatever it did to the disk.         *)
LEMMA LeaveStep ==
  ASSUME LockInv, NEW p \in Procs, pc[p] # "idle", Leave(p), DiskTypeOK'
  PROVE  LockInv'
<1>1. ProcessTypeOK'
  BY StoreAssumption, RunUpdates DEF LockInv, TypeOK, ProcessTypeOK, Leave, PCs, Blank
<1>2. ASSUME NEW q \in Procs PROVE pc'[q] = "idle"
  BY OthersIdle DEF LockInv, TypeOK, ProcessTypeOK, Leave
<1> QED BY <1>1, <1>2 DEF LockInv, TypeOK, Owned, AfterCollect

(* A process that starts or goes on keeps LockInv if it owns what the step  *)
(* it goes to needs.                                                        *)
LEMMA GoStep ==
  ASSUME LockInv, NEW p \in Procs, \A q \in Procs : q # p => pc[q] = "idle",
         NEW where \in PCs, pc' = [pc EXCEPT ![p] = where],
         NEW r \in RunType, run' = [run EXCEPT ![p] = r],
         lock' = p, DiskTypeOK',
         where \in AfterCollect => r.new \in Layouts,
         where = "staging" => tmp'[r.stamp] # "absent",
         where = "staged" => tmp'[r.stamp] = "complete"
  PROVE  LockInv'
<1>1. ProcessTypeOK'
  BY DEF LockInv, TypeOK, ProcessTypeOK
<1>2. ASSUME NEW q \in Procs, q # p PROVE pc'[q] = "idle"
  BY <1>2 DEF LockInv, TypeOK, ProcessTypeOK
<1>3. pc'[p] = where /\ run'[p] = r
  BY DEF LockInv, TypeOK, ProcessTypeOK
<1> QED BY <1>1, <1>2, <1>3 DEF LockInv, TypeOK, Owned, AfterCollect
(* Counting a mishap stays within the bound. *)
LEMMA MishapType ==
  ASSUME NEW kind, mishaps \in 0..MaxMishaps, Mishap(kind)
  PROVE  mishaps' \in 0..MaxMishaps
  BY StoreAssumption DEF Mishap

(* A step that leaves the local variables alone. *)
LEMMA MoveStep ==
  ASSUME LockInv, NEW p \in Procs, pc[p] # "idle",
         NEW where \in PCs, pc' = [pc EXCEPT ![p] = where],
         run' = run, lock' = lock, DiskTypeOK',
         where \in AfterCollect => run[p].new \in Layouts,
         where = "staging" => tmp'[run[p].stamp] # "absent",
         where = "staged" => tmp'[run[p].stamp] = "complete"
  PROVE  LockInv'
<1>1. run[p] \in RunType /\ run' = [run EXCEPT ![p] = run[p]]
  BY DEF LockInv, TypeOK, ProcessTypeOK
<1>2. lock = p /\ \A q \in Procs : q # p => pc[q] = "idle"
  BY OthersIdle DEF LockInv, Owned
<1> QED BY <1>1, <1>2, GoStep

LEMMA StartStep ==
  ASSUME LockInv, NEW p \in Procs, NEW job \in Jobs, NEW where \in PCs,
         where \notin AfterCollect, Acquire(p, job, where)
  PROVE  LockInv'
<1>1. \A q \in Procs : q # p => pc[q] = "idle"
  BY StoreAssumption DEF LockInv, Owned, Acquire, Unlocked
<1>3. [Blank EXCEPT !.job = job] \in RunType
  BY RunUpdates DEF LockInv, TypeOK, ProcessTypeOK
<1>4. DiskTypeOK'
  BY DEF LockInv, TypeOK, DiskTypeOK, Acquire, env, disk
<1> QED BY <1>1, <1>3, <1>4, GoStep DEF Acquire, Goto, AfterCollect

(* LockInv is inductive. *)
LEMMA LockInvStep == LockInv /\ [Next]_vars => LockInv'
<1> SUFFICES ASSUME LockInv, [Next]_vars PROVE LockInv'
  OBVIOUS
<1>a. TypeOK /\ DiskTypeOK /\ ProcessTypeOK /\ \A p \in Procs : Owned(p)
  BY DEF LockInv, TypeOK
<1>b. \A p \in Procs : run[p] \in RunType /\ run[p].stamp \in Stamps /\ run[p].new \in Layouts \cup {None}
  BY <1>a, RunFields DEF ProcessTypeOK
<1>1. ASSUME NEW p \in Procs, StartSave(p) PROVE LockInv'
  BY <1>1, StartStep DEF StartSave, Jobs, PCs, AfterCollect
<1>2. ASSUME NEW p \in Procs, StartPrune(p) PROVE LockInv'
  BY <1>2, StartStep DEF StartPrune, Jobs, PCs, AfterCollect
<1>3. ASSUME NEW p \in Procs, StartImport(p) PROVE LockInv'
  <2>1. PICK job \in {"import", "import_counts"} : Acquire(p, job, "collect")
    BY <1>3 DEF StartImport
  <2> QED BY <2>1, StartStep DEF Jobs, PCs, AfterCollect
<1>4. ASSUME NEW p \in Procs, Dial(p) PROVE LockInv'
  <2>1. DiskTypeOK'
    BY <1>4, <1>a, <1>b DEF Dial, DiskTypeOK, env, disk
  <2> QED BY <1>4, <1>a, <1>b, <2>1, MoveStep
        DEF Dial, Goto, PCs, AfterCollect, Owned, env, disk
<1>5. ASSUME NEW p \in Procs, Sweep(p) PROVE LockInv'
  <2>1. CASE Leftover = {}
    <3>1. DiskTypeOK'
      BY <1>5, <2>1, <1>a DEF Sweep, DiskTypeOK, env, snapshots, Leftover
    <3> QED BY <1>5, <2>1, <3>1, MoveStep DEF Sweep, Goto, PCs, AfterCollect, Leftover
  <2>2. CASE Leftover # {}
    <3>1. pc' = [pc EXCEPT ![p] = "sweep"]
      BY <1>5, <2>2, <1>a DEF Sweep, ProcessTypeOK, Leftover
    <3>2. DiskTypeOK'
      <4>1. PICK s \in Leftover : tmp' = [tmp EXCEPT ![s] = "absent"]
        BY <1>5, <2>2 DEF Sweep
      <4> QED BY <1>5, <4>1, <1>a DEF Sweep, DiskTypeOK, env, snapshots, Leftover
    <3> QED BY <1>5, <3>1, <3>2, MoveStep DEF Sweep, PCs, AfterCollect
  <2> QED BY <2>1, <2>2
<1>6. ASSUME NEW p \in Procs, Collect(p) PROVE LockInv'
  <2>1. PICK l \in Layouts : run' = [run EXCEPT ![p] = [run[p] EXCEPT !.new = l, !.stamp = clock]]
    BY <1>6, <1>a DEF Collect, ProcessTypeOK
  <2>2. [run[p] EXCEPT !.new = l, !.stamp = clock] \in RunType
    BY <1>a, <1>b, RunUpdates DEF DiskTypeOK
  <2>3. [run[p] EXCEPT !.new = l, !.stamp = clock].new = l
    BY <1>b DEF RunType
  <2>4. DiskTypeOK'
    BY <1>6, <1>a DEF Collect, DiskTypeOK, env, disk
  <2>5. lock' = p /\ \A q \in Procs : q # p => pc[q] = "idle"
    BY <1>6, OthersIdle, <1>a DEF Collect, Owned
  <2>6. PICK where \in {"compare", "stage"} : pc' = [pc EXCEPT ![p] = where]
    BY <1>6 DEF Collect, Goto
  <2> QED BY <2>1, <2>2, <2>3, <2>4, <2>5, <2>6, GoStep DEF PCs, AfterCollect
<1>7. ASSUME NEW p \in Procs, Compare(p) PROVE LockInv'
  <2> DEFINE base == IF last = None THEN None ELSE layout[last]
  <2>1. base \in Layouts \cup {None}
    BY <1>a DEF DiskTypeOK
  <2>2. [run[p] EXCEPT !.base = base] \in RunType
    BY <1>b, <2>1, RunUpdates
  <2>3. [run[p] EXCEPT !.base = base].new = run[p].new
    BY <1>b DEF RunType
  <2>4. DiskTypeOK'
    BY <1>7, <1>a DEF Compare, DiskTypeOK, env, disk
  <2>5. lock' = p /\ \A q \in Procs : q # p => pc[q] = "idle"
    BY <1>7, OthersIdle, <1>a DEF Compare, Owned
  <2>6. PICK where \in {"unchanged", "stage"} : pc' = [pc EXCEPT ![p] = where]
    BY <1>7 DEF Compare, Goto
  <2>7. run' = [run EXCEPT ![p] = [run[p] EXCEPT !.base = base]]
    BY <1>7, <1>a DEF Compare, ProcessTypeOK
  <2>8. run[p].new \in Layouts
    BY <1>7, <1>a DEF Compare, Owned, AfterCollect
  <2> HIDE DEF base
  <2> QED BY <2>2, <2>3, <2>4, <2>5, <2>6, <2>7, <2>8, GoStep DEF PCs, AfterCollect
<1>8. ASSUME NEW p \in Procs, StageBegin(p) PROVE LockInv'
  <2>1. DiskTypeOK'
    BY <1>8, <1>a, <1>b DEF StageBegin, DiskTypeOK, env, snapshots
  <2> QED BY <1>8, <1>a, <1>b, <2>1, MoveStep
        DEF StageBegin, Goto, PCs, AfterCollect, Owned, DiskTypeOK
<1>9. ASSUME NEW p \in Procs, StageEnd(p) PROVE LockInv'
  <2>1. DiskTypeOK'
    BY <1>9, <1>a, <1>b DEF StageEnd, DiskTypeOK, env, snapshots
  <2> QED BY <1>9, <1>a, <1>b, <2>1, MoveStep
        DEF StageEnd, Goto, PCs, AfterCollect, Owned, DiskTypeOK
<1>10. ASSUME NEW p \in Procs, PromoteRename(p) PROVE LockInv'
  <2>1. DiskTypeOK'
    BY <1>10, <1>a, <1>b DEF PromoteRename, DiskTypeOK, env
  <2> QED BY <1>10, <1>a, <2>1, MoveStep
        DEF PromoteRename, Promotable, Goto, PCs, AfterCollect, Owned
<1>11. ASSUME NEW p \in Procs, PromoteLink(p) PROVE LockInv'
  <2>1. DiskTypeOK'
    BY <1>11, <1>a, <1>b DEF PromoteLink, DiskTypeOK, env, snapshots
  <2> QED BY <1>11, <1>a, <1>b, <2>1, MoveStep
        DEF PromoteLink, Goto, PCs, AfterCollect, Owned, DiskTypeOK
<1>12. ASSUME NEW p \in Procs, PromoteSync(p) PROVE LockInv'
  <2>1. DiskTypeOK'
    BY <1>12, <1>a, <1>b DEF PromoteSync, DiskTypeOK, env, disk
  <2> QED BY <1>12, <1>a, <1>b, <2>1, MoveStep
        DEF PromoteSync, Goto, PCs, AfterCollect, Owned, DiskTypeOK
<1>13. ASSUME NEW p \in Procs, TouchKept(p) PROVE LockInv'
  <2>1. DiskTypeOK'
    BY <1>13, <1>a, MishapType DEF TouchKept, Marked, DiskTypeOK, snapshots
  <2>2. CASE run[p].job = "save"
    BY <1>13, <2>1, <2>2, MoveStep DEF TouchKept, Goto, PCs, AfterCollect
  <2>3. CASE run[p].job # "save"
    BY <1>13, <2>1, <2>3, LeaveStep DEF TouchKept
  <2> QED BY <2>2, <2>3
<1>14. ASSUME NEW p \in Procs, PruneReadLast(p) PROVE LockInv'
  <2>1. [run[p] EXCEPT !.target = last] \in RunType
    BY <1>a, <1>b, RunUpdates DEF DiskTypeOK
  <2>2. run' = [run EXCEPT ![p] = [run[p] EXCEPT !.target = last]]
    BY <1>14, <1>a DEF PruneReadLast, ProcessTypeOK
  <2>3. DiskTypeOK'
    BY <1>14, <1>a DEF PruneReadLast, DiskTypeOK, env, disk
  <2>4. lock' = p /\ \A q \in Procs : q # p => pc[q] = "idle"
    BY <1>14, OthersIdle, <1>a DEF PruneReadLast, Owned
  <2>5. pc' = [pc EXCEPT ![p] = "list"]
    BY <1>14 DEF PruneReadLast, Goto
  <2> QED BY <2>1, <2>2, <2>3, <2>4, <2>5, GoStep DEF PCs, AfterCollect
<1>15. ASSUME NEW p \in Procs, PruneList(p) PROVE LockInv'
  <2> DEFINE todo == PruneCandidates(Listed, run[p].target, clock)
             junk == RejectedCandidates(rejected)
  <2>0. todo \in SUBSET Stamps /\ junk \in SUBSET Stamps
    BY <1>a DEF PruneCandidates, Listed, RejectedCandidates, DiskTypeOK
  <2>1. [run[p] EXCEPT !.todo = todo, !.junk = junk] \in RunType
    BY <2>0, <1>b, ListUpdates
  <2>2. run' = [run EXCEPT ![p] = [run[p] EXCEPT !.todo = todo, !.junk = junk]]
    BY <1>15, <1>a DEF PruneList, ProcessTypeOK
  <2> HIDE DEF todo, junk
  <2>3. DiskTypeOK'
    BY <1>15, <1>a DEF PruneList, DiskTypeOK, env, disk
  <2>4. lock' = p /\ \A q \in Procs : q # p => pc[q] = "idle"
    BY <1>15, OthersIdle, <1>a DEF PruneList, Owned
  <2>5. pc' = [pc EXCEPT ![p] = "remove"]
    BY <1>15 DEF PruneList, Goto
  <2> QED BY <2>1, <2>2, <2>3, <2>4, <2>5, GoStep DEF PCs, AfterCollect
<1>16. ASSUME NEW p \in Procs, PruneUnlinkLayout(p) PROVE LockInv'
  <2>1. DiskTypeOK'
    BY <1>16, <1>a DEF PruneUnlinkLayout, DiskTypeOK, env
  <2>2. pc[p] = "remove" /\ pc' = [pc EXCEPT ![p] = "remove"]
    BY <1>16, <1>a DEF PruneUnlinkLayout, IsVictim, ProcessTypeOK
  <2> QED BY <1>16, <2>1, <2>2, MoveStep DEF PruneUnlinkLayout, PCs, AfterCollect
<1>17. ASSUME NEW p \in Procs, PruneUnlinkPanes(p) PROVE LockInv'
  <2>1. DiskTypeOK'
    BY <1>17, <1>a DEF PruneUnlinkPanes, DiskTypeOK, env
  <2>2. pc[p] = "remove" /\ pc' = [pc EXCEPT ![p] = "remove"]
    BY <1>17, <1>a DEF PruneUnlinkPanes, IsVictim, ProcessTypeOK
  <2> QED BY <1>17, <2>1, <2>2, MoveStep DEF PruneUnlinkPanes, PCs, AfterCollect
<1>18. ASSUME NEW p \in Procs, PruneNext(p) PROVE LockInv'
  <2>1. PICK v \in Stamps : run' = [run EXCEPT ![p] = [run[p] EXCEPT !.todo = run[p].todo \ {v}]]
    BY <1>18, <1>a, <1>b DEF PruneNext, ProcessTypeOK
  <2>2. run[p].todo \ {v} \in SUBSET Stamps
    BY <1>b, RunFields
  <2>3. [run[p] EXCEPT !.todo = run[p].todo \ {v}] \in RunType
    BY <1>b, <2>2, ListUpdates
  <2>4. DiskTypeOK'
    BY <1>18, <1>a DEF PruneNext, DiskTypeOK, env, disk
  <2>5. pc[p] = "remove" /\ pc' = [pc EXCEPT ![p] = "remove"]
    BY <1>18, <1>a DEF PruneNext, IsVictim, ProcessTypeOK
  <2>6. lock' = p /\ \A q \in Procs : q # p => pc[q] = "idle"
    BY <1>18, <2>5, OthersIdle, <1>a DEF PruneNext, Owned
  <2> QED BY <2>1, <2>3, <2>4, <2>5, <2>6, GoStep DEF PCs, AfterCollect
<1>19. ASSUME NEW p \in Procs, PruneRejected(p) PROVE LockInv'
  <2>1. PICK v \in run[p].junk : run' = [run EXCEPT ![p] = [run[p] EXCEPT !.junk = run[p].junk \ {v}]]
    BY <1>19, <1>a, <1>b DEF PruneRejected, ProcessTypeOK
  <2>2. run[p].junk \ {v} \in SUBSET Stamps
    BY <1>b, RunFields
  <2>3. [run[p] EXCEPT !.junk = run[p].junk \ {v}] \in RunType
    BY <1>b, <2>2, ListUpdates
  <2>4. DiskTypeOK'
    BY <1>19, <1>a DEF PruneRejected, DiskTypeOK, env, snapshots
  <2>5. pc[p] = "remove" /\ pc' = [pc EXCEPT ![p] = "remove"]
    BY <1>19, <1>a DEF PruneRejected, IsVictim, ProcessTypeOK
  <2>6. lock' = p /\ \A q \in Procs : q # p => pc[q] = "idle"
    BY <1>19, <2>5, OthersIdle, <1>a DEF PruneRejected, Owned
  <2> QED BY <2>1, <2>3, <2>4, <2>5, <2>6, GoStep DEF PCs, AfterCollect
<1>20. ASSUME NEW p \in Procs, SweepFails(p) PROVE LockInv'
  <2>1. DiskTypeOK'
    BY <1>20, <1>a, MishapType DEF SweepFails, DiskTypeOK, disk
  <2> QED BY <1>20, <1>a, <1>b, <2>1, MoveStep
        DEF SweepFails, Goto, PCs, AfterCollect, Owned, DiskTypeOK
<1>21. ASSUME NEW p \in Procs, CompareFails(p) PROVE LockInv'
  <2>1. DiskTypeOK'
    BY <1>21, <1>a, <1>b, MishapType DEF CompareFails, DiskTypeOK, env, disk
  <2> QED BY <1>21, <2>1, LeaveStep DEF CompareFails
<1>22. ASSUME NEW p \in Procs, Reject(p) PROVE LockInv'
  <2>1. DiskTypeOK'
    BY <1>22, <1>a, <1>b, MishapType DEF Reject, DiskTypeOK, env, snapshots
  <2> QED BY <1>22, <2>1, LeaveStep DEF Reject
<1>23. ASSUME NEW p \in Procs, Discard(p) PROVE LockInv'
  <2>1. DiskTypeOK'
    BY <1>23, <1>a, <1>b, MishapType DEF Discard, DiskTypeOK, env, snapshots
  <2> QED BY <1>23, <2>1, LeaveStep DEF Discard
<1>24. ASSUME NEW p \in Procs, PromoteRefused(p) PROVE LockInv'
  <2>1. DiskTypeOK'
    BY <1>24, <1>a, <1>b, MishapType DEF PromoteRefused, DiskTypeOK, Promotable, snapshots
  <2> QED BY <1>24, <2>1, LeaveStep DEF PromoteRefused, Promotable
<1>25. ASSUME NEW p \in Procs, TouchUnchanged(p) PROVE LockInv'
  <2>1. DiskTypeOK'
    BY <1>25, <1>a, <1>b, MishapType DEF TouchUnchanged, DiskTypeOK, Marked, snapshots
  <2> QED BY <1>25, <2>1, LeaveStep DEF TouchUnchanged
<1>26. ASSUME NEW p \in Procs, PruneEnd(p) PROVE LockInv'
  <2>1. DiskTypeOK'
    BY <1>26, <1>a, <1>b, MishapType DEF PruneEnd, DiskTypeOK, env, disk
  <2> QED BY <1>26, <2>1, LeaveStep DEF PruneEnd
<1>27. ASSUME NEW p \in Procs, DialFails(p) PROVE LockInv'
  <2>1. DiskTypeOK'
    BY <1>27, <1>a, <1>b, MishapType DEF DialFails, DiskTypeOK, disk
  <2> QED BY <1>27, <2>1, LeaveStep DEF DialFails
<1>28. ASSUME NEW p \in Procs, CollectFails(p) PROVE LockInv'
  <2>1. DiskTypeOK'
    BY <1>28, <1>a, <1>b, MishapType DEF CollectFails, DiskTypeOK, disk
  <2> QED BY <1>28, <2>1, LeaveStep DEF CollectFails
<1>29. ASSUME NEW p \in Procs, StageFails(p) PROVE LockInv'
  <2>1. DiskTypeOK'
    BY <1>29, <1>a, <1>b, MishapType DEF StageFails, DiskTypeOK, snapshots
  <2> QED BY <1>29, <2>1, LeaveStep DEF StageFails
<1>30. ASSUME NEW p \in Procs, RejectFails(p) PROVE LockInv'
  <2>1. DiskTypeOK'
    BY <1>30, <1>a, <1>b, MishapType DEF RejectFails, DiskTypeOK, snapshots
  <2> QED BY <1>30, <2>1, LeaveStep DEF RejectFails
<1>31. ASSUME NEW p \in Procs, PromoteLinkFails(p) PROVE LockInv'
  <2>1. DiskTypeOK'
    BY <1>31, <1>a, <1>b, MishapType DEF PromoteLinkFails, DiskTypeOK, disk
  <2> QED BY <1>31, <2>1, LeaveStep DEF PromoteLinkFails
<1>32. ASSUME NEW p \in Procs, PromoteSyncFails(p) PROVE LockInv'
  <2>1. DiskTypeOK'
    BY <1>32, <1>a, <1>b, MishapType DEF PromoteSyncFails, DiskTypeOK, disk
  <2> QED BY <1>32, <2>1, LeaveStep DEF PromoteSyncFails
<1>33. ASSUME NEW p \in Procs, PruneFails(p) PROVE LockInv'
  <2>1. DiskTypeOK'
    BY <1>33, <1>a, <1>b, MishapType DEF PruneFails, DiskTypeOK, disk
  <2> QED BY <1>33, <2>1, LeaveStep DEF PruneFails
<1>34. ASSUME NEW p \in Procs, Crash(p) PROVE LockInv'
  <2>1. DiskTypeOK'
    BY <1>34, <1>a, <1>b, MishapType DEF Crash, DiskTypeOK, disk
  <2> QED BY <1>34, <2>1, LeaveStep DEF Crash
<1>35. CASE Tick
  <2>1. DiskTypeOK'
    BY <1>35, <1>a, StoreAssumption, MishapType DEF Tick, DiskTypeOK, disk, Stamps
  <2> QED BY <1>35, <2>1, <1>a DEF Tick, disk, LockInv, TypeOK, ProcessTypeOK, Owned
<1>36. CASE ClockBack
  <2>1. DiskTypeOK'
    BY <1>36, <1>a, StoreAssumption, MishapType DEF ClockBack, DiskTypeOK, disk, Stamps
  <2> QED BY <1>36, <2>1, <1>a DEF ClockBack, disk, LockInv, TypeOK, ProcessTypeOK, Owned
<1>37. ASSUME NEW s \in Stamps, DeleteByHand(s) PROVE LockInv'
  <2>1. DiskTypeOK'
    BY <1>37, <1>a, MishapType DEF DeleteByHand, DiskTypeOK
  <2> QED BY <1>37, <2>1, <1>a DEF DeleteByHand, LockInv, TypeOK, ProcessTypeOK, Owned
<1>38. CASE UNCHANGED vars
  BY <1>38, <1>a DEF vars, LockInv, TypeOK, DiskTypeOK, ProcessTypeOK, Owned
<1>39. ASSUME NEW p \in Procs, DiscardFails(p) PROVE LockInv'
  <2>1. DiskTypeOK'
    BY <1>39, <1>a, <1>b, MishapType DEF DiscardFails, DiskTypeOK, snapshots
  <2> QED BY <1>39, <2>1, LeaveStep DEF DiscardFails
<1> QED
  BY <1>1, <1>2, <1>3, <1>4, <1>5, <1>6, <1>7, <1>8, <1>9, <1>10,
     <1>11, <1>12, <1>13, <1>14, <1>15, <1>16, <1>17, <1>18, <1>19, <1>20,
     <1>21, <1>22, <1>23, <1>24, <1>25, <1>26, <1>27, <1>28, <1>29, <1>30,
     <1>31, <1>32, <1>33, <1>34, <1>35, <1>36, <1>37, <1>38, <1>39
  DEF Next, Start, Work, Fault

(* Nobody deletes a snapshot by hand. *)
NoHand == "delete" \notin Mishaps

LEMMA InitLastInv == Init => LastInv
  BY DEF Init, LastInv, LastWhole, Held

(* Only the process at work can know anything of `last`. *)
LEMMA HolderStep ==
  ASSUME LockInv', LastWhole', NEW p \in Procs, lock' \in {p, NoProc}, Held(p)'
  PROVE  LastInv'
<1>1. ASSUME NEW q \in Procs, q # p PROVE Held(q)'
  <2>1. (pc[q] = "idle")'
    BY <1>1, StoreAssumption DEF LockInv, Owned
  <2> QED BY <2>1 DEF Held
<1> QED BY <1>1 DEF LastInv

(* LastInv is inductive relative to LockInv: a promotion publishes a whole  *)
(* snapshot before it moves `last` there, and a prune spares the target it  *)
(* read, which cannot have moved since.                                     *)
LEMMA LastInvStep == NoHand /\ LockInv /\ LockInv' /\ LastInv /\ [Next]_vars => LastInv'
<1> SUFFICES ASSUME NoHand, LockInv, LockInv', LastInv, [Next]_vars PROVE LastInv'
  OBVIOUS
<1>a. /\ DiskTypeOK /\ ProcessTypeOK /\ LastWhole
      /\ \A p \in Procs : Owned(p) /\ Held(p)
  BY DEF LockInv, LastInv, TypeOK
<1>b. \A p \in Procs : run[p] \in RunType /\ run[p].stamp \in Stamps /\ run[p].new \in Layouts \cup {None}
  BY <1>a, RunFields DEF ProcessTypeOK
<1>c. \A p \in Procs : pc[p] # "idle" => lock = p
  BY <1>a DEF Owned
<1>1. ASSUME NEW p \in Procs, StartSave(p) PROVE LastInv'
  <2>1. LastWhole'
    BY <1>1, <1>a DEF StartSave, LastWhole, Whole, Acquire, env, disk
  <2>2. Held(p)'
    BY <1>1, <1>a, <1>b DEF StartSave, Held, ProcessTypeOK, Acquire, Goto, env, disk
  <2>3. lock' \in {p, NoProc}
    BY <1>1, <1>c DEF StartSave, Acquire, Goto, env, disk
  <2> QED BY <2>1, <2>2, <2>3, HolderStep
<1>2. ASSUME NEW p \in Procs, StartImport(p) PROVE LastInv'
  <2>1. LastWhole'
    BY <1>2, <1>a DEF StartImport, LastWhole, Whole, Acquire, env, disk
  <2>2. Held(p)'
    BY <1>2, <1>a, <1>b DEF StartImport, Held, ProcessTypeOK, Acquire, Goto, env, disk
  <2>3. lock' \in {p, NoProc}
    BY <1>2, <1>c DEF StartImport, Acquire, Goto, env, disk
  <2> QED BY <2>1, <2>2, <2>3, HolderStep
<1>3. ASSUME NEW p \in Procs, StartPrune(p) PROVE LastInv'
  <2>1. LastWhole'
    BY <1>3, <1>a DEF StartPrune, LastWhole, Whole, Acquire, env, disk
  <2>2. Held(p)'
    BY <1>3, <1>a, <1>b DEF StartPrune, Held, ProcessTypeOK, Acquire, Goto, env, disk
  <2>3. lock' \in {p, NoProc}
    BY <1>3, <1>c DEF StartPrune, Acquire, Goto, env, disk
  <2> QED BY <2>1, <2>2, <2>3, HolderStep
<1>4. ASSUME NEW p \in Procs, Dial(p) PROVE LastInv'
  <2>1. LastWhole'
    BY <1>4, <1>a DEF Dial, LastWhole, Whole, env, disk
  <2>2. Held(p)'
    BY <1>4, <1>a, <1>b DEF Dial, Held, ProcessTypeOK, Goto, env, disk
  <2>3. lock' \in {p, NoProc}
    BY <1>4, <1>c DEF Dial, Goto, env, disk
  <2> QED BY <2>1, <2>2, <2>3, HolderStep
<1>5. ASSUME NEW p \in Procs, Sweep(p) PROVE LastInv'
  <2>1. LastWhole'
    BY <1>5, <1>a DEF Sweep, LastWhole, Whole, env, snapshots
  <2>2. Held(p)'
    BY <1>5, <1>a, <1>b DEF Sweep, Held, ProcessTypeOK, Goto, env, snapshots
  <2>3. lock' \in {p, NoProc}
    BY <1>5, <1>c DEF Sweep, Goto, env, snapshots
  <2> QED BY <2>1, <2>2, <2>3, HolderStep
<1>6. ASSUME NEW p \in Procs, Collect(p) PROVE LastInv'
  <2>1. LastWhole'
    BY <1>6, <1>a DEF Collect, LastWhole, Whole, env, disk
  <2>2. Held(p)'
    BY <1>6, <1>a, <1>b DEF Collect, Held, ProcessTypeOK, Goto, env, disk
  <2>3. lock' \in {p, NoProc}
    BY <1>6, <1>c DEF Collect, Goto, env, disk
  <2> QED BY <2>1, <2>2, <2>3, HolderStep
<1>7. ASSUME NEW p \in Procs, Compare(p) PROVE LastInv'
  <2>1. LastWhole'
    BY <1>7, <1>a DEF Compare, LastWhole, Whole, env, disk
  <2>2. Held(p)'
    <3> DEFINE base == IF last = None THEN None ELSE layout[last]
    <3>1. /\ run' = [run EXCEPT ![p] = [run[p] EXCEPT !.base = base]]
          /\ pc' = [pc EXCEPT ![p] = IF base = run[p].new THEN "unchanged" ELSE "stage"]
          /\ last' = last /\ layout' = layout
      BY <1>7, <1>a DEF Compare, Unchanged, Goto, disk, ProcessTypeOK
    <3>2. run[p].new # None
      BY <1>7, <1>a, StoreAssumption DEF Compare, Owned, AfterCollect
    <3>3. /\ run'[p].base = base /\ run'[p].new = run[p].new
          /\ pc'[p] = IF base = run[p].new THEN "unchanged" ELSE "stage"
      BY <3>1, <1>a, <1>b DEF ProcessTypeOK, RunType
    <3>4. CASE base = run[p].new
      BY <3>1, <3>2, <3>3, <3>4 DEF Held
    <3>5. CASE base # run[p].new
      BY <3>1, <3>3, <3>5 DEF Held
    <3> QED BY <3>4, <3>5
  <2>3. lock' \in {p, NoProc}
    BY <1>7, <1>c DEF Compare, Goto, env, disk, Comparable, Loads, RunType
  <2> QED BY <2>1, <2>2, <2>3, HolderStep
<1>8. ASSUME NEW p \in Procs, StageBegin(p) PROVE LastInv'
  <2>1. LastWhole'
    BY <1>8, <1>a DEF StageBegin, LastWhole, Whole, env, snapshots
  <2>2. Held(p)'
    BY <1>8, <1>a, <1>b DEF StageBegin, Held, ProcessTypeOK, Goto, env, snapshots, Degenerate
  <2>3. lock' \in {p, NoProc}
    BY <1>8, <1>c DEF StageBegin, Goto, env, snapshots, Degenerate
  <2> QED BY <2>1, <2>2, <2>3, HolderStep
<1>9. ASSUME NEW p \in Procs, StageEnd(p) PROVE LastInv'
  <2>1. LastWhole'
    BY <1>9, <1>a DEF StageEnd, LastWhole, Whole, env, snapshots
  <2>2. Held(p)'
    BY <1>9, <1>a, <1>b DEF StageEnd, Held, ProcessTypeOK, Goto, env, snapshots, Degenerate
  <2>3. lock' \in {p, NoProc}
    BY <1>9, <1>c DEF StageEnd, Goto, env, snapshots, Degenerate
  <2> QED BY <2>1, <2>2, <2>3, HolderStep
<1>10. ASSUME NEW p \in Procs, PromoteRename(p) PROVE LastInv'
  <2>1. LastWhole'
    BY <1>10, <1>a DEF PromoteRename, LastWhole, Whole, Promotable, Exists, env, DiskTypeOK
  <2>2. Held(p)'
    <3> DEFINE s == run[p].stamp
    <3>1. /\ pc[p] = "staged" /\ ~Degenerate(p) /\ ~Exists(s)
          /\ pc'[p] = "link" /\ run' = run /\ last' = last
          /\ layout' = [layout EXCEPT ![s] = run[p].new]
      BY <1>10, <1>a DEF PromoteRename, Promotable, Goto, ProcessTypeOK
    <3>2. tmp[s] = "complete" /\ run[p].new \in Layouts
      BY <1>a, <3>1 DEF Owned, AfterCollect
    <3>3. Whole(s)' /\ layout'[s] = run[p].new
      BY <1>10, <1>a, <1>b, <3>2, StoreAssumption DEF PromoteRename, Whole, DiskTypeOK
    <3>4. last # None => last # s
      BY <1>a, <3>1 DEF LastWhole, Whole, Exists
    <3>5. last # None => layout'[last] = layout[last]
      BY <3>1, <3>4, <1>a DEF DiskTypeOK
    <3>6. run[p].job = "save" => run[p].base = (IF last = None THEN None ELSE layout[last])
      BY <1>a, <3>1 DEF Held
    <3> QED BY <3>1, <3>3, <3>5, <3>6 DEF Held, Degenerate
  <2>3. lock' \in {p, NoProc}
    BY <1>10, <1>c DEF PromoteRename, Promotable, Goto, env, Degenerate, Whole, Exists, DiskTypeOK, LastWhole, Owned, AfterCollect
  <2> QED BY <2>1, <2>2, <2>3, HolderStep
<1>11. ASSUME NEW p \in Procs, PromoteLink(p) PROVE LastInv'
  <2>1. LastWhole'
    BY <1>11, <1>a DEF PromoteLink, LastWhole, Whole, Held, env, snapshots
  <2>2. Held(p)'
    BY <1>11, <1>a, <1>b DEF PromoteLink, Held, ProcessTypeOK, Goto, env, snapshots
  <2>3. lock' \in {p, NoProc}
    BY <1>11, <1>c DEF PromoteLink, Goto, env, snapshots
  <2> QED BY <2>1, <2>2, <2>3, HolderStep
<1>12. ASSUME NEW p \in Procs, PromoteSync(p) PROVE LastInv'
  <2>1. LastWhole'
    BY <1>12, <1>a DEF PromoteSync, LastWhole, Whole, env, disk
  <2>2. Held(p)'
    BY <1>12, <1>a, <1>b DEF PromoteSync, Held, ProcessTypeOK, Goto, env, disk
  <2>3. lock' \in {p, NoProc}
    BY <1>12, <1>c DEF PromoteSync, Goto, env, disk
  <2> QED BY <2>1, <2>2, <2>3, HolderStep
<1>13. ASSUME NEW p \in Procs, TouchKept(p) PROVE LastInv'
  <2>1. LastWhole'
    BY <1>13, <1>a DEF TouchKept, LastWhole, Whole, Marked, snapshots
  <2>2. Held(p)'
    BY <1>13, <1>a, <1>b DEF TouchKept, Held, ProcessTypeOK, Marked, Goto, Leave, Blank, snapshots
  <2>3. lock' \in {p, NoProc}
    BY <1>13, <1>c DEF TouchKept, Marked, Goto, Leave, Blank, snapshots
  <2> QED BY <2>1, <2>2, <2>3, HolderStep
<1>14. ASSUME NEW p \in Procs, PruneReadLast(p) PROVE LastInv'
  <2>1. LastWhole'
    BY <1>14, <1>a DEF PruneReadLast, LastWhole, Whole, env, disk
  <2>2. Held(p)'
    BY <1>14, <1>a, <1>b DEF PruneReadLast, Held, ProcessTypeOK, Goto, env, disk, RunType
  <2>3. lock' \in {p, NoProc}
    BY <1>14, <1>c DEF PruneReadLast, Goto, env, disk, RunType
  <2> QED BY <2>1, <2>2, <2>3, HolderStep
<1>15. ASSUME NEW p \in Procs, PruneList(p) PROVE LastInv'
  <2>1. LastWhole'
    BY <1>15, <1>a DEF PruneList, LastWhole, Whole, env, disk
  <2>2. Held(p)'
    BY <1>15, <1>a, <1>b DEF PruneList, Held, ProcessTypeOK, Goto, env, disk, RunType, PruneCandidates
  <2>3. lock' \in {p, NoProc}
    BY <1>15, <1>c DEF PruneList, Goto, env, disk, RunType, PruneCandidates
  <2> QED BY <2>1, <2>2, <2>3, HolderStep
<1>16. ASSUME NEW p \in Procs, PruneUnlinkLayout(p) PROVE LastInv'
  <2>1. LastWhole'
    BY <1>16, <1>a DEF PruneUnlinkLayout, LastWhole, Whole, Held, IsVictim, env, DiskTypeOK
  <2>2. Held(p)'
    BY <1>16, <1>a, <1>b DEF PruneUnlinkLayout, Held, ProcessTypeOK, IsVictim, env
  <2>3. lock' \in {p, NoProc}
    BY <1>16, <1>c DEF PruneUnlinkLayout, IsVictim, env
  <2> QED BY <2>1, <2>2, <2>3, HolderStep
<1>17. ASSUME NEW p \in Procs, PruneUnlinkPanes(p) PROVE LastInv'
  <2>1. LastWhole'
    BY <1>17, <1>a DEF PruneUnlinkPanes, LastWhole, Whole, Held, IsVictim, env, DiskTypeOK
  <2>2. Held(p)'
    BY <1>17, <1>a, <1>b DEF PruneUnlinkPanes, Held, ProcessTypeOK, IsVictim, env
  <2>3. lock' \in {p, NoProc}
    BY <1>17, <1>c DEF PruneUnlinkPanes, IsVictim, env
  <2> QED BY <2>1, <2>2, <2>3, HolderStep
<1>18. ASSUME NEW p \in Procs, PruneNext(p) PROVE LastInv'
  <2>1. LastWhole'
    BY <1>18, <1>a DEF PruneNext, LastWhole, Whole, env, disk
  <2>2. Held(p)'
    BY <1>18, <1>a, <1>b DEF PruneNext, Held, ProcessTypeOK, IsVictim, env, disk, RunType
  <2>3. lock' \in {p, NoProc}
    BY <1>18, <1>c DEF PruneNext, IsVictim, env, disk, RunType
  <2> QED BY <2>1, <2>2, <2>3, HolderStep
<1>19. ASSUME NEW p \in Procs, PruneRejected(p) PROVE LastInv'
  <2>1. LastWhole'
    BY <1>19, <1>a DEF PruneRejected, LastWhole, Whole, env, snapshots
  <2>2. Held(p)'
    BY <1>19, <1>a, <1>b DEF PruneRejected, Held, ProcessTypeOK, env, snapshots, RunType
  <2>3. lock' \in {p, NoProc}
    BY <1>19, <1>c DEF PruneRejected, env, snapshots, RunType
  <2> QED BY <2>1, <2>2, <2>3, HolderStep
<1>20. ASSUME NEW p \in Procs, SweepFails(p) PROVE LastInv'
  <2>1. LastWhole'
    BY <1>20, <1>a DEF SweepFails, LastWhole, Whole, Mishap, disk
  <2>2. Held(p)'
    BY <1>20, <1>a, <1>b DEF SweepFails, Held, ProcessTypeOK, Goto, Mishap, disk
  <2>3. lock' \in {p, NoProc}
    BY <1>20, <1>c DEF SweepFails, Goto, Mishap, disk
  <2> QED BY <2>1, <2>2, <2>3, HolderStep
<1>21. ASSUME NEW p \in Procs, CompareFails(p) PROVE LastInv'
  <2>1. LastWhole'
    BY <1>21, <1>a DEF CompareFails, LastWhole, Whole, env, disk
  <2>2. Held(p)'
    BY <1>21, <1>a, <1>b DEF CompareFails, Held, ProcessTypeOK, Leave, Blank
  <2>3. lock' \in {p, NoProc}
    BY <1>21, <1>c DEF CompareFails, Leave, Blank
  <2> QED BY <2>1, <2>2, <2>3, HolderStep
<1>22. ASSUME NEW p \in Procs, Reject(p) PROVE LastInv'
  <2>1. LastWhole'
    BY <1>22, <1>a DEF Reject, LastWhole, Whole, env, snapshots
  <2>2. Held(p)'
    BY <1>22, <1>a, <1>b DEF Reject, Held, ProcessTypeOK, Leave, Blank
  <2>3. lock' \in {p, NoProc}
    BY <1>22, <1>c DEF Reject, Leave, Blank
  <2> QED BY <2>1, <2>2, <2>3, HolderStep
<1>23. ASSUME NEW p \in Procs, Discard(p) PROVE LastInv'
  <2>1. LastWhole'
    BY <1>23, <1>a DEF Discard, LastWhole, Whole, env, snapshots
  <2>2. Held(p)'
    BY <1>23, <1>a, <1>b DEF Discard, Held, ProcessTypeOK, Leave, Blank
  <2>3. lock' \in {p, NoProc}
    BY <1>23, <1>c DEF Discard, Leave, Blank
  <2> QED BY <2>1, <2>2, <2>3, HolderStep
<1>24. ASSUME NEW p \in Procs, PromoteRefused(p) PROVE LastInv'
  <2>1. LastWhole'
    BY <1>24, <1>a DEF PromoteRefused, LastWhole, Whole, snapshots
  <2>2. Held(p)'
    BY <1>24, <1>a, <1>b DEF PromoteRefused, Held, ProcessTypeOK, Leave, Blank
  <2>3. lock' \in {p, NoProc}
    BY <1>24, <1>c DEF PromoteRefused, Leave, Blank
  <2> QED BY <2>1, <2>2, <2>3, HolderStep
<1>25. ASSUME NEW p \in Procs, TouchUnchanged(p) PROVE LastInv'
  <2>1. LastWhole'
    BY <1>25, <1>a DEF TouchUnchanged, LastWhole, Whole, snapshots
  <2>2. Held(p)'
    BY <1>25, <1>a, <1>b DEF TouchUnchanged, Held, ProcessTypeOK, Leave, Blank
  <2>3. lock' \in {p, NoProc}
    BY <1>25, <1>c DEF TouchUnchanged, Leave, Blank
  <2> QED BY <2>1, <2>2, <2>3, HolderStep
<1>26. ASSUME NEW p \in Procs, PruneEnd(p) PROVE LastInv'
  <2>1. LastWhole'
    BY <1>26, <1>a DEF PruneEnd, LastWhole, Whole, env, disk
  <2>2. Held(p)'
    BY <1>26, <1>a, <1>b DEF PruneEnd, Held, ProcessTypeOK, Leave, Blank
  <2>3. lock' \in {p, NoProc}
    BY <1>26, <1>c DEF PruneEnd, Leave, Blank
  <2> QED BY <2>1, <2>2, <2>3, HolderStep
<1>27. ASSUME NEW p \in Procs, DialFails(p) PROVE LastInv'
  <2>1. LastWhole'
    BY <1>27, <1>a DEF DialFails, LastWhole, Whole, disk
  <2>2. Held(p)'
    BY <1>27, <1>a, <1>b DEF DialFails, Held, ProcessTypeOK, Leave, Blank
  <2>3. lock' \in {p, NoProc}
    BY <1>27, <1>c DEF DialFails, Leave, Blank
  <2> QED BY <2>1, <2>2, <2>3, HolderStep
<1>28. ASSUME NEW p \in Procs, CollectFails(p) PROVE LastInv'
  <2>1. LastWhole'
    BY <1>28, <1>a DEF CollectFails, LastWhole, Whole, disk
  <2>2. Held(p)'
    BY <1>28, <1>a, <1>b DEF CollectFails, Held, ProcessTypeOK, Leave, Blank
  <2>3. lock' \in {p, NoProc}
    BY <1>28, <1>c DEF CollectFails, Leave, Blank
  <2> QED BY <2>1, <2>2, <2>3, HolderStep
<1>29. ASSUME NEW p \in Procs, StageFails(p) PROVE LastInv'
  <2>1. LastWhole'
    BY <1>29, <1>a DEF StageFails, LastWhole, Whole, snapshots
  <2>2. Held(p)'
    BY <1>29, <1>a, <1>b DEF StageFails, Held, ProcessTypeOK, Leave, Blank
  <2>3. lock' \in {p, NoProc}
    BY <1>29, <1>c DEF StageFails, Leave, Blank
  <2> QED BY <2>1, <2>2, <2>3, HolderStep
<1>30. ASSUME NEW p \in Procs, RejectFails(p) PROVE LastInv'
  <2>1. LastWhole'
    BY <1>30, <1>a DEF RejectFails, LastWhole, Whole, snapshots
  <2>2. Held(p)'
    BY <1>30, <1>a, <1>b DEF RejectFails, Held, ProcessTypeOK, Leave, Blank
  <2>3. lock' \in {p, NoProc}
    BY <1>30, <1>c DEF RejectFails, Leave, Blank
  <2> QED BY <2>1, <2>2, <2>3, HolderStep
<1>31. ASSUME NEW p \in Procs, PromoteLinkFails(p) PROVE LastInv'
  <2>1. LastWhole'
    BY <1>31, <1>a DEF PromoteLinkFails, LastWhole, Whole, disk
  <2>2. Held(p)'
    BY <1>31, <1>a, <1>b DEF PromoteLinkFails, Held, ProcessTypeOK, Leave, Blank
  <2>3. lock' \in {p, NoProc}
    BY <1>31, <1>c DEF PromoteLinkFails, Leave, Blank
  <2> QED BY <2>1, <2>2, <2>3, HolderStep
<1>32. ASSUME NEW p \in Procs, PromoteSyncFails(p) PROVE LastInv'
  <2>1. LastWhole'
    BY <1>32, <1>a DEF PromoteSyncFails, LastWhole, Whole, disk
  <2>2. Held(p)'
    BY <1>32, <1>a, <1>b DEF PromoteSyncFails, Held, ProcessTypeOK, Leave, Blank
  <2>3. lock' \in {p, NoProc}
    BY <1>32, <1>c DEF PromoteSyncFails, Leave, Blank
  <2> QED BY <2>1, <2>2, <2>3, HolderStep
<1>33. ASSUME NEW p \in Procs, PruneFails(p) PROVE LastInv'
  <2>1. LastWhole'
    BY <1>33, <1>a DEF PruneFails, LastWhole, Whole, disk
  <2>2. Held(p)'
    BY <1>33, <1>a, <1>b DEF PruneFails, Held, ProcessTypeOK, Leave, Blank
  <2>3. lock' \in {p, NoProc}
    BY <1>33, <1>c DEF PruneFails, Leave, Blank
  <2> QED BY <2>1, <2>2, <2>3, HolderStep
<1>34. ASSUME NEW p \in Procs, Crash(p) PROVE LastInv'
  <2>1. LastWhole'
    BY <1>34, <1>a DEF Crash, LastWhole, Whole, disk
  <2>2. Held(p)'
    BY <1>34, <1>a, <1>b DEF Crash, Held, ProcessTypeOK, Leave, Blank
  <2>3. lock' \in {p, NoProc}
    BY <1>34, <1>c DEF Crash, Leave, Blank
  <2> QED BY <2>1, <2>2, <2>3, HolderStep
<1>35. CASE Tick
  BY <1>35, <1>a DEF Tick, disk, LastInv, LastWhole, Whole, Held, Degenerate
<1>36. CASE ClockBack
  BY <1>36, <1>a DEF ClockBack, disk, LastInv, LastWhole, Whole, Held, Degenerate
<1>37. ASSUME NEW s \in Stamps, DeleteByHand(s) PROVE LastInv'
  BY <1>37 DEF DeleteByHand, Mishap, NoHand
<1>38. CASE UNCHANGED vars
  BY <1>38, <1>a DEF vars, LastInv, LastWhole, Whole, Held, Degenerate
<1>39. ASSUME NEW p \in Procs, DiscardFails(p) PROVE LastInv'
  <2>1. LastWhole'
    BY <1>39, <1>a DEF DiscardFails, LastWhole, Whole, snapshots
  <2>2. Held(p)'
    BY <1>39, <1>a, <1>b DEF DiscardFails, Held, ProcessTypeOK, Leave, Blank
  <2>3. lock' \in {p, NoProc}
    BY <1>39, <1>c DEF DiscardFails, Leave, Blank
  <2> QED BY <2>1, <2>2, <2>3, HolderStep
<1> QED
  BY <1>1, <1>2, <1>3, <1>4, <1>5, <1>6, <1>7, <1>8, <1>9, <1>10,
     <1>11, <1>12, <1>13, <1>14, <1>15, <1>16, <1>17, <1>18, <1>19, <1>20,
     <1>21, <1>22, <1>23, <1>24, <1>25, <1>26, <1>27, <1>28, <1>29, <1>30,
     <1>31, <1>32, <1>33, <1>34, <1>35, <1>36, <1>37, <1>38, <1>39
  DEF Next, Start, Work, Fault

-----------------------------------------------------------------------------
(* TypeOK, StagingSafe: no assumption but those on the constants. *)
LEMMA AlwaysLockInv == Spec => []LockInv
<1>1. Init => LockInv
  BY InitLockInv
<1>2. LockInv /\ [Next]_vars => LockInv'
  BY LockInvStep
<1> QED BY <1>1, <1>2, PTL DEF Spec

LEMMA AlwaysLastInv == NoHand => (Spec => [](LockInv /\ LastInv))
<1> SUFFICES ASSUME NoHand PROVE Spec => [](LockInv /\ LastInv)
  OBVIOUS
<1>1. Init => LockInv /\ LastInv
  BY InitLockInv, InitLastInv
<1>2. LockInv /\ LastInv /\ [Next]_vars => (LockInv /\ LastInv)'
  BY LockInvStep, LastInvStep
<1> QED BY <1>1, <1>2, PTL DEF Spec

(* Every variable keeps its type. *)
THEOREM TypeCorrect == Spec => []TypeOK
<1>1. LockInv => TypeOK
  BY DEF LockInv
<1> QED BY <1>1, AlwaysLockInv, PTL

(* No sweep ever takes the directory a running save or import stages into. *)
THEOREM StagingIsSafe == Spec => []StagingSafe
<1>1. LockInv => StagingSafe
  BY DEF LockInv, Owned, StagingSafe, Staging
<1> QED BY <1>1, AlwaysLockInv, PTL

(* `last` names a whole snapshot whatever crashes, faults and clock changes *)
(* there are.                                                               *)
THEOREM LastIsWhole == NoHand => (Spec => []LastWhole)
<1> SUFFICES ASSUME NoHand PROVE Spec => []LastWhole
  OBVIOUS
<1>1. LockInv /\ LastInv => LastWhole
  BY DEF LastInv
<1> QED BY <1>1, AlwaysLastInv, PTL
(* Of all steps only PromoteLink moves `last`, and only a touch the marker. *)
LEMMA LastMoves ==
  ASSUME [Next]_vars, last' # last
  PROVE  \E p \in Procs : PromoteLink(p)
  BY ZenonT(60) DEF Next, Start, StartSave, StartImport, StartPrune, Acquire, Work, Dial, Sweep, Collect,
         Compare, CompareFails, StageBegin, StageEnd, Reject, Discard, PromoteRename,
         PromoteRefused, PromoteLink, PromoteSync, TouchKept, TouchUnchanged,
         PruneReadLast, PruneList, PruneUnlinkLayout, PruneUnlinkPanes, PruneNext,
         PruneRejected, PruneEnd, Fault, DialFails, SweepFails, CollectFails,
         StageFails, RejectFails, DiscardFails, PromoteLinkFails, PromoteSyncFails, PruneFails,
         Crash, Tick, ClockBack, DeleteByHand, vars, disk, snapshots

LEMMA FreshMoves ==
  ASSUME [Next]_vars, fresh' # fresh
  PROVE  \E p \in Procs : TouchKept(p) \/ TouchUnchanged(p)
  BY ZenonT(60) DEF Next, Start, StartSave, StartImport, StartPrune, Acquire, Work, Dial, Sweep, Collect,
         Compare, CompareFails, StageBegin, StageEnd, Reject, Discard, PromoteRename,
         PromoteRefused, PromoteLink, PromoteSync, TouchKept, TouchUnchanged,
         PruneReadLast, PruneList, PruneUnlinkLayout, PruneUnlinkPanes, PruneNext,
         PruneRejected, PruneEnd, Fault, DialFails, SweepFails, CollectFails,
         StageFails, RejectFails, DiscardFails, PromoteLinkFails, PromoteSyncFails, PruneFails,
         Crash, Tick, ClockBack, DeleteByHand, vars, disk, snapshots

(* The clobber guard compares with the `last` the reader has, at the moment *)
(* the link is moved.                                                       *)
THEOREM GuardIsKept == NoHand => (Spec => GuardHolds)
<1> SUFFICES ASSUME NoHand PROVE Spec => GuardHolds
  OBVIOUS
<1> DEFINE Guarded ==
      \A p \in Procs :
        (last' # last /\ last # None /\ pc[p] = "link" /\ run[p].job = "save")
        => ~IsDegenerate(PaneCount[layout[last']], PaneCount[layout[last]])
<1>1. LockInv /\ LastInv /\ [Next]_vars => [Guarded]_vars
  <2> SUFFICES ASSUME LockInv, LastInv, [Next]_vars,
                      NEW p \in Procs, last' # last, last # None,
                      pc[p] = "link", run[p].job = "save"
               PROVE  ~IsDegenerate(PaneCount[layout[last']], PaneCount[layout[last]])
    OBVIOUS
  <2>1. PICK q \in Procs : PromoteLink(q)
    BY LastMoves
  <2>2. q = p
    BY <2>1 DEF PromoteLink, LockInv, Owned
  <2>3. /\ last' = run[p].stamp /\ layout[run[p].stamp] = run[p].new
        /\ ~Degenerate(p) /\ run[p].base = layout[last]
    BY <2>1, <2>2 DEF PromoteLink, LastInv, Held
  <2>4. layout[last] # None
    BY DEF LastInv, LastWhole, Whole
  <2> QED BY <2>3, <2>4 DEF Degenerate
<1> QED BY <1>1, AlwaysLastInv, PTL DEF Spec, GuardHolds

(* The marker never moves but for a `last` that holds what was just found.  *)
THEOREM FreshIsHonest == NoHand => (Spec => FreshHonest)
<1> SUFFICES ASSUME NoHand PROVE Spec => FreshHonest
  OBVIOUS
<1> DEFINE Honest ==
      fresh' # fresh =>
          \E p \in Procs : /\ lock = p
                           /\ last # None
                           /\ Whole(last)
                           /\ layout[last] = run[p].new
<1>1. LockInv /\ LastInv /\ [Next]_vars => [Honest]_vars
  <2> SUFFICES ASSUME LockInv, LastInv, [Next]_vars, fresh' # fresh
               PROVE  \E p \in Procs : /\ lock = p
                                       /\ last # None
                                       /\ Whole(last)
                                       /\ layout[last] = run[p].new
    OBVIOUS
  <2>1. PICK p \in Procs : TouchKept(p) \/ TouchUnchanged(p)
    BY FreshMoves
  <2>2. pc[p] \in {"fresh", "unchanged"}
    BY <2>1 DEF TouchKept, TouchUnchanged
  <2>3. lock = p
    BY <2>2 DEF LockInv, Owned
  <2>4. last # None /\ layout[last] = run[p].new
    <3>1. run[p].stamp \in Stamps
      BY RunFields DEF LockInv, TypeOK, ProcessTypeOK
    <3> QED BY <2>2, <3>1, StoreAssumption DEF LastInv, Held
  <2> QED BY <2>3, <2>4 DEF LastInv, LastWhole
<1> QED BY <1>1, AlwaysLastInv, PTL DEF Spec, FreshHonest

(* The directory refines the archive: a step that changes a snapshot, the   *)
(* link or the marker is one of the archive's, and every other step leaves  *)
(* the archive as it was.                                                   *)
Content(s) == IF Whole(s) THEN layout[s] ELSE None

LEMMA Stutter ==
  ASSUME layout' = layout, panes' = panes, last' = last, fresh' = fresh
  PROVE  UNCHANGED Archived!avars
  BY DEF Archived!avars, Whole

(* Taking a file out of a directory that is not the current one.            *)
LEMMA RemovalForgets ==
  ASSUME LockInv, LockInv', NEW v \in Stamps, v # last,
         \A s \in Stamps : s # v => layout'[s] = layout[s] /\ panes'[s] = panes[s],
         ~Whole(v)', last' = last, fresh' = fresh
  PROVE  Archived!Forget(v)
<1>1. \A s \in Stamps : Content(s)' = IF s = v THEN None ELSE Content(s)
  BY DEF Content, Whole
<1> QED BY <1>1 DEF Archived!Forget, Content

LEMMA ArchiveStep ==
  NoHand /\ LockInv /\ LockInv' /\ LastInv /\ [Next]_vars
    => [Archived!ArchiveNext]_(Archived!avars)
<1> SUFFICES ASSUME NoHand, LockInv, LockInv', LastInv, [Next]_vars
             PROVE  Archived!ArchiveNext \/ UNCHANGED Archived!avars
  OBVIOUS
<1>a. /\ DiskTypeOK /\ ProcessTypeOK /\ LastWhole
      /\ \A p \in Procs : Owned(p) /\ Held(p) /\ run[p].stamp \in Stamps
  BY RunFields DEF LockInv, LastInv, TypeOK, ProcessTypeOK
<1>1. ASSUME NEW p \in Procs, PromoteRename(p) PROVE Archived!ArchiveNext
  <2>1. run[p].stamp \in Stamps /\ run[p].new \in Layouts /\ tmp[run[p].stamp] = "complete"
    BY <1>1, <1>a DEF PromoteRename, Promotable, Owned, AfterCollect
  <2>2. PICK s \in Stamps, c \in Layouts :
           s = run[p].stamp /\ c = run[p].new /\ tmp[s] = "complete"
    BY <2>1
  <2>3. Content(s) = None
    BY <1>1, <2>2 DEF PromoteRename, Exists, Content, Whole
  <2>4. \A t \in Stamps : Content(t)' = IF t = s THEN c ELSE Content(t)
    BY <1>1, <1>a, <2>2, StoreAssumption DEF PromoteRename, Content, Whole, DiskTypeOK
  <2>5. last' = last /\ fresh' = fresh
    BY <1>1 DEF PromoteRename
  <2>6. Archived!Publish(s, c)
    <3>1. [t \in Stamps |-> Content(t)][s] = None
      BY <2>3
    <3>2. [t \in Stamps |-> Content(t)']
            = [[t \in Stamps |-> Content(t)] EXCEPT ![s] = c]
      BY <2>4
    <3> QED BY <2>5, <3>1, <3>2 DEF Archived!Publish, Content
  <2> QED BY <2>6 DEF Archived!ArchiveNext
<1>2. ASSUME NEW p \in Procs, PromoteLink(p) PROVE Archived!ArchiveNext
  <2>1. run[p].stamp \in Stamps /\ Content(run[p].stamp) # None
    BY <1>2, <1>a DEF PromoteLink, Held, Content, Whole
  <2>2. Archived!MakeCurrent(run[p].stamp)
    BY <1>2, <2>1 DEF PromoteLink, snapshots, Archived!MakeCurrent, Content, Whole
  <2> QED BY <2>1, <2>2 DEF Archived!ArchiveNext
<1>3. ASSUME NEW p \in Procs, TouchKept(p) \/ TouchUnchanged(p)
      PROVE  Archived!ArchiveNext \/ UNCHANGED Archived!avars
  <2>1. last # None
    BY <1>3, <1>a, StoreAssumption DEF TouchKept, TouchUnchanged, Held
  <2>2. CASE fresh' = fresh
    BY <1>3, <2>2, Stutter DEF TouchKept, TouchUnchanged, snapshots
  <2>3. CASE fresh' # fresh
    <3>1. fresh' = clock /\ clock \in Stamps
      BY <1>3, <1>a, <2>3 DEF TouchKept, TouchUnchanged, Marked, DiskTypeOK
    <3>2. Archived!Confirm(clock)
      BY <1>3, <2>1, <3>1 DEF TouchKept, TouchUnchanged, snapshots, Archived!Confirm, Whole
    <3> QED BY <3>1, <3>2 DEF Archived!ArchiveNext
  <2> QED BY <2>2, <2>3
<1>4. ASSUME NEW p \in Procs, PruneUnlinkLayout(p) PROVE Archived!ArchiveNext
  <2>1. PICK v \in Stamps : IsVictim(p, v) /\ layout' = [layout EXCEPT ![v] = None]
    BY <1>4 DEF PruneUnlinkLayout
  <2>2. v # last
    BY <1>a, <2>1 DEF IsVictim, Held
  <2>3. Archived!Forget(v)
    BY <1>4, <1>a, <2>1, <2>2, RemovalForgets DEF PruneUnlinkLayout, Whole, DiskTypeOK
  <2> QED BY <2>3 DEF Archived!ArchiveNext
<1>5. ASSUME NEW p \in Procs, PruneUnlinkPanes(p) PROVE Archived!ArchiveNext
  <2>1. PICK v \in Stamps, left \in {"none", "some"} :
           IsVictim(p, v) /\ panes' = [panes EXCEPT ![v] = left]
    BY <1>5 DEF PruneUnlinkPanes
  <2>2. v # last
    BY <1>a, <2>1 DEF IsVictim, Held
  <2>3. Archived!Forget(v)
    BY <1>5, <1>a, <2>1, <2>2, RemovalForgets DEF PruneUnlinkPanes, Whole, DiskTypeOK
  <2> QED BY <2>3 DEF Archived!ArchiveNext
<1>6. ASSUME NEW s \in Stamps, DeleteByHand(s) PROVE FALSE
  BY <1>6 DEF DeleteByHand, Mishap, NoHand
<1>7. ASSUME NEW p \in Procs, Start(p) \/ Fault(p) \/ Crash(p)
      PROVE  UNCHANGED Archived!avars
  BY <1>7, Stutter DEF Start, StartSave, StartImport, StartPrune, Acquire, Fault,
     DialFails, SweepFails, CollectFails, StageFails, RejectFails, DiscardFails,
     PromoteLinkFails, PromoteSyncFails, PruneFails, Crash, disk, snapshots
<1>8. ASSUME NEW p \in Procs, Work(p)
      PROVE  Archived!ArchiveNext \/ UNCHANGED Archived!avars
  BY <1>1, <1>2, <1>3, <1>4, <1>5, <1>8, Stutter DEF Work, Dial, Sweep, Collect,
     Compare, CompareFails, StageBegin, StageEnd, Reject, Discard, PromoteRefused,
     PromoteSync, PruneReadLast, PruneList, PruneNext, PruneRejected, PruneEnd,
     disk, snapshots
<1>9. CASE Tick \/ ClockBack \/ UNCHANGED vars
  BY <1>9, Stutter DEF Tick, ClockBack, vars, disk
<1> QED BY <1>6, <1>7, <1>8, <1>9 DEF Next

(* The data directory implements the archive, where nobody deletes by hand. *)
THEOREM StoreImplementsArchive == NoHand => (Spec => ImplementsArchive)
<1> SUFFICES ASSUME NoHand PROVE Spec => ImplementsArchive
  OBVIOUS
<1>1. Init => Archived!ArchiveInit
  BY DEF Init, Archived!ArchiveInit, Whole
<1> QED
  BY <1>1, ArchiveStep, AlwaysLastInv, PTL DEF Spec, ImplementsArchive, Archived!ArchiveSpec
-----------------------------------------------------------------------------
(* Retention.  What is said of a set of names for every set is proved of a  *)
(* smallest one it would not hold of.                                       *)
LEMMA SmallestSet ==
  ASSUME NEW S, IsFiniteSet(S), NEW Bad, Bad \subseteq SUBSET S, Bad # {}
  PROVE  \E T \in Bad : \A U \in Bad : U \subseteq T => U = T
<1>1. SUBSET S = FiniteSubsetsOf(S)
  BY FS_FiniteSubsetsOfFinite
<1>2. IsWellFoundedOn(StrictSubsetOrdering(S), SUBSET S)
  BY <1>1, FS_StrictSubsetOrderingWellFounded
<1>3. PICK T \in Bad : \A U \in Bad : <<U, T>> \notin StrictSubsetOrdering(S)
  BY <1>2, WFMin
<1>4. ASSUME NEW U \in Bad, U \subseteq T, U # T PROVE FALSE
  <2>1. <<U, T>> \in (SUBSET S) \X (SUBSET S)
    OBVIOUS
  <2> QED BY <1>3, <1>4, <2>1 DEF StrictSubsetOrdering
<1> QED BY <1>4

(* The oldest of some names. *)
LEMMA Oldest ==
  ASSUME NEW S, S \subseteq Int, IsFiniteSet(S), S # {}
  PROVE  \E m \in S : \A t \in S : m <= t
<1> DEFINE Bad == {T \in SUBSET S : T # {} /\ \A m \in T : \E t \in T : t < m}
<1> SUFFICES ASSUME Bad # {} PROVE FALSE
  <2>1. S \notin Bad => \E m \in S : \A t \in S : ~(t < m)
    OBVIOUS
  <2> QED BY <2>1
<1>1. PICK T \in Bad : \A U \in Bad : U \subseteq T => U = T
  <2> HIDE DEF Bad
  <2>1. Bad \subseteq SUBSET S
    BY DEF Bad
  <2>2. IsFiniteSet(S) /\ Bad # {}
    OBVIOUS
  <2> QED BY ONLY <2>1, <2>2, SmallestSet
<1>2. PICK x \in T : TRUE
  OBVIOUS
<1>3. T \ {x} # {}
  BY <1>2
<1>4. T \ {x} \notin Bad
  BY <1>1, <1>2
<1>5. PICK m \in T \ {x} : \A t \in T \ {x} : ~(t < m)
  BY <1>3, <1>4
<1>6. m \in Int /\ x \in Int
  BY <1>2, <1>5
<1>7. CASE x < m
  <2>1. \A t \in T : ~(t < x)
    BY <1>5, <1>6, <1>7
  <2> QED BY <1>2, <2>1
<1>8. CASE ~(x < m)
  BY <1>5, <1>6, <1>8
<1> QED BY <1>7, <1>8

(* The newest n of some names are n of them, or all where there are fewer.  *)
THEOREM NewestAreEnough ==
  ASSUME NEW S, S \subseteq Int, IsFiniteSet(S), NEW n \in Nat
  PROVE  Newest(S, n) = S \/ Cardinality(Newest(S, n)) >= n
<1> DEFINE Bad == {T \in SUBSET S : Newest(T, n) # T /\ ~(Cardinality(Newest(T, n)) >= n)}
<1> SUFFICES ASSUME Bad # {} PROVE FALSE
  OBVIOUS
<1>1. PICK T \in Bad : \A U \in Bad : U \subseteq T => U = T
  <2> HIDE DEF Bad
  <2>1. Bad \subseteq SUBSET S
    BY DEF Bad
  <2>2. IsFiniteSet(S) /\ Bad # {}
    OBVIOUS
  <2> QED BY ONLY <2>1, <2>2, SmallestSet
<1>2. IsFiniteSet(T) /\ T \in SUBSET Int /\ T # {}
  BY FS_Subset DEF Newest
<1>3. PICK m \in T : \A t \in T : m <= t
  BY <1>2, Oldest
<1> DEFINE U == T \ {m}
<1>4. IsFiniteSet(U) /\ Cardinality(U) \in Nat /\ U \in SUBSET S
  BY <1>2, FS_RemoveElement, FS_CardinalityType
<1>5. Newest(U, n) \subseteq Newest(T, n)
  <2> SUFFICES ASSUME NEW s \in U, Cardinality({t \in U : t > s}) < n
               PROVE  Cardinality({t \in T : t > s}) < n
    BY DEF Newest
  <2>1. {t \in T : t > s} = {t \in U : t > s}
    BY <1>2, <1>3
  <2> QED BY <2>1
<1>6. /\ IsFiniteSet(Newest(T, n)) /\ Cardinality(Newest(T, n)) \in Nat
      /\ IsFiniteSet(Newest(U, n)) /\ Cardinality(Newest(U, n)) \in Nat
      /\ Cardinality(Newest(U, n)) <= Cardinality(Newest(T, n))
  <2>1. Newest(T, n) \in SUBSET T
    BY DEF Newest
  <2>2. IsFiniteSet(Newest(T, n))
    BY <1>2, <2>1, FS_Subset
  <2> QED BY <1>5, <2>2, FS_Subset, FS_CardinalityType
<1>7. U \notin Bad
  BY <1>1, <1>3
<1>8. CASE Cardinality(Newest(U, n)) >= n
  BY <1>6, <1>8
<1>9. CASE Newest(U, n) = U /\ ~(Cardinality(U) >= n)
  <2>1. \A t \in T : t > m <=> t # m
    BY <1>2, <1>3
  <2>2. {t \in T : t > m} = U
    BY <2>1
  <2>3. m \in Newest(T, n)
    BY <1>4, <1>9, <2>2 DEF Newest
  <2>4. Newest(T, n) = T
    BY <1>5, <1>9, <2>3 DEF Newest
  <2> QED BY <2>4
<1> HIDE DEF U
<1> QED BY <1>4, <1>7, <1>8, <1>9

(* A name that is not among the newest n has n newer ones, and they are all *)
(* newer than it.                                                           *)
LEMMA OlderThanNewest ==
  ASSUME NEW S, S \subseteq Int, IsFiniteSet(S), NEW n \in Nat, NEW v \in S \ Newest(S, n)
  PROVE  /\ Cardinality(Newest(S, n)) >= n
         /\ \A s \in Newest(S, n) : s > v
<1>1. Newest(S, n) # S
  OBVIOUS
<1>2. ASSUME NEW s \in Newest(S, n), ~(s > v) PROVE FALSE
  <2>1. {t \in S : t > v} \subseteq {t \in S : t > s}
    <3>1. s \in Int /\ v \in Int /\ S \subseteq Int
      BY DEF Newest
    <3>2. \A t \in S : t > v => t > s
      BY <1>2, <3>1
    <3> QED BY <3>2
  <2>2. /\ IsFiniteSet({t \in S : t > s}) /\ IsFiniteSet({t \in S : t > v})
        /\ Cardinality({t \in S : t > s}) \in Nat /\ Cardinality({t \in S : t > v}) \in Nat
    BY FS_Subset, FS_CardinalityType
  <2>3. Cardinality({t \in S : t > v}) <= Cardinality({t \in S : t > s})
    BY <2>1, <2>2, FS_Subset
  <2>4. Cardinality({t \in S : t > s}) < n
    BY <1>2 DEF Newest
  <2>5. Cardinality({t \in S : t > v}) < n
    BY <2>2, <2>3, <2>4
  <2> QED BY <2>5 DEF Newest
<1> QED BY <1>1, <1>2, NewestAreEnough

-----------------------------------------------------------------------------
(* A prune leaves Keep whole snapshots.  Of a partly removed one there are  *)
(* always Keep whole ones newer than it: a prune that was killed had spared *)
(* them, and later prunes spare them because the partly removed ones are    *)
(* all older.                                                               *)
Newer(names, s) == {t \in names : t > s}

EnoughAfter(names, s) == Cardinality(Newer(names, s)) >= Keep

KeepInv ==
    /\ \A s \in Listed \ WholeSnapshots : EnoughAfter(WholeSnapshots, s)
    /\ \A p \in Procs : pc[p] = "remove" =>
          \A v \in run[p].todo : EnoughAfter(WholeSnapshots \ run[p].todo, v)

LEMMA EnoughGrows ==
  ASSUME NEW A, NEW B, A \subseteq B, B \subseteq Stamps,
         NEW v \in Stamps, NEW s \in Stamps, s <= v, EnoughAfter(A, v)
  PROVE  EnoughAfter(B, s) /\ Cardinality(B) >= Keep
<1>1. A \subseteq Int /\ B \subseteq Int /\ v \in Int /\ s \in Int
  BY StoreAssumption DEF Stamps
<1>2. Newer(A, v) \subseteq Newer(B, s) /\ Newer(B, s) \subseteq B
  <2>1. \A t \in B : t > v => t > s
    BY <1>1
  <2> QED BY <2>1 DEF Newer
<1>3. IsFiniteSet(B) /\ IsFiniteSet(Newer(B, s)) /\ IsFiniteSet(Newer(A, v))
  <2>1. IsFiniteSet(Stamps)
    BY StoreAssumption, FS_Interval DEF Stamps
  <2>2. IsFiniteSet(B)
    BY <2>1, FS_Subset
  <2> QED BY <1>2, <2>2, FS_Subset
<1>4. /\ Cardinality(Newer(A, v)) \in Nat /\ Cardinality(Newer(B, s)) \in Nat
      /\ Cardinality(B) \in Nat
      /\ Cardinality(Newer(A, v)) <= Cardinality(Newer(B, s))
      /\ Cardinality(Newer(B, s)) <= Cardinality(B)
  BY <1>2, <1>3, FS_Subset, FS_CardinalityType
<1> QED BY <1>4, PolicyAssumption DEF EnoughAfter

(* What a prune's list leaves out is Keep whole snapshots newer than        *)
(* whatever is on it.                                                       *)
LEMMA ListSpares ==
  ASSUME LockInv, KeepInv, NEW named, NEW now,
         NEW v \in PruneCandidates(Listed, named, now)
  PROVE  EnoughAfter(WholeSnapshots \ PruneCandidates(Listed, named, now), v)
<1> DEFINE todo == PruneCandidates(Listed, named, now)
<1>1. Listed \subseteq Stamps /\ Stamps \subseteq Int /\ v \in Listed \ Newest(Listed, Keep)
  BY StoreAssumption DEF Listed, Stamps, PruneCandidates
<1>2. IsFiniteSet(Stamps)
  BY StoreAssumption, FS_Interval DEF Stamps
<1>3. IsFiniteSet(Listed) /\ Listed \subseteq Int /\ Keep \in Nat
  BY <1>1, <1>2, FS_Subset, PolicyAssumption
<1>4. /\ Cardinality(Newest(Listed, Keep)) >= Keep
      /\ \A s \in Newest(Listed, Keep) : s > v
  BY ONLY <1>1, <1>3, OlderThanNewest
<1>5. ASSUME NEW s \in Newest(Listed, Keep), s \notin WholeSnapshots PROVE FALSE
  <2>1. s \in Listed /\ Cardinality(Newer(Listed, s)) < Keep
    BY <1>5 DEF Newest, Newer
  <2>2. Cardinality(Newer(WholeSnapshots, s)) >= Keep
    BY <1>5, <2>1 DEF KeepInv, EnoughAfter
  <2>3. WholeSnapshots \subseteq Listed
    BY DEF WholeSnapshots, Listed, Whole, Exists
  <2>4. Newer(WholeSnapshots, s) \subseteq Newer(Listed, s)
    BY <2>3 DEF Newer
  <2>5. /\ IsFiniteSet(Newer(Listed, s)) /\ IsFiniteSet(Newer(WholeSnapshots, s))
    BY <1>3, <2>4, FS_Subset DEF Newer
  <2>6. /\ Cardinality(Newer(WholeSnapshots, s)) <= Cardinality(Newer(Listed, s))
        /\ Cardinality(Newer(WholeSnapshots, s)) \in Nat
        /\ Cardinality(Newer(Listed, s)) \in Nat
    BY <2>4, <2>5, FS_Subset, FS_CardinalityType
  <2> QED BY <1>3, <2>1, <2>2, <2>6
<1>6. Newest(Listed, Keep) \subseteq Newer(WholeSnapshots \ todo, v)
  BY <1>4, <1>5 DEF Newer, PruneCandidates
<1>7. /\ IsFiniteSet(Newer(WholeSnapshots \ todo, v))
      /\ IsFiniteSet(Newest(Listed, Keep))
  <2>1. Newer(WholeSnapshots \ todo, v) \subseteq Stamps
    BY DEF Newer, WholeSnapshots
  <2> QED BY <1>2, <1>6, <2>1, FS_Subset
<1>8. /\ Cardinality(Newest(Listed, Keep)) <= Cardinality(Newer(WholeSnapshots \ todo, v))
      /\ Cardinality(Newest(Listed, Keep)) \in Nat
      /\ Cardinality(Newer(WholeSnapshots \ todo, v)) \in Nat
  BY <1>6, <1>7, FS_Subset, FS_CardinalityType
<1> HIDE DEF todo
<1>9. EnoughAfter(WholeSnapshots \ todo, v)
  BY <1>3, <1>4, <1>8 DEF EnoughAfter
<1> QED BY <1>9 DEF todo

(* All steps but these leave the snapshots alone and add nothing to the     *)
(* list of a prune.                                                         *)
Harmless ==
    /\ UNCHANGED snapshots
    /\ \A p \in Procs : pc'[p] = "remove" =>
          pc[p] = "remove" /\ run'[p].todo \subseteq run[p].todo

LEMMA HarmlessSteps ==
  ASSUME NoHand, LockInv, [Next]_vars
  PROVE  \/ Harmless
         \/ \E p \in Procs : \/ PromoteRename(p) \/ PruneList(p)
                             \/ PruneUnlinkLayout(p) \/ PruneUnlinkPanes(p)
<1>a. ProcessTypeOK /\ \A p \in Procs : run[p] \in RunType
  BY DEF LockInv, TypeOK, ProcessTypeOK
<1>1. ASSUME NEW p \in Procs, Start(p) PROVE Harmless
  BY <1>1, <1>a DEF Start, StartSave, StartImport, StartPrune, Acquire, Goto, disk, snapshots,
     Harmless, ProcessTypeOK
<1>2. ASSUME NEW p \in Procs,
             \/ Dial(p) \/ Sweep(p) \/ Collect(p) \/ Compare(p) \/ CompareFails(p)
             \/ StageBegin(p) \/ StageEnd(p) \/ Reject(p) \/ Discard(p)
      PROVE  Harmless
  BY <1>2, <1>a DEF Dial, Sweep, Collect, Compare, CompareFails, StageBegin, StageEnd, Reject,
     Discard, Goto, Leave, disk, snapshots, Harmless, ProcessTypeOK
<1>3. ASSUME NEW p \in Procs,
             \/ PromoteRefused(p) \/ PromoteLink(p) \/ PromoteSync(p)
             \/ TouchKept(p) \/ TouchUnchanged(p)
             \/ PruneReadLast(p) \/ PruneRejected(p) \/ PruneEnd(p)
      PROVE  Harmless
  BY <1>3, <1>a DEF PromoteRefused, PromoteLink, PromoteSync, TouchKept, TouchUnchanged,
     PruneReadLast, PruneRejected, PruneEnd, Goto, Leave, disk, snapshots, Harmless,
     ProcessTypeOK, RunType
<1>4. ASSUME NEW p \in Procs, PruneNext(p) PROVE Harmless
  BY <1>4, <1>a DEF PruneNext, disk, snapshots, Harmless, ProcessTypeOK, RunType
<1>5. ASSUME NEW p \in Procs, Fault(p) \/ Crash(p) PROVE Harmless
  BY <1>5, <1>a DEF Fault, DialFails, SweepFails, CollectFails, StageFails, RejectFails,
     DiscardFails, PromoteLinkFails, PromoteSyncFails, PruneFails, Crash, Goto, Leave, disk,
     snapshots, Harmless, ProcessTypeOK
<1>6. CASE Tick \/ ClockBack \/ UNCHANGED vars
  BY <1>6 DEF Tick, ClockBack, vars, disk, snapshots, Harmless
<1>7. ASSUME NEW s \in Stamps, DeleteByHand(s) PROVE FALSE
  BY <1>7 DEF DeleteByHand, Mishap, NoHand
<1> QED BY <1>1, <1>2, <1>3, <1>4, <1>5, <1>6, <1>7 DEF Next, Work

(* A file goes from a directory on a prune's list. *)
LEMMA RemovalKeeps ==
  ASSUME LockInv, KeepInv, NEW p \in Procs, NEW v \in Stamps, IsVictim(p, v),
         \A s \in Stamps : s # v => layout'[s] = layout[s] /\ panes'[s] = panes[s],
         ~Whole(v)', UNCHANGED <<pc, run>>
  PROVE  KeepInv' /\ Cardinality(WholeSnapshots') >= Keep
<1>1. v \in run[p].todo /\ pc[p] = "remove"
  BY DEF IsVictim
<1>2. /\ WholeSnapshots' = WholeSnapshots \ {v} /\ WholeSnapshots' \subseteq Stamps
      /\ (Listed \ WholeSnapshots)' \subseteq (Listed \ WholeSnapshots) \cup {v}
  BY DEF WholeSnapshots, Listed, Whole, Exists
<1>3. EnoughAfter(WholeSnapshots \ run[p].todo, v)
  BY <1>1 DEF KeepInv
<1>4. /\ WholeSnapshots \ run[p].todo \subseteq WholeSnapshots'
      /\ WholeSnapshots' \subseteq Stamps
  BY <1>1, <1>2
<1>5. Cardinality(WholeSnapshots') >= Keep
  <2>1. v <= v
    BY StoreAssumption DEF Stamps
  <2> QED BY ONLY <1>3, <1>4, <2>1, EnoughGrows
<1>6. ASSUME NEW s \in (Listed \ WholeSnapshots)' PROVE EnoughAfter(WholeSnapshots', s)
  <2>1. s \in Stamps /\ s \in Int /\ v \in Int
    BY StoreAssumption DEF Listed, Stamps
  <2>2. CASE s <= v
    BY ONLY <1>3, <1>4, <2>1, <2>2, EnoughGrows
  <2>3. CASE s > v
    <3>1. EnoughAfter(WholeSnapshots, s)
      BY <1>2, <1>6, <2>1, <2>3 DEF KeepInv
    <3>2. Newer(WholeSnapshots', s) = Newer(WholeSnapshots, s)
      BY <1>2, <2>1, <2>3 DEF Newer
    <3> QED BY <3>1, <3>2 DEF EnoughAfter
  <2> QED BY <2>1, <2>2, <2>3
<1>7. ASSUME NEW q \in Procs, pc'[q] = "remove", NEW u \in run'[q].todo
      PROVE  EnoughAfter(WholeSnapshots' \ run'[q].todo, u)
  <2>1. q = p
    BY <1>1, <1>7, OthersIdle
  <2>2. WholeSnapshots' \ run'[q].todo = WholeSnapshots \ run[p].todo
    BY <1>1, <1>2, <2>1
  <2> QED BY <1>1, <1>7, <2>1, <2>2 DEF KeepInv
<1> QED BY <1>5, <1>6, <1>7 DEF KeepInv

LEMMA UnlinkKeeps ==
  ASSUME LockInv, KeepInv, NEW p \in Procs, PruneUnlinkLayout(p) \/ PruneUnlinkPanes(p)
  PROVE  KeepInv' /\ Cardinality(WholeSnapshots') >= Keep
<1>a. DiskTypeOK
  BY DEF LockInv, TypeOK
<1>1. CASE PruneUnlinkLayout(p)
  BY <1>1, <1>a, RemovalKeeps DEF PruneUnlinkLayout, Whole, DiskTypeOK
<1>2. CASE PruneUnlinkPanes(p)
  BY <1>2, <1>a, RemovalKeeps DEF PruneUnlinkPanes, Whole, DiskTypeOK
<1> QED BY <1>1, <1>2

LEMMA KeepInvStep == NoHand /\ LockInv /\ KeepInv /\ [Next]_vars => KeepInv'
<1> SUFFICES ASSUME NoHand, LockInv, KeepInv, [Next]_vars PROVE KeepInv'
  OBVIOUS
<1>a. /\ DiskTypeOK /\ ProcessTypeOK /\ \A p \in Procs : Owned(p) /\ run[p] \in RunType
      /\ WholeSnapshots \subseteq Stamps
  BY DEF LockInv, TypeOK, ProcessTypeOK, WholeSnapshots
<1>1. CASE Harmless
  <2>1. Listed' = Listed /\ WholeSnapshots' = WholeSnapshots
    BY <1>1 DEF Harmless, snapshots, Listed, WholeSnapshots, Whole, Exists
  <2>2. ASSUME NEW p \in Procs, pc'[p] = "remove", NEW v \in run'[p].todo
        PROVE  EnoughAfter(WholeSnapshots' \ run'[p].todo, v)
    <3>1. pc[p] = "remove" /\ v \in run[p].todo /\ run'[p].todo \subseteq run[p].todo
      BY <1>1, <2>2 DEF Harmless
    <3>2. v \in Stamps /\ v <= v
      BY <1>a, <3>1, StoreAssumption DEF RunType, Stamps
    <3>3. EnoughAfter(WholeSnapshots \ run[p].todo, v)
      BY <3>1 DEF KeepInv
    <3>4. /\ WholeSnapshots \ run[p].todo \subseteq WholeSnapshots \ run'[p].todo
          /\ WholeSnapshots \ run'[p].todo \subseteq Stamps
      BY <1>a, <3>1
    <3> QED BY <2>1, <3>2, <3>3, <3>4, EnoughGrows
  <2> QED BY <2>1, <2>2 DEF KeepInv
<1>2. ASSUME NEW p \in Procs, PromoteRename(p) PROVE KeepInv'
  <2>1. pc[p] = "staged" /\ pc'[p] = "link" /\ \A q \in Procs : q # p => pc'[q] = "idle"
    BY <1>2, <1>a, OthersIdle DEF PromoteRename, Promotable, Goto, ProcessTypeOK
  <2>2. run[p].stamp \in Stamps /\ tmp[run[p].stamp] = "complete" /\ run[p].new # None
    BY <1>a, <2>1, StoreAssumption DEF Owned, AfterCollect, RunType
  <2>3. /\ WholeSnapshots \subseteq WholeSnapshots' /\ WholeSnapshots' \subseteq Stamps
        /\ (Listed \ WholeSnapshots)' \subseteq Listed \ WholeSnapshots
    <3>1. \A s \in Stamps : s # run[p].stamp =>
             layout'[s] = layout[s] /\ panes'[s] = panes[s]
      BY <1>2, <1>a DEF PromoteRename, DiskTypeOK
    <3>2. Whole(run[p].stamp)' /\ ~Exists(run[p].stamp) /\ run' = run
      BY <1>2, <1>a, <2>2 DEF PromoteRename, Whole, DiskTypeOK
    <3>3. \A s \in Stamps : s # run[p].stamp =>
             (Whole(s)' <=> Whole(s)) /\ (Exists(s)' <=> Exists(s))
      BY <3>1 DEF Whole, Exists
    <3>4. ~Whole(run[p].stamp)
      BY <3>2 DEF Whole, Exists
    <3> QED BY <3>2, <3>3, <3>4 DEF WholeSnapshots, Listed
  <2>4. ASSUME NEW s \in (Listed \ WholeSnapshots)' PROVE EnoughAfter(WholeSnapshots', s)
    <3>1. s \in Stamps /\ s <= s /\ EnoughAfter(WholeSnapshots, s)
      BY <2>3, <2>4, StoreAssumption DEF KeepInv, Listed, Stamps
    <3> QED BY <2>3, <3>1, EnoughGrows
  <2> QED BY <2>1, <2>4 DEF KeepInv
<1>3. ASSUME NEW p \in Procs, PruneList(p) PROVE KeepInv'
  <2> DEFINE todo == PruneCandidates(Listed, run[p].target, clock)
  <2>1. Listed' = Listed /\ WholeSnapshots' = WholeSnapshots
    BY <1>3 DEF PruneList, disk, Listed, WholeSnapshots, Whole, Exists
  <2>2. run'[p].todo = todo
    BY <1>3, <1>a DEF PruneList, ProcessTypeOK, RunType
  <2>3. \A q \in Procs : pc'[q] = "remove" => q = p
    BY <1>3, <1>a, OthersIdle DEF PruneList, Goto, ProcessTypeOK
  <2>4. \A v \in todo : EnoughAfter(WholeSnapshots \ todo, v)
    BY ListSpares
  <2> HIDE DEF todo
  <2> QED BY <2>1, <2>2, <2>3, <2>4 DEF KeepInv
<1>4. ASSUME NEW p \in Procs, PruneUnlinkLayout(p) \/ PruneUnlinkPanes(p) PROVE KeepInv'
  BY <1>4, UnlinkKeeps
<1> QED BY <1>1, <1>2, <1>3, <1>4, HarmlessSteps

(* A prune never takes a whole snapshot away but that Keep whole ones are   *)
(* left, whatever killed prunes and clocks set back have made of the        *)
(* directory before.                                                        *)
THEOREM KeepsAreKept == NoHand => (Spec => KeepsEnough)
<1> SUFFICES ASSUME NoHand PROVE Spec => KeepsEnough
  OBVIOUS
<1> DEFINE Enough == WholeSnapshots' \subseteq WholeSnapshots
                     /\ WholeSnapshots' # WholeSnapshots
                        => Cardinality(WholeSnapshots') >= Keep
<1>1. Init => KeepInv
  BY DEF Init, KeepInv, Listed, Exists
<1>2. LockInv /\ KeepInv /\ [Next]_vars => KeepInv'
  BY KeepInvStep
<1>3. LockInv /\ KeepInv /\ [Next]_vars => [Enough]_vars
  <2> SUFFICES ASSUME LockInv, KeepInv, [Next]_vars,
                      WholeSnapshots' \subseteq WholeSnapshots,
                      WholeSnapshots' # WholeSnapshots
               PROVE  Cardinality(WholeSnapshots') >= Keep
    OBVIOUS
  <2>1. CASE Harmless \/ \E p \in Procs : PruneList(p)
    BY <2>1 DEF Harmless, PruneList, disk, snapshots, WholeSnapshots, Whole
  <2>2. ASSUME NEW p \in Procs, PromoteRename(p) PROVE FALSE
    <3>1. run[p].stamp \in Stamps /\ tmp[run[p].stamp] = "complete" /\ run[p].new # None
      BY <2>2, RunFields, StoreAssumption
         DEF PromoteRename, Promotable, LockInv, Owned, AfterCollect, TypeOK, ProcessTypeOK
    <3>2. run[p].stamp \in WholeSnapshots' \ WholeSnapshots
      BY <2>2, <3>1 DEF PromoteRename, WholeSnapshots, Whole, Exists, LockInv, TypeOK, DiskTypeOK
    <3> QED BY <3>2
  <2> QED BY <2>1, <2>2, UnlinkKeeps, HarmlessSteps
<1> QED BY <1>1, <1>2, <1>3, AlwaysLockInv, PTL DEF Spec, KeepsEnough


-----------------------------------------------------------------------------
(* The guard is never blind, even where snapshots are deleted by hand *)

Deciding == {"stage", "staging", "staged", "link"}

(* A save past its comparison has no base exactly where there is no `last`. *)
BaseInv ==
    \A p \in Procs : pc[p] \in Deciding /\ run[p].job = "save" =>
        (run[p].base = None <=> last = None)

(* A process comes to such a step by Compare, as an import, or from another *)
(* such step with what it knows.                                            *)
LEMMA DecidingSteps ==
  ASSUME LockInv, [Next]_vars, NEW p \in Procs, pc'[p] \in Deciding, run'[p].job = "save"
  PROVE  \/ Compare(p)
         \/ pc[p] \in Deciding /\ run[p].job = "save" /\ run'[p].base = run[p].base
<1>a. ProcessTypeOK /\ \A q \in Procs : run[q] \in RunType
  BY DEF LockInv, TypeOK, ProcessTypeOK
<1> DEFINE Same == pc[p] \in Deciding /\ run[p].job = "save" /\ run'[p].base = run[p].base
<1>1. ASSUME NEW q \in Procs, Start(q) PROVE Same
  BY <1>1, <1>a DEF Deciding, Start, StartSave, StartImport, StartPrune, Acquire, Goto,
     ProcessTypeOK
<1>2. ASSUME NEW q \in Procs, Dial(q) \/ Sweep(q) \/ StageBegin(q) \/ StageEnd(q) PROVE Same
  BY <1>2, <1>a DEF Deciding, Dial, Sweep, StageBegin, StageEnd, Goto, ProcessTypeOK
<1>3. ASSUME NEW q \in Procs, Collect(q) PROVE Same
  BY <1>3, <1>a DEF Deciding, Collect, Goto, ProcessTypeOK, RunType
<1>4. ASSUME NEW q \in Procs, Compare(q) PROVE Compare(p) \/ Same
  BY <1>4, <1>a DEF Deciding, Compare, Goto, ProcessTypeOK
<1>5. ASSUME NEW q \in Procs, Reject(q) \/ Discard(q) \/ CompareFails(q) \/ PromoteRefused(q)
      PROVE  Same
  BY <1>5, <1>a DEF Deciding, CompareFails, Reject, Discard, PromoteRefused, Leave, ProcessTypeOK
<1>6. ASSUME NEW q \in Procs, \/ PromoteRename(q) \/ PromoteLink(q) \/ PromoteSync(q)
                              \/ TouchKept(q) \/ TouchUnchanged(q)
      PROVE  Same
  BY <1>6, <1>a DEF Deciding, PromoteRename, Promotable, PromoteLink, PromoteSync, TouchKept,
     TouchUnchanged, Goto, Leave, ProcessTypeOK
<1>7. ASSUME NEW q \in Procs, \/ PruneReadLast(q) \/ PruneList(q) \/ PruneRejected(q) \/ PruneEnd(q)
                              \/ PruneNext(q) \/ PruneUnlinkLayout(q) \/ PruneUnlinkPanes(q)
      PROVE  Same
  BY <1>7, <1>a DEF Deciding, PruneReadLast, PruneList, PruneRejected, PruneEnd, PruneNext, IsVictim,
     PruneUnlinkLayout, PruneUnlinkPanes, Goto, Leave, ProcessTypeOK, RunType
<1>8. ASSUME NEW q \in Procs, Fault(q) \/ Crash(q) PROVE Same
  BY <1>8, <1>a DEF Deciding, Fault, DialFails, SweepFails, CollectFails, StageFails,
     RejectFails, DiscardFails, PromoteLinkFails, PromoteSyncFails, PruneFails, Crash, Goto,
     Leave, ProcessTypeOK
<1>9. CASE Tick \/ ClockBack \/ (\E s \in Stamps : DeleteByHand(s)) \/ UNCHANGED vars
  BY <1>9 DEF Tick, ClockBack, DeleteByHand, vars
<1> QED BY <1>1, <1>2, <1>3, <1>4, <1>5, <1>6, <1>7, <1>8, <1>9 DEF Next, Work

LEMMA BaseInvStep == LockInv /\ BaseInv /\ [Next]_vars => BaseInv'
<1> SUFFICES ASSUME LockInv, BaseInv, [Next]_vars,
                    NEW p \in Procs, pc'[p] \in Deciding, run'[p].job = "save"
             PROVE  run'[p].base = None <=> last' = None
  BY DEF BaseInv
<1>1. CASE last' # last
  <2>1. PICK q \in Procs : PromoteLink(q)
    BY <1>1, LastMoves
  <2>2. pc'[q] = "sync" /\ \A o \in Procs : o # q => pc'[o] = "idle"
    BY <2>1, OthersIdle DEF PromoteLink, Goto, LockInv, TypeOK, ProcessTypeOK
  <2> QED BY <2>2 DEF Deciding
<1>2. CASE last' = last /\ Compare(p)
  <2>1. run'[p].base = IF last = None THEN None ELSE layout[last]
    BY <1>2 DEF Compare, LockInv, TypeOK, ProcessTypeOK, RunType
  <2> QED BY <1>2, <2>1 DEF Compare, Comparable, Loads
<1> QED BY <1>1, <1>2, DecidingSteps DEF BaseInv

(* When a save moves `last`, it has compared with what `last` named, or     *)
(* there was nothing there; and nobody has to refrain from deleting for it. *)
THEOREM GuardSeesTheBase == Spec => GuardNeverBlind
<1> DEFINE Sighted ==
      \A p \in Procs : (last' # last /\ pc[p] = "link" /\ run[p].job = "save")
          => (run[p].base = None <=> last = None)
<1>1. Init => BaseInv
  BY DEF Init, BaseInv, Deciding
<1>2. BaseInv => [Sighted]_vars
  BY DEF BaseInv, Deciding
<1> QED BY <1>1, <1>2, BaseInvStep, AlwaysLockInv, PTL DEF Spec, GuardNeverBlind

(***************************************************************************)
(* What an unlocked restore is promised, for every number of readers and   *)
(* processes, layouts, seconds and mishaps, where the clock runs forward   *)
(* and nobody deletes by hand.  The invariant has three parts: names only  *)
(* grow (NameInv), what is newer than `last` was left by a mishap or is    *)
(* being linked (AheadInv), and what each reader holds on to (ReadInv).    *)
(***************************************************************************)

Forward == NoHand /\ "clock_back" \notin Mishaps

(* The steps of a process that has a name for its snapshot. *)
Named == {"compare", "unchanged", "stage", "staging", "staged", "link"}

(* No name is later than the clock, nor than one chosen after it was there; *)
(* and what a prune removes is older than any name still to be chosen.      *)
NameInv ==
    /\ \A s \in Listed : s <= clock
    /\ \A p \in Procs :
          /\ run[p].stamp <= clock
          /\ pc[p] \in Named => \A s \in Listed : s <= run[p].stamp
          /\ pc[p] = "remove" => \A v \in run[p].todo : v < clock
          /\ pc[p] = "link" => last # run[p].stamp

(* A snapshot renamed into place whose link is still to be moved. *)
InLink == IF \E p \in Procs : pc[p] = "link" THEN 1 ELSE 0

AheadInv == last # None => Cardinality(Newer(Listed, last)) <= mishaps + InLink

(* A name that is free for good. *)
Gone(s) ==
    /\ ~Exists(s)
    /\ s < clock
    /\ \A p \in Procs : pc[p] \in Named => run[p].stamp # s

RPCs == {"resolve", "nothing", "load", "newest", "open", "read", "complete",
         "textless", "failed"}

Enough(r) == moved[r] + mishaps >= Keep

(* While fewer than Keep saves have come between, what a reader resolved is *)
(* whole and on no prune's list, for lack of newer snapshots.               *)
Kept(r) ==
    /\ Whole(target[r])
    /\ Cardinality(Newer(Listed, target[r])) <= mishaps + moved[r] + InLink
    /\ \A p \in Procs : pc[p] = "remove" => target[r] \notin run[p].todo

ReadInv(r) ==
    /\ moved[r] \in 0..Keep
    /\ rpc[r] \in {"load", "open", "read"} => target[r] \in Stamps /\ (Enough(r) \/ Kept(r))
    /\ rpc[r] \in {"open", "read"} =>
          /\ seen[r] # None
          /\ \/ Exists(target[r]) /\ layout[target[r]] \in {None, seen[r]}
             \/ Gone(target[r])
    /\ Lost(r) => Enough(r)

ReaderTypes ==
    /\ rpc \in [Readers -> RPCs] /\ moved \in [Readers -> Nat]
    /\ target \in [Readers -> Stamps \cup {None}]
    /\ seen \in [Readers -> Layouts \cup {None}]

ReaderInv ==
    /\ NameInv /\ AheadInv
    /\ ReaderTypes
    /\ \A r \in Readers : ReadInv(r)

-----------------------------------------------------------------------------
(* What the steps of the directory may do to all this *)

(* Steps that leave the snapshots and `last` alone, choose no name but that *)
(* of the present second, and take nobody from a rename on but with a       *)
(* mishap.                                                                  *)
Calm ==
    /\ Harmless
    /\ UNCHANGED last
    /\ clock <= clock' /\ mishaps <= mishaps'
    /\ \A p \in Procs : run'[p].stamp \in {0, run[p].stamp, clock}
    /\ \A p \in Procs : pc'[p] \in Named =>
          \/ run'[p].stamp = clock
          \/ pc[p] \in Named /\ run'[p].stamp = run[p].stamp
    /\ \A p \in Procs : pc'[p] = "link" => pc[p] = "link" /\ run'[p].stamp = run[p].stamp
    /\ mishaps' = mishaps => \A p \in Procs : pc[p] = "link" => pc'[p] = "link"

LEMMA CalmSteps ==
  ASSUME Forward, LockInv, [Next]_vars
  PROVE  \/ Calm
         \/ \E p \in Procs : \/ PromoteRename(p) \/ PromoteLink(p) \/ PruneList(p)
                             \/ PruneUnlinkLayout(p) \/ PruneUnlinkPanes(p)
<1>a. /\ ProcessTypeOK /\ \A p \in Procs : run[p] \in RunType
      /\ clock \in Nat /\ mishaps \in Nat
  BY StoreAssumption DEF LockInv, TypeOK, ProcessTypeOK, DiskTypeOK, Stamps
<1> SUFFICES ASSUME Harmless, ~\E p \in Procs : PromoteLink(p) PROVE Calm \/ \E p \in Procs : PruneList(p)
  BY HarmlessSteps DEF Forward
<1>0. ASSUME NEW p \in Procs, Start(p) PROVE Calm
  BY <1>0, <1>a DEF Calm, Named, Start, StartSave, StartImport, StartPrune, Acquire, Goto, env,
     disk, ProcessTypeOK, Blank
<1>1. ASSUME NEW p \in Procs, Dial(p) \/ Sweep(p) \/ StageBegin(p) \/ StageEnd(p)
      PROVE  Calm
  BY <1>1, <1>a DEF Calm, Named, Dial, Sweep, StageBegin, StageEnd, Goto, env, disk, ProcessTypeOK
<1>2. ASSUME NEW p \in Procs, Collect(p)
      PROVE  Calm
  BY <1>2, <1>a DEF Calm, Named, Collect, Goto, env, disk, ProcessTypeOK, RunType
<1>3. ASSUME NEW p \in Procs, Compare(p)
      PROVE  Calm
  BY <1>3, <1>a DEF Calm, Named, Compare, Goto, env, disk, ProcessTypeOK, RunType
<1>4. ASSUME NEW p \in Procs, Reject(p) \/ Discard(p) \/ CompareFails(p) \/ PromoteRefused(p)
      PROVE  Calm
  BY <1>4, <1>a DEF Calm, Named, CompareFails, Reject, Discard, PromoteRefused, Promotable, Goto,
     Leave, Mishap, env, disk, ProcessTypeOK, Blank
<1>5. ASSUME NEW p \in Procs, PromoteSync(p) \/ TouchKept(p) \/ TouchUnchanged(p)
      PROVE  Calm
  BY <1>5, <1>a DEF Calm, Named, PromoteSync, TouchKept, TouchUnchanged, Marked, Goto,
     Leave, Mishap, env, disk, ProcessTypeOK, Blank
<1>6. ASSUME NEW p \in Procs, PruneReadLast(p) \/ PruneRejected(p) \/ PruneEnd(p) \/ PruneNext(p)
      PROVE  Calm
  BY <1>6, <1>a DEF Calm, Named, PruneReadLast, PruneRejected, PruneEnd, PruneNext, IsVictim, Goto,
     Leave, env, disk, ProcessTypeOK, Blank, RunType
<1>7. ASSUME NEW p \in Procs, Fault(p) \/ Crash(p)
      PROVE  Calm
  BY <1>7, <1>a DEF Calm, Named, Fault, DialFails, SweepFails, CollectFails, StageFails,
     RejectFails, DiscardFails, PromoteLinkFails, PromoteSyncFails, PruneFails, Crash, Goto,
     Leave, Mishap, env, disk, ProcessTypeOK, Blank
<1>8. CASE Tick \/ UNCHANGED vars
  BY <1>8, <1>a DEF Calm, Named, Tick, vars, disk
<1>9. ~ClockBack /\ ~\E s \in Stamps : DeleteByHand(s)
  BY DEF ClockBack, DeleteByHand, Mishap, Forward, NoHand
<1>10. ASSUME NEW p \in Procs,
              \/ PromoteRename(p) \/ PruneUnlinkLayout(p) \/ PruneUnlinkPanes(p)
       PROVE  FALSE
  <2>a. DiskTypeOK /\ run[p].stamp \in Stamps /\ Owned(p)
    BY <1>a, RunFields DEF LockInv, TypeOK
  <2>1. CASE PromoteRename(p)
    <3>1. run[p].new # None /\ layout[run[p].stamp] = None
      BY <2>1, <2>a, StoreAssumption DEF PromoteRename, Promotable, Exists, Owned, AfterCollect
    <3> QED BY <2>1, <2>a, <3>1 DEF PromoteRename, Harmless, snapshots, DiskTypeOK
  <2>2. CASE PruneUnlinkLayout(p) \/ PruneUnlinkPanes(p)
    BY <2>2, <2>a DEF PruneUnlinkLayout, PruneUnlinkPanes, Harmless, snapshots, DiskTypeOK
  <2> QED BY <1>10, <2>1, <2>2
<1> QED BY <1>0, <1>1, <1>2, <1>3, <1>4, <1>5, <1>6, <1>7, <1>8, <1>9, <1>10 DEF Next, Work

LEMMA StoreFacts ==
  ASSUME LockInv
  PROVE  /\ DiskTypeOK /\ ProcessTypeOK
         /\ clock \in Nat /\ mishaps \in Nat /\ Stamps \subseteq Nat
         /\ \A p \in Procs : /\ Owned(p) /\ run[p] \in RunType
                             /\ run[p].stamp \in Stamps /\ run[p].todo \subseteq Stamps
  BY StoreAssumption DEF LockInv, TypeOK, DiskTypeOK, ProcessTypeOK, Stamps, RunType

(* Whatever is renamed into place was not there, and is whole then. *)
LEMMA RenameAdds ==
  ASSUME LockInv, NEW p \in Procs, PromoteRename(p)
  PROVE  /\ pc[p] = "staged" /\ pc' = [pc EXCEPT ![p] = "link"] /\ pc'[p] = "link"
         /\ \A q \in Procs : q # p => pc[q] = "idle" /\ pc'[q] = "idle"
         /\ ~Exists(run[p].stamp)
         /\ Listed' = Listed \cup {run[p].stamp}
         /\ \A s \in Stamps : s # run[p].stamp =>
               layout'[s] = layout[s] /\ panes'[s] = panes[s]
         /\ UNCHANGED <<clock, mishaps, last, run>>
<1>a. /\ DiskTypeOK /\ ProcessTypeOK /\ Owned(p) /\ run[p].stamp \in Stamps
  BY StoreFacts
<1>1. /\ pc[p] = "staged" /\ pc' = [pc EXCEPT ![p] = "link"] /\ pc'[p] = "link"
      /\ \A q \in Procs : q # p => pc[q] = "idle" /\ pc'[q] = "idle"
      /\ ~Exists(run[p].stamp)
      /\ UNCHANGED <<clock, mishaps, last, run>>
  BY <1>a, OthersIdle DEF PromoteRename, Promotable, Goto, ProcessTypeOK, env
<1>2. /\ \A s \in Stamps : s # run[p].stamp =>
               layout'[s] = layout[s] /\ panes'[s] = panes[s]
      /\ layout'[run[p].stamp] # None
  BY <1>a, <1>1, StoreAssumption DEF PromoteRename, DiskTypeOK, Owned, AfterCollect
<1>3. Listed' = Listed \cup {run[p].stamp}
  BY <1>a, <1>2 DEF Listed, Exists
<1> QED BY <1>1, <1>2, <1>3

(* A prune's step takes a file of something on its list. *)
LEMMA UnlinkRemoves ==
  ASSUME LockInv, NEW p \in Procs, PruneUnlinkLayout(p) \/ PruneUnlinkPanes(p)
  PROVE  /\ pc[p] = "remove" /\ \A q \in Procs : q # p => pc[q] = "idle"
         /\ UNCHANGED <<clock, mishaps, last, pc, run>>
         /\ Listed' \subseteq Listed
         /\ \E v \in run[p].todo :
               /\ \A s \in Stamps : s # v => layout'[s] = layout[s] /\ panes'[s] = panes[s]
               /\ layout'[v] \in {None, layout[v]}
<1>a. DiskTypeOK /\ run[p].todo \subseteq Stamps
  BY StoreFacts
<1>1. CASE PruneUnlinkLayout(p)
  <2>1. PICK v \in Stamps : IsVictim(p, v) /\ layout' = [layout EXCEPT ![v] = None] /\ layout[v] # None
    BY <1>1 DEF PruneUnlinkLayout
  <2>2. panes' = panes /\ UNCHANGED <<clock, mishaps, last, pc, run>>
    BY <1>1 DEF PruneUnlinkLayout, env
  <2> QED BY <1>a, <2>1, <2>2, OthersIdle DEF IsVictim, DiskTypeOK, Listed, Exists
<1>2. CASE PruneUnlinkPanes(p)
  <2>1. PICK v \in Stamps, left \in {"none", "some"} :
           IsVictim(p, v) /\ panes' = [panes EXCEPT ![v] = left] /\ panes[v] # "none"
    BY <1>2 DEF PruneUnlinkPanes
  <2>2. layout' = layout /\ UNCHANGED <<clock, mishaps, last, pc, run>>
    BY <1>2 DEF PruneUnlinkPanes, env
  <2> QED BY <1>a, <2>1, <2>2, OthersIdle DEF IsVictim, DiskTypeOK, Listed, Exists
<1> QED BY <1>1, <1>2

(* Something on a prune's list is older than another name, and older than   *)
(* Keep of them.                                                            *)
LEMMA ListIsOlder ==
  ASSUME LockInv, NEW t, NEW now, NEW v \in PruneCandidates(Listed, t, now)
  PROVE  /\ v \in Listed /\ Cardinality(Newer(Listed, v)) >= Keep
         /\ \E s \in Listed : s > v
<1>1. v \in Listed /\ ~(Cardinality(Newer(Listed, v)) < Keep)
  BY DEF PruneCandidates, Newest, Newer
<1>2. IsFiniteSet(Newer(Listed, v)) /\ Cardinality(Newer(Listed, v)) \in Nat
  <2>1. IsFiniteSet(Stamps)
    BY StoreAssumption, FS_Interval DEF Stamps
  <2>2. Newer(Listed, v) \subseteq Stamps
    BY DEF Newer, Listed
  <2> QED BY <2>1, <2>2, FS_Subset, FS_CardinalityType
<1>3. Cardinality(Newer(Listed, v)) >= Keep /\ Cardinality(Newer(Listed, v)) # 0
  BY <1>1, <1>2, PolicyAssumption
<1>4. Newer(Listed, v) # {}
  BY <1>3, FS_EmptySet
<1> QED BY <1>1, <1>3, <1>4 DEF Newer

LEMMA ListSets ==
  ASSUME LockInv, NEW p \in Procs, PruneList(p)
  PROVE  /\ pc[p] = "list" /\ pc'[p] = "remove"
         /\ \A q \in Procs : q # p => pc[q] = "idle" /\ pc'[q] = "idle"
         /\ run'[p].todo = PruneCandidates(Listed, run[p].target, clock)
         /\ \A q \in Procs : run'[q].stamp = run[q].stamp
         /\ UNCHANGED <<clock, mishaps, last, layout, panes>>
  BY StoreFacts, OthersIdle DEF PruneList, Goto, ProcessTypeOK, RunType, env, disk

LEMMA LinkMoves ==
  ASSUME LockInv, NEW p \in Procs, PromoteLink(p)
  PROVE  /\ pc[p] = "link" /\ pc'[p] = "sync" /\ last' = run[p].stamp
         /\ \A q \in Procs : q # p => pc[q] = "idle" /\ pc'[q] = "idle"
         /\ UNCHANGED <<clock, mishaps, layout, panes, run>>
  BY StoreFacts, OthersIdle DEF PromoteLink, Goto, ProcessTypeOK, env, snapshots

-----------------------------------------------------------------------------
(* NameInv and AheadInv *)

LEMMA NameInvStep ==
  ASSUME Forward, LockInv, LastInv, NameInv, [Next]_vars
  PROVE  NameInv'
<1>a. clock \in Nat /\ Stamps \subseteq Nat /\ Listed \subseteq Stamps
      /\ \A p \in Procs : run[p].stamp \in Stamps /\ run[p].todo \subseteq Stamps
  BY StoreFacts DEF Listed
<1>1. CASE Calm
  <2>1. Listed' = Listed
    BY <1>1 DEF Calm, Harmless, snapshots, Listed, Exists
  <2>2. clock' \in Nat /\ clock <= clock'
    BY <1>1, LockInvStep, StoreFacts DEF Calm, LockInv, TypeOK, DiskTypeOK, Stamps
  <2>3. \A s \in Listed : s <= clock'
    BY <1>a, <2>2 DEF NameInv
  <2>4. ASSUME NEW p \in Procs
        PROVE  /\ run'[p].stamp <= clock'
               /\ pc'[p] \in Named => \A s \in Listed : s <= run'[p].stamp
               /\ pc'[p] = "remove" => \A v \in run'[p].todo : v < clock'
               /\ pc'[p] = "link" => last' # run'[p].stamp
    <3>1. run'[p].stamp <= clock'
      <4>1. run'[p].stamp \in {0, run[p].stamp, clock}
        BY <1>1 DEF Calm
      <4>2. run[p].stamp \in Nat /\ run[p].stamp <= clock
        BY <1>a DEF NameInv
      <4> QED BY <1>a, <2>2, <4>1, <4>2
    <3>2. pc'[p] \in Named => \A s \in Listed : s <= run'[p].stamp
      BY <1>1 DEF Calm, NameInv
    <3>3. pc'[p] = "remove" => \A v \in run'[p].todo : v < clock'
      <4> SUFFICES ASSUME pc'[p] = "remove", NEW v \in run'[p].todo PROVE v < clock'
        OBVIOUS
      <4>1. pc[p] = "remove" /\ v \in run[p].todo
        BY <1>1 DEF Calm, Harmless
      <4>2. v \in Nat /\ v < clock
        BY <1>a, <4>1 DEF NameInv
      <4> QED BY <1>a, <2>2, <4>2
    <3>4. pc'[p] = "link" => last' # run'[p].stamp
      BY <1>1 DEF Calm, NameInv
    <3> QED BY <3>1, <3>2, <3>3, <3>4
  <2> QED BY <2>1, <2>3, <2>4 DEF NameInv
<1>2. ASSUME NEW p \in Procs, PromoteRename(p) PROVE NameInv'
  <2>1. last # run[p].stamp
    BY <1>2, <1>a, RenameAdds, StoreAssumption DEF LastInv, LastWhole, Whole, Exists
  <2>2. \A s \in Listed' : s <= clock /\ s <= run[p].stamp
    <3>1. pc[p] \in Named /\ Listed' = Listed \cup {run[p].stamp}
      BY <1>2, RenameAdds DEF Named
    <3>2. run[p].stamp <= clock /\ run[p].stamp <= run[p].stamp
      <4>1. run[p].stamp \in Nat
        BY <1>a
      <4> QED BY <4>1 DEF NameInv
    <3> QED BY <3>1, <3>2 DEF NameInv
  <2> QED BY <1>2, <2>1, <2>2, RenameAdds DEF NameInv, Named
<1>3. ASSUME NEW p \in Procs, PromoteLink(p) PROVE NameInv'
  <2>1. Listed' = Listed
    BY <1>3, LinkMoves DEF Listed, Exists
  <2> QED BY <1>3, <2>1, LinkMoves DEF NameInv, Named
<1>4. ASSUME NEW p \in Procs, PruneList(p) PROVE NameInv'
  <2>1. Listed' = Listed
    BY <1>4, ListSets DEF Listed, Exists
  <2>2. \A v \in run'[p].todo : v < clock
    <3> SUFFICES ASSUME NEW v \in PruneCandidates(Listed, run[p].target, clock)
                 PROVE  v < clock
      BY <1>4, ListSets
    <3>1. v \in Listed /\ \E s \in Listed : s > v
      BY ListIsOlder
    <3> QED BY <1>a, <3>1 DEF NameInv
  <2> QED BY <1>4, <2>1, <2>2, ListSets DEF NameInv, Named
<1>5. ASSUME NEW p \in Procs, PruneUnlinkLayout(p) \/ PruneUnlinkPanes(p) PROVE NameInv'
  BY <1>5, UnlinkRemoves DEF NameInv, Named
<1> QED BY <1>1, <1>2, <1>3, <1>4, <1>5, CalmSteps

LEMMA NewerSize ==
  ASSUME NEW B \in SUBSET Stamps, NEW A \in SUBSET B, NEW v \in Stamps, NEW s \in Stamps
  PROVE  /\ Cardinality(Newer(A, v)) \in Nat /\ Cardinality(Newer(B, v)) \in Nat
         /\ Cardinality(Newer(A, v)) <= Cardinality(Newer(B, v))
         /\ Cardinality(Newer(B \cup {s}, v)) \in Nat
         /\ Cardinality(Newer(B \cup {s}, v)) <= Cardinality(Newer(B, v)) + 1
<1>1. IsFiniteSet(Stamps)
  BY StoreAssumption, FS_Interval DEF Stamps
<1>2. /\ Newer(A, v) \in SUBSET Newer(B, v) /\ Newer(B, v) \in SUBSET Stamps
      /\ Newer(B \cup {s}, v) \in SUBSET (Newer(B, v) \cup {s})
  BY DEF Newer
<1>3. IsFiniteSet(Newer(B, v))
  BY <1>1, <1>2, FS_Subset
<1>4. /\ IsFiniteSet(Newer(B, v) \cup {s})
      /\ Cardinality(Newer(B, v) \cup {s}) <= Cardinality(Newer(B, v)) + 1
  <2>1. Cardinality(Newer(B, v)) \in Nat
    BY <1>3, FS_CardinalityType
  <2>2. /\ IsFiniteSet(Newer(B, v) \cup {s})
        /\ \/ Cardinality(Newer(B, v) \cup {s}) = Cardinality(Newer(B, v))
           \/ Cardinality(Newer(B, v) \cup {s}) = Cardinality(Newer(B, v)) + 1
    BY <1>3, FS_AddElement
  <2> QED BY ONLY <2>1, <2>2
<1>5. /\ IsFiniteSet(Newer(A, v)) /\ IsFiniteSet(Newer(B \cup {s}, v))
      /\ Cardinality(Newer(A, v)) <= Cardinality(Newer(B, v))
      /\ Cardinality(Newer(B \cup {s}, v)) <= Cardinality(Newer(B, v) \cup {s})
  BY <1>2, <1>3, <1>4, FS_Subset
<1>6. /\ Cardinality(Newer(A, v)) \in Nat /\ Cardinality(Newer(B, v)) \in Nat
      /\ Cardinality(Newer(B \cup {s}, v)) \in Nat
      /\ Cardinality(Newer(B, v) \cup {s}) \in Nat
  BY <1>3, <1>4, <1>5, FS_CardinalityType
<1> QED BY <1>4, <1>5, <1>6

LEMMA OneMore ==
  ASSUME NEW m \in Nat, NEW mm \in Nat, NEW i \in Nat, NEW ii \in Nat,
         m <= mm, i <= 1, mm = m => i <= ii
  PROVE  m + i <= mm + ii
OBVIOUS

LEMMA Bounded ==
  ASSUME NEW c \in Nat, NEW n \in Nat, NEW m \in Nat, NEW mm \in Nat, NEW i \in Nat, NEW ii \in Nat,
         c <= m + n + i, m + i <= mm + ii
  PROVE  c <= mm + n + ii /\ c <= mm + n + 1 + ii
OBVIOUS

(* How much is newer than a given name, at most, as the directory goes on.  *)
LEMMA NewerSteps ==
  ASSUME Forward, LockInv, LastInv, NameInv, [Next]_vars, NEW v \in Stamps, NEW n \in Nat,
         Cardinality(Newer(Listed, v)) <= mishaps + n + InLink
  PROVE  /\ last' = last => Cardinality(Newer(Listed', v)) <= mishaps' + n + InLink'
         /\ Cardinality(Newer(Listed', v)) <= mishaps' + n + 1 + InLink'
         /\ mishaps' \in Nat /\ InLink' \in {0, 1} /\ mishaps <= mishaps'
<1>a. Listed \in SUBSET Stamps /\ mishaps \in Nat /\ InLink \in {0, 1} /\ InLink' \in {0, 1}
      /\ mishaps' \in Nat
  BY StoreFacts, LockInvStep, StoreAssumption
     DEF Listed, InLink, LockInv, TypeOK, DiskTypeOK
<1>c. /\ mishaps \in Nat /\ mishaps' \in Nat
      /\ InLink \in Nat /\ InLink <= 1 /\ InLink' \in Nat /\ InLink' <= 1
  BY <1>a
<1>b. Cardinality(Newer(Listed, v)) \in Nat
  BY <1>a, NewerSize
<1>1. CASE Calm
  <2>1. Listed' = Listed /\ mishaps <= mishaps'
    BY <1>1 DEF Calm, Harmless, snapshots, Listed, Exists
  <2>2. mishaps + InLink <= mishaps' + InLink'
    <3>1. mishaps' = mishaps => InLink <= InLink'
      <4>1. mishaps' = mishaps =>
               ((\E p \in Procs : pc[p] = "link") => (\E p \in Procs : pc'[p] = "link"))
        BY <1>1 DEF Calm
      <4> QED BY <4>1 DEF InLink
    <3> QED BY ONLY <1>c, <2>1, <3>1, OneMore
  <2>3. Cardinality(Newer(Listed', v)) = Cardinality(Newer(Listed, v))
    BY <2>1
  <2>4. /\ Cardinality(Newer(Listed, v)) <= mishaps' + n + InLink'
        /\ Cardinality(Newer(Listed, v)) <= mishaps' + n + 1 + InLink'
    BY ONLY <1>b, <1>c, <2>2, Bounded, n \in Nat,
            Cardinality(Newer(Listed, v)) <= mishaps + n + InLink
  <2> QED BY ONLY <2>1, <2>3, <2>4, <1>c
<1>2. ASSUME NEW p \in Procs, PromoteRename(p)
      PROVE  Cardinality(Newer(Listed', v)) <= mishaps' + n + InLink' /\ mishaps' = mishaps
  <2>1. /\ Listed' = Listed \cup {run[p].stamp} /\ run[p].stamp \in Stamps
        /\ mishaps' = mishaps
    BY <1>2, RenameAdds, StoreFacts
  <2>2. InLink = 0 /\ InLink' = 1
    BY <1>2, RenameAdds DEF InLink
  <2>3. Cardinality(Newer(Listed', v)) \in Nat
        /\ Cardinality(Newer(Listed', v)) <= Cardinality(Newer(Listed, v)) + 1
    BY <1>a, <2>1, NewerSize
  <2> QED BY <1>a, <1>b, <2>1, <2>2, <2>3
<1>3. ASSUME NEW p \in Procs, PromoteLink(p)
      PROVE  /\ Cardinality(Newer(Listed', v)) <= mishaps' + n + 1 + InLink'
             /\ mishaps' = mishaps /\ last' # last
  <2>1. Listed' = Listed /\ mishaps' = mishaps
    BY <1>3, LinkMoves DEF Listed, Exists
  <2>2. last' # last
    BY <1>3, LinkMoves DEF NameInv
  <2> QED BY <1>a, <1>b, <2>1, <2>2
<1>4. ASSUME NEW p \in Procs, \/ PruneList(p) \/ PruneUnlinkLayout(p) \/ PruneUnlinkPanes(p)
      PROVE  Cardinality(Newer(Listed', v)) <= mishaps' + n + InLink' /\ mishaps' = mishaps
  <2>1. Listed' \in SUBSET Listed /\ mishaps' = mishaps
    BY <1>4, ListSets, UnlinkRemoves DEF Listed, Exists
  <2>2. InLink' = InLink
    BY <1>4, ListSets, UnlinkRemoves DEF InLink
  <2>3. Cardinality(Newer(Listed', v)) \in Nat
        /\ Cardinality(Newer(Listed', v)) <= Cardinality(Newer(Listed, v))
    BY <1>a, <2>1, NewerSize
  <2> QED BY <1>a, <1>b, <2>1, <2>2, <2>3
<1>5. Cardinality(Newer(Listed', v)) \in Nat
  <2>1. Listed' \in SUBSET Stamps
    BY DEF Listed
  <2> QED BY <2>1, NewerSize
<1> QED BY <1>a, <1>1, <1>2, <1>3, <1>4, <1>5, CalmSteps

LEMMA AheadInvStep ==
  ASSUME Forward, LockInv, LastInv, NameInv, AheadInv, [Next]_vars
  PROVE  AheadInv'
<1>1. CASE last' = last /\ last # None
  <2>1. last \in Stamps /\ Cardinality(Newer(Listed, last)) <= mishaps + 0 + InLink
    BY <1>1, StoreFacts DEF AheadInv, DiskTypeOK, InLink
  <2>2. Cardinality(Newer(Listed', last)) <= mishaps' + 0 + InLink'
        /\ mishaps' \in Nat /\ InLink' \in {0, 1}
    BY <1>1, <2>1, NewerSteps
  <2> QED BY <1>1, <2>2 DEF AheadInv
<1>2. CASE last' # last
  <2>1. PICK p \in Procs : PromoteLink(p)
    BY <1>2, LastMoves
  <2>2. /\ Listed' = Listed /\ last' = run[p].stamp /\ run[p].stamp \in Nat
        /\ \A s \in Listed : s <= run[p].stamp
        /\ Listed \subseteq Nat
    BY <2>1, LinkMoves, StoreFacts DEF Listed, Exists, NameInv, Named
  <2>3. Newer(Listed', last') = {}
    BY <2>2 DEF Newer
  <2>4. mishaps' \in Nat /\ InLink' \in {0, 1}
    BY <2>1, LinkMoves, StoreFacts DEF InLink
  <2> QED BY <2>3, <2>4, FS_EmptySet DEF AheadInv
<1> QED BY <1>1, <1>2 DEF AheadInv


-----------------------------------------------------------------------------
(* What a step of the directory leaves a reader *)

LEMMA MishapsGrow ==
  ASSUME Forward, LockInv, [Next]_vars
  PROVE  mishaps \in Nat /\ mishaps' \in Nat /\ mishaps <= mishaps'
<1>1. mishaps \in Nat /\ mishaps' \in Nat /\ mishaps <= mishaps
  <2>1. mishaps \in Nat /\ mishaps' \in Nat
    BY StoreFacts, LockInvStep, StoreAssumption DEF LockInv, TypeOK, DiskTypeOK
  <2> QED BY <2>1
<1> QED BY <1>1, CalmSteps, RenameAdds, LinkMoves, ListSets, UnlinkRemoves DEF Calm

(* A snapshot that is not on a prune's list stays whole. *)
LEMMA WholeStays ==
  ASSUME Forward, LockInv, [Next]_vars, NEW t \in Stamps, Whole(t),
         \A p \in Procs : pc[p] = "remove" => t \notin run[p].todo
  PROVE  layout'[t] = layout[t] /\ panes'[t] = panes[t]
<1>1. CASE Calm
  BY <1>1 DEF Calm, Harmless, snapshots
<1>2. ASSUME NEW p \in Procs, PromoteRename(p) PROVE layout'[t] = layout[t] /\ panes'[t] = panes[t]
  BY <1>2, RenameAdds DEF Whole, Exists
<1>3. ASSUME NEW p \in Procs, PromoteLink(p) \/ PruneList(p)
      PROVE  layout'[t] = layout[t] /\ panes'[t] = panes[t]
  BY <1>3, LinkMoves, ListSets
<1>4. ASSUME NEW p \in Procs, PruneUnlinkLayout(p) \/ PruneUnlinkPanes(p)
      PROVE  layout'[t] = layout[t] /\ panes'[t] = panes[t]
  BY <1>4, UnlinkRemoves
<1> QED BY <1>1, <1>2, <1>3, <1>4, CalmSteps

(* A prune that is not on to it yet lists it only when enough is newer.     *)
LEMMA ListSparesNew ==
  ASSUME Forward, LockInv, [Next]_vars, NEW t \in Stamps,
         Cardinality(Newer(Listed, t)) < Keep \/ \E p \in Procs : pc[p] = "link",
         \A p \in Procs : pc[p] = "remove" => t \notin run[p].todo
  PROVE  \A p \in Procs : pc'[p] = "remove" => t \notin run'[p].todo
<1>1. CASE Calm
  BY <1>1 DEF Calm, Harmless
<1>2. ASSUME NEW p \in Procs, PromoteRename(p) \/ PromoteLink(p)
      PROVE  \A q \in Procs : pc'[q] # "remove"
  BY <1>2, RenameAdds, LinkMoves
<1>3. ASSUME NEW p \in Procs, PruneList(p)
      PROVE  \A q \in Procs : pc'[q] = "remove" => t \notin run'[q].todo
  <2>1. Cardinality(Newer(Listed, t)) < Keep
    BY <1>3, ListSets
  <2>2. Cardinality(Newer(Listed, t)) \in Nat
    <3>1. Listed \in SUBSET Stamps
      BY DEF Listed
    <3> QED BY <3>1, NewerSize
  <2>3. t \notin PruneCandidates(Listed, run[p].target, clock)
    <3> SUFFICES ASSUME t \in PruneCandidates(Listed, run[p].target, clock) PROVE FALSE
      OBVIOUS
    <3>1. Cardinality(Newer(Listed, t)) >= Keep
      BY ListIsOlder
    <3> QED BY <2>1, <2>2, <3>1, PolicyAssumption
  <2> QED BY <1>3, <2>3, ListSets
<1>4. ASSUME NEW p \in Procs, PruneUnlinkLayout(p) \/ PruneUnlinkPanes(p)
      PROVE  \A q \in Procs : pc'[q] = "remove" => t \notin run'[q].todo
  BY <1>4, UnlinkRemoves
<1> QED BY <1>1, <1>2, <1>3, <1>4, CalmSteps

LEMMA GoneStays ==
  ASSUME Forward, LockInv, NameInv, [Next]_vars, NEW t \in Stamps, Gone(t)
  PROVE  Gone(t)'
<1>a. clock \in Nat /\ clock' \in Nat /\ t \in Nat /\ clock <= clock
  <2>1. clock \in Nat /\ clock' \in Nat /\ t \in Nat
    BY StoreFacts, LockInvStep DEF LockInv, TypeOK, DiskTypeOK, Stamps
  <2> QED BY <2>1
<1>1. CASE Calm
  <2>1. ~Exists(t)'
    BY <1>1 DEF Calm, Harmless, snapshots, Exists, Gone
  <2>2. t < clock'
    <3>1. t < clock /\ clock <= clock'
      BY <1>1 DEF Calm, Gone
    <3> QED BY <1>a, <3>1
  <2>3. \A p \in Procs : pc'[p] \in Named => run'[p].stamp # t
    <3>1. t # clock
      BY <1>a DEF Gone
    <3> QED BY <1>1, <3>1 DEF Calm, Gone
  <2> QED BY <2>1, <2>2, <2>3 DEF Gone
<1>2. ASSUME NEW p \in Procs, PromoteRename(p) PROVE Gone(t)'
  <2>1. run[p].stamp # t
    BY <1>2, RenameAdds DEF Gone, Named
  <2> QED BY <1>2, <2>1, RenameAdds DEF Gone, Named, Exists
<1>3. ASSUME NEW p \in Procs, PromoteLink(p) \/ PruneList(p) PROVE Gone(t)'
  BY <1>3, LinkMoves, ListSets DEF Gone, Named, Exists
<1>4. ASSUME NEW p \in Procs, PruneUnlinkLayout(p) \/ PruneUnlinkPanes(p) PROVE Gone(t)'
  <2>1. ~Exists(t)'
    BY <1>4, UnlinkRemoves DEF Gone, Listed
  <2> QED BY <1>4, <2>1, UnlinkRemoves DEF Gone
<1> QED BY <1>1, <1>2, <1>3, <1>4, CalmSteps

(* A snapshot's name stays its own, or is free for good. *)
LEMMA NameStays ==
  ASSUME Forward, LockInv, NameInv, [Next]_vars, NEW t \in Stamps, Exists(t)
  PROVE  \/ Exists(t)' /\ layout'[t] \in {None, layout[t]}
         \/ Gone(t)'
<1>1. CASE Calm
  BY <1>1 DEF Calm, Harmless, snapshots, Exists
<1>2. ASSUME NEW p \in Procs, PromoteRename(p)
      PROVE  Exists(t)' /\ layout'[t] = layout[t]
  BY <1>2, RenameAdds DEF Exists
<1>3. ASSUME NEW p \in Procs, PromoteLink(p) \/ PruneList(p)
      PROVE  Exists(t)' /\ layout'[t] = layout[t]
  BY <1>3, LinkMoves, ListSets DEF Exists
<1>4. ASSUME NEW p \in Procs, PruneUnlinkLayout(p) \/ PruneUnlinkPanes(p)
      PROVE  (Exists(t)' /\ layout'[t] \in {None, layout[t]}) \/ Gone(t)'
  <2>1. PICK v \in run[p].todo :
           /\ \A s \in Stamps : s # v => layout'[s] = layout[s] /\ panes'[s] = panes[s]
           /\ layout'[v] \in {None, layout[v]}
    BY <1>4, UnlinkRemoves
  <2>2. CASE t # v
    BY <2>1, <2>2 DEF Exists
  <2>3. CASE t = v
    <3>1. t < clock
      BY <1>4, <2>3, UnlinkRemoves DEF NameInv
    <3>2. clock' = clock /\ \A q \in Procs : pc'[q] \notin Named
      BY <1>4, UnlinkRemoves DEF Named
    <3> QED BY <2>1, <2>3, <3>1, <3>2 DEF Gone
  <2> QED BY <2>2, <2>3
<1> QED BY <1>1, <1>2, <1>3, <1>4, CalmSteps


-----------------------------------------------------------------------------
(* The readers *)

AllInv == LockInv /\ LastInv /\ ReaderInv

LEMMA AddOne ==
  ASSUME NEW n \in Nat, NEW nn \in Nat, NEW m \in Nat, NEW mm \in Nat,
         n <= nn, m <= mm
  PROVE  n + m >= Keep => nn + mm >= Keep
  BY PolicyAssumption

LEMMA ReaderStoreStep ==
  ASSUME Forward, AllInv, StoreStep, NEW r \in Readers
  PROVE  ReadInv(r)'
<1>a. /\ LockInv /\ LastInv /\ NameInv /\ AheadInv /\ ReadInv(r) /\ [Next]_vars
      /\ moved[r] \in 0..Keep /\ Keep \in Nat
      /\ UNCHANGED <<rpc, target, seen>>
      /\ moved'[r] = IF last' # last /\ moved[r] < Keep THEN moved[r] + 1 ELSE moved[r]
  BY PolicyAssumption DEF AllInv, ReaderInv, StoreStep, ReadInv
<1>b. mishaps \in Nat /\ mishaps' \in Nat /\ mishaps <= mishaps'
  BY <1>a, MishapsGrow
<1>c. moved[r] \in Nat /\ moved'[r] \in 0..Keep /\ moved'[r] \in Nat /\ moved[r] <= moved'[r]
  <2>1. moved[r] \in Nat /\ moved[r] <= moved[r] /\ moved[r] <= moved[r] + 1
    BY <1>a
  <2> QED BY <1>a, <2>1
<1>1. Enough(r) => Enough(r)'
  BY <1>b, <1>c, AddOne DEF Enough
<1>2. ASSUME target[r] \in Stamps, Kept(r), ~Enough(r)' PROVE Kept(r)'
  <2> DEFINE t == target[r]
  <2>1. t \in Stamps /\ Whole(t) /\ target' = target
        /\ \A p \in Procs : pc[p] = "remove" => t \notin run[p].todo
    BY <1>a, <1>2 DEF Kept
  <2>2. Cardinality(Newer(Listed, t)) <= mishaps + moved[r] + InLink
    BY <1>2 DEF Kept
  <2>3. ~Enough(r) /\ moved[r] < Keep
    <3>1. ~Enough(r)
      BY <1>1, <1>2
    <3> QED BY <1>a, <1>b, <1>c, <3>1 DEF Enough
  <2>4. /\ last' = last => Cardinality(Newer(Listed', t)) <= mishaps' + moved[r] + InLink'
        /\ Cardinality(Newer(Listed', t)) <= mishaps' + moved[r] + 1 + InLink'
    BY <1>a, <1>c, <2>1, <2>2, NewerSteps
  <2>5. Cardinality(Newer(Listed', t)) <= mishaps' + moved'[r] + InLink'
    <3>1. CASE last' = last
      <4>1. moved'[r] = moved[r]
        BY <1>a, <3>1
      <4> QED BY <2>4, <3>1, <4>1
    <3>2. CASE last' # last
      <4>1. moved'[r] = moved[r] + 1 /\ InLink' \in Nat
        BY <1>a, <2>3, <3>2 DEF InLink
      <4>2. mishaps' + moved[r] + 1 + InLink' = mishaps' + moved'[r] + InLink'
        BY ONLY <1>b, <1>c, <4>1
      <4> QED BY <2>4, <4>2
    <3> QED BY <3>1, <3>2
  <2>6. Whole(t)'
    BY <1>a, <2>1, WholeStays DEF Whole
  <2>7. \A p \in Procs : pc'[p] = "remove" => t \notin run'[p].todo
    <3>1. Cardinality(Newer(Listed, t)) < Keep \/ \E p \in Procs : pc[p] = "link"
      <4> SUFFICES ASSUME ~\E p \in Procs : pc[p] = "link"
                   PROVE  Cardinality(Newer(Listed, t)) < Keep
        OBVIOUS
      <4>1. InLink = 0
        BY DEF InLink
      <4>2. Cardinality(Newer(Listed, t)) \in Nat
        <5>1. Listed \in SUBSET Stamps
          BY DEF Listed
        <5> QED BY <2>1, <5>1, NewerSize
      <4>3. mishaps + moved[r] < Keep
        BY <1>a, <1>b, <1>c, <2>3 DEF Enough
      <4> QED BY <1>a, <1>b, <1>c, <2>2, <4>1, <4>2, <4>3
    <3> QED BY <1>a, <2>1, <3>1, ListSparesNew
  <2> QED BY <2>1, <2>5, <2>6, <2>7 DEF Kept
<1>3. ASSUME target[r] \in Stamps, seen[r] # None,
             \/ Exists(target[r]) /\ layout[target[r]] \in {None, seen[r]}
             \/ Gone(target[r])
      PROVE  \/ Exists(target[r])' /\ layout'[target'[r]] \in {None, seen'[r]}
             \/ Gone(target[r])'
  <2>1. target' = target /\ seen' = seen
    BY <1>a
  <2>2. CASE Gone(target[r])
    BY <1>a, <1>3, <2>1, <2>2, GoneStays DEF Gone, Exists
  <2>3. CASE Exists(target[r]) /\ layout[target[r]] \in {None, seen[r]}
    BY <1>a, <1>3, <2>1, <2>3, NameStays DEF Gone, Exists
  <2> QED BY <1>3, <2>2, <2>3
<1>4. Lost(r)' => Lost(r)
  BY <1>a DEF Lost
<1> QED BY <1>a, <1>c, <1>1, <1>2, <1>3, <1>4 DEF ReadInv

LEMMA ReadTypes ==
  ASSUME AllInv, NEW r \in Readers, Read(r)
  PROVE  ReaderTypes'
<1>a. ReaderTypes /\ DiskTypeOK /\ Loads(target[r]) = (layout[target[r]] # None)
  BY StoreFacts DEF AllInv, ReaderInv, ReaderTypes, Loads
<1>1. CASE Resolve(r)
  BY <1>a, <1>1 DEF Resolve, At, ReaderTypes, RPCs, DiskTypeOK
<1>2. CASE Load(r)
  <2>1. target[r] \in Stamps
    BY <1>2 DEF AllInv, ReaderInv, ReadInv, Load
  <2> QED BY <1>a, <1>2, <2>1 DEF Load, At, ReaderTypes, RPCs, DiskTypeOK
<1>3. CASE FallBack(r)
  <2> DEFINE loadable == {s \in Stamps : Loads(s)}
  <2>1. Newest(loadable, 1) \subseteq Stamps
    BY DEF Newest
  <2> HIDE DEF loadable
  <2>2. \/ At(r, "failed") /\ UNCHANGED <<target, seen, moved>>
        \/ \E s \in Stamps : /\ target' = [target EXCEPT ![r] = s]
                             /\ seen' = [seen EXCEPT ![r] = layout[s]]
                             /\ At(r, "open") /\ moved' = moved
    BY <1>3, <2>1 DEF FallBack, loadable
  <2> QED BY <1>a, <2>2 DEF At, ReaderTypes, RPCs, DiskTypeOK
<1>4. CASE OpenContents(r)
  BY <1>a, <1>4 DEF OpenContents, At, ReaderTypes, RPCs
<1>5. CASE ReadContents(r)
  BY <1>a, <1>5 DEF ReadContents, At, ReaderTypes, RPCs
<1> QED BY <1>1, <1>2, <1>3, <1>4, <1>5 DEF Read

(* What a reader's step does to its own variables, and to nothing else.     *)
LEMMA ReadSteps ==
  ASSUME AllInv, NEW r \in Readers, Read(r)
  PROVE  /\ vars' = vars
         /\ \A q \in Readers : q # r =>
               /\ rpc'[q] = rpc[q] /\ target'[q] = target[q]
               /\ seen'[q] = seen[q] /\ moved'[q] = moved[q]
<1>a. ReaderTypes
  BY DEF AllInv, ReaderInv, ReaderTypes
<1>1. CASE Resolve(r)
  BY <1>a, <1>1 DEF Resolve, At, ReaderTypes
<1>2. CASE Load(r)
  BY <1>a, <1>2 DEF Load, At, ReaderTypes
<1>3. CASE FallBack(r)
  BY <1>a, <1>3 DEF FallBack, At, ReaderTypes
<1>4. CASE OpenContents(r) \/ ReadContents(r)
  BY <1>a, <1>4 DEF OpenContents, ReadContents, At, ReaderTypes
<1> QED BY <1>1, <1>2, <1>3, <1>4 DEF Read

LEMMA ReadsOwn ==
  ASSUME Forward, AllInv, NEW r \in Readers, Read(r)
  PROVE  ReadInv(r)'
<1>a. /\ ReaderTypes /\ LockInv /\ LastInv /\ AheadInv /\ ReadInv(r)
      /\ moved[r] \in 0..Keep /\ Keep \in Nat
      /\ DiskTypeOK /\ mishaps \in Nat
  BY PolicyAssumption, StoreFacts DEF AllInv, ReaderInv, ReaderTypes, ReadInv
<1>b. /\ UNCHANGED <<clock, mishaps, layout, panes, last, pc, run>>
  BY ReadSteps DEF vars
<1>c. Listed' = Listed /\ InLink' = InLink /\ \A s \in Stamps : (Exists(s)' <=> Exists(s))
  BY <1>b DEF Listed, InLink, Exists
<1>1. CASE Resolve(r)
  <2>1. target'[r] = last /\ moved'[r] = 0 /\ moved' = [moved EXCEPT ![r] = 0]
        /\ rpc'[r] = IF last = None THEN "nothing" ELSE "load"
    BY <1>a, <1>1 DEF Resolve, At, ReaderTypes
  <2>2. CASE last = None
    BY <1>a, <2>1, <2>2 DEF ReadInv, Lost
  <2>3. CASE last # None
    <3>1. last \in Stamps /\ Whole(last)
          /\ \A p \in Procs : pc[p] = "remove" => last \notin run[p].todo
      BY <1>a, <2>3 DEF LastInv, LastWhole, Held, DiskTypeOK
    <3>2. Cardinality(Newer(Listed, last)) <= mishaps + 0 + InLink
      <4>1. mishaps + InLink = mishaps + 0 + InLink
        BY <1>a DEF InLink
      <4> QED BY <1>a, <2>3, <4>1 DEF AheadInv
    <3>3. Kept(r)'
      BY <1>b, <1>c, <2>1, <3>1, <3>2 DEF Kept, Whole
    <3> QED BY <1>a, <2>1, <2>3, <3>1, <3>3 DEF ReadInv, Lost
  <2> QED BY <2>2, <2>3
<1>3. CASE FallBack(r)
  <2>1. Enough(r) /\ (Enough(r)' <=> Enough(r)) /\ moved' = moved
    BY <1>a, <1>b, <1>3 DEF FallBack, ReadInv, Lost, Enough
  <2>2. \/ rpc'[r] = "failed"
        \/ rpc'[r] = "open" /\ \E s \in Stamps :
              layout[s] # None /\ target'[r] = s /\ seen'[r] = layout[s]
    BY <1>a, <1>3 DEF FallBack, At, ReaderTypes, Newest, Loads
  <2>3. CASE rpc'[r] = "failed"
    BY <1>a, <2>1, <2>3 DEF ReadInv, Lost
  <2>4. CASE rpc'[r] = "open"
    BY <1>a, <1>b, <2>1, <2>2, <2>4 DEF ReadInv, Lost, Exists
  <2> QED BY <2>2, <2>3, <2>4
<1>2. CASE Load(r) \/ OpenContents(r) \/ ReadContents(r)
  <2>b. target' = target /\ moved' = moved
    BY <1>2 DEF Load, OpenContents, ReadContents
  <2>a. (Enough(r)' <=> Enough(r)) /\ (Kept(r) => Kept(r)')
    BY <1>b, <1>c, <2>b DEF Enough, Kept, Whole
  <2>1. CASE Load(r)
    <3>1. target[r] \in Stamps /\ (Enough(r) \/ Kept(r))
      BY <1>a, <2>1 DEF Load, ReadInv
    <3>2. seen'[r] = layout[target[r]]
          /\ rpc'[r] = IF layout[target[r]] # None THEN "open" ELSE "newest"
      BY <1>a, <2>1 DEF Load, At, ReaderTypes, Loads
    <3>3. layout[target[r]] = None => Enough(r)
      BY <3>1 DEF Kept, Whole
    <3>4. layout[target[r]] # None => Exists(target[r])
      BY DEF Exists
    <3> QED BY <1>a, <1>b, <1>c, <2>b, <2>a, <3>1, <3>2, <3>3, <3>4 DEF ReadInv, Lost, Exists
  <2>3. CASE OpenContents(r)
    <3>1. target[r] \in Stamps /\ (Enough(r) \/ Kept(r)) /\ seen[r] # None
          /\ \/ Exists(target[r]) /\ layout[target[r]] \in {None, seen[r]}
             \/ Gone(target[r])
      BY <1>a, <2>3 DEF OpenContents, ReadInv
    <3>2. seen' = seen /\ rpc'[r] = IF layout[target[r]] # None THEN "read" ELSE "failed"
      BY <1>a, <2>3 DEF OpenContents, At, ReaderTypes, Loads
    <3>3. layout[target[r]] = None => Enough(r)
      BY <3>1 DEF Kept, Whole
    <3>4. Gone(target[r]) => Gone(target[r])'
      BY <1>b, <2>b DEF Gone, Exists
    <3> QED BY <1>a, <1>b, <1>c, <2>b, <2>a, <3>1, <3>2, <3>3, <3>4 DEF ReadInv, Lost, Exists
  <2>4. CASE ReadContents(r)
    <3>1. target[r] \in Stamps /\ (Enough(r) \/ Kept(r))
      BY <1>a, <2>4 DEF ReadContents, ReadInv
    <3>2. rpc'[r] = IF panes[target[r]] = "all" THEN "complete" ELSE "textless"
      BY <1>a, <2>4 DEF ReadContents, At, ReaderTypes
    <3>3. panes[target[r]] # "all" => Enough(r)
      BY <3>1 DEF Kept, Whole
    <3> QED BY <1>a, <2>b, <2>a, <3>1, <3>2, <3>3 DEF ReadInv, Lost
  <2> QED BY <1>2, <2>1, <2>3, <2>4
<1> QED BY <1>1, <1>2, <1>3 DEF Read

LEMMA AllInvInit == ReaderInit => AllInv
<1> SUFFICES ASSUME ReaderInit PROVE AllInv
  OBVIOUS
<1>1. LockInv /\ LastInv /\ Init
  BY InitLockInv, InitLastInv DEF ReaderInit
<1>2. NameInv /\ AheadInv
  BY <1>1 DEF Init, NameInv, AheadInv, Listed, Exists, Named, Blank
<1>3. ReaderTypes /\ \A r \in Readers : ReadInv(r)
  BY PolicyAssumption DEF ReaderInit, ReaderTypes, RPCs, ReadInv, Lost
<1> QED BY <1>1, <1>2, <1>3 DEF AllInv, ReaderInv, ReaderTypes

LEMMA AllInvStep ==
  ASSUME Forward, AllInv, [ReaderNext]_allvars
  PROVE  AllInv' /\ [Next]_vars
<1>1. CASE StoreStep
  <2>1. [Next]_vars /\ LockInv' /\ LastInv' /\ NameInv' /\ AheadInv'
    BY <1>1, LockInvStep, LastInvStep, NameInvStep, AheadInvStep
       DEF StoreStep, AllInv, ReaderInv, Forward
  <2>2. \A r \in Readers : ReadInv(r)'
    BY <1>1, ReaderStoreStep
  <2>3. Stamps' = Stamps /\ ReaderTypes'
    BY <1>1, StoreAssumption DEF StoreStep, AllInv, ReaderInv, ReaderTypes
  <2> QED BY <2>1, <2>2, <2>3 DEF AllInv, ReaderInv, ReaderTypes
<1>2. ASSUME NEW r \in Readers, Read(r) PROVE AllInv' /\ [Next]_vars
  <2>1. vars' = vars
    BY <1>2, ReadSteps
  <2>2. LockInv' /\ LastInv'
    BY <2>1, LockInvStep, LastInvStep DEF AllInv, Forward
  <2>3. NameInv' /\ AheadInv'
    BY <2>1, NameInvStep, AheadInvStep DEF AllInv, ReaderInv
  <2>4. ASSUME NEW q \in Readers PROVE ReadInv(q)'
    <3>1. CASE q = r
      BY <1>2, <3>1, ReadsOwn
    <3>2. CASE q # r
      <4>1. /\ rpc'[q] = rpc[q] /\ target'[q] = target[q]
            /\ seen'[q] = seen[q] /\ moved'[q] = moved[q]
        BY <1>2, <3>2, ReadSteps
      <4>2. UNCHANGED <<clock, mishaps, layout, panes, last, pc, run>>
        BY <2>1 DEF vars
      <4>3. Listed' = Listed /\ InLink' = InLink /\ ReadInv(q)
        BY <4>2 DEF Listed, InLink, Exists, AllInv, ReaderInv
      <4> QED BY <4>1, <4>2, <4>3 DEF ReadInv, Kept, Enough, Lost, Gone, Exists, Whole
    <3> QED BY <3>1, <3>2
  <2>5. ReaderTypes'
    BY <1>2, ReadTypes
  <2> QED BY <2>1, <2>2, <2>3, <2>4, <2>5 DEF AllInv, ReaderInv, ReaderTypes
<1>3. CASE UNCHANGED allvars
  <2>1. /\ UNCHANGED <<clock, mishaps, layout, panes, last, pc, run, rpc, target, seen, moved>>
        /\ vars' = vars
    BY <1>3 DEF allvars, vars, rvars
  <2>2. LockInv' /\ LastInv' /\ NameInv' /\ AheadInv'
    BY <2>1, LockInvStep, LastInvStep, NameInvStep, AheadInvStep DEF AllInv, ReaderInv, Forward
  <2>3. Listed' = Listed /\ InLink' = InLink /\ \A r \in Readers : ReadInv(r)
    BY <2>1 DEF Listed, InLink, Exists, AllInv, ReaderInv
  <2>4. \A r \in Readers : ReadInv(r)'
    BY <2>1, <2>3 DEF ReadInv, Kept, Enough, Lost, Gone, Exists, Whole
  <2>5. ReaderTypes'
    BY <2>1 DEF AllInv, ReaderInv, ReaderTypes
  <2> QED BY <2>1, <2>2, <2>4, <2>5 DEF AllInv, ReaderInv, ReaderTypes
<1> QED BY <1>1, <1>2, <1>3 DEF ReaderNext

LEMMA AlwaysAllInv == Forward => (ReaderSpec => []AllInv)
<1> SUFFICES ASSUME Forward PROVE ReaderSpec => []AllInv
  OBVIOUS
<1>1. AllInv /\ [ReaderNext]_allvars => AllInv'
  BY AllInvStep
<1> QED BY <1>1, AllInvInit, PTL DEF ReaderSpec

(* A restore loses what it resolved `last` to only after Keep promotions    *)
(* meanwhile, one fewer for every save cut short.                           *)
THEOREM ReadersAreProtected == Forward => (ReaderSpec => []ReaderProtected)
<1> SUFFICES ASSUME Forward PROVE ReaderSpec => []ReaderProtected
  OBVIOUS
<1>1. AllInv => ReaderProtected
  BY DEF AllInv, ReaderInv, ReadInv, Enough, ReaderProtected
<1> QED BY <1>1, AlwaysAllInv, PTL

(* The pane files a restore reads are those of the layout it loaded: a name *)
(* that a prune has freed is never given again.                             *)
THEOREM ReadsAreNotMixed == Forward => (ReaderSpec => []NeverMixed)
<1> SUFFICES ASSUME Forward PROVE ReaderSpec => []NeverMixed
  OBVIOUS
<1>1. AllInv => NeverMixed
  BY DEF AllInv, ReaderInv, ReadInv, NeverMixed, Gone, Exists
<1> QED BY <1>1, AlwaysAllInv, PTL

(* Readers beside it change nothing of the archive the directory is, under  *)
(* whatever clock.                                                          *)
THEOREM ReadersSeeAnArchive == NoHand => (ReaderSpec => ImplementsArchive)
<1>1. ReaderInit => Init
  BY DEF ReaderInit
<1>2. [ReaderNext]_allvars => [Next]_vars
  BY DEF ReaderNext, StoreStep, Read, Resolve, Load, FallBack, OpenContents, ReadContents,
     allvars
<1>3. ReaderSpec => Spec
  BY <1>1, <1>2, PTL DEF ReaderSpec, Spec
<1> QED BY <1>3, StoreImplementsArchive

=============================================================================
