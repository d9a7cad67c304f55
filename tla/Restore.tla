------------------------------- MODULE Restore -------------------------------
(***************************************************************************)
(* Grafting a snapshot onto a live tmux server (internal/restore):         *)
(* QueryLive looks at the server once, BuildPlan turns the snapshot and    *)
(* what it saw into a list of tmux commands, and Apply runs them one by    *)
(* one, on a server that its user goes on using.  A restore may be cut     *)
(* short anywhere, or have a command refused, and be run again.            *)
(*                                                                         *)
(* The server is external: sessions are windows at indexes, and a window   *)
(* is its panes.  A window remembers who made it: its user, or the restore *)
(* of the saved window that was at that index.                             *)
(***************************************************************************)
EXTENDS Integers, Sequences, FiniteSets, SequencesExt

CONSTANTS
    Sessions,       \* session names
    Unaddressable,  \* those with a ':' in them
    Names,          \* window names
    MaxIndex,       \* bound on window indexes
    BaseIndex,      \* the server's base-index option
    Snapshots,      \* the snapshots that may be restored: sequences of saved sessions
    Servers,        \* the servers they may be restored onto
    MaxRuns,        \* bound on the restores of a behaviour
    MaxMishaps,     \* bound on cancelled runs and commands that fail
    MaxOpens        \* bound on the windows the user opens

Indexes == 0..MaxIndex

User == -1          \* the origin of a window the user made
Nothing == -1       \* nothing was typed into a pane, no index
Placeholder == -1   \* the index of a window being relocated: {{WIN}}

SavedWindow == [index : Indexes, name : Names, panes : 1..3]

SavedSession == [name : Sessions, windows : Seq(SavedWindow), active : Indexes]

NoWindow == [index |-> Nothing, name |-> "", panes |-> 0]

Pane == [cwd : {Nothing} \cup (1..3), shown : {Nothing} \cup (1..3),
         typed : {Nothing} \cup (1..3)]

Fresh(cwd) == [cwd |-> cwd, shown |-> Nothing, typed |-> Nothing]

Gap == [name |-> "", origin |-> User, panes |-> <<>>, dressed |-> FALSE]

Opened(name) == [name |-> name, origin |-> User, panes |-> <<Fresh(Nothing)>>, dressed |-> FALSE]

(* What stands at an index before any restore. *)
UserWindows == {Gap} \cup
    [name : Names, origin : {User}, panes : Seq({Fresh(Nothing)}) \ {<<>>}, dressed : {FALSE}]

ASSUME RestoreAssumption ==
    /\ Unaddressable \subseteq Sessions
    /\ MaxIndex \in Nat /\ BaseIndex \in Indexes
    /\ "" \notin Names \cup Sessions
    /\ \A sn \in Snapshots : sn \in Seq(SavedSession)
    /\ Servers \subseteq [Sessions -> [Indexes -> UserWindows]]

(* A snapshot is of one server, where no two sessions have the same name and
   no two windows of a session the same index. *)
ASSUME SavedAssumption ==
    \A sn \in Snapshots : \A n \in DOMAIN sn :
        /\ \A m \in DOMAIN sn : sn[m].name = sn[n].name => m = n
        /\ \A j, k \in DOMAIN sn[n].windows :
              sn[n].windows[j].index = sn[n].windows[k].index => j = k

VARIABLES
    snap,       \* the snapshot
    live,       \* the server: for each session and index, a window or Gap
    plan,       \* the actions still to be applied
    running,    \* a restore is under way
    win,        \* Apply's winTarget
    aborted,    \* Apply's abortedSession, or ""
    skipping,   \* Apply's windowAborted
    report,     \* Apply's Report
    planned,    \* windows in the plan: Created + Relocated + Skipped
    up,         \* the run's connection to tmux answers
    runs, mishaps, opens,
    before,     \* restored windows on the server when this run started
    settled     \* the last run met no mishap, and the user did nothing since
                \* it began

applyvars == <<win, aborted, skipping>>
rvars == <<snap, live, plan, running, win, aborted, skipping, report, planned,
           up, runs, mishaps, opens, before, settled>>

-----------------------------------------------------------------------------
(* What is live *)

Taken(l, s) == {i \in Indexes : l[s][i] # Gap}

Exists(l, s) == Taken(l, s) # {}

Named(l, s, name) == {i \in Taken(l, s) : l[s][i].name = name}

Restored(l) == {at \in Sessions \X Indexes : l[at[1]][at[2]].origin # User}

-----------------------------------------------------------------------------
(* BuildPlan *)

(* Mutant: a window is relocated though one of its name stands elsewhere. *)
FateByIndex(l, s, windows, k) ==
    LET w == windows[k]
    IN  CASE ~Exists(l, s) /\ k = 1 -> "new_session"
          [] Exists(l, s) /\ l[s][w.index] # Gap ->
                IF l[s][w.index].name = w.name THEN "skip" ELSE "relocate"
          [] OTHER -> "new_window"

(* What becomes of a saved window, by what is live at its index. *)
Fate(l, s, windows, k) ==
    LET w == windows[k]
    IN  CASE ~Exists(l, s) /\ k = 1 -> "new_session"
          [] ~Exists(l, s) /\ k # 1 -> "new_window"
          [] Exists(l, s) /\ l[s][w.index] = Gap -> "new_window"
          [] Exists(l, s) /\ l[s][w.index] # Gap ->
                IF Named(l, s, w.name) # {} THEN "skip" ELSE "relocate"

Act(kind, s, w, target, pane) ==
    [kind |-> kind, session |-> s, saved |-> w, target |-> target, pane |-> pane]

(* Mutant: a window that is already there is dressed like one just made. *)
BlockDressesAll(s, w, fate, isActive) ==
    LET target == IF fate = "relocate" THEN Placeholder ELSE w.index
        do(kind, pane) == Act(kind, s, w, target, pane)
    IN  <<do(IF fate = "skip" THEN "note" ELSE fate, 1), do("dress", 1)>>
          \o FlattenSeq([k \in 1..w.panes |->
                IF fate = "skip" THEN <<>> ELSE <<do("show", k), do("type", k)>>])

(* The actions for one saved window: make it, split it, dress it (rename it,
   lay it out, set its options and active pane), show each pane's text and
   type its command, and select the session's active window. *)
Block(s, w, fate, isActive) ==
    LET target == IF fate = "relocate" THEN Placeholder ELSE w.index
        do(kind, pane) == Act(kind, s, w, target, pane)
    IN  IF fate = "skip" THEN <<do("note", 1)>>
        ELSE <<do(fate, 1)>>
               \o [k \in 1..(w.panes - 1) |-> do("split", k + 1)]
               \o <<do("dress", 1)>>
               \o FlattenSeq([k \in 1..w.panes |-> <<do("show", k), do("type", k)>>])
               \o (IF isActive THEN <<do("select", 1)>> ELSE <<>>)

(* Mutant: windows are relocated as they come. *)
InSavedOrder(l, sess) == [k \in DOMAIN sess.windows |-> k]

(* Relocations come after every window that has an index of its own. *)
InPlanOrder(l, sess) ==
    LET moves(k) == Fate(l, sess.name, sess.windows, k) = "relocate"
        those(moving) == FlattenSeq([k \in DOMAIN sess.windows |->
                             IF moves(k) = moving THEN <<k>> ELSE <<>>])
    IN  those(FALSE) \o those(TRUE)

SessionPlan(l, sess) ==
    IF sess.name \in Unaddressable
    THEN <<Act("warn", sess.name, NoWindow, Nothing, 1)>>
           \o [k \in DOMAIN sess.windows |-> Act("note", sess.name, sess.windows[k], Nothing, 1)]
    ELSE LET order == InPlanOrder(l, sess)
         IN  FlattenSeq([n \in DOMAIN order |->
                 LET w == sess.windows[order[n]]
                 IN  Block(sess.name, w, Fate(l, sess.name, sess.windows, order[n]),
                           w.index = sess.active)])

BuildPlan(l, sn) == FlattenSeq([k \in DOMAIN sn |-> SessionPlan(l, sn[k])])

Creating == {"new_session", "new_window", "relocate"}

PlannedWindows(p) == Cardinality({k \in DOMAIN p : p[k].kind \in Creating \cup {"note"}})

-----------------------------------------------------------------------------
(* The server *)

NextFree(s) ==
    LET free == {i \in Indexes : i >= BaseIndex /\ live[s][i] = Gap}
    IN  {i \in free : \A j \in free : i <= j}

(* Where a command makes its window or finds it. *)
At(a, w) ==
    CASE a.kind = "new_session" -> {BaseIndex}
      [] a.kind = "relocate" -> NextFree(a.session)
      [] OTHER -> IF a.target = Placeholder THEN {w} \cap Indexes ELSE {a.target}

(* tmux accepts the command. *)
Accepts(a, i) ==
    CASE a.kind = "new_session" -> ~Exists(live, a.session)
      [] a.kind \in {"new_window", "relocate"} ->
            Exists(live, a.session) /\ live[a.session][i] = Gap
      [] OTHER -> /\ live[a.session][i] # Gap
                  /\ a.kind \in {"show", "type"} =>
                        a.pane \in DOMAIN live[a.session][i].panes

(* What the command does to the window.  split-window -d puts the new pane
   after the active one, which stays the first. *)
Effect(a, w) ==
    CASE a.kind \in Creating ->
            [name |-> a.saved.name, origin |-> a.saved.index,
             panes |-> <<Fresh(1)>>, dressed |-> FALSE]
      [] a.kind = "split" -> [w EXCEPT !.panes = InsertAt(@, 2, Fresh(a.pane))]
      [] a.kind = "dress" -> [w EXCEPT !.dressed = TRUE]
      [] a.kind = "show" -> [w EXCEPT !.panes[a.pane].shown = a.pane]
      [] a.kind = "type" -> [w EXCEPT !.panes[a.pane].typed = a.pane]
      [] a.kind = "select" -> w

-----------------------------------------------------------------------------
(* A run of restore *)

NoReport == [created |-> 0, relocated |-> 0, skipped |-> 0, notes |-> 0]

RInit ==
    /\ snap \in Snapshots
    /\ live \in Servers
    /\ plan = <<>> /\ running = FALSE
    /\ win = Nothing /\ aborted = "" /\ skipping = FALSE
    /\ report = NoReport /\ planned = 0
    /\ up = TRUE /\ runs = 0 /\ mishaps = 0 /\ opens = 0
    /\ before = {} /\ settled = FALSE

(* QueryLive and BuildPlan.  (A restore --on-start goes no further than QueryLive
   unless it finds a server nobody has touched.) *)
StartRestore ==
    /\ ~running
    /\ runs < MaxRuns
    /\ runs' = runs + 1
    /\ plan' = BuildPlan(live, snap)
    /\ planned' = PlannedWindows(plan')
    /\ running' = TRUE
    /\ win' = Nothing /\ aborted' = "" /\ skipping' = FALSE
    /\ report' = NoReport
    /\ up' = TRUE
    /\ before' = Restored(live)
    /\ settled' = TRUE
    /\ UNCHANGED <<snap, live, mishaps, opens>>

Consume ==
    /\ running
    /\ plan # <<>>
    /\ plan' = Tail(plan)
    /\ UNCHANGED <<snap, running, planned, runs, opens, before>>

Counted(a) ==
    CASE a.kind \in {"new_session", "new_window"} -> [report EXCEPT !.created = @ + 1]
      [] a.kind = "relocate" -> [report EXCEPT !.relocated = @ + 1]
      [] OTHER -> report

(* Actions that run no tmux command: those of a session that could not be
   made, and the notes. *)
ApplyQuiet ==
    /\ Consume
    /\ LET a == Head(plan)
       IN  \/ /\ a.session = aborted
              /\ UNCHANGED report
           \/ /\ a.session # aborted
              /\ a.kind = "note"
              /\ report' = [report EXCEPT !.skipped = @ + 1]
           \/ /\ a.session # aborted
              /\ a.kind = "warn"
              /\ report' = [report EXCEPT !.notes = @ + 1]
    /\ UNCHANGED <<live, applyvars, up, mishaps, settled>>

(* The rest of a window that could not be made is passed over. *)
ApplySkip ==
    /\ Consume
    /\ Head(plan).session # aborted
    /\ Head(plan).kind \notin Creating \cup {"note", "warn"}
    /\ skipping
    /\ UNCHANGED <<live, applyvars, report, up, mishaps, settled>>

(* Mutant: a window that could not be made does not stop the rest of its
   actions. *)
RunsIgnoring(a) == a.session # aborted /\ a.kind \notin {"note", "warn"}

(* A command that is sent to tmux. *)
Runs(a) ==
    /\ a.session # aborted
    /\ a.kind \notin {"note", "warn"}
    /\ a.kind \in Creating \/ ~skipping

(* Any creation but a relocation forgets the index of the last one. *)
Target(a) == IF a.kind \in {"new_session", "new_window"} THEN Nothing ELSE win

(* tmux accepts the command at i and carries it out. *)
Done(a, i) ==
    /\ Accepts(a, i)
    /\ live' = [live EXCEPT ![a.session][i] = Effect(a, @)]

ApplyRun ==
    /\ Consume
    /\ up
    /\ LET a == Head(plan)
       IN  /\ Runs(a)
           /\ \E i \in At(a, Target(a)) :
                 /\ Done(a, i)
                 /\ win' = IF a.kind = "relocate" THEN i ELSE Target(a)
           /\ report' = Counted(a)
           /\ skipping' = (skipping /\ a.kind \notin Creating)
    /\ UNCHANGED <<aborted, up, mishaps, settled>>

(* The command has failed, for all Apply knows: the rest of a window, or of a
   session, that was to be made is passed over. *)
Failed(a) ==
    /\ win' = Target(a)
    /\ skipping' = (skipping \/ a.kind \in Creating)
    /\ aborted' = IF a.kind = "new_session" THEN a.session ELSE aborted
    /\ report' = [report EXCEPT !.notes = @ + 1]

Mishap ==
    /\ mishaps < MaxMishaps
    /\ mishaps' = mishaps + 1
    /\ settled' = FALSE

(* tmux carries the command out and Apply hears an error: the connection has
   closed or the call has given up, so that no later command will be answered,
   or the reply to a relocation has no window index in it. *)
ApplyUnheard ==
    /\ Consume
    /\ up
    /\ LET a == Head(plan)
       IN  /\ Runs(a)
           /\ \E i \in At(a, Target(a)) : Done(a, i)
           /\ up' \in IF a.kind = "relocate" THEN BOOLEAN ELSE {FALSE}
           /\ Failed(a)
    /\ Mishap

(* tmux finds no index to move a window to.  For tmux there always is one: this
   is where the model ends, at MaxIndex. *)
NoRoom(a) == a.kind = "relocate" /\ NextFree(a.session) = {}

(* The command is not carried out: tmux has nothing it could be carried out on,
   or the connection is closed, or closes, or tmux refuses it for a reason of
   its own. *)
ApplyRefused ==
    /\ Consume
    /\ LET a == Head(plan)
       IN  /\ Runs(a)
           /\ \/ ~up /\ UNCHANGED <<up, mishaps, settled>>
              \/ /\ up /\ \A i \in At(a, Target(a)) : ~Accepts(a, i)
                 /\ settled' = (settled /\ ~NoRoom(a))
                 /\ UNCHANGED <<up, mishaps>>
              \/ up /\ up' \in BOOLEAN /\ Mishap
           /\ Failed(a)
    /\ UNCHANGED live

(* Mutant: a run that is cut short leaves its plan behind. *)
StopMidway ==
    /\ running
    /\ running' = FALSE
    /\ UNCHANGED <<snap, live, applyvars, plan, report, planned, up, runs, opens, before>>

Stop ==
    /\ running
    /\ running' = FALSE
    /\ plan' = <<>>
    /\ UNCHANGED <<snap, live, applyvars, report, planned, up, runs, opens, before>>

Finish == plan = <<>> /\ Stop /\ UNCHANGED <<mishaps, settled>>

(* The context is done, or the process is killed.  A context that ends while a
   command runs fails that command first, and the connection with it. *)
Cancelled ==
    /\ plan # <<>>
    /\ \/ Mishap
       \/ ~up /\ settled' = FALSE /\ UNCHANGED mishaps
    /\ Stop

(* The user opens a window, and with it a session that is not there. *)
UserOpens ==
    /\ opens < MaxOpens
    /\ opens' = opens + 1
    /\ settled' = FALSE
    /\ \E s \in Sessions, i \in Indexes, name \in Names :
          /\ live[s][i] = Gap
          /\ live' = [live EXCEPT ![s][i] = Opened(name)]
    /\ UNCHANGED <<snap, plan, running, applyvars, report, planned, up, runs, mishaps, before>>

Apply ==
    \/ ApplyQuiet \/ ApplySkip \/ ApplyRun \/ ApplyUnheard \/ ApplyRefused
    \/ Finish \/ Cancelled

RNext == StartRestore \/ Apply \/ UserOpens

RSpec == RInit /\ [][RNext]_rvars

-----------------------------------------------------------------------------
Window == {Gap} \cup
    [name : Names, origin : Indexes \cup {User}, panes : Seq(Pane) \ {<<>>}, dressed : BOOLEAN]

(* Besides the types: nothing waits to be applied when no restore runs. *)
RTypeOK ==
    /\ snap \in Snapshots
    /\ live \in [Sessions -> [Indexes -> Window]]
    /\ running \in BOOLEAN /\ (~running => plan = <<>>)
    /\ win \in Indexes \cup {Nothing}
    /\ aborted \in Sessions \cup {""}
    /\ skipping \in BOOLEAN /\ up \in BOOLEAN
    /\ report.created + report.relocated + report.skipped <= planned

(* A window its user made is never split, dressed or typed into, though it  *)
(* was opened after the plan was made.  Here and below the sessions to be    *)
(* made are to be saved from the server's base-index on.                     *)
Additive ==
    [][ \A s \in Sessions, i \in Indexes :
          (live[s][i] # Gap /\ live[s][i].origin = User) => live'[s][i] = live[s][i] ]_rvars

(* A saved pane's text and command go to the pane of that number in the     *)
(* window made for it, and nowhere else.                                    *)
RightPane ==
    \A s \in Sessions, i \in Indexes : \A k \in DOMAIN live[s][i].panes :
        LET p == live[s][i].panes[k]
        IN  /\ p.shown \in {Nothing, k} /\ p.typed \in {Nothing, k}
            /\ p.typed # Nothing => \E n \in DOMAIN snap : \E m \in DOMAIN snap[n].windows :
                  /\ snap[n].name = s
                  /\ snap[n].windows[m].index = live[s][i].origin
                  /\ snap[n].windows[m].name = live[s][i].name
                  /\ k <= snap[n].windows[m].panes

(* No restore plans to make what an earlier one has made, though that was   *)
(* cut short, met errors, or was not told of what it made; and after one    *)
(* that met no mishap there is nothing to make at all.                      *)
Idempotent ==
    [][ (~running /\ running') =>
          \A k \in DOMAIN plan' : plan'[k].kind \in Creating =>
             /\ ~settled
             /\ \A i \in Indexes :
                   live[plan'[k].session][i].origin # plan'[k].saved.index ]_rvars

(* Nothing is reported as created or relocated that is not on the server,   *)
(* and nothing is made that is neither reported nor told of in a note (its   *)
(* reply was lost); and a restore that nothing disturbs and that has room    *)
(* makes and reports all it planned: relocated windows take no index from    *)
(* another saved window.                                                     *)
AllMade ==
    [][ (running /\ ~running') =>
          LET made == Cardinality(Restored(live) \ before)
              told == report.created + report.relocated
          IN  /\ told <= made /\ made <= told + report.notes
              /\ settled' => (made = told /\ told + report.skipped = planned) ]_rvars

-----------------------------------------------------------------------------
(* What the design document says of restore, which the code does not keep: *)
(* "Missing sessions are created exactly as saved (name, windows, indices,  *)
(* layout, active window/pane)", and "each pane starts the default shell    *)
(* with -c <cwd>": in a session that was missing every window stands at its *)
(* saved index, and the pane that is given a saved pane's command starts in *)
(* that pane's directory.                                                   *)
Addressable == {n \in DOMAIN snap : snap[n].name \notin Unaddressable}

CreatedAsSaved ==
    (settled /\ ~running /\ runs = 1) =>
        \A n \in Addressable :
            LET s == snap[n].name
            IN  (\A i \in Taken(live, s) : live[s][i].origin # User) =>
                    \A i \in Taken(live, s) :
                        /\ live[s][i].origin = i
                        /\ \A k \in DOMAIN live[s][i].panes :
                              live[s][i].panes[k].typed = k => live[s][i].panes[k].cwd = k
=============================================================================
