------------------------------ MODULE Collector ------------------------------
(***************************************************************************)
(* Building a snapshot from a live tmux server (internal/collect).  The    *)
(* collector asks for the sessions, then for all windows, then for all     *)
(* panes, and then for the text of one pane after another; each answer is  *)
(* what tmux has at that moment, and its user goes on between them.        *)
(*                                                                         *)
(* The server is external.  Sessions of a group show the same windows,     *)
(* those of the session the group was made from and is named for: its      *)
(* owner.  A pane's text is stood for by the pane's own id.                *)
(***************************************************************************)
EXTENDS Integers, Sequences, FiniteSets, Functions, SequencesExt

CONSTANTS
    Sessions,       \* names
    Order,          \* the names in lexical order, a sequence
    Flat,           \* what PaneKey makes of each name: blanks and slashes are "-"
    MaxIndex,       \* bound on window indexes
    MaxPane,        \* bound on pane ids
    Servers,        \* the servers that are collected from
    MaxActs,        \* bound on what the user does
    MaxFails        \* bound on failures of the control connection

None == "none"
Gap == <<>>

Indexes == 0..MaxIndex

ASSUME CollectAssumption ==
    /\ None \notin Sessions
    /\ Order \in Seq(Sessions) /\ ToSet(Order) = Sessions /\ IsInjective(Order)
    /\ DOMAIN Flat = Sessions
    /\ MaxIndex \in Nat /\ MaxPane \in Nat

(* What tmux's server may be: sessions that show the same windows are in a  *)
(* group, no session is without a window, and no pane is in two places, or  *)
(* has an id not given out yet.                                             *)
Orderly(sh, gr, ws, last) ==
    /\ sh \in [Sessions -> Sessions \cup {None}]
    /\ gr \subseteq Sessions
    /\ ws \in [Sessions -> [Indexes -> Seq(1..MaxPane)]]
    /\ last \in 0..MaxPane
    /\ \A s, t \in Sessions : s # t /\ sh[s] = sh[t] => sh[s] \in gr \cup {None}
    /\ \A s \in Sessions : sh[s] # None => \E i \in Indexes : ws[sh[s]][i] # Gap
    /\ \A o, p \in Sessions, i, j \in Indexes :
          \A k \in DOMAIN ws[o][i], l \in DOMAIN ws[p][j] :
              ws[o][i][k] = ws[p][j][l] => o = p /\ i = j /\ k = l
    /\ \A o \in Sessions, i \in Indexes :
          \A k \in DOMAIN ws[o][i] : ws[o][i][k] <= last

ASSUME ServerAssumption ==
    \A sv \in Servers : Orderly(sv.shows, sv.grouped, sv.windows, sv.lastPane)

VARIABLES
    shows,      \* the owner of the windows each session shows, or None
    grouped,    \* the owners whose session is in a group
    windows,    \* by owner and index: the ids of the panes, or Gap
    lastPane,   \* pane ids given out so far
    acts, fails,
    pc,
    kept,       \* the sessions a snapshot is made of
    wins,       \* its windows: session and index
    rows,       \* its panes: session, index, place in the window, id
    todo,       \* the panes whose text is still to be captured
    texts,      \* the text under each pane key
    warned,     \* panes whose text could not be had
    touched,    \* windows the user changed since the collection began
    closed,     \* sessions closed since then, with their owner
    joined      \* sessions made since then, with theirs

server == <<shows, grouped, windows, lastPane>>
covars == <<server, acts, fails, pc, kept, wins, rows, todo, texts, warned, touched, closed,
            joined>>

Live == {s \in Sessions : shows[s] # None}

Showing(o) == {s \in Live : shows[s] = o}

Members(o) == IF o \in grouped THEN Showing(o) ELSE {}

(* The one session of a group that is kept. *)
CanonicalMember(group, members) ==
    IF group \in members THEN group
    ELSE Order[CHOOSE k \in DOMAIN Order : /\ Order[k] \in members
                                           /\ \A j \in 1..(k - 1) : Order[j] \notin members]

Kept(s) == shows[s] \in grouped => s = CanonicalMember(shows[s], Members(shows[s]))

Key(s, i, place) == <<Flat[s], i, place>>

COInit ==
    /\ \E sv \in Servers : /\ shows = sv.shows /\ grouped = sv.grouped
                           /\ windows = sv.windows /\ lastPane = sv.lastPane
    /\ acts = 0 /\ fails = 0
    /\ pc = "server"
    /\ kept = {} /\ wins = {} /\ rows = {} /\ todo = {}
    /\ texts = <<>> /\ warned = {}
    /\ touched = {} /\ closed = {} /\ joined = {}

-----------------------------------------------------------------------------
(* The user *)

UserActs ==
    /\ acts < MaxActs
    /\ pc \notin {"saved", "failed"}
    /\ acts' = acts + 1
    /\ UNCHANGED <<fails, pc, kept, wins, rows, todo, texts, warned>>

Rearranges(changed, now) ==
    /\ UserActs
    /\ windows' = now
    /\ touched' = touched \cup changed
    /\ UNCHANGED <<shows, grouped, closed, joined>>

IsWindow(o, i) == Showing(o) # {} /\ windows[o][i] # Gap

UserOpens ==
    \E o \in Sessions, i \in Indexes :
        /\ Showing(o) # {} /\ windows[o][i] = Gap
        /\ lastPane < MaxPane /\ lastPane' = lastPane + 1
        /\ Rearranges({<<o, i>>}, [windows EXCEPT ![o][i] = <<lastPane'>>])

UserSplits ==
    \E o \in Sessions, i \in Indexes :
        /\ IsWindow(o, i)
        /\ lastPane < MaxPane /\ lastPane' = lastPane + 1
        /\ Rearranges({<<o, i>>}, [windows EXCEPT ![o][i] = Append(@, lastPane')])

(* The last window of a session goes with UserCloses. *)
UserKillsPane ==
    \E o \in Sessions, i \in Indexes :
        /\ IsWindow(o, i)
        /\ Len(windows[o][i]) = 1 => \E j \in Indexes \ {i} : windows[o][j] # Gap
        /\ \E k \in DOMAIN windows[o][i] :
              Rearranges({<<o, i>>}, [windows EXCEPT ![o][i] = RemoveAt(@, k)])
        /\ UNCHANGED lastPane

UserSwaps ==
    \E o \in Sessions, i, j \in Indexes :
        /\ i < j
        /\ IsWindow(o, i) \/ IsWindow(o, j)
        /\ Rearranges({<<o, i>>, <<o, j>>},
                      [windows EXCEPT ![o][i] = windows[o][j], ![o][j] = windows[o][i]])
        /\ UNCHANGED lastPane

(* new-session -t: a session that shows the windows of another. *)
UserClones ==
    /\ UserActs
    /\ \E s \in Sessions \ Live, o \in Sessions :
          /\ Showing(o) # {}
          /\ shows' = [shows EXCEPT ![s] = o]
          /\ grouped' = grouped \cup {o}
          /\ joined' = joined \cup {<<s, o>>}
    /\ UNCHANGED <<windows, lastPane, touched, closed>>

UserCloses ==
    /\ UserActs
    /\ \E s \in Live :
          /\ Live # {s}
          /\ shows' = [shows EXCEPT ![s] = None]
          /\ closed' = closed \cup {<<s, shows[s]>>}
          /\ IF Showing(shows[s]) = {s}
             THEN /\ windows' = [windows EXCEPT ![shows[s]] = [i \in Indexes |-> Gap]]
                  /\ grouped' = grouped \ {shows[s]}
             ELSE UNCHANGED <<windows, grouped>>
    /\ UNCHANGED <<lastPane, touched, joined>>

User == UserOpens \/ UserSplits \/ UserKillsPane \/ UserSwaps \/ UserClones \/ UserCloses

-----------------------------------------------------------------------------
(* The collector *)

Step(now, next) ==
    pc = now /\ pc' = next /\ UNCHANGED <<server, acts, fails, touched, closed, joined>>

(* display-message and list-clients, for information only. *)
ServerInfo ==
    Step("server", "sessions") /\ UNCHANGED <<kept, wins, rows, todo, texts, warned>>

(* Mutant: only sessions that are in no group are kept. *)
ListUngrouped ==
    /\ Step("sessions", "windows")
    /\ kept' = {s \in Live : shows[s] \notin grouped}
    /\ UNCHANGED <<wins, rows, todo, texts, warned>>

ListSessions ==
    /\ Step("sessions", "windows")
    /\ kept' = {s \in Live : Kept(s)}
    /\ UNCHANGED <<wins, rows, todo, texts, warned>>

ListWindows ==
    /\ Step("windows", "panes")
    /\ wins' = {w \in (kept \cap Live) \X Indexes : windows[shows[w[1]]][w[2]] # Gap}
    /\ UNCHANGED <<kept, rows, todo, texts, warned>>

(* Mutant: a pane is taken for one of a window that was not listed. *)
ListAllPanes ==
    /\ Step("panes", "captures")
    /\ rows' = UNION {{<<s, i, k, windows[shows[s]][i][k]>> : k \in DOMAIN windows[shows[s]][i]} :
                          s \in kept \cap Live, i \in Indexes}
    /\ todo' = rows'
    /\ UNCHANGED <<kept, wins, texts, warned>>

(* Panes of windows that were not listed are left out. *)
ListPanes ==
    /\ Step("panes", "captures")
    /\ rows' = UNION {{<<w[1], w[2], k, windows[shows[w[1]]][w[2]][k]>> :
                          k \in DOMAIN windows[shows[w[1]]][w[2]]} :
                          w \in {v \in wins : shows[v[1]] # None}}
    /\ todo' = rows'
    /\ UNCHANGED <<kept, wins, texts, warned>>

Running(id) == \E o \in Sessions, i \in Indexes : id \in ToSet(windows[o][i])

WithText(key, id) ==
    [k \in DOMAIN texts \cup {key} |-> IF k = key THEN id ELSE texts[k]]

(* Mutant: the text is asked for by the place of the pane, not by its id. *)
CaptureByPlace ==
    /\ Step("captures", "captures")
    /\ \E r \in todo :
          /\ todo' = todo \ {r}
          /\ shows[r[1]] # None
          /\ r[3] \in DOMAIN windows[shows[r[1]]][r[2]]
          /\ texts' = WithText(Key(r[1], r[2], r[3]), windows[shows[r[1]]][r[2]][r[3]])
    /\ UNCHANGED <<kept, wins, rows, warned>>

Capture ==
    /\ Step("captures", "captures")
    /\ \E r \in todo :
          /\ todo' = todo \ {r}
          /\ Running(r[4])
          /\ texts' = WithText(Key(r[1], r[2], r[3]), r[4])
    /\ UNCHANGED <<kept, wins, rows, warned>>

(* Mutant: a pane that is gone fails the save. *)
CaptureGivesUp ==
    /\ Step("captures", "failed")
    /\ \E r \in todo : ~Running(r[4])
    /\ UNCHANGED <<kept, wins, rows, todo, texts, warned>>

(* The pane is gone: that costs its text, and a warning. *)
CaptureMissed ==
    /\ Step("captures", "captures")
    /\ \E r \in todo : /\ todo' = todo \ {r}
                       /\ ~Running(r[4])
                       /\ warned' = warned \cup {r[4]}
    /\ UNCHANGED <<kept, wins, rows, texts>>

Saved ==
    /\ Step("captures", "saved")
    /\ todo = {}
    /\ UNCHANGED <<kept, wins, rows, todo, texts, warned>>

(* The control connection fails: nothing is saved. *)
ConnectionFails ==
    /\ pc \notin {"saved", "failed"}
    /\ fails < MaxFails
    /\ fails' = fails + 1
    /\ pc' = "failed"
    /\ UNCHANGED <<server, acts, kept, wins, rows, todo, texts, warned, touched, closed, joined>>

Collect ==
    \/ ServerInfo \/ ListSessions \/ ListWindows \/ ListPanes
    \/ Capture \/ CaptureMissed \/ Saved

CONext == User \/ Collect \/ ConnectionFails

(* The collector runs on, and tmux answers or the connection fails. *)
COSpec == COInit /\ [][CONext]_covars /\ WF_covars(Collect)

-----------------------------------------------------------------------------
(* What restore's QueryLive sees of the same server.  It asks for windows   *)
(* only, and finds the members of a group by the windows they show.         *)
WindowRows == {w \in Live \X Indexes : windows[shows[w[1]]][w[2]] # Gap}

Bucket(group) == {w[1] : w \in {v \in WindowRows : shows[v[1]] = group}}

(* Mutant: a group is left out, as all of its members say they are in one. *)
QueryUngrouped == {w \in WindowRows : shows[w[1]] \notin grouped}

QueryLive ==
    {w \in WindowRows : shows[w[1]] \in grouped =>
                            w[1] = CanonicalMember(shows[w[1]], Bucket(shows[w[1]]))}

-----------------------------------------------------------------------------
COTypeOK ==
    /\ shows \in [Sessions -> Sessions \cup {None}]
    /\ grouped \subseteq Sessions
    /\ windows \in [Sessions -> [Indexes -> Seq(1..MaxPane)]]
    /\ pc \in {"server", "sessions", "windows", "panes", "captures", "saved", "failed"}
    /\ kept \subseteq Sessions
    /\ wins \subseteq kept \X Indexes
    /\ \A r \in rows : <<r[1], r[2]>> \in wins
    /\ todo \subseteq rows

(* The windows of a session that lives through the collection, and whose    *)
(* group loses no member, are in the snapshot as they are, if the user      *)
(* leaves them alone; whatever happens around them.  And no pane is saved   *)
(* twice, through two members of a group, while no closed session's name is *)
(* used again.                                                              *)
StillWindowsAreSaved ==
    /\ pc = "saved" =>
          \A o \in Sessions, i \in Indexes :
              (IsWindow(o, i) /\ <<o, i>> \notin touched /\ \A c \in closed : c[2] # o) =>
                  \E s \in Showing(o) :
                      /\ <<s, i>> \in wins
                      /\ {<<r[3], r[4]>> : r \in {q \in rows : q[1] = s /\ q[2] = i}}
                           = {<<k, windows[o][i][k]>> : k \in DOMAIN windows[o][i]}
    /\ \A r, q \in rows :
          (r[4] = q[4] /\ r # q) => \E c \in closed : c[1] \in {r[1], q[1]}

(* A saved text is of the pane it is saved with, though windows and panes   *)
(* were moved and killed since; or, where two sessions have one key for     *)
(* their panes, of one of the two.  A pane without its text is warned of.   *)
TextsAreThePanes ==
    pc = "saved" =>
        \A r \in rows :
            LET sharing == {q \in rows : Key(q[1], q[2], q[3]) = Key(r[1], r[2], r[3])}
            IN  \/ r[4] \in warned
                \/ /\ Key(r[1], r[2], r[3]) \in DOMAIN texts
                   /\ texts[Key(r[1], r[2], r[3])] \in {q[4] : q \in sharing}

(* Restoring a snapshot onto the server it was taken from finds there what  *)
(* it saved, and nothing else, of the windows that were left alone: the      *)
(* collector, from the sessions, and QueryLive, from the windows, keep the   *)
(* same member of each group, though others were made or closed meanwhile.   *)
(* (A group that lost a member, or that one joined while its namesake was    *)
(* gone, may have another now.)                                              *)
SavedIsLive ==
    pc = "saved" =>
        \A o \in Sessions, i \in Indexes : \A s \in Showing(o) :
            (/\ IsWindow(o, i) /\ <<o, i>> \notin touched
             /\ <<s, o>> \notin joined /\ \A c \in closed : c[2] # o
             /\ \/ \A j \in joined : j[2] # o
                \/ shows[o] = o /\ <<o, o>> \notin joined) =>
                    (<<s, i>> \in wins <=> <<s, i>> \in QueryLive)

(* A collection comes to its end, and nothing the user does fails it.       *)
CollectEnds == <>(pc = "saved" \/ (pc = "failed" /\ fails > 0))
=============================================================================
