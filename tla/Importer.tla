------------------------------ MODULE Importer ------------------------------
(***************************************************************************)
(* FromResurrect: a tmux-resurrect save, one record a line, and the tar of *)
(* pane contents beside it become a snapshot.                              *)
(*                                                                         *)
(* A line is the sequence of its tab-separated fields, so a tab inside a   *)
(* free text is one field more and a newline one line more.  tmux-resurrect*)
(* (external) writes records in any order; the importer reads each line    *)
(* when it is written, which its loop over the whole file cannot tell.     *)
(***************************************************************************)
EXTENDS Naturals, Sequences, SequencesExt, FiniteSets, FiniteSetsExt

CONSTANTS
    Field,        \* what may stand between two tabs
    Panes,        \* what may be saved of a pane: see PaneRecord
    Windows,      \* what may be saved of a window: see WindowRecord
    Clients,      \* sessions a client may be attached to
    Oddities,     \* other lines, as sequences of fields
    Number,       \* numeral, as tmux prints it -> number
    Stripped,     \* field with a leading colon -> field without it
    Resumes,      \* commands that resume a Claude session
    KeyName,      \* session -> its name in a PaneKey
    Slashed,      \* sessions with a slash in their name
    Strangers,    \* places of panes that no line names, for the tar
    MaxRecords    \* bound: records in a save

PaneRecord == {"session", "window", "index", "title", "dir", "active", "command"}
WindowRecord == {"session", "window", "name", "active", "auto"}
StateRecord == {"client"}

ASSUME ImporterAssumption ==
    /\ \A p \in Panes : DOMAIN p = PaneRecord
    /\ \A w \in Windows : DOMAIN w = WindowRecord
    /\ MaxRecords \in Nat

VARIABLES
    saved,      \* the records written so far
    pending,    \* lines written and not yet read
    lines,      \* how many lines were read
    taken,      \* how many made a pane, dressed a window or say nothing
    windows,    \* the importer's map: <<session, index>> -> window
    client,     \* the session the client was attached to, or ""
    warned,     \* how many warnings were given
    entered,    \* the tar entries read, as places
    texts,      \* pane key -> the place its text was captured at
    phase       \* "lines", then "tar", then "done"

vars == <<saved, pending, lines, taken, windows, client, warned, entered, texts, phase>>
tar == <<entered, texts>>

Place(p) == <<p.session, p.window, p.index>>

(***************************************************************************)
(* tmux-resurrect's lines.  A title may have tabs, and a newline in it     *)
(* breaks the line in two; a command is the last field, tabs and all.      *)
(***************************************************************************)
Newline == "newline"

BrokenAt(line) ==
    IF Contains(line, Newline)
    THEN LET i == SelectInSeq(line, LAMBDA f : f = Newline)
         IN  <<SubSeq(line, 1, i - 1), SubSeq(line, i + 1, Len(line))>>
    ELSE <<line>>

PaneLines(p) == BrokenAt(
    <<"pane", p.session, p.window, "1", ":*", p.index>> \o p.title
        \o <<p.dir, p.active, "sh">> \o p.command)

WindowLine(w) ==
    <<"window", w.session, w.window>> \o w.name \o <<w.active, ":*", "layout", w.auto>>

SavedPanes == {r \in ToSet(saved) : DOMAIN r = PaneRecord}
SavedWindows == {r \in ToSet(saved) : DOMAIN r = WindowRecord}
SavedClients == {r.client : r \in {r \in ToSet(saved) : DOMAIN r = StateRecord}}

CanWrite == phase = "lines" /\ pending = <<>> /\ Len(saved) < MaxRecords

WritePane ==
    /\ CanWrite
    /\ \E p \in Panes :
          /\ \A r \in SavedPanes : Place(r) # Place(p)
          /\ saved' = Append(saved, p) /\ pending' = PaneLines(p)
    /\ UNCHANGED <<lines, taken, windows, client, warned, tar, phase>>

WriteWindow ==
    /\ CanWrite
    /\ \E w \in Windows :
          /\ \A r \in SavedWindows : <<r.session, r.window>> # <<w.session, w.window>>
          /\ saved' = Append(saved, w) /\ pending' = <<WindowLine(w)>>
    /\ UNCHANGED <<lines, taken, windows, client, warned, tar, phase>>

WriteState ==
    /\ CanWrite /\ SavedClients = {}
    /\ \E c \in Clients :
          saved' = Append(saved, [client |-> c]) /\ pending' = << <<"state", c, "last">> >>
    /\ UNCHANGED <<lines, taken, windows, client, warned, tar, phase>>

WriteOddity ==
    /\ CanWrite /\ lines < MaxRecords
    /\ \E l \in Oddities : pending' = <<l>>
    /\ UNCHANGED <<saved, lines, taken, windows, client, warned, tar, phase>>

(***************************************************************************)
(* The importer's loop over the lines.                                     *)
(***************************************************************************)
Numeral(f) == f \in DOMAIN Number
Strip(f) == IF f \in DOMAIN Stripped THEN Stripped[f] ELSE f

(* classifyRestore. *)
Restore(command) ==
    IF command = "" THEN "shell" ELSE IF command \in Resumes THEN "claude" ELSE "argv"

(* splitTail(line, 4), then SplitN(head, n), whose last piece takes what is
   left of the head. *)
Shaped(line, n) == Len(line) >= n + 4
Free(line, n) == SubSeq(line, n, Len(line) - 4)
FromEnd(line, i) == line[Len(line) - 4 + i]

GoodPane(line) == line[1] = "pane" /\ Shaped(line, 7) /\ Numeral(line[3]) /\ Numeral(line[6])
GoodState(line) == line[1] = "state" /\ Len(line) = 3
GoodWindow(line) == line[1] = "window" /\ Shaped(line, 4) /\ Numeral(line[3])

(* A blank line, and a session that only mirrors another: nothing to keep. *)
Silent(line) ==
    \/ line = <<"">>
    \/ line[1] = "grouped_session"

Keeps(line) == GoodPane(line) \/ GoodWindow(line) \/ GoodState(line)
Understood(line) == Keeps(line) \/ Silent(line)

(* The saves that are looked at: tmux prints numbers, and each in one way;  *)
(* a title, a name or a command has at least one piece; and what is not a   *)
(* record, half of a broken one included, does not happen to look like one. *)
Whole(p) == Len(PaneLines(p)) = 1

ASSUME SaveAssumption ==
    /\ {"pane", "window", "state", "1", ":*", "sh", "layout", "last"} \subseteq Field
    /\ \A p \in Panes :
          /\ {p.session, p.dir, p.active} \subseteq Field
          /\ {p.window, p.index} \subseteq DOMAIN Number
          /\ {p.title, p.command} \subseteq Seq(Field) \ {<<>>}
          /\ Whole(p) \/ \A l \in ToSet(PaneLines(p)) : ~Keeps(l)
    /\ \A w \in Windows :
          /\ {w.session, w.active, w.auto} \subseteq Field
          /\ w.window \in DOMAIN Number
          /\ w.name \in Seq(Field) \ {<<>>}
    /\ \A l \in Oddities : ~Keeps(l)
    /\ \A f \in DOMAIN Number : f \in Field /\ Number[f] \in Int
    /\ \A f, g \in DOMAIN Number : Number[f] = Number[g] => f = g
    /\ \A f \in DOMAIN Stripped : Stripped[f] \in Field
    /\ \A place \in Strangers : place = <<place[1], place[2], place[3]>>

PaneOf(line) ==
    [index |-> Number[line[6]], cwd |-> Strip(FromEnd(line, 1)), title |-> Free(line, 7),
     active |-> FromEnd(line, 2) = "1", restore |-> Restore(Strip(FromEnd(line, 4)))]

(* windowFor: a window is made by the first line that names it. *)
NoWindow == [name |-> <<>>, active |-> FALSE, auto |-> FALSE, panes |-> <<>>]
WindowFor(k) == IF k \in DOMAIN windows THEN windows[k] ELSE NoWindow
WithWindow(k, w) == [i \in DOMAIN windows \cup {k} |-> IF i = k THEN w ELSE windows[i]]
WindowOf(line) == <<line[2], Number[line[3]]>>

Line == Head(pending)

Reads ==
    /\ pending # <<>>
    /\ pending' = Tail(pending)
    /\ lines' = lines + 1
    /\ UNCHANGED <<saved, tar, phase>>

ReadPane ==
    /\ Reads /\ GoodPane(Line)
    /\ LET k == WindowOf(Line)
       IN  windows' = WithWindow(k, [WindowFor(k) EXCEPT !.panes = Append(@, PaneOf(Line))])
    /\ taken' = taken + 1
    /\ UNCHANGED <<client, warned>>

Dressed(w) ==
    [w EXCEPT !.name = <<Strip(Line[4])>> \o Tail(Free(Line, 4)),
              !.active = (FromEnd(Line, 1) = "1"),
              !.auto = (FromEnd(Line, 4) = "on")]

(* Mutant: a window line makes its window whatever pane lines came before. *)
ReadWindowAnew ==
    /\ Reads /\ GoodWindow(Line)
    /\ windows' = WithWindow(WindowOf(Line), Dressed(NoWindow))
    /\ taken' = taken + 1
    /\ UNCHANGED <<client, warned>>

ReadWindow ==
    /\ Reads /\ GoodWindow(Line)
    /\ LET k == WindowOf(Line) IN windows' = WithWindow(k, Dressed(WindowFor(k)))
    /\ taken' = taken + 1
    /\ UNCHANGED <<client, warned>>

ReadState ==
    /\ Reads /\ GoodState(Line)
    /\ client' = Line[2]
    /\ taken' = taken + 1
    /\ UNCHANGED <<windows, warned>>

ReadSilent ==
    /\ Reads /\ Silent(Line)
    /\ taken' = taken + 1
    /\ UNCHANGED <<windows, client, warned>>

(* Anything else is skipped with a warning.
   Mutant: a pane or window that lacks something is skipped without. *)
ReadBadSilently ==
    /\ Reads /\ ~Understood(Line)
    /\ warned' = IF Line[1] \in {"pane", "window"} THEN warned ELSE warned + 1
    /\ UNCHANGED <<taken, windows, client>>

ReadBad ==
    /\ Reads /\ ~Understood(Line)
    /\ warned' = warned + 1
    /\ UNCHANGED <<taken, windows, client>>

EndOfFile ==
    /\ phase = "lines" /\ pending = <<>>
    /\ phase' = "tar"
    /\ UNCHANGED <<saved, pending, lines, taken, windows, client, warned, tar>>

(***************************************************************************)
(* The snapshot: sessions with their windows by index, and these with      *)
(* their panes by index.                                                   *)
(***************************************************************************)
Indexes(s) == {k[2] : k \in {k \in DOMAIN windows : k[1] = s}}

(* sort.Slice: a pane stands behind as many as have a lower index. *)
Before(panes, m, n) ==
    \/ panes[m].index < panes[n].index
    \/ panes[m].index = panes[n].index /\ m < n
Behind(panes, n) == Cardinality({m \in DOMAIN panes : Before(panes, m, n)})
ByIndex(panes) ==
    [r \in DOMAIN panes |-> panes[CHOOSE n \in DOMAIN panes : Behind(panes, n) = r - 1]]

Sorted(w) == [w EXCEPT !.panes = ByIndex(@)]

SessionOf(s) ==
    [windows |-> [i \in Indexes(s) |-> Sorted(windows[<<s, i>>])],
     active |-> LET active == {i \in Indexes(s) : windows[<<s, i>>].active}
                IN  IF active = {} THEN 0 ELSE Max(active)]

Snapshot == [s \in {k[1] : k \in DOMAIN windows} |-> SessionOf(s)]

(***************************************************************************)
(* readPaneContents.                                                       *)
(***************************************************************************)
(* Mutant: the key leaves the pane's own index out. *)
PaneKeyOfWindow(session, window, index) == <<KeyName[session], window>>
PaneKey(session, window, index) == <<KeyName[session], window, index>>

ValidKeys ==
    UNION {{PaneKey(k[1], k[2], p.index) : p \in ToSet(windows[k].panes)} : k \in DOMAIN windows}

Tarred == {Place(p) : p \in SavedPanes} \cup Strangers

(* parsePaneEntryName; a session with a slash is cut at it by Base. *)
Parses(place) == place[1] \notin Slashed /\ Numeral(place[2]) /\ Numeral(place[3])
KeyOf(place) == PaneKey(place[1], Number[place[2]], Number[place[3]])

ReadEntry ==
    /\ phase = "tar"
    /\ \E place \in Tarred \ entered :
          /\ entered' = entered \cup {place}
          /\ IF Parses(place) /\ KeyOf(place) \in ValidKeys
             THEN /\ texts' = [k \in DOMAIN texts \cup {KeyOf(place)} |->
                                  IF k = KeyOf(place) THEN place ELSE texts[k]]
                  /\ UNCHANGED warned
             ELSE warned' = warned + 1 /\ UNCHANGED texts
    /\ UNCHANGED <<saved, pending, lines, taken, windows, client, phase>>

Imported ==
    /\ phase = "tar"
    /\ phase' = "done"
    /\ UNCHANGED <<saved, pending, lines, taken, windows, client, warned, tar>>

IInit ==
    /\ saved = <<>> /\ pending = <<>> /\ lines = 0 /\ taken = 0
    /\ windows = <<>> /\ client = "" /\ warned = 0
    /\ entered = {} /\ texts = <<>> /\ phase = "lines"

INext ==
    \/ WritePane \/ WriteWindow \/ WriteState \/ WriteOddity
    \/ ReadPane \/ ReadWindow \/ ReadState \/ ReadSilent \/ ReadBad
    \/ EndOfFile \/ ReadEntry \/ Imported

ISpec == IInit /\ [][INext]_vars

(***************************************************************************)
(* Properties.                                                             *)
(***************************************************************************)
(* What can be told from a line: neither a newline in the title nor a tab   *)
(* in the command.                                                          *)
Plain(p) == Whole(p) /\ Len(p.command) = 1

Shown(p) ==
    [index |-> Number[p.index], cwd |-> Strip(p.dir), title |-> p.title,
     active |-> p.active = "1", restore |-> Restore(Strip(p.command[1]))]

(* A window as records say it is, its panes as a set. *)
Wanted(records, s, i) ==
    LET here == {r \in records : r.session = s /\ Number[r.window] = i}
        dress == {r \in here : DOMAIN r = WindowRecord}
    IN  [name |-> IF dress = {} THEN <<>>
                  ELSE LET n == (CHOOSE w \in dress : TRUE).name IN <<Strip(n[1])>> \o Tail(n),
         active |-> \E w \in dress : w.active = "1",
         auto |-> \E w \in dress : w.auto = "on",
         panes |-> {Shown(p) : p \in {r \in here : DOMAIN r = PaneRecord}}]

(* The importer yields what was saved, whatever order the lines stand in,   *)
(* with tabs in titles and names, and whatever other lines are about: this  *)
(* is the snapshot read off the set of records, the panes of each window in *)
(* the order of their indexes.  A title with a newline loses its pane;      *)
(* commands with a tab are left out, see the README.                        *)
AsSaved ==
    (pending = <<>> /\ \A p \in SavedPanes : Whole(p) => Plain(p)) =>
        LET records == {p \in SavedPanes : Whole(p)} \cup SavedWindows
            of(s) == {Number[r.window] : r \in {r \in records : r.session = s}}
        IN  /\ client = (IF SavedClients = {} THEN "" ELSE CHOOSE c \in SavedClients : TRUE)
            /\ DOMAIN Snapshot = {r.session : r \in records}
            /\ \A s \in DOMAIN Snapshot :
                  /\ DOMAIN Snapshot[s].windows = of(s)
                  /\ Snapshot[s].active =
                        LET active == {i \in of(s) : Wanted(records, s, i).active}
                        IN  IF active = {} THEN 0 ELSE Max(active)
                  /\ \A i \in of(s) :
                        LET w == Snapshot[s].windows[i]
                        IN  /\ [w EXCEPT !.panes = ToSet(@)] = Wanted(records, s, i)
                            /\ \A m, n \in DOMAIN w.panes :
                                  m < n => w.panes[m].index < w.panes[n].index

(* Nothing is dropped in silence: every line that is not known to say       *)
(* nothing is taken or warned about, and so is every tar entry, but for one *)
(* whose pane shares its key with another.                                  *)
KeysDiffer ==
    \A a, b \in Tarred : a # b /\ Parses(a) /\ Parses(b) => KeyOf(a) # KeyOf(b)

Accounted ==
    /\ phase = "lines" => lines = taken + warned
    /\ lines + Cardinality(entered) >= taken + warned + Cardinality(DOMAIN texts)
    /\ KeysDiffer =>
           lines + Cardinality(entered) = taken + warned + Cardinality(DOMAIN texts)

(* A text goes to the pane it was captured from, and to no other: what the  *)
(* snapshot holds under a key is the text of a pane of the save that stands *)
(* at that very place, and such a pane has its text as soon as its entry is *)
(* read; an entry that no pane of the snapshot answers to is not attached.  *)
(* This is so for every place whose key no other place has, those of lines  *)
(* that could not be read and of entries without a line among them: between *)
(* two that share a key the code takes the one for the other.               *)
Held == {p \in SavedPanes : Whole(p)}

Rivals(place) ==
    {other \in Tarred \ {place} :
        KeyName[other[1]] = KeyName[place[1]] /\ other[2] = place[2] /\ other[3] = place[3]}

TextsFindTheirPanes ==
    /\ \A k \in DOMAIN texts : Rivals(texts[k]) = {} =>
          \E p \in Held : Place(p) = texts[k] /\ KeyOf(Place(p)) = k
    /\ \A p \in Held : Rivals(Place(p)) = {} =>
          IF Place(p) \in entered /\ p.session \notin Slashed
          THEN KeyOf(Place(p)) \in DOMAIN texts /\ texts[KeyOf(Place(p))] = Place(p)
          ELSE KeyOf(Place(p)) \notin DOMAIN texts
=============================================================================
