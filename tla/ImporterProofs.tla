--------------------------- MODULE ImporterProofs ---------------------------
(***************************************************************************)
(* What an import keeps, for every save that SaveAssumption admits,        *)
(* whatever order its lines stand in and however many there are.  The      *)
(* argument follows the reading: pending holds the lines of the last       *)
(* record or lines that are none (PendingInv), and the importer's windows  *)
(* show the records read so far (Shows); the entries of the tar are counted *)
(* beside it.                                                              *)
(***************************************************************************)
EXTENDS Importer, FiniteSetTheorems, SequenceTheorems, TLAPS

IsPane(r) == DOMAIN r = PaneRecord
IsWindow(r) == DOMAIN r = WindowRecord
States == [StateRecord -> Clients]
StateLine(r) == <<"state", r.client, "last">>

(* No two records speak of one pane or window, and one state is written.    *)
SavedInv ==
    /\ saved \in Seq(Panes \cup Windows \cup States)
    /\ \A i, j \in DOMAIN saved : i # j =>
          /\ IsPane(saved[i]) /\ IsPane(saved[j]) => Place(saved[i]) # Place(saved[j])
          /\ IsWindow(saved[i]) /\ IsWindow(saved[j]) =>
                <<saved[i].session, saved[i].window>> # <<saved[j].session, saved[j].window>>
          /\ saved[i] \in States => saved[j] \notin States

(* The record is written, and its line not yet read. *)
OneLine(r, written) ==
    \/ r \in Panes /\ Whole(r) /\ written = PaneLines(r)
    \/ r \in Windows /\ written = <<WindowLine(r)>>
    \/ r \in States /\ written = <<StateLine(r)>>

Unread == saved # <<>> /\ OneLine(saved[Len(saved)], pending)

PendingInv ==
    \/ pending = <<>>
    \/ Unread
    \/ pending = <<pending[1]>> /\ ~Keeps(pending[1])
    \/ pending = <<pending[1], pending[2]>> /\ ~Keeps(pending[1]) /\ ~Keeps(pending[2])

(* The records the importer has read: all that were written on one line,    *)
(* but for the last while it waits.                                         *)
Readable(r) == IsPane(r) => Whole(r)
Known == {saved[i] : i \in {i \in DOMAIN saved : Readable(saved[i]) /\ (Unread => i < Len(saved))}}
KeyOfRecord(r) == <<r.session, Number[r.window]>>

KnownPanes(k) == {r \in Known : IsPane(r) /\ KeyOfRecord(r) = k}
KnownWindows(k) == {r \in Known : IsWindow(r) /\ KeyOfRecord(r) = k}

(* The panes of a window are those of the records, each once. *)
PaneShape == [index : Int, cwd : Field, title : Seq(Field), active : BOOLEAN,
              restore : {"shell", "claude", "argv"}]

Shows(p, shown) == shown.index = Number[p.index] /\ (Plain(p) => shown = Shown(p))
PanesShown(panes, records) ==
    /\ panes \in Seq(PaneShape)
    /\ \A n \in DOMAIN panes : \E p \in records : Shows(p, panes[n])
    /\ \A p \in records : \E n \in DOMAIN panes : Shows(p, panes[n])
    /\ \A m, n \in DOMAIN panes : m # n => panes[m].index # panes[n].index

(* A window is dressed as its record says, or not at all. *)
WindowShown(w, records) ==
    \/ records = {} /\ w = [NoWindow EXCEPT !.panes = w.panes]
    \/ \E r \in records :
          w = [name |-> <<Strip(r.name[1])>> \o Tail(r.name), active |-> r.active = "1",
               auto |-> r.auto = "on", panes |-> w.panes]

WindowsInv ==
    /\ DOMAIN windows = {KeyOfRecord(r) : r \in {r \in Known : IsPane(r) \/ IsWindow(r)}}
    /\ \A k \in DOMAIN windows :
          /\ PanesShown(windows[k].panes, KnownPanes(k))
          /\ WindowShown(windows[k], KnownWindows(k))

ClientInv ==
    \/ client = "" /\ \A r \in Known : r \notin States
    \/ \E r \in Known : r \in States /\ client = r.client

ReadInv == SavedInv /\ PendingInv /\ WindowsInv /\ ClientInv /\ (phase # "lines" => pending = <<>>)

(***************************************************************************)
(* The lines.                                                              *)
(***************************************************************************)
LEMMA Joined ==
  ASSUME NEW s \in Seq(Field), NEW t \in Seq(Field)
  PROVE  /\ s \o t \in Seq(Field) /\ Len(s \o t) = Len(s) + Len(t)
         /\ \A i \in 1..Len(s) : (s \o t)[i] = s[i]
         /\ \A i \in 1..Len(t) : (s \o t)[Len(s) + i] = t[i]
<1>1. Len(s) \in Nat /\ Len(t) \in Nat
  BY LenProperties
<1>2. /\ s \o t \in Seq(Field) /\ Len(s \o t) = Len(s) + Len(t)
      /\ \A i \in 1..Len(s) + Len(t) : (s \o t)[i] = IF i <= Len(s) THEN s[i] ELSE t[i - Len(s)]
  BY ConcatProperties
<1>3. \A i \in 1..Len(s) : (s \o t)[i] = s[i]
  BY <1>1, <1>2
<1>4. \A i \in 1..Len(t) : (s \o t)[Len(s) + i] = t[i]
  BY <1>1, <1>2
<1> QED BY <1>2, <1>3, <1>4

LEMMA SubSeqOfStrings ==
  ASSUME NEW line \in Seq(Field), NEW m \in Nat \ {0}, NEW n \in Nat, n <= Len(line)
  PROVE  /\ SubSeq(line, m, n) \in Seq(Field)
         /\ Len(SubSeq(line, m, n)) = IF m <= n THEN n - m + 1 ELSE 0
         /\ \A i \in 1 .. n - m + 1 : SubSeq(line, m, n)[i] = line[m + i - 1]
<1>1. \A i \in m..n : line[i] \in Field
  BY LenProperties, ElementOfSeq
<1> QED BY <1>1, SubSeqProperties

LEMMA FieldTypes ==
  ASSUME NEW f \in Field
  PROVE  Strip(f) \in Field /\ Restore(f) \in {"shell", "claude", "argv"}
  BY SaveAssumption DEF Strip, Restore

LEMMA Words ==
  /\ "pane" \in Field /\ "window" \in Field /\ "state" \in Field /\ "1" \in Field
  /\ ":*" \in Field /\ "sh" \in Field /\ "layout" \in Field /\ "last" \in Field
  BY SaveAssumption

LEMMA Three ==
  ASSUME NEW T, NEW a \in T, NEW b \in T, NEW c \in T
  PROVE  /\ <<a, b, c>> \in Seq(T) /\ Len(<<a, b, c>>) = 3
         /\ <<a, b, c>>[1] = a /\ <<a, b, c>>[2] = b /\ <<a, b, c>>[3] = c
  OBVIOUS

LEMMA Four ==
  ASSUME NEW T, NEW a \in T, NEW b \in T, NEW c \in T, NEW d \in T
  PROVE  /\ <<a, b, c, d>> \in Seq(T) /\ Len(<<a, b, c, d>>) = 4
         /\ <<a, b, c, d>>[1] = a /\ <<a, b, c, d>>[2] = b
         /\ <<a, b, c, d>>[3] = c /\ <<a, b, c, d>>[4] = d
  OBVIOUS

LEMMA Six ==
  ASSUME NEW T, NEW a \in T, NEW b \in T, NEW c \in T, NEW d \in T, NEW e \in T, NEW f \in T
  PROVE  /\ <<a, b, c, d, e, f>> \in Seq(T) /\ Len(<<a, b, c, d, e, f>>) = 6
         /\ <<a, b, c, d, e, f>>[1] = a /\ <<a, b, c, d, e, f>>[2] = b
         /\ <<a, b, c, d, e, f>>[3] = c /\ <<a, b, c, d, e, f>>[6] = f
  OBVIOUS

(* The free text of a record's line is what stands between the fields       *)
(* before it and the four after it, tabs and all.                           *)
LEMMA FreeText ==
  ASSUME NEW a \in Seq(Field), NEW text \in Seq(Field), NEW b \in Seq(Field)
  PROVE  /\ (a \o text) \o b \in Seq(Field)
         /\ Len((a \o text) \o b) = Len(a) + Len(text) + Len(b)
         /\ \A i \in 1..Len(a) : ((a \o text) \o b)[i] = a[i]
         /\ \A i \in 1..Len(text) : ((a \o text) \o b)[Len(a) + i] = text[i]
         /\ \A i \in 1..Len(b) : ((a \o text) \o b)[Len(a) + Len(text) + i] = b[i]
         /\ SubSeq((a \o text) \o b, Len(a) + 1, Len(a) + Len(text)) = text
<1> DEFINE head == a \o text
           line == head \o b
<1>1. Len(a) \in Nat /\ Len(text) \in Nat /\ Len(b) \in Nat
  BY LenProperties
<1>2. /\ head \in Seq(Field) /\ Len(head) = Len(a) + Len(text)
      /\ \A i \in 1..Len(a) : head[i] = a[i]
      /\ \A i \in 1..Len(text) : head[Len(a) + i] = text[i]
  BY Joined
<1> HIDE DEF head
<1>3. /\ line \in Seq(Field) /\ Len(line) = Len(head) + Len(b)
      /\ \A i \in 1..Len(head) : line[i] = head[i]
      /\ \A i \in 1..Len(b) : line[Len(head) + i] = b[i]
  BY <1>2, Joined
<1> HIDE DEF line
<1>4. \A i \in 1..Len(a) : line[i] = a[i]
  BY <1>1, <1>2, <1>3
<1>5. \A i \in 1..Len(text) : line[Len(a) + i] = text[i]
  <2> SUFFICES ASSUME NEW i \in 1..Len(text) PROVE line[Len(a) + i] = text[i]
    OBVIOUS
  <2>1. Len(a) + i \in 1..Len(head)
    BY <1>1, <1>2
  <2> QED BY <2>1, <1>2, <1>3
<1>6. SubSeq(line, Len(a) + 1, Len(a) + Len(text)) = text
  <2> DEFINE sub == SubSeq(line, Len(a) + 1, Len(a) + Len(text))
  <2>1. /\ sub \in Seq(Field) /\ Len(sub) = Len(text)
        /\ \A i \in 1..Len(text) : sub[i] = line[Len(a) + i]
    BY SubSeqOfStrings, <1>1, <1>2, <1>3
  <2> HIDE DEF sub
  <2>2. \A i \in 1..Len(sub) : sub[i] = text[i]
    BY <2>1, <1>5
  <2>3. sub = text
    BY <2>1, <2>2, SeqEqual
  <2> QED BY <2>3 DEF sub
<1>7. Len(line) = Len(a) + Len(text) + Len(b) /\ \A i \in 1..Len(b) : line[Len(a) + Len(text) + i] = b[i]
  BY <1>1, <1>2, <1>3
<1> QED BY <1>3, <1>4, <1>5, <1>6, <1>7 DEF head, line

(* The same for a pane's line, where a command with a tab is more than one  *)
(* field at the end.                                                        *)
LEMMA PaneText ==
  ASSUME NEW a \in Seq(Field), NEW text \in Seq(Field), NEW b \in Seq(Field)
  PROVE  LET l == (a \o text) \o b
         IN  /\ l \in Seq(Field) /\ Len(l) = Len(a) + Len(text) + Len(b)
             /\ \A i \in 1..Len(a) : l[i] = a[i]
             /\ Len(b) = 4 => Free(l, Len(a) + 1) = text
             /\ Len(b) = 4 => \A i \in 1..4 : FromEnd(l, i) = b[i]
<1> DEFINE l == (a \o text) \o b
<1>1. Len(a) \in Nat /\ Len(text) \in Nat /\ Len(b) \in Nat
  BY LenProperties
<1>2. /\ l \in Seq(Field) /\ Len(l) = Len(a) + Len(text) + Len(b)
      /\ \A i \in 1..Len(a) : l[i] = a[i]
      /\ \A i \in 1..Len(b) : l[Len(a) + Len(text) + i] = b[i]
      /\ SubSeq(l, Len(a) + 1, Len(a) + Len(text)) = text
  BY FreeText
<1> HIDE DEF l
<1>3. ASSUME Len(b) = 4
      PROVE  Free(l, Len(a) + 1) = text /\ \A i \in 1..4 : FromEnd(l, i) = b[i]
  <2>1. Len(l) - 4 = Len(a) + Len(text)
    BY <1>1, <1>2, <1>3
  <2> QED BY <1>2, <1>3, <2>1 DEF Free, FromEnd
<1> QED BY <1>2, <1>3 DEF l

Glued(a, title, three, command) == ((a \o title) \o three) \o command
ReadsBack(l, a, title, three, command) ==
    /\ l \in Seq(Field) /\ Len(l) >= 11
    /\ \A i \in 1..6 : l[i] = a[i]
    /\ Len(command) = 1 =>
          /\ Free(l, 7) = title /\ FromEnd(l, 4) = command[1]
          /\ \A i \in 1..3 : FromEnd(l, i) = three[i]

LEMMA PaneFields ==
  ASSUME NEW a \in Seq(Field), NEW title \in Seq(Field),
         NEW three \in Seq(Field), NEW command \in Seq(Field),
         Len(a) = 6, Len(title) > 0, Len(three) = 3, Len(command) > 0
  PROVE  ReadsBack(Glued(a, title, three, command), a, title, three, command)
<1> DEFINE rest == three \o command
           line == (a \o title) \o rest
<1>1. /\ rest \in Seq(Field) /\ Len(rest) = Len(three) + Len(command)
      /\ \A i \in 1..Len(three) : rest[i] = three[i]
      /\ \A i \in 1..Len(command) : rest[Len(three) + i] = command[i]
  BY Joined
<1>a. ((a \o title) \o three) \o command = line
  <2> DEFINE head == a \o title
  <2>1. head \in Seq(Field)
    BY Joined
  <2> HIDE DEF head, rest
  <2>2. (head \o three) \o command = head \o (three \o command)
    BY <2>1, ConcatAssociative
  <2> QED BY <2>2, SMTT(30) DEF head, rest
<1> HIDE DEF rest
<1>2. /\ line \in Seq(Field) /\ Len(line) = Len(a) + Len(title) + Len(rest)
      /\ \A i \in 1..Len(a) : line[i] = a[i]
      /\ Len(rest) = 4 => Free(line, Len(a) + 1) = title
      /\ Len(rest) = 4 => \A i \in 1..4 : FromEnd(line, i) = rest[i]
  BY <1>1, PaneText, ZenonT(60)
<1> HIDE DEF line
<1>3. Len(a) \in Nat /\ Len(title) \in Nat /\ Len(command) \in Nat
  BY LenProperties
<1> DEFINE l == Glued(a, title, three, command)
<1>4. l = line
  BY <1>a DEF Glued
<1> HIDE DEF l
<1>5. rest[4] = command[1]
  <2>1. rest[Len(three) + 1] = command[1]
    BY <1>1, <1>3
  <2> QED BY <2>1
<1>6. \A i \in 1..3 : rest[i] = three[i] /\ i \in 1..4
  BY <1>1
<1>7. ASSUME Len(command) = 1
      PROVE  /\ Free(l, 7) = title /\ FromEnd(l, 4) = command[1]
             /\ \A i \in 1..3 : FromEnd(l, i) = three[i]
  <2>1. Len(rest) = 4 /\ Len(a) + 1 = 7
    BY <1>1, <1>7
  <2>2. Free(l, 7) = title /\ \A i \in 1..4 : FromEnd(l, i) = rest[i]
    BY <1>2, <1>4, <2>1
  <2> QED BY <2>2, <1>5, <1>6
<1>8. Len(l) >= 11
  BY <1>1, <1>2, <1>3, <1>4
<1>9. ReadsBack(l, a, title, three, command)
  BY <1>2, <1>4, <1>7, <1>8 DEF ReadsBack
<1> QED BY <1>9 DEF l

(* What the importer makes of a pane's line: its place, and all it shows    *)
(* when the command is one field.                                           *)
LEMMA PaneRecordTypes ==
  ASSUME NEW p \in Panes
  PROVE  /\ p.session \in Field /\ p.dir \in Field /\ p.active \in Field
         /\ p.window \in DOMAIN Number /\ p.index \in DOMAIN Number
         /\ p.window \in Field /\ p.index \in Field /\ Number[p.index] \in Int
         /\ p.title \in Seq(Field) /\ Len(p.title) > 0
         /\ p.command \in Seq(Field) /\ Len(p.command) > 0
<1>1. /\ p.session \in Field /\ p.dir \in Field /\ p.active \in Field
      /\ p.window \in DOMAIN Number /\ p.index \in DOMAIN Number
      /\ p.title \in Seq(Field) /\ p.title # <<>>
      /\ p.command \in Seq(Field) /\ p.command # <<>>
  BY SaveAssumption
<1>2. Len(p.title) > 0 /\ Len(p.command) > 0
  <2>1. \A s \in Seq(Field) : s # <<>> => Len(s) > 0
    BY LenProperties, EmptySeq
  <2> QED BY <1>1, <2>1
<1> QED BY <1>1, <1>2, SaveAssumption

LEMMA PaneLine ==
  ASSUME NEW p \in Panes, Whole(p)
  PROVE  \E l \in Seq(Field) :
            /\ PaneLines(p) = <<l>> /\ GoodPane(l) /\ WindowOf(l) = KeyOfRecord(p)
            /\ PaneOf(l) \in PaneShape /\ Shows(p, PaneOf(l))
<1> DEFINE a == <<"pane", p.session, p.window, "1", ":*", p.index>>
           three == <<p.dir, p.active, "sh">>
           l == ((a \o p.title) \o three) \o p.command
<1>1. PaneLines(p) = <<l>>
  <2>1. PaneLines(p) = BrokenAt(l)
    BY DEF PaneLines
  <2> HIDE DEF l
  <2>2. BrokenAt(l) = <<l>> \/ Len(BrokenAt(l)) = 2
    BY DEF BrokenAt
  <2> QED BY <2>1, <2>2 DEF Whole
<1>2. /\ a \in Seq(Field) /\ Len(a) = 6 /\ a[1] = "pane" /\ a[2] = p.session
      /\ a[3] = p.window /\ a[6] = p.index
  BY PaneRecordTypes, Words, Six
<1>3. three \in Seq(Field) /\ Len(three) = 3 /\ three[1] = p.dir /\ three[2] = p.active
  BY PaneRecordTypes, Words, Three
<1> HIDE DEF a, three
<1>4. /\ l \in Seq(Field) /\ Len(l) >= 11
      /\ \A i \in 1..6 : l[i] = a[i]
      /\ Len(p.command) = 1 =>
            /\ Free(l, 7) = p.title /\ FromEnd(l, 4) = p.command[1]
            /\ \A i \in 1..3 : FromEnd(l, i) = three[i]
  <2> HIDE DEF l
  <2>1. PICK t \in Seq(Field), c \in Seq(Field) : t = p.title /\ c = p.command
    BY PaneRecordTypes
  <2>2. l = Glued(a, t, three, c)
    BY <2>1 DEF l, Glued
  <2>3. Len(t) > 0 /\ Len(c) > 0
    BY <2>1, PaneRecordTypes
  <2>4. ReadsBack(l, a, t, three, c)
    BY <2>2, <2>3, <1>2, <1>3, PaneFields
  <2> QED BY <2>1, <2>4 DEF ReadsBack
<1> HIDE DEF l
<1>5. l[1] = "pane" /\ l[2] = p.session /\ l[3] = p.window /\ l[6] = p.index
  BY <1>2, <1>4
<1>6. GoodPane(l) /\ WindowOf(l) = KeyOfRecord(p)
  BY <1>4, <1>5, PaneRecordTypes DEF GoodPane, Shaped, Numeral, WindowOf, KeyOfRecord
<1>7. PaneOf(l) \in PaneShape /\ PaneOf(l).index = Number[p.index]
  <2>1. Len(l) \in Nat
    BY <1>4, LenProperties
  <2>2. \A i \in 1..4 : FromEnd(l, i) \in Field
    <3>1. \A i \in 1..4 : Len(l) - 4 + i \in 1..Len(l)
      BY <1>4, <2>1
    <3> QED BY <3>1, <1>4, ElementOfSeq DEF FromEnd
  <2>3. Free(l, 7) \in Seq(Field)
    <3>1. Len(l) - 4 \in Nat /\ Len(l) - 4 <= Len(l)
      BY <1>4, <2>1
    <3> QED BY <3>1, <1>4, SubSeqOfStrings DEF Free
  <2>4. /\ Strip(FromEnd(l, 1)) \in Field
        /\ Restore(Strip(FromEnd(l, 4))) \in {"shell", "claude", "argv"}
    BY <2>2, FieldTypes
  <2> QED BY <2>3, <2>4, <1>5, PaneRecordTypes DEF PaneOf, PaneShape
<1>8. ASSUME Plain(p) PROVE PaneOf(l) = Shown(p)
  <2>1. Free(l, 7) = p.title /\ FromEnd(l, 4) = p.command[1] /\ \A i \in 1..3 : FromEnd(l, i) = three[i]
    BY <1>4, <1>8 DEF Plain
  <2>2. FromEnd(l, 1) = p.dir /\ FromEnd(l, 2) = p.active
    BY <2>1, <1>3
  <2> QED BY <2>1, <2>2, <1>5 DEF PaneOf, Shown
<1> QED BY <1>1, <1>4, <1>6, <1>7, <1>8 DEF Shows


Framed(a, text, b) == (a \o text) \o b
ReadsFrame(l, a, text, b) ==
    /\ l \in Seq(Field) /\ Len(l) >= 8
    /\ \A i \in 1..3 : l[i] = a[i]
    /\ l[4] = text[1] /\ Free(l, 4) = text
    /\ \A i \in 1..4 : FromEnd(l, i) = b[i]

LEMMA WindowFields ==
  ASSUME NEW a \in Seq(Field), NEW text \in Seq(Field), NEW b \in Seq(Field),
         Len(a) = 3, Len(text) > 0, Len(b) = 4
  PROVE  ReadsFrame(Framed(a, text, b), a, text, b)
<1> DEFINE l == Framed(a, text, b)
<1>1. Len(text) \in Nat
  BY LenProperties
<1>2. /\ l \in Seq(Field) /\ Len(l) = Len(a) + Len(text) + Len(b)
      /\ \A i \in 1..Len(a) : l[i] = a[i]
      /\ \A i \in 1..Len(text) : l[Len(a) + i] = text[i]
      /\ \A i \in 1..Len(b) : l[Len(a) + Len(text) + i] = b[i]
      /\ SubSeq(l, Len(a) + 1, Len(a) + Len(text)) = text
  BY FreeText, ZenonT(60) DEF Framed
<1> HIDE DEF l
<1>3. Len(l) >= 8 /\ Len(l) - 4 = Len(a) + Len(text)
  BY <1>1, <1>2
<1>4. Free(l, 4) = text /\ \A i \in 1..4 : FromEnd(l, i) = b[i]
  BY <1>2, <1>3 DEF Free, FromEnd
<1>5. l[4] = text[1]
  <2>1. l[Len(a) + 1] = text[1]
    BY <1>1, <1>2
  <2> QED BY <2>1
<1>6. ReadsFrame(l, a, text, b)
  BY <1>2, <1>3, <1>4, <1>5 DEF ReadsFrame
<1> QED BY <1>6 DEF l

(* And of a window's line: its place, its name and what it is dressed in.   *)
LEMMA WindowLineReads ==
  ASSUME NEW w \in Windows, NEW l, l = WindowLine(w)
  PROVE  /\ l[1] = "window" /\ GoodWindow(l) /\ WindowOf(l) = KeyOfRecord(w)
         /\ l[4] = w.name[1] /\ Free(l, 4) = w.name
         /\ FromEnd(l, 1) = w.active /\ FromEnd(l, 4) = w.auto
<1> DEFINE a == <<"window", w.session, w.window>>
           b == <<w.active, ":*", "layout", w.auto>>
<1>1. /\ w.session \in Field /\ w.active \in Field /\ w.auto \in Field
      /\ w.window \in DOMAIN Number /\ w.window \in Field
      /\ w.name \in Seq(Field) /\ Len(w.name) > 0
  <2>1. /\ w.session \in Field /\ w.active \in Field /\ w.auto \in Field
        /\ w.window \in DOMAIN Number /\ w.window \in Field
        /\ w.name \in Seq(Field) /\ w.name # <<>>
    BY SaveAssumption
  <2>2. \A s \in Seq(Field) : s # <<>> => Len(s) > 0
    BY LenProperties, EmptySeq
  <2> QED BY <2>1, <2>2
<1>2. a \in Seq(Field) /\ Len(a) = 3 /\ a[1] = "window" /\ a[2] = w.session /\ a[3] = w.window
  BY <1>1, Words, Three
<1>3. b \in Seq(Field) /\ Len(b) = 4 /\ b[1] = w.active /\ b[4] = w.auto
  BY <1>1, Words, Four
<1>4. l = Framed(a, w.name, b)
  BY DEF WindowLine, Framed
<1> HIDE DEF a, b
<1>5. PICK name \in Seq(Field) : name = w.name /\ Len(name) > 0
  BY <1>1
<1>6. ReadsFrame(Framed(a, name, b), a, name, b)
  BY <1>2, <1>3, <1>5, WindowFields
<1>7. ReadsFrame(l, a, name, b)
  BY <1>4, <1>5, <1>6
<1>8. /\ Len(l) >= 8 /\ l[1] = a[1] /\ l[2] = a[2] /\ l[3] = a[3] /\ l[4] = name[1] /\ Free(l, 4) = name
      /\ FromEnd(l, 1) = b[1] /\ FromEnd(l, 4) = b[4]
  BY <1>7 DEF ReadsFrame
<1> QED BY <1>1, <1>2, <1>3, <1>5, <1>8 DEF GoodWindow, Shaped, Numeral, WindowOf, KeyOfRecord

LEMMA StateLineReads ==
  ASSUME NEW r \in States, NEW l, l = StateLine(r)
  PROVE  l[1] = "state" /\ GoodState(l) /\ l[2] = r.client
  BY DEF StateLine, GoodState


(***************************************************************************)
(* Counting: lines and entries against what was made of them.              *)
(***************************************************************************)
CountTypes ==
    /\ lines \in Nat /\ taken \in Nat /\ warned \in Nat
    /\ phase \in {"lines", "tar", "done"}
    /\ IsFiniteSet(entered) /\ IsFiniteSet(DOMAIN texts)

CountInv ==
    /\ CountTypes
    /\ phase # "lines" => pending = <<>>
    /\ phase = "lines" => lines = taken + warned /\ entered = {} /\ DOMAIN texts = {}
    /\ entered \subseteq Tarred
    /\ \A k \in DOMAIN texts : \E q \in entered : Parses(q) /\ k = KeyOf(q)
    /\ Accounted

LEMMA EmptyDomain == DOMAIN <<>> = {}
<1>1. <<>> \in Seq({}) /\ Len(<<>>) = 0
  BY EmptySeq
<1>2. DOMAIN <<>> = 1..0
  BY <1>1, LenProperties
<1> QED BY <1>2

LEMMA CountInit == IInit => CountInv
<1> SUFFICES ASSUME IInit PROVE CountInv
  OBVIOUS
<1>1. DOMAIN texts = {} /\ entered = {} /\ lines = 0 /\ taken = 0 /\ warned = 0 /\ phase = "lines"
  BY EmptyDomain DEF IInit
<1>2. IsFiniteSet({}) /\ Cardinality({}) = 0
  BY FS_EmptySet
<1> QED BY <1>1, <1>2 DEF CountInv, CountTypes, Accounted

(* While lines are read, nothing of the tar is. *)
LEMMA CountLines ==
  ASSUME CountInv, phase = "lines", phase' \in {"lines", "tar"}, tar' = tar,
         phase' = "tar" => pending' = <<>>,
         lines' \in Nat, taken' \in Nat, warned' \in Nat, lines' = taken' + warned'
  PROVE  CountInv'
<1>1. entered' = {} /\ DOMAIN texts' = {}
  BY DEF CountInv, tar
<1>2. IsFiniteSet({}) /\ Cardinality({}) = 0
  BY FS_EmptySet
<1>3. Cardinality(entered') = 0 /\ Cardinality(DOMAIN texts') = 0
  BY <1>1, <1>2
<1>4. Accounted'
  BY <1>3 DEF Accounted
<1>5. CountTypes'
  BY <1>1, <1>2 DEF CountTypes
<1> QED BY <1>1, <1>4, <1>5 DEF CountInv

LEMMA CountEntry == CountInv /\ ReadEntry => CountInv'
<1> SUFFICES ASSUME CountInv, ReadEntry PROVE CountInv'
  OBVIOUS
<1>1. /\ phase = "tar" /\ phase' = phase /\ pending' = pending /\ saved' = saved
      /\ lines' = lines /\ taken' = taken
  BY DEF ReadEntry
<1>2. PICK place \in Tarred \ entered :
         /\ entered' = entered \cup {place}
         /\ IF Parses(place) /\ KeyOf(place) \in ValidKeys
            THEN /\ texts' = [k \in DOMAIN texts \cup {KeyOf(place)} |->
                                  IF k = KeyOf(place) THEN place ELSE texts[k]]
                 /\ warned' = warned
            ELSE warned' = warned + 1 /\ texts' = texts
  BY DEF ReadEntry
<1>3. Tarred' = Tarred /\ (KeysDiffer' <=> KeysDiffer)
  BY <1>1 DEF KeysDiffer, Tarred, SavedPanes, Parses, KeyOf
<1>4. /\ CountTypes /\ Accounted
      /\ Cardinality(entered) \in Nat /\ Cardinality(DOMAIN texts) \in Nat
  BY FS_CardinalityType DEF CountInv, CountTypes
<1>5. IsFiniteSet(entered') /\ Cardinality(entered') = Cardinality(entered) + 1
  BY <1>2, <1>4, FS_AddElement DEF CountTypes
<1>6. entered' \subseteq Tarred'
  BY <1>2, <1>3 DEF CountInv
<1>7. CASE Parses(place) /\ KeyOf(place) \in ValidKeys
  <2>1. DOMAIN texts' = DOMAIN texts \cup {KeyOf(place)} /\ warned' = warned
    BY <1>2, <1>7
  <2>2. /\ IsFiniteSet(DOMAIN texts')
        /\ Cardinality(DOMAIN texts') =
              IF KeyOf(place) \in DOMAIN texts THEN Cardinality(DOMAIN texts)
              ELSE Cardinality(DOMAIN texts) + 1
    BY <2>1, <1>4, FS_AddElement DEF CountTypes
  <2>3. ASSUME KeysDiffer PROVE KeyOf(place) \notin DOMAIN texts
    <3> SUFFICES ASSUME KeyOf(place) \in DOMAIN texts PROVE FALSE
      OBVIOUS
    <3>1. PICK q \in entered : Parses(q) /\ KeyOf(place) = KeyOf(q)
      BY DEF CountInv
    <3>2. q \in Tarred /\ q # place
      BY <1>2 DEF CountInv
    <3> QED BY <3>1, <3>2, <1>2, <1>7, <2>3 DEF KeysDiffer
  <2>4. Accounted'
    BY <1>1, <1>3, <1>4, <1>5, <2>1, <2>2, <2>3 DEF Accounted, CountTypes
  <2>5. CountTypes'
    BY <1>1, <1>4, <1>5, <2>1, <2>2 DEF CountTypes
  <2>6. (\A k \in DOMAIN texts : \E q \in entered : Parses(q) /\ k = KeyOf(q))'
    BY <1>2, <1>7, <2>1 DEF CountInv, Parses, KeyOf
  <2> QED BY <1>1, <1>6, <2>4, <2>5, <2>6 DEF CountInv
<1>8. CASE ~(Parses(place) /\ KeyOf(place) \in ValidKeys)
  <2>1. texts' = texts /\ warned' = warned + 1
    BY <1>2, <1>8
  <2>2. Accounted'
    BY <1>1, <1>3, <1>4, <1>5, <2>1 DEF Accounted, CountTypes
  <2>3. CountTypes'
    BY <1>1, <1>4, <1>5, <2>1 DEF CountTypes
  <2>4. (\A k \in DOMAIN texts : \E q \in entered : Parses(q) /\ k = KeyOf(q))'
    BY <1>2, <2>1 DEF CountInv, Parses, KeyOf
  <2> QED BY <1>1, <1>6, <2>2, <2>3, <2>4 DEF CountInv
<1> QED BY <1>7, <1>8

LEMMA CountStep == CountInv /\ [INext]_vars => CountInv'
<1> SUFFICES ASSUME CountInv, [INext]_vars PROVE CountInv'
  OBVIOUS
<1>1. /\ lines \in Nat /\ taken \in Nat /\ warned \in Nat
      /\ pending # <<>> => phase = "lines"
      /\ phase = "lines" => lines = taken + warned
  BY DEF CountInv, CountTypes
<1>2. CASE WritePane \/ WriteWindow \/ WriteState \/ WriteOddity
  BY <1>1, <1>2, CountLines DEF WritePane, WriteWindow, WriteState, WriteOddity, CanWrite
<1>3. CASE ReadPane \/ ReadWindow \/ ReadState \/ ReadSilent
  BY <1>1, <1>3, CountLines DEF ReadPane, ReadWindow, ReadState, ReadSilent, Reads
<1>4. CASE ReadBad
  BY <1>1, <1>4, CountLines DEF ReadBad, Reads
<1>5. CASE EndOfFile
  BY <1>1, <1>5, CountLines DEF EndOfFile
<1>6. CASE ReadEntry
  BY <1>6, CountEntry
<1>7. CASE Imported
  BY <1>7 DEF Imported, tar, CountInv, CountTypes, Accounted, KeysDiffer, Tarred, SavedPanes,
              Parses, KeyOf
<1>8. CASE UNCHANGED vars
  BY <1>8 DEF vars, CountInv, CountTypes, Accounted, KeysDiffer, Tarred, SavedPanes, Parses, KeyOf
<1> QED BY <1>2, <1>3, <1>4, <1>5, <1>6, <1>7, <1>8 DEF INext

(* The importer drops nothing in silence: every line of the save and every  *)
(* entry of the tar is kept, says nothing, or is warned about.              *)
THEOREM NothingDroppedInSilence == ISpec => []Accounted
<1>1. CountInv => Accounted
  BY DEF CountInv
<1> QED BY <1>1, CountInit, CountStep, PTL DEF ISpec


(***************************************************************************)
(* Reading: which records are known, and that the windows show them.       *)
(***************************************************************************)
LEMMA RecordKinds ==
  /\ \A r \in Panes : IsPane(r) /\ ~IsWindow(r)
  /\ \A r \in Windows : IsWindow(r) /\ ~IsPane(r)
  /\ \A r \in States : ~IsPane(r) /\ ~IsWindow(r) /\ DOMAIN r = StateRecord
<1>1. PaneRecord # WindowRecord /\ PaneRecord # StateRecord /\ WindowRecord # StateRecord
  BY DEF PaneRecord, WindowRecord, StateRecord
<1> QED BY <1>1, ImporterAssumption DEF IsPane, IsWindow, States

(* A record that waits has one line, and that line is kept. *)
LEMMA OneLineReads ==
  ASSUME NEW r, NEW written, OneLine(r, written)
  PROVE  /\ written # <<>> /\ Tail(written) = <<>> /\ Readable(r) /\ Keeps(Head(written))
         /\ r \in Panes => /\ GoodPane(Head(written)) /\ WindowOf(Head(written)) = KeyOfRecord(r)
                           /\ PaneOf(Head(written)) \in PaneShape /\ Shows(r, PaneOf(Head(written)))
         /\ r \in Windows => Head(written) = WindowLine(r)
         /\ r \in States => Head(written) = StateLine(r)
<1>1. CASE r \in Panes /\ Whole(r) /\ written = PaneLines(r)
  <2>1. PICK l : /\ written = <<l>> /\ GoodPane(l) /\ WindowOf(l) = KeyOfRecord(r)
                 /\ PaneOf(l) \in PaneShape /\ Shows(r, PaneOf(l))
    BY <1>1, PaneLine
  <2>2. written # <<>> /\ Tail(written) = <<>> /\ Head(written) = l
    BY <2>1
  <2> QED BY <1>1, <2>1, <2>2, RecordKinds DEF Keeps, Readable
<1>2. CASE r \in Windows /\ written = <<WindowLine(r)>>
  <2>1. written # <<>> /\ Tail(written) = <<>> /\ Head(written) = WindowLine(r)
    BY <1>2
  <2> QED BY <1>2, <2>1, WindowLineReads, RecordKinds DEF Keeps, Readable
<1>3. CASE r \in States /\ written = <<StateLine(r)>>
  <2>1. written # <<>> /\ Tail(written) = <<>> /\ Head(written) = StateLine(r)
    BY <1>3
  <2> QED BY <1>3, <2>1, StateLineReads, RecordKinds DEF Keeps, Readable
<1> QED BY <1>1, <1>2, <1>3 DEF OneLine

LEMMA SavedTypes ==
  ASSUME SavedInv
  PROVE  /\ saved \in Seq(Panes \cup Windows \cup States)
         /\ Len(saved) \in Nat /\ DOMAIN saved = 1..Len(saved)
         /\ \A i \in DOMAIN saved : saved[i] \in Panes \cup Windows \cup States
         /\ saved # <<>> => Len(saved) > 0
<1>1. saved \in Seq(Panes \cup Windows \cup States)
  BY DEF SavedInv
<1>2. Len(saved) \in Nat /\ DOMAIN saved = 1..Len(saved)
  BY <1>1, LenProperties
<1>3. \A i \in DOMAIN saved : saved[i] \in Panes \cup Windows \cup States
  BY <1>1, <1>2, ElementOfSeq
<1>4. saved # <<>> => Len(saved) > 0
  BY <1>1, <1>2, EmptySeq
<1> QED BY <1>1, <1>2, <1>3, <1>4

(* Writing a record does not make it known; that it is no other's place or  *)
(* window is what the guards of the writing see to.                         *)
Fresh(r) ==
    \A i \in DOMAIN saved :
        /\ IsPane(saved[i]) /\ IsPane(r) => Place(saved[i]) # Place(r)
        /\ IsWindow(saved[i]) /\ IsWindow(r) =>
              <<saved[i].session, saved[i].window>> # <<r.session, r.window>>
        /\ ~(saved[i] \in States /\ r \in States)

LEMMA Written ==
  ASSUME SavedInv, pending = <<>>, NEW r \in Panes \cup Windows \cup States, Fresh(r),
         saved' = Append(saved, r), OneLine(r, pending') \/ ~Readable(r)
  PROVE  SavedInv' /\ Known' = Known /\ (OneLine(r, pending') => Unread')
<1>1. /\ saved' \in Seq(Panes \cup Windows \cup States) /\ saved' # <<>>
      /\ Len(saved') = Len(saved) + 1 /\ DOMAIN saved' = 1..Len(saved)+1
      /\ \A i \in 1..Len(saved) : saved'[i] = saved[i]
      /\ saved'[Len(saved)+1] = r
  BY SavedTypes, AppendProperties, LenProperties
<1>2. Len(saved) \in Nat /\ DOMAIN saved = 1..Len(saved)
  BY SavedTypes
<1>3. \A i \in DOMAIN saved' :
         (i \in DOMAIN saved /\ saved'[i] = saved[i]) \/ (i = Len(saved) + 1 /\ saved'[i] = r)
  BY <1>1, <1>2
<1>4. SavedInv'
  <2> SUFFICES ASSUME NEW i \in DOMAIN saved', NEW j \in DOMAIN saved', i # j
               PROVE  /\ IsPane(saved'[i]) /\ IsPane(saved'[j]) => Place(saved'[i]) # Place(saved'[j])
                      /\ IsWindow(saved'[i]) /\ IsWindow(saved'[j]) =>
                            <<saved'[i].session, saved'[i].window>> # <<saved'[j].session, saved'[j].window>>
                      /\ saved'[i] \in States => saved'[j] \notin States
    BY <1>1 DEF SavedInv
  <2> QED BY <1>3 DEF SavedInv, Fresh
<1>5. ~Unread
  BY OneLineReads DEF Unread
<1>6. Unread' <=> OneLine(r, pending')
  BY <1>1 DEF Unread
<1>7. ASSUME NEW x \in Known' PROVE x \in Known
  <2>1. PICK i \in DOMAIN saved' : x = saved'[i] /\ Readable(saved'[i]) /\ (Unread' => i < Len(saved'))
    BY DEF Known
  <2>2. i \in DOMAIN saved /\ saved'[i] = saved[i]
    BY <2>1, <1>1, <1>2, <1>3, <1>6
  <2> QED BY <2>1, <2>2, <1>5 DEF Known
<1>8. ASSUME NEW x \in Known PROVE x \in Known'
  <2>1. PICK i \in DOMAIN saved : x = saved[i] /\ Readable(saved[i])
    BY DEF Known
  <2>2. i \in DOMAIN saved' /\ saved'[i] = saved[i] /\ i < Len(saved')
    BY <1>1, <1>2
  <2> QED BY <2>1, <2>2 DEF Known
<1> QED BY <1>4, <1>6, <1>7, <1>8


(* Reading the line of the last record makes it known; it is none of those  *)
(* that were. *)
LEMMA ReadRecord ==
  ASSUME SavedInv, Unread, Reads
  PROVE  LET r == saved[Len(saved)]
         IN  /\ OneLine(r, pending) /\ r \in Panes \cup Windows \cup States
             /\ pending' = <<>> /\ SavedInv' /\ Known' = Known \cup {r}
             /\ \A q \in Known :
                   /\ q \in Panes \cup Windows \cup States
                   /\ IsPane(q) /\ IsPane(r) => Place(q) # Place(r)
                   /\ IsWindow(q) /\ IsWindow(r) =>
                         <<q.session, q.window>> # <<r.session, r.window>>
                   /\ r \in States => q \notin States
<1> DEFINE r == saved[Len(saved)]
<1>1. OneLine(r, pending)
  BY DEF Unread
<1>2. /\ Len(saved) \in DOMAIN saved /\ DOMAIN saved = 1..Len(saved) /\ Len(saved) \in Nat
      /\ \A i \in DOMAIN saved : saved[i] \in Panes \cup Windows \cup States
  BY SavedTypes DEF Unread
<1>3. pending' = <<>> /\ saved' = saved /\ Readable(r)
  BY <1>1, OneLineReads DEF Reads
<1>4. ~Unread'
  BY <1>3, OneLineReads DEF Unread
<1>5. Known = {saved[i] : i \in {i \in DOMAIN saved : Readable(saved[i]) /\ i < Len(saved)}}
  BY DEF Known
<1>6. Known' = {saved[i] : i \in {i \in DOMAIN saved : Readable(saved[i])}}
  BY <1>3, <1>4 DEF Known
<1>7. Known' = Known \cup {r}
  <2>1. \A i \in DOMAIN saved : i < Len(saved) \/ i = Len(saved)
    BY <1>2
  <2> QED BY <1>2, <1>3, <1>5, <1>6, <2>1
<1>8. ASSUME NEW q \in Known
      PROVE  /\ q \in Panes \cup Windows \cup States
             /\ IsPane(q) /\ IsPane(r) => Place(q) # Place(r)
             /\ IsWindow(q) /\ IsWindow(r) => <<q.session, q.window>> # <<r.session, r.window>>
             /\ r \in States => q \notin States
  <2>1. PICK i \in DOMAIN saved : q = saved[i] /\ i < Len(saved)
    BY <1>5
  <2>2. i # Len(saved)
    BY <1>2, <2>1
  <2> QED BY <1>2, <2>1, <2>2 DEF SavedInv
<1>9. SavedInv'
  BY <1>3 DEF SavedInv
<1> QED BY <1>1, <1>2, <1>3, <1>7, <1>8, <1>9

(* Any other line is not kept, and reading it makes nothing known. *)
LEMMA ReadOther ==
  ASSUME SavedInv, PendingInv, ~Unread, Reads
  PROVE  ~Keeps(Line) /\ SavedInv' /\ PendingInv' /\ Known' = Known
<1>1. ~Keeps(Line) /\ (pending' = <<>> \/ (pending' = <<pending'[1]>> /\ ~Keeps(pending'[1])))
  <2>1. CASE pending = <<pending[1]>> /\ ~Keeps(pending[1])
    <3> DEFINE a == pending[1]
    <3>1. pending = <<a>>
      BY <2>1
    <3> HIDE DEF a
    <3>2. Head(pending) = a /\ Tail(pending) = <<>>
      BY <3>1
    <3> QED BY <2>1, <3>2 DEF Line, Reads, a
  <2>2. CASE pending = <<pending[1], pending[2]>> /\ ~Keeps(pending[1]) /\ ~Keeps(pending[2])
    <3> DEFINE a == pending[1]
               b == pending[2]
    <3>1. pending = <<a, b>>
      BY <2>2
    <3> HIDE DEF a, b
    <3>2. Head(pending) = a /\ Tail(pending) = <<b>>
      BY <3>1
    <3>3. pending' = <<b>> /\ <<b>>[1] = b
      BY <3>2 DEF Reads
    <3>4. pending'[1] = b
      BY <3>3
    <3> QED BY <2>2, <3>2, <3>3, <3>4 DEF Line, a, b
  <2> QED BY <2>1, <2>2 DEF PendingInv, Reads
<1>2. saved' = saved
  BY DEF Reads
<1>3. ~Unread'
  <2> SUFFICES ASSUME Unread' PROVE FALSE
    OBVIOUS
  <2>1. OneLine(saved'[Len(saved')], pending')
    BY DEF Unread
  <2>2. pending' # <<>> /\ Keeps(Head(pending'))
    BY <2>1, OneLineReads
  <2>3. pending' = <<pending'[1]>> /\ ~Keeps(pending'[1])
    BY <1>1, <2>2
  <2>4. Head(pending') = pending'[1]
    BY <2>3
  <2> QED BY <2>2, <2>3, <2>4
<1>4. Known' = Known /\ SavedInv'
  BY <1>2, <1>3 DEF Known, SavedInv
<1>5. PendingInv'
  BY <1>1 DEF PendingInv
<1> QED BY <1>1, <1>4, <1>5

(***************************************************************************)
(* The windows.                                                            *)
(***************************************************************************)
LEMMA AppendShown ==
  ASSUME NEW panes, NEW records, PanesShown(panes, records),
         NEW p, NEW shown \in PaneShape, Shows(p, shown),
         \A q \in records : Number[q.index] # Number[p.index]
  PROVE  PanesShown(Append(panes, shown), records \cup {p})
<1> DEFINE more == Append(panes, shown)
<1>1. /\ panes \in Seq(PaneShape)
      /\ \A n \in DOMAIN panes : \E q \in records : Shows(q, panes[n])
      /\ \A q \in records : \E n \in DOMAIN panes : Shows(q, panes[n])
      /\ \A m, n \in DOMAIN panes : m # n => panes[m].index # panes[n].index
  BY DEF PanesShown
<1>2. Len(panes) \in Nat /\ DOMAIN panes = 1..Len(panes)
  BY <1>1, LenProperties
<1>3. /\ more \in Seq(PaneShape) /\ DOMAIN more = 1..Len(panes)+1
      /\ \A n \in 1..Len(panes) : more[n] = panes[n]
      /\ more[Len(panes)+1] = shown
  BY <1>1, <1>2, AppendProperties, LenProperties
<1> HIDE DEF more
<1>4. /\ \A n \in DOMAIN more : (n \in DOMAIN panes /\ more[n] = panes[n]) \/ (n = Len(panes)+1 /\ more[n] = shown)
      /\ \A n \in DOMAIN panes : n \in DOMAIN more /\ more[n] = panes[n] /\ n # Len(panes)+1
      /\ Len(panes)+1 \in DOMAIN more
  BY <1>2, <1>3
<1>5. \A n \in DOMAIN panes : panes[n].index # shown.index
  BY <1>1 DEF Shows
<1>6. \A n \in DOMAIN more : \E q \in records \cup {p} : Shows(q, more[n])
  BY <1>1, <1>4
<1>7. \A q \in records \cup {p} : \E n \in DOMAIN more : Shows(q, more[n])
  BY <1>1, <1>3, <1>4
<1>8. \A m, n \in DOMAIN more : m # n => more[m].index # more[n].index
  BY <1>1, <1>4, <1>5
<1>9. PanesShown(more, records \cup {p})
  BY <1>3, <1>6, <1>7, <1>8 DEF PanesShown
<1> QED BY <1>9 DEF more

(* A window not made yet shows that no record speaks of it. *)
LEMMA WindowForShows ==
  ASSUME WindowsInv, NEW k
  PROVE  /\ PanesShown(WindowFor(k).panes, KnownPanes(k))
         /\ WindowShown(WindowFor(k), KnownWindows(k))
<1>1. CASE k \in DOMAIN windows
  BY <1>1 DEF WindowFor, WindowsInv
<1>2. CASE k \notin DOMAIN windows
  <2>1. KnownPanes(k) = {} /\ KnownWindows(k) = {}
    BY <1>2 DEF KnownPanes, KnownWindows, WindowsInv
  <2>2. WindowFor(k) = NoWindow /\ NoWindow.panes = <<>> /\ NoWindow = [NoWindow EXCEPT !.panes = NoWindow.panes]
    BY <1>2 DEF WindowFor, NoWindow
  <2>3. <<>> \in Seq(PaneShape) /\ DOMAIN <<>> = {}
    BY EmptyDomain, EmptySeq
  <2> QED BY <2>1, <2>2, <2>3 DEF PanesShown, WindowShown
<1> QED BY <1>1, <1>2

LEMMA OtherPanes ==
  ASSUME NEW v, NEW records, WindowShown(v, records), NEW panes
  PROVE  /\ WindowShown([v EXCEPT !.panes = panes], records)
         /\ [v EXCEPT !.panes = panes].panes = panes
<1> DEFINE w == [v EXCEPT !.panes = panes]
<1>1. CASE records = {} /\ v = [NoWindow EXCEPT !.panes = v.panes]
  <2>1. w.panes = panes /\ w = [NoWindow EXCEPT !.panes = w.panes]
    BY <1>1 DEF NoWindow
  <2> QED BY <1>1, <2>1 DEF WindowShown
<1>2. CASE \E r \in records :
            v = [name |-> <<Strip(r.name[1])>> \o Tail(r.name), active |-> r.active = "1",
                 auto |-> r.auto = "on", panes |-> v.panes]
  <2>1. PICK r \in records :
            v = [name |-> <<Strip(r.name[1])>> \o Tail(r.name), active |-> r.active = "1",
                 auto |-> r.auto = "on", panes |-> v.panes]
    BY <1>2
  <2>2. PICK name, active, auto :
            /\ name = <<Strip(r.name[1])>> \o Tail(r.name)
            /\ active = (r.active = "1") /\ auto = (r.auto = "on")
    OBVIOUS
  <2>3. v = [name |-> name, active |-> active, auto |-> auto, panes |-> v.panes]
    BY <2>1, <2>2
  <2>4. w = [name |-> name, active |-> active, auto |-> auto, panes |-> panes]
    BY <2>3
  <2>5. w.panes = panes /\ w = [name |-> name, active |-> active, auto |-> auto, panes |-> w.panes]
    BY <2>4
  <2> QED BY <2>1, <2>2, <2>5 DEF WindowShown
<1> QED BY <1>1, <1>2 DEF WindowShown

LEMMA WindowChanged ==
  ASSUME WindowsInv, NEW r, IsPane(r) \/ IsWindow(r), Known' = Known \cup {r}, NEW w,
         windows' = WithWindow(KeyOfRecord(r), w),
         PanesShown(w.panes, KnownPanes(KeyOfRecord(r))'),
         WindowShown(w, KnownWindows(KeyOfRecord(r))')
  PROVE  WindowsInv'
<1> DEFINE k == KeyOfRecord(r)
<1>1. DOMAIN windows' = DOMAIN windows \cup {k}
      /\ \A i \in DOMAIN windows' : windows'[i] = IF i = k THEN w ELSE windows[i]
  BY DEF WithWindow
<1>2. DOMAIN windows' = {KeyOfRecord(q) : q \in {q \in Known' : IsPane(q) \/ IsWindow(q)}}
  BY <1>1 DEF WindowsInv
<1>3. ASSUME NEW i \in DOMAIN windows'
      PROVE  PanesShown(windows'[i].panes, KnownPanes(i)') /\ WindowShown(windows'[i], KnownWindows(i)')
  <2>1. CASE i = k
    BY <1>1, <2>1
  <2>2. CASE i # k
    <3>1. KnownPanes(i)' = KnownPanes(i) /\ KnownWindows(i)' = KnownWindows(i)
      BY <2>2 DEF KnownPanes, KnownWindows
    <3>2. i \in DOMAIN windows /\ windows'[i] = windows[i]
      BY <1>1, <2>2
    <3> QED BY <3>1, <3>2 DEF WindowsInv
  <2> QED BY <2>1, <2>2
<1> QED BY <1>2, <1>3 DEF WindowsInv

LEMMA NothingRead ==
  ASSUME WindowsInv, ClientInv, Known' = Known, windows' = windows, client' = client
  PROVE  WindowsInv' /\ ClientInv'
  BY DEF WindowsInv, ClientInv, KnownPanes, KnownWindows


(***************************************************************************)
(* Each step keeps what an import knows.                                   *)
(***************************************************************************)
LEMMA ReadInit == IInit => ReadInv
<1> SUFFICES ASSUME IInit PROVE ReadInv
  OBVIOUS
<1>1. saved = <<>> /\ pending = <<>> /\ windows = <<>> /\ client = "" /\ DOMAIN <<>> = {}
  BY EmptyDomain DEF IInit
<1>2. <<>> \in Seq(Panes \cup Windows \cup States)
  BY EmptySeq
<1>3. SavedInv /\ PendingInv
  BY <1>1, <1>2 DEF SavedInv, PendingInv
<1>4. Known = {}
  BY <1>1 DEF Known
<1>5. WindowsInv /\ ClientInv
  BY <1>1, <1>4 DEF WindowsInv, ClientInv
<1> QED BY <1>1, <1>3, <1>5 DEF ReadInv, IInit

LEMMA ReadLine ==
  ASSUME ReadInv, Reads, Unread, NEW r, r = saved[Len(saved)],
         WindowsInv', ClientInv'
  PROVE  ReadInv'
  BY ReadRecord DEF ReadInv, PendingInv, Reads

(* A kept line is read the one way its record is written. *)
LEMMA LineKinds ==
  ASSUME NEW l
  PROVE  /\ GoodPane(l) => ~GoodWindow(l) /\ ~GoodState(l)
         /\ GoodWindow(l) => ~GoodState(l)
         /\ Silent(l) /\ Keeps(l) => FALSE
<1>1. "pane" # "window" /\ "pane" # "state" /\ "window" # "state"
  OBVIOUS
<1>2. /\ "grouped_session" # "pane" /\ "grouped_session" # "window" /\ "grouped_session" # "state"
      /\ "" # "pane" /\ "" # "window" /\ "" # "state"
  OBVIOUS
<1>3. <<"">>[1] = ""
  OBVIOUS
<1> QED BY <1>1, <1>2, <1>3 DEF GoodPane, GoodWindow, GoodState, Silent, Keeps

LEMMA KnownLine ==
  ASSUME Reads, ReadInv, Keeps(Line)
  PROVE  LET r == saved[Len(saved)]
         IN  /\ Unread /\ Known' = Known \cup {r}
             /\ GoodPane(Line) => /\ r \in Panes /\ WindowOf(Line) = KeyOfRecord(r)
                                  /\ PaneOf(Line) \in PaneShape /\ Shows(r, PaneOf(Line))
             /\ GoodWindow(Line) => r \in Windows /\ Line = WindowLine(r)
             /\ GoodState(Line) => r \in States /\ Line = StateLine(r)
<1> DEFINE r == saved[Len(saved)]
<1>1. SavedInv /\ PendingInv
  BY DEF ReadInv
<1>2. Unread
  BY <1>1, ReadOther
<1>3. OneLine(r, pending) /\ r \in Panes \cup Windows \cup States /\ Known' = Known \cup {r}
  BY <1>1, <1>2, ReadRecord
<1>4. /\ r \in Panes => /\ GoodPane(Line) /\ WindowOf(Line) = KeyOfRecord(r)
                        /\ PaneOf(Line) \in PaneShape /\ Shows(r, PaneOf(Line))
      /\ r \in Windows => Line = WindowLine(r)
      /\ r \in States => Line = StateLine(r)
  BY <1>3, OneLineReads DEF Line
<1>5. /\ r \in Windows => GoodWindow(Line)
      /\ r \in States => GoodState(Line)
  BY <1>4, WindowLineReads, StateLineReads
<1> QED BY <1>2, <1>3, <1>4, <1>5, LineKinds

LEMMA ReadPaneStep == ReadInv /\ ReadPane => ReadInv'
<1> SUFFICES ASSUME ReadInv, ReadPane PROVE ReadInv'
  OBVIOUS
<1> PICK r : r = saved[Len(saved)]
  OBVIOUS
<1> DEFINE k == KeyOfRecord(r)
           w == [WindowFor(k) EXCEPT !.panes = Append(@, PaneOf(Line))]
<1>1. Reads /\ GoodPane(Line) /\ Keeps(Line) /\ client' = client
  BY DEF ReadPane, Keeps
<1>2. /\ Unread /\ Known' = Known \cup {r} /\ r \in Panes
      /\ WindowOf(Line) = k /\ PaneOf(Line) \in PaneShape /\ Shows(r, PaneOf(Line))
  BY <1>1, KnownLine
<1>3. IsPane(r) /\ ~IsWindow(r) /\ r \notin States
  BY <1>2, RecordKinds
<1>4. windows' = WithWindow(k, w)
  BY <1>2 DEF ReadPane
<1>5. /\ PanesShown(WindowFor(k).panes, KnownPanes(k))
      /\ WindowShown(WindowFor(k), KnownWindows(k))
  BY WindowForShows DEF ReadInv
<1>6. KnownPanes(k)' = KnownPanes(k) \cup {r} /\ KnownWindows(k)' = KnownWindows(k)
  BY <1>2, <1>3 DEF KnownPanes, KnownWindows
<1>7. \A q \in KnownPanes(k) : Number[q.index] # Number[r.index]
  <2> SUFFICES ASSUME NEW q \in KnownPanes(k), Number[q.index] = Number[r.index] PROVE FALSE
    OBVIOUS
  <2>1. q \in Known /\ IsPane(q) /\ KeyOfRecord(q) = KeyOfRecord(r)
    BY DEF KnownPanes
  <2>2. q \in Panes /\ Place(q) # Place(r)
    BY <2>1, <1>1, <1>2, <1>3, ReadRecord, RecordKinds DEF ReadInv
  <2>3. q.session = r.session /\ Number[q.window] = Number[r.window]
    BY <2>1 DEF KeyOfRecord
  <2>4. q.window = r.window /\ q.index = r.index
    BY <2>2, <2>3, <1>2, PaneRecordTypes, SaveAssumption
  <2> QED BY <2>2, <2>3, <2>4 DEF Place
<1> HIDE DEF k
<1>8. w = [WindowFor(k) EXCEPT !.panes = Append(WindowFor(k).panes, PaneOf(Line))]
  BY <1>5 DEF WindowShown, NoWindow
<1> HIDE DEF w
<1>9. w.panes = Append(WindowFor(k).panes, PaneOf(Line)) /\ WindowShown(w, KnownWindows(k))
  BY <1>5, <1>8, OtherPanes
<1>10. PanesShown(w.panes, KnownPanes(k)')
  BY <1>2, <1>5, <1>6, <1>7, <1>9, AppendShown
<1>11. WindowShown(w, KnownWindows(k)')
  BY <1>6, <1>9
<1>12. WindowsInv'
  BY <1>2, <1>3, <1>4, <1>10, <1>11, WindowChanged DEF ReadInv, k
<1>13. ClientInv'
  BY <1>1, <1>2, <1>3 DEF ReadInv, ClientInv
<1> QED BY <1>1, <1>2, <1>12, <1>13, ReadLine


LEMMA DressedShows ==
  ASSUME NEW v, NEW records, WindowShown(v, records), NEW r \in Windows, Line = WindowLine(r)
  PROVE  /\ Dressed(v).panes = v.panes
         /\ Dressed(v) = [name |-> <<Strip(r.name[1])>> \o Tail(r.name), active |-> r.active = "1",
                          auto |-> r.auto = "on", panes |-> v.panes]
<1>1. /\ Line[4] = r.name[1] /\ Free(Line, 4) = r.name
      /\ FromEnd(Line, 1) = r.active /\ FromEnd(Line, 4) = r.auto
  BY WindowLineReads
<1>2. Dressed(v) = [v EXCEPT !.name = <<Strip(r.name[1])>> \o Tail(r.name),
                             !.active = (r.active = "1"), !.auto = (r.auto = "on")]
  BY <1>1 DEF Dressed
<1>3. DOMAIN v = {"name", "active", "auto", "panes"}
  BY DEF WindowShown, NoWindow
<1>4. DOMAIN Dressed(v) = {"name", "active", "auto", "panes"}
  BY <1>2, <1>3
<1>5. Dressed(v) = [i \in {"name", "active", "auto", "panes"} |-> Dressed(v)[i]]
  BY <1>2, <1>4
<1>6. /\ Dressed(v).name = <<Strip(r.name[1])>> \o Tail(r.name)
      /\ Dressed(v).active = (r.active = "1") /\ Dressed(v).auto = (r.auto = "on")
      /\ Dressed(v).panes = v.panes
  BY <1>2, <1>3
<1> QED BY <1>4, <1>5, <1>6

LEMMA ReadWindowStep == ReadInv /\ ReadWindow => ReadInv'
<1> SUFFICES ASSUME ReadInv, ReadWindow PROVE ReadInv'
  OBVIOUS
<1> PICK r : r = saved[Len(saved)]
  OBVIOUS
<1> DEFINE k == KeyOfRecord(r)
           w == Dressed(WindowFor(k))
<1>1. Reads /\ GoodWindow(Line) /\ Keeps(Line) /\ client' = client
  BY DEF ReadWindow, Keeps
<1>2. Unread /\ Known' = Known \cup {r} /\ r \in Windows /\ Line = WindowLine(r)
  BY <1>1, KnownLine
<1>3. ~IsPane(r) /\ IsWindow(r) /\ r \notin States
  BY <1>2, RecordKinds
<1>4. WindowOf(Line) = k
  BY <1>2, WindowLineReads
<1>5. windows' = WithWindow(k, w)
  BY <1>4 DEF ReadWindow
<1>6. KnownPanes(k)' = KnownPanes(k) /\ r \in KnownWindows(k)'
  BY <1>2, <1>3 DEF KnownPanes, KnownWindows
<1>7. /\ PanesShown(WindowFor(k).panes, KnownPanes(k))
      /\ WindowShown(WindowFor(k), KnownWindows(k))
  BY WindowForShows DEF ReadInv
<1>8. /\ w.panes = WindowFor(k).panes
      /\ w = [name |-> <<Strip(r.name[1])>> \o Tail(r.name), active |-> r.active = "1",
              auto |-> r.auto = "on", panes |-> WindowFor(k).panes]
  BY <1>2, <1>7, DressedShows
<1> HIDE DEF k, w
<1>9. PanesShown(w.panes, KnownPanes(k)') /\ WindowShown(w, KnownWindows(k)')
  BY <1>6, <1>7, <1>8 DEF WindowShown
<1>10. WindowsInv'
  BY <1>2, <1>3, <1>5, <1>9, WindowChanged DEF ReadInv, k
<1>11. ClientInv'
  BY <1>1, <1>2, <1>3 DEF ReadInv, ClientInv
<1> QED BY <1>1, <1>2, <1>10, <1>11, ReadLine

LEMMA ReadStateStep == ReadInv /\ ReadState => ReadInv'
<1> SUFFICES ASSUME ReadInv, ReadState PROVE ReadInv'
  OBVIOUS
<1> PICK r : r = saved[Len(saved)]
  OBVIOUS
<1>1. Reads /\ GoodState(Line) /\ Keeps(Line) /\ client' = Line[2] /\ windows' = windows
  BY DEF ReadState, Keeps
<1>2. Unread /\ Known' = Known \cup {r} /\ r \in States /\ Line = StateLine(r)
  BY <1>1, KnownLine
<1>3. ~IsPane(r) /\ ~IsWindow(r)
  BY <1>2, RecordKinds
<1>4. client' = r.client
  BY <1>1, <1>2, StateLineReads
<1>5. /\ {q \in Known' : IsPane(q) \/ IsWindow(q)} = {q \in Known : IsPane(q) \/ IsWindow(q)}
      /\ \A k : KnownPanes(k)' = KnownPanes(k) /\ KnownWindows(k)' = KnownWindows(k)
  BY <1>2, <1>3 DEF KnownPanes, KnownWindows
<1>6. WindowsInv'
  BY <1>1, <1>5 DEF ReadInv, WindowsInv
<1>7. ClientInv'
  BY <1>2, <1>4 DEF ClientInv
<1> QED BY <1>1, <1>2, <1>6, <1>7, ReadLine

LEMMA ReadNothingStep == ReadInv /\ (ReadSilent \/ ReadBad) => ReadInv'
<1> SUFFICES ASSUME ReadInv, ReadSilent \/ ReadBad PROVE ReadInv'
  OBVIOUS
<1>1. Reads /\ ~Keeps(Line) /\ windows' = windows /\ client' = client
  BY LineKinds DEF ReadSilent, ReadBad, Understood
<1>2. SavedInv /\ PendingInv /\ ~Unread
  <2>1. ~Unread
    BY <1>1, OneLineReads DEF Unread, Line
  <2> QED BY <2>1 DEF ReadInv
<1>3. SavedInv' /\ PendingInv' /\ Known' = Known
  BY <1>1, <1>2, ReadOther
<1>4. WindowsInv' /\ ClientInv'
  BY <1>1, <1>3, NothingRead DEF ReadInv
<1>5. phase' # "lines" => pending' = <<>>
  BY <1>1 DEF ReadInv, Reads
<1> QED BY <1>3, <1>4, <1>5 DEF ReadInv

(* A record written leaves its line to be read, or two lines that are none. *)
LEMMA WriteOne ==
  ASSUME ReadInv, CanWrite, NEW r \in Panes \cup Windows \cup States, Fresh(r),
         saved' = Append(saved, r), OneLine(r, pending') \/ (~Readable(r) /\ PendingInv'),
         windows' = windows, client' = client, phase' = phase
  PROVE  ReadInv'
<1>1. SavedInv' /\ Known' = Known /\ (OneLine(r, pending') => Unread')
  BY Written DEF ReadInv, CanWrite
<1>2. PendingInv'
  BY <1>1 DEF PendingInv
<1>3. WindowsInv' /\ ClientInv'
  BY <1>1, NothingRead DEF ReadInv
<1> QED BY <1>1, <1>2, <1>3 DEF ReadInv, CanWrite

LEMMA InSaved ==
  ASSUME SavedInv
  PROVE  ToSet(saved) = {saved[i] : i \in DOMAIN saved}
  BY DEF ToSet

LEMMA BrokenPane ==
  ASSUME NEW p \in Panes, ~Whole(p)
  PROVE  \E a, b : PaneLines(p) = <<a, b>> /\ ~Keeps(a) /\ ~Keeps(b)
<1> DEFINE l == <<"pane", p.session, p.window, "1", ":*", p.index>> \o p.title
                    \o <<p.dir, p.active, "sh">> \o p.command
<1>1. PaneLines(p) = BrokenAt(l)
  BY DEF PaneLines
<1> HIDE DEF l
<1>2. BrokenAt(l) = <<l>> \/ \E a, b : BrokenAt(l) = <<a, b>>
  BY DEF BrokenAt
<1>3. PICK a, b : PaneLines(p) = <<a, b>>
  <2>1. Len(<<l>>) = 1
    OBVIOUS
  <2> QED BY <1>1, <1>2, <2>1 DEF Whole
<1>4. a \in ToSet(PaneLines(p)) /\ b \in ToSet(PaneLines(p))
  BY <1>3 DEF ToSet
<1> QED BY <1>3, <1>4, SaveAssumption

LEMMA WritePaneStep == ReadInv /\ WritePane => ReadInv'
<1> SUFFICES ASSUME ReadInv, WritePane PROVE ReadInv'
  OBVIOUS
<1>1. PICK p \in Panes :
         /\ \A r \in SavedPanes : Place(r) # Place(p)
         /\ saved' = Append(saved, p) /\ pending' = PaneLines(p)
  BY DEF WritePane
<1>2. CanWrite /\ windows' = windows /\ client' = client /\ phase' = phase
  BY DEF WritePane
<1>3. IsPane(p) /\ ~IsWindow(p) /\ p \notin States
  BY RecordKinds
<1>4. Fresh(p)
  BY <1>1, <1>3, InSaved DEF Fresh, ReadInv, SavedPanes, IsPane
<1>5. OneLine(p, pending') \/ (~Readable(p) /\ PendingInv')
  <2>1. CASE Whole(p)
    BY <1>1, <2>1 DEF OneLine
  <2>2. CASE ~Whole(p)
    <3>1. PICK a, b : pending' = <<a, b>> /\ ~Keeps(a) /\ ~Keeps(b)
      BY <1>1, <2>2, BrokenPane
    <3>2. pending'[1] = a /\ pending'[2] = b
      BY <3>1
    <3>3. pending' = <<pending'[1], pending'[2]>> /\ ~Keeps(pending'[1]) /\ ~Keeps(pending'[2])
      BY <3>1, <3>2
    <3> QED BY <2>2, <1>3, <3>3 DEF PendingInv, Readable
  <2> QED BY <2>1, <2>2
<1> QED BY <1>1, <1>2, <1>4, <1>5, WriteOne

LEMMA WriteWindowStep == ReadInv /\ WriteWindow => ReadInv'
<1> SUFFICES ASSUME ReadInv, WriteWindow PROVE ReadInv'
  OBVIOUS
<1>1. PICK w \in Windows :
         /\ \A r \in SavedWindows : <<r.session, r.window>> # <<w.session, w.window>>
         /\ saved' = Append(saved, w) /\ pending' = <<WindowLine(w)>>
  BY DEF WriteWindow
<1>2. CanWrite /\ windows' = windows /\ client' = client /\ phase' = phase
  BY DEF WriteWindow
<1>3. ~IsPane(w) /\ IsWindow(w) /\ w \notin States
  BY RecordKinds
<1>4. Fresh(w)
  BY <1>1, <1>3, InSaved DEF Fresh, ReadInv, SavedWindows, IsWindow
<1>5. OneLine(w, pending')
  BY <1>1 DEF OneLine
<1> QED BY <1>1, <1>2, <1>4, <1>5, WriteOne

LEMMA WriteStateStep == ReadInv /\ WriteState => ReadInv'
<1> SUFFICES ASSUME ReadInv, WriteState PROVE ReadInv'
  OBVIOUS
<1>1. PICK c \in Clients :
         saved' = Append(saved, [client |-> c]) /\ pending' = << <<"state", c, "last">> >>
  BY DEF WriteState
<1>2. CanWrite /\ SavedClients = {} /\ windows' = windows /\ client' = client /\ phase' = phase
  BY DEF WriteState
<1> PICK r : r = [client |-> c]
  OBVIOUS
<1>3. r \in States /\ StateLine(r) = <<"state", c, "last">>
  BY <1>1 DEF States, StateRecord, StateLine
<1>4. ~IsPane(r) /\ ~IsWindow(r)
  BY <1>3, RecordKinds
<1>5. \A i \in DOMAIN saved : saved[i] \notin States
  BY <1>2, InSaved, RecordKinds DEF SavedClients, ReadInv
<1>6. Fresh(r)
  BY <1>4, <1>5 DEF Fresh
<1>7. OneLine(r, pending')
  BY <1>1, <1>3 DEF OneLine
<1>8. saved' = Append(saved, r)
  BY <1>1
<1> QED BY <1>2, <1>3, <1>6, <1>7, <1>8, WriteOne

LEMMA WriteOddityStep == ReadInv /\ WriteOddity => ReadInv'
<1> SUFFICES ASSUME ReadInv, WriteOddity PROVE ReadInv'
  OBVIOUS
<1>1. PICK l \in Oddities : pending' = <<l>>
  BY DEF WriteOddity
<1>2. saved' = saved /\ windows' = windows /\ client' = client /\ phase' = phase /\ CanWrite
  BY DEF WriteOddity
<1>3. ~Keeps(l) /\ Head(<<l>>) = l /\ <<l>>[1] = l
  BY SaveAssumption
<1>4. PendingInv'
  <2>1. pending'[1] = l
    BY <1>1, <1>3
  <2>2. pending' = <<pending'[1]>>
    BY <1>1, <2>1
  <2> QED BY <1>3, <2>1, <2>2 DEF PendingInv
<1>5. ~Unread' /\ ~Unread
  <2>1. ~Unread'
    BY <1>1, <1>3, OneLineReads DEF Unread
  <2>2. ~Unread
    BY <1>2, OneLineReads DEF Unread, CanWrite
  <2> QED BY <2>1, <2>2
<1>6. Known' = Known /\ SavedInv'
  BY <1>2, <1>5 DEF Known, SavedInv, ReadInv
<1>7. WindowsInv' /\ ClientInv'
  BY <1>2, <1>6, NothingRead DEF ReadInv
<1> QED BY <1>2, <1>4, <1>6, <1>7 DEF ReadInv, CanWrite

LEMMA ReadStep == ReadInv /\ [INext]_vars => ReadInv'
<1> SUFFICES ASSUME ReadInv, [INext]_vars PROVE ReadInv'
  OBVIOUS
<1>1. CASE EndOfFile \/ ReadEntry \/ Imported \/ UNCHANGED vars
  <2>1. saved' = saved /\ pending' = pending /\ windows' = windows /\ client' = client
    BY <1>1 DEF EndOfFile, ReadEntry, Imported, vars
  <2>2. Known' = Known /\ SavedInv' /\ PendingInv'
    BY <2>1 DEF ReadInv, Known, Unread, SavedInv, PendingInv
  <2>3. WindowsInv' /\ ClientInv'
    BY <2>1, <2>2, NothingRead DEF ReadInv
  <2>4. phase' # "lines" => pending' = <<>>
    BY <1>1 DEF EndOfFile, ReadEntry, Imported, vars, ReadInv
  <2> QED BY <2>2, <2>3, <2>4 DEF ReadInv
<1> QED BY <1>1, WritePaneStep, WriteWindowStep, WriteStateStep, WriteOddityStep,
           ReadPaneStep, ReadWindowStep, ReadStateStep, ReadNothingStep DEF INext

LEMMA Reading == ISpec => []ReadInv
  BY ReadInit, ReadStep, PTL DEF ISpec


(***************************************************************************)
(* The sort: panes of pairwise different indexes come out in their order,  *)
(* each once.                                                              *)
(***************************************************************************)
LEMMA PanesTypes ==
  ASSUME NEW panes \in Seq(PaneShape)
  PROVE  /\ Len(panes) \in Nat /\ DOMAIN panes = 1..Len(panes)
         /\ IsFiniteSet(DOMAIN panes) /\ Cardinality(DOMAIN panes) = Len(panes)
         /\ \A n \in DOMAIN panes : n \in Int /\ panes[n].index \in Int
<1>1. Len(panes) \in Nat /\ DOMAIN panes = 1..Len(panes)
  BY LenProperties
<1>2. /\ 1 \in Int /\ Len(panes) \in Int
      /\ (IF 1 > Len(panes) THEN 0 ELSE Len(panes) - 1 + 1) = Len(panes)
  BY <1>1
<1>3. IsFiniteSet(1..Len(panes)) /\ Cardinality(1..Len(panes)) = Len(panes)
  BY <1>2, FS_Interval
<1>4. \A n \in 1..Len(panes) : panes[n] \in PaneShape
  BY ElementOfSeq
<1>5. \A n \in 1..Len(panes) : panes[n].index \in Int
  BY <1>4 DEF PaneShape
<1> QED BY <1>1, <1>3, <1>5

LEMMA BehindGrows ==
  ASSUME NEW panes \in Seq(PaneShape),
         NEW a \in DOMAIN panes, NEW b \in DOMAIN panes, panes[a].index < panes[b].index
  PROVE  /\ Behind(panes, a) \in Nat /\ Behind(panes, b) \in Nat
         /\ Behind(panes, a) < Behind(panes, b) /\ Behind(panes, b) <= Len(panes)
<1> DEFINE B(n) == {m \in DOMAIN panes : Before(panes, m, n)}
<1>1. Len(panes) \in Nat /\ DOMAIN panes = 1..Len(panes)
  BY PanesTypes
<1>2. IsFiniteSet(DOMAIN panes) /\ Cardinality(DOMAIN panes) = Len(panes)
  BY PanesTypes
<1>3. \A n \in DOMAIN panes : panes[n].index \in Int /\ n \in Int
  BY PanesTypes
<1>4. B(a) \subseteq B(b) /\ a \in B(b) /\ a \notin B(a)
  BY <1>3 DEF Before
<1>5. IsFiniteSet(B(b)) /\ Cardinality(B(b)) <= Len(panes)
  BY <1>2, FS_Subset
<1>6. IsFiniteSet(B(a)) /\ Cardinality(B(a)) <= Cardinality(B(b)) /\ Cardinality(B(a)) # Cardinality(B(b))
  BY <1>4, <1>5, FS_Subset
<1>7. Cardinality(B(a)) \in Nat /\ Cardinality(B(b)) \in Nat
  BY <1>5, <1>6, FS_CardinalityType
<1>8. Behind(panes, a) = Cardinality(B(a)) /\ Behind(panes, b) = Cardinality(B(b))
  BY DEF Behind
<1> HIDE DEF B
<1> QED BY <1>5, <1>6, <1>7, <1>8

LEMMA BehindBound ==
  ASSUME NEW panes \in Seq(PaneShape), NEW a \in DOMAIN panes
  PROVE  Behind(panes, a) + 1 \in DOMAIN panes
<1> DEFINE B == {m \in DOMAIN panes : Before(panes, m, a)}
<1>1. Len(panes) \in Nat /\ DOMAIN panes = 1..Len(panes)
  BY PanesTypes
<1>2. IsFiniteSet(DOMAIN panes) /\ Cardinality(DOMAIN panes) = Len(panes)
  BY PanesTypes
<1>3. panes[a].index \in Int
  BY PanesTypes
<1>4. B \subseteq DOMAIN panes /\ a \notin B
  BY <1>1, <1>3 DEF Before
<1>5. IsFiniteSet(B) /\ Cardinality(B) <= Len(panes) /\ Cardinality(B) # Len(panes)
  BY <1>2, <1>4, FS_Subset
<1>6. Cardinality(B) \in Nat /\ Behind(panes, a) = Cardinality(B)
  BY <1>5, FS_CardinalityType DEF Behind
<1> HIDE DEF B
<1> QED BY <1>1, <1>5, <1>6

LEMMA Ordered ==
  ASSUME NEW panes \in Seq(PaneShape),
         \A m, n \in DOMAIN panes : m # n => panes[m].index # panes[n].index
  PROVE  /\ ToSet(ByIndex(panes)) = ToSet(panes)
         /\ DOMAIN ByIndex(panes) = DOMAIN panes
         /\ \A m, n \in DOMAIN panes : m < n => ByIndex(panes)[m].index < ByIndex(panes)[n].index
<1> DEFINE D == DOMAIN panes
           rank == [n \in D |-> Behind(panes, n) + 1]
           at(r) == CHOOSE n \in D : Behind(panes, n) = r - 1
<1>1. Len(panes) \in Nat /\ D = 1..Len(panes) /\ \A n \in D : panes[n].index \in Int
  BY PanesTypes
<1>2. \A n \in D : Behind(panes, n) + 1 \in D
  BY BehindBound
<1>3. \A m, n \in D : panes[m].index < panes[n].index =>
         /\ Behind(panes, m) \in Nat /\ Behind(panes, n) \in Nat
         /\ Behind(panes, m) < Behind(panes, n)
  BY BehindGrows
<1>4. \A n \in D : Behind(panes, n) \in Int
  <2> SUFFICES ASSUME NEW n \in D PROVE Behind(panes, n) \in Int
    OBVIOUS
  <2> DEFINE B == {m \in D : Before(panes, m, n)}
  <2>1. IsFiniteSet(D)
    BY PanesTypes
  <2>2. IsFiniteSet(B)
    BY <2>1, FS_Subset
  <2>3. Cardinality(B) \in Int
    BY <2>2, FS_CardinalityType
  <2> QED BY <2>3 DEF Behind
<1>5. \A m, n \in D : Behind(panes, m) = Behind(panes, n) => m = n
  <2> SUFFICES ASSUME NEW m \in D, NEW n \in D, Behind(panes, m) = Behind(panes, n), m # n PROVE FALSE
    OBVIOUS
  <2>1. panes[m].index < panes[n].index \/ panes[n].index < panes[m].index
    BY <1>1
  <2> QED BY <2>1, <1>3, <1>4
<1>6. rank \in Injection(D, D)
  <2>1. rank \in [D -> D]
    BY <1>2
  <2>2. IsInjective(rank)
    BY <1>4, <1>5 DEF IsInjective
  <2> QED BY <2>1, <2>2 DEF Injection
<1>7. rank \in Surjection(D, D)
  <2>1. IsFiniteSet(D)
    BY PanesTypes
  <2> HIDE DEF rank, D
  <2> QED BY <1>6, <2>1, FS_Injection
<1>8. \A r \in D : \E n \in D : Behind(panes, n) = r - 1
  <2> SUFFICES ASSUME NEW r \in D PROVE \E n \in D : Behind(panes, n) = r - 1
    OBVIOUS
  <2>1. PICK n \in D : rank[n] = r
    BY <1>7 DEF Surjection
  <2> QED BY <2>1, <1>1, <1>4
<1>9. \A r \in D : at(r) \in D /\ Behind(panes, at(r)) = r - 1
  BY <1>8
<1>10. DOMAIN ByIndex(panes) = D /\ \A r \in D : ByIndex(panes)[r] = panes[at(r)]
  BY DEF ByIndex
<1> HIDE DEF at, rank
<1>11. \A n \in D : at(Behind(panes, n) + 1) = n
  <2> SUFFICES ASSUME NEW n \in D PROVE at(Behind(panes, n) + 1) = n
    OBVIOUS
  <2>1. Behind(panes, at(Behind(panes, n) + 1)) = Behind(panes, n) /\ at(Behind(panes, n) + 1) \in D
    BY <1>2, <1>4, <1>9
  <2> QED BY <2>1, <1>5
<1>12. ToSet(ByIndex(panes)) = ToSet(panes)
  BY <1>2, <1>9, <1>10, <1>11 DEF ToSet
<1>13. ASSUME NEW m \in D, NEW n \in D, m < n
       PROVE  ByIndex(panes)[m].index < ByIndex(panes)[n].index
  <2>1. at(m) \in D /\ at(n) \in D /\ Behind(panes, at(m)) = m - 1 /\ Behind(panes, at(n)) = n - 1
    BY <1>9
  <2>2. m - 1 < n - 1
    BY <1>1, <1>13
  <2>3. ~(panes[at(n)].index < panes[at(m)].index)
    BY <2>1, <2>2, <1>3
  <2>4. at(m) # at(n)
    BY <2>1, <2>2, <1>4
  <2>5. panes[at(m)].index < panes[at(n)].index
    BY <2>1, <2>3, <2>4, <1>1
  <2> QED BY <2>5, <1>10
<1> QED BY <1>10, <1>12, <1>13


(***************************************************************************)
(* Once every line is read, the snapshot is what the records say.          *)
(***************************************************************************)
Records == {p \in SavedPanes : Whole(p)} \cup SavedWindows

LEMMA AllKnown ==
  ASSUME ReadInv, pending = <<>>
  PROVE  /\ \A r \in Known : r \in Panes \cup Windows \cup States
         /\ Records = {r \in Known : IsPane(r) \/ IsWindow(r)}
         /\ \A r : r \in Known /\ r \in States <=> r \in ToSet(saved) /\ DOMAIN r = StateRecord
<1>1. ~Unread
  BY OneLineReads DEF Unread
<1>2. Known = {r \in ToSet(saved) : Readable(r)}
  BY <1>1, InSaved DEF ReadInv, Known
<1>3. \A r \in ToSet(saved) : r \in Panes \cup Windows \cup States
  BY InSaved, SavedTypes DEF ReadInv
<1>4. Records = {r \in Known : IsPane(r) \/ IsWindow(r)}
  <2>1. ASSUME NEW r \in Records PROVE r \in Known /\ (IsPane(r) \/ IsWindow(r))
    <3>1. r \in ToSet(saved) /\ ((IsPane(r) /\ Whole(r)) \/ IsWindow(r))
      BY <2>1 DEF Records, SavedPanes, SavedWindows, IsPane, IsWindow
    <3>2. IsWindow(r) => ~IsPane(r)
      BY DEF IsPane, IsWindow, PaneRecord, WindowRecord
    <3> QED BY <3>1, <3>2, <1>2 DEF Readable
  <2>2. ASSUME NEW r \in Known, IsPane(r) \/ IsWindow(r) PROVE r \in Records
    BY <2>2, <1>2 DEF Records, SavedPanes, SavedWindows, IsPane, IsWindow, Readable
  <2> QED BY <2>1, <2>2
<1>5. \A r : r \in Known /\ r \in States <=> r \in ToSet(saved) /\ DOMAIN r = StateRecord
  <2>1. ASSUME NEW r \in ToSet(saved), DOMAIN r = StateRecord PROVE r \in Known /\ r \in States
    <3>1. ~IsPane(r) /\ ~IsWindow(r)
      BY <2>1 DEF IsPane, IsWindow, PaneRecord, WindowRecord, StateRecord
    <3> QED BY <3>1, <1>2, <1>3, RecordKinds DEF Readable
  <2> QED BY <2>1, <1>2, RecordKinds
<1> QED BY <1>2, <1>3, <1>4, <1>5

LEMMA ClientAsSaved ==
  ASSUME ReadInv, pending = <<>>
  PROVE  client = (IF SavedClients = {} THEN "" ELSE CHOOSE c \in SavedClients : TRUE)
<1>1. SavedClients = {r.client : r \in {r \in Known : r \in States}}
  BY AllKnown DEF SavedClients
<1>2. \A q, r \in Known : q \in States /\ r \in States => q = r
  BY DEF ReadInv, SavedInv, Known
<1>3. CASE client = "" /\ \A r \in Known : r \notin States
  BY <1>1, <1>3
<1>4. CASE \E r \in Known : r \in States /\ client = r.client
  <2>1. PICK r \in Known : r \in States /\ client = r.client
    BY <1>4
  <2>2. SavedClients = {client}
    BY <1>1, <1>2, <2>1
  <2> QED BY <2>2
<1> QED BY <1>3, <1>4 DEF ReadInv, ClientInv

(* No window has two records: its place in them tells its place. *)
LEMMA OneWindowRecord ==
  ASSUME ReadInv, NEW k, NEW a \in KnownWindows(k), NEW b \in KnownWindows(k)
  PROVE  a = b
<1>1. PICK i \in DOMAIN saved : a = saved[i]
  BY DEF KnownWindows, Known
<1>2. PICK j \in DOMAIN saved : b = saved[j]
  BY DEF KnownWindows, Known
<1>3. IsWindow(a) /\ IsWindow(b) /\ a.session = b.session /\ Number[a.window] = Number[b.window]
  BY DEF KnownWindows, KeyOfRecord
<1>4. a \in Windows /\ b \in Windows
  BY <1>1, <1>2, <1>3, SavedTypes, RecordKinds DEF ReadInv
<1>5. a.window = b.window
  BY <1>3, <1>4, SaveAssumption
<1> QED BY <1>1, <1>2, <1>3, <1>5 DEF ReadInv, SavedInv

Told(dress, panes) ==
    [name |-> IF dress = {} THEN <<>>
              ELSE LET n == (CHOOSE w \in dress : TRUE).name IN <<Strip(n[1])>> \o Tail(n),
     active |-> \E w \in dress : w.active = "1",
     auto |-> \E w \in dress : w.auto = "on",
     panes |-> panes]

LEMMA DressAsSaved ==
  ASSUME NEW v, NEW dress, WindowShown(v, dress), \A a, b \in dress : a = b, NEW panes
  PROVE  /\ [v EXCEPT !.panes = panes] = Told(dress, panes)
         /\ v.active <=> Told(dress, panes).active
<1> DEFINE u == [v EXCEPT !.panes = panes]
           F == {"name", "active", "auto", "panes"}
<1>1. DOMAIN v = F
  BY DEF WindowShown, NoWindow
<1>2. DOMAIN u = F /\ u = [i \in F |-> u[i]]
  BY <1>1
<1>3. u.panes = panes /\ u.name = v.name /\ u.active = v.active /\ u.auto = v.auto
  BY <1>1
<1> HIDE DEF u
<1>4. CASE dress = {} /\ v = [NoWindow EXCEPT !.panes = v.panes]
  <2>1. v.name = <<>> /\ v.active = FALSE /\ v.auto = FALSE
    BY <1>4 DEF NoWindow
  <2>2. u = [name |-> <<>>, active |-> FALSE, auto |-> FALSE, panes |-> panes]
    BY <1>2, <1>3, <2>1
  <2> QED BY <1>4, <2>1, <2>2 DEF u, Told
<1>5. CASE \E r \in dress :
            v = [name |-> <<Strip(r.name[1])>> \o Tail(r.name), active |-> r.active = "1",
                 auto |-> r.auto = "on", panes |-> v.panes]
  <2>1. PICK r \in dress :
            v = [name |-> <<Strip(r.name[1])>> \o Tail(r.name), active |-> r.active = "1",
                 auto |-> r.auto = "on", panes |-> v.panes]
    BY <1>5
  <2>2. dress = {r} /\ (CHOOSE w \in dress : TRUE) = r
    BY <2>1
  <2>3. /\ v.name = <<Strip(r.name[1])>> \o Tail(r.name)
        /\ v.active = (r.active = "1") /\ v.auto = (r.auto = "on")
    BY <2>1
  <2>4. /\ (\E w \in dress : w.active = "1") = (r.active = "1")
        /\ (\E w \in dress : w.auto = "on") = (r.auto = "on")
    BY <2>2
  <2>5. u = [name |-> <<Strip(r.name[1])>> \o Tail(r.name), active |-> r.active = "1",
             auto |-> r.auto = "on", panes |-> panes]
    BY <1>2, <1>3, <2>3
  <2> QED BY <2>2, <2>3, <2>4, <2>5 DEF u, Told
<1> QED BY <1>4, <1>5 DEF WindowShown

LEMMA PanesAsSaved ==
  ASSUME NEW panes, NEW records, PanesShown(panes, records), \A p \in records : Plain(p)
  PROVE  ToSet(panes) = {Shown(p) : p \in records}
  BY DEF PanesShown, Shows, ToSet


LEMMA WindowAsSaved ==
  ASSUME ReadInv, pending = <<>>, \A p \in SavedPanes : Whole(p) => Plain(p),
         NEW s, NEW i, <<s, i>> \in DOMAIN windows
  PROVE  LET v == windows[<<s, i>>]
             w == Sorted(v)
         IN  /\ [w EXCEPT !.panes = ToSet(@)] = Wanted(Records, s, i)
             /\ v.active <=> Wanted(Records, s, i).active
             /\ \A m, n \in DOMAIN w.panes : m < n => w.panes[m].index < w.panes[n].index
<1> DEFINE k == <<s, i>>
           v == windows[k]
           w == Sorted(v)
           here == {r \in Records : r.session = s /\ Number[r.window] = i}
           dress == {r \in here : DOMAIN r = WindowRecord}
           panes == {p \in here : DOMAIN p = PaneRecord}
<1>1. PanesShown(v.panes, KnownPanes(k)) /\ WindowShown(v, KnownWindows(k))
  BY DEF ReadInv, WindowsInv
<1>2. dress = KnownWindows(k) /\ panes = KnownPanes(k)
  BY AllKnown DEF KnownWindows, KnownPanes, KeyOfRecord, IsWindow, IsPane
<1>3. \A p \in KnownPanes(k) : Plain(p)
  <2>1. \A p \in panes : p \in SavedPanes /\ Whole(p)
    BY DEF Records, SavedPanes, SavedWindows, PaneRecord, WindowRecord
  <2> QED BY <1>2, <2>1
<1>4. \A a, b \in KnownWindows(k) : a = b
  BY OneWindowRecord
<1>5. /\ v.panes \in Seq(PaneShape)
      /\ \A m, n \in DOMAIN v.panes : m # n => v.panes[m].index # v.panes[n].index
  BY <1>1 DEF PanesShown
<1>6. /\ ToSet(ByIndex(v.panes)) = ToSet(v.panes)
      /\ DOMAIN ByIndex(v.panes) = DOMAIN v.panes
      /\ \A m, n \in DOMAIN v.panes : m < n => ByIndex(v.panes)[m].index < ByIndex(v.panes)[n].index
  BY <1>5, Ordered
<1>7. ToSet(v.panes) = {Shown(p) : p \in panes}
  BY <1>1, <1>2, <1>3, PanesAsSaved
<1>8. w.panes = ByIndex(v.panes) /\ w = [v EXCEPT !.panes = ByIndex(v.panes)]
  BY <1>1, OtherPanes DEF Sorted
<1>9. [w EXCEPT !.panes = ToSet(@)] = [v EXCEPT !.panes = {Shown(p) : p \in panes}]
  <2>1. [w EXCEPT !.panes = ToSet(@)] = [w EXCEPT !.panes = ToSet(ByIndex(v.panes))]
    BY <1>8
  <2>2. [[v EXCEPT !.panes = ByIndex(v.panes)] EXCEPT !.panes = ToSet(ByIndex(v.panes))] =
        [v EXCEPT !.panes = ToSet(ByIndex(v.panes))]
    OBVIOUS
  <2> HIDE DEF v, w, panes
  <2> QED BY <2>1, <2>2, <1>6, <1>7, <1>8
<1>10. Wanted(Records, s, i) = Told(dress, {Shown(p) : p \in panes})
  BY DEF Wanted, Told
<1> HIDE DEF v, w, here, dress, panes
<1>11. /\ [v EXCEPT !.panes = {Shown(p) : p \in panes}] = Told(dress, {Shown(p) : p \in panes})
       /\ v.active <=> Told(dress, {Shown(p) : p \in panes}).active
  <2>1. PICK d, shown : d = dress /\ shown = {Shown(p) : p \in panes}
    OBVIOUS
  <2>2. WindowShown(v, d) /\ \A a, b \in d : a = b
    BY <1>1, <1>2, <1>4, <2>1
  <2>3. PICK x : x = v
    OBVIOUS
  <2>4. [x EXCEPT !.panes = shown] = Told(d, shown) /\ (x.active <=> Told(d, shown).active)
    BY <2>2, <2>3, DressAsSaved
  <2> QED BY <2>1, <2>3, <2>4
<1>12. v.active <=> Wanted(Records, s, i).active
  BY <1>10, <1>11
<1>13. \A m, n \in DOMAIN w.panes : m < n => w.panes[m].index < w.panes[n].index
  BY <1>6, <1>8
<1>14. [w EXCEPT !.panes = ToSet(@)] = Wanted(Records, s, i)
  BY <1>9, <1>10, <1>11
<1> QED BY <1>12, <1>13, <1>14 DEF w, v

LEMMA ImportedAsSaved == ReadInv => AsSaved
<1> SUFFICES ASSUME ReadInv, pending = <<>>, \A p \in SavedPanes : Whole(p) => Plain(p)
             PROVE  AsSaved
  BY DEF AsSaved
<1> DEFINE of(s) == {Number[r.window] : r \in {r \in Records : r.session = s}}
<1>1. client = (IF SavedClients = {} THEN "" ELSE CHOOSE c \in SavedClients : TRUE)
  BY ClientAsSaved
<1>2. DOMAIN windows = {KeyOfRecord(r) : r \in Records}
  BY AllKnown DEF ReadInv, WindowsInv
<1>3. DOMAIN Snapshot = {k[1] : k \in DOMAIN windows} /\ \A s \in DOMAIN Snapshot : Snapshot[s] = SessionOf(s)
  BY DEF Snapshot
<1>a. /\ \A r : KeyOfRecord(r)[1] = r.session /\ KeyOfRecord(r)[2] = Number[r.window]
      /\ \A r : KeyOfRecord(r) = <<r.session, Number[r.window]>>
  BY DEF KeyOfRecord
<1>4. DOMAIN Snapshot = {r.session : r \in Records}
  BY <1>2, <1>3, <1>a
<1>5. ASSUME NEW s
      PROVE  Indexes(s) = of(s) /\ \A i \in of(s) : <<s, i>> \in DOMAIN windows
  <2>1. Indexes(s) = of(s)
    BY <1>2, <1>a DEF Indexes
  <2>2. \A i \in of(s) : <<s, i>> \in DOMAIN windows
    BY <1>2, <1>a
  <2> QED BY <2>1, <2>2
<1> DEFINE lit(s) == {i \in of(s) : windows[<<s, i>>].active}
           wanted(s) == {i \in of(s) : Wanted(Records, s, i).active}
<1>6. ASSUME NEW s \in DOMAIN Snapshot
      PROVE  /\ DOMAIN Snapshot[s].windows = of(s)
             /\ \A i \in of(s) : Snapshot[s].windows[i] = Sorted(windows[<<s, i>>])
             /\ Snapshot[s].active = IF lit(s) = {} THEN 0 ELSE Max(lit(s))
  <2> HIDE DEF of
  <2>1. Indexes(s) = of(s) /\ Snapshot[s] = SessionOf(s)
    BY <1>3, <1>5
  <2>2. {i \in Indexes(s) : windows[<<s, i>>].active} = lit(s)
    BY <2>1
  <2> HIDE DEF lit
  <2>3. SessionOf(s) = [windows |-> [i \in of(s) |-> Sorted(windows[<<s, i>>])],
                        active |-> IF lit(s) = {} THEN 0 ELSE Max(lit(s))]
    BY <2>1, <2>2 DEF SessionOf
  <2> QED BY <2>1, <2>3
<1>7. ASSUME NEW s, NEW i \in of(s)
      PROVE  LET w == Sorted(windows[<<s, i>>])
             IN  /\ [w EXCEPT !.panes = ToSet(@)] = Wanted(Records, s, i)
                 /\ windows[<<s, i>>].active <=> Wanted(Records, s, i).active
                 /\ \A m, n \in DOMAIN w.panes : m < n => w.panes[m].index < w.panes[n].index
  BY <1>5, <1>7, WindowAsSaved
<1>8. \A s : lit(s) = wanted(s)
  BY <1>7
<1>9. ASSUME NEW s \in DOMAIN Snapshot
      PROVE  /\ DOMAIN Snapshot[s].windows = of(s)
             /\ Snapshot[s].active = IF wanted(s) = {} THEN 0 ELSE Max(wanted(s))
             /\ \A i \in of(s) :
                   LET w == Snapshot[s].windows[i]
                   IN  /\ [w EXCEPT !.panes = ToSet(@)] = Wanted(Records, s, i)
                       /\ \A m, n \in DOMAIN w.panes : m < n => w.panes[m].index < w.panes[n].index
  <2> HIDE DEF of, lit, wanted
  <2>1. DOMAIN Snapshot[s].windows = of(s) /\ Snapshot[s].active = IF wanted(s) = {} THEN 0 ELSE Max(wanted(s))
    BY <1>6, <1>8
  <2>2. ASSUME NEW i \in of(s)
        PROVE  LET w == Snapshot[s].windows[i]
               IN  /\ [w EXCEPT !.panes = ToSet(@)] = Wanted(Records, s, i)
                   /\ \A m, n \in DOMAIN w.panes : m < n => w.panes[m].index < w.panes[n].index
    <3>1. PICK w : w = Sorted(windows[<<s, i>>])
      OBVIOUS
    <3>2. Snapshot[s].windows[i] = w
      BY <1>6, <3>1
    <3>3. /\ [w EXCEPT !.panes = ToSet(@)] = Wanted(Records, s, i)
          /\ \A m, n \in DOMAIN w.panes : m < n => w.panes[m].index < w.panes[n].index
      BY <1>7, <3>1
    <3> QED BY <3>2, <3>3
  <2> QED BY <2>1, <2>2
<1> QED BY <1>1, <1>4, <1>9 DEF AsSaved, Records

(* An import yields what was saved, whatever order the records stand in,    *)
(* with tabs in titles and names, between lines of any other kind; the      *)
(* panes of a window in the order of their indexes.                         *)
THEOREM ImportYieldsTheSave == ISpec => []AsSaved
  BY Reading, ImportedAsSaved, PTL


(***************************************************************************)
(* The texts.                                                              *)
(***************************************************************************)
TextInv ==
    /\ phase \in {"lines", "tar", "done"}
    /\ phase = "lines" => entered = {} /\ DOMAIN texts = {}
    /\ entered \subseteq Tarred
    /\ DOMAIN texts \subseteq ValidKeys
    /\ \A k \in DOMAIN texts : texts[k] \in entered /\ Parses(texts[k]) /\ KeyOf(texts[k]) = k
    /\ \A q \in entered : Parses(q) /\ KeyOf(q) \in ValidKeys => KeyOf(q) \in DOMAIN texts

LEMMA TextInit == IInit => TextInv
  BY EmptyDomain DEF IInit, TextInv

LEMMA TextEntry == TextInv /\ ReadEntry => TextInv'
<1> SUFFICES ASSUME TextInv, ReadEntry PROVE TextInv'
  OBVIOUS
<1>1. phase = "tar" /\ phase' = phase /\ saved' = saved /\ windows' = windows
  BY DEF ReadEntry
<1>2. PICK place \in Tarred \ entered :
         /\ entered' = entered \cup {place}
         /\ IF Parses(place) /\ KeyOf(place) \in ValidKeys
            THEN texts' = [k \in DOMAIN texts \cup {KeyOf(place)} |->
                              IF k = KeyOf(place) THEN place ELSE texts[k]]
            ELSE texts' = texts
  BY DEF ReadEntry
<1>3. Tarred' = Tarred /\ ValidKeys' = ValidKeys
  BY <1>1 DEF Tarred, SavedPanes, ValidKeys
<1>4. CASE Parses(place) /\ KeyOf(place) \in ValidKeys
  <2>1. /\ DOMAIN texts' = DOMAIN texts \cup {KeyOf(place)}
        /\ \A k \in DOMAIN texts' : texts'[k] = IF k = KeyOf(place) THEN place ELSE texts[k]
    BY <1>2, <1>4
  <2>2. \A k \in DOMAIN texts' :
           texts'[k] \in entered' /\ Parses(texts'[k]) /\ KeyOf(texts'[k]) = k
    BY <1>2, <1>4, <2>1 DEF TextInv
  <2>3. \A q \in entered' : Parses(q) /\ KeyOf(q) \in ValidKeys' => KeyOf(q) \in DOMAIN texts'
    BY <1>2, <1>3, <2>1 DEF TextInv
  <2> QED BY <1>1, <1>2, <1>3, <1>4, <2>1, <2>2, <2>3 DEF TextInv
<1>5. CASE ~(Parses(place) /\ KeyOf(place) \in ValidKeys)
  BY <1>1, <1>2, <1>3, <1>5 DEF TextInv
<1> QED BY <1>4, <1>5

LEMMA TextStep == ReadInv /\ TextInv /\ [INext]_vars => TextInv'
<1> SUFFICES ASSUME ReadInv, TextInv, [INext]_vars PROVE TextInv'
  OBVIOUS
<1>1. CASE ReadEntry
  BY <1>1, TextEntry
<1>2. CASE \/ WritePane \/ WriteWindow \/ WriteState \/ WriteOddity
           \/ ReadPane \/ ReadWindow \/ ReadState \/ ReadSilent \/ ReadBad
  <2>1. tar' = tar /\ phase' = phase
    BY <1>2 DEF WritePane, WriteWindow, WriteState, WriteOddity, Reads,
                ReadPane, ReadWindow, ReadState, ReadSilent, ReadBad
  <2>2. phase = "lines"
    BY <1>2 DEF WritePane, WriteWindow, WriteState, WriteOddity, CanWrite, Reads,
                ReadPane, ReadWindow, ReadState, ReadSilent, ReadBad, ReadInv
  <2> QED BY <2>1, <2>2 DEF TextInv, tar
<1>3. CASE EndOfFile \/ Imported \/ UNCHANGED vars
  <2>1. entered' = entered /\ texts' = texts /\ saved' = saved /\ windows' = windows
    BY <1>3 DEF EndOfFile, Imported, vars, tar
  <2>2. Tarred' = Tarred /\ ValidKeys' = ValidKeys
    BY <2>1 DEF Tarred, SavedPanes, ValidKeys
  <2>3. phase' \in {"lines", "tar", "done"} /\ (phase' = "lines" => phase = "lines")
    BY <1>3 DEF EndOfFile, Imported, vars, TextInv
  <2> QED BY <2>1, <2>2, <2>3 DEF TextInv
<1> QED BY <1>1, <1>2, <1>3 DEF INext

(* A pane that was read can have a text: its key is among those looked for. *)
LEMMA KeyIsValid ==
  ASSUME ReadInv, pending = <<>>, NEW p \in SavedPanes, Whole(p)
  PROVE  p \in Panes /\ KeyOf(Place(p)) \in ValidKeys
<1> DEFINE k == KeyOfRecord(p)
<1>1. p \in Known /\ IsPane(p)
  BY AllKnown DEF Records, SavedPanes, IsPane, PaneRecord, WindowRecord
<1>2. p \in Panes
  BY <1>1, AllKnown, RecordKinds
<1>3. k \in DOMAIN windows /\ p \in KnownPanes(k)
  BY <1>1 DEF ReadInv, WindowsInv, KnownPanes
<1>4. PICK n \in DOMAIN windows[k].panes : windows[k].panes[n].index = Number[p.index]
  BY <1>3 DEF ReadInv, WindowsInv, PanesShown, Shows
<1>5. windows[k].panes[n] \in ToSet(windows[k].panes)
  BY DEF ToSet
<1>6. PaneKey(k[1], k[2], Number[p.index]) \in ValidKeys
  BY <1>3, <1>4, <1>5 DEF ValidKeys
<1>7. KeyOf(Place(p)) = PaneKey(k[1], k[2], Number[p.index])
  BY DEF KeyOf, Place, KeyOfRecord
<1> QED BY <1>2, <1>6, <1>7

(* A key that is looked for is that of a pane that was read. *)
LEMMA ValidIsHeld ==
  ASSUME ReadInv, pending = <<>>, NEW key \in ValidKeys
  PROVE  \E p \in Held : KeyOf(Place(p)) = key
<1>1. PICK k \in DOMAIN windows : \E pane \in ToSet(windows[k].panes) :
         key = PaneKey(k[1], k[2], pane.index)
  BY DEF ValidKeys
<1>2. PICK n \in DOMAIN windows[k].panes :
         key = PaneKey(k[1], k[2], windows[k].panes[n].index)
  BY <1>1 DEF ToSet
<1>3. PICK p \in KnownPanes(k) : Shows(p, windows[k].panes[n])
  BY DEF ReadInv, WindowsInv, PanesShown
<1>4. p \in Held
  <2>1. p \in Records /\ IsPane(p)
    BY AllKnown DEF KnownPanes
  <2> QED BY <2>1 DEF Held, Records, SavedPanes, SavedWindows, IsPane, PaneRecord, WindowRecord
<1>5. k = <<p.session, Number[p.window]>>
  BY DEF KnownPanes, KeyOfRecord
<1>6. KeyOf(Place(p)) = PaneKey(k[1], k[2], Number[p.index])
  BY <1>5 DEF KeyOf, Place
<1> QED BY <1>2, <1>3, <1>4, <1>6 DEF Shows

LEMMA PlaceIsTriple ==
  ASSUME NEW q \in Tarred
  PROVE  q = <<q[1], q[2], q[3]>>
<1>1. CASE q \in Strangers
  BY <1>1, SaveAssumption
<1>2. CASE \E r \in SavedPanes : q = Place(r)
  <2>1. PICK r \in SavedPanes : q = <<r.session, r.window, r.index>>
    BY <1>2 DEF Place
  <2> QED BY <2>1
<1> QED BY <1>1, <1>2 DEF Tarred

(* Two places of one key are one place or rivals. *)
LEMMA OneKey ==
  ASSUME NEW p \in Held, p \in Panes, NEW q \in Tarred, Parses(q), KeyOf(q) = KeyOf(Place(p))
  PROVE  q = Place(p) \/ (q \in Rivals(Place(p)) /\ Place(p) \in Rivals(q))
<1>1. Place(p)[1] = p.session /\ Place(p)[2] = p.window /\ Place(p)[3] = p.index
  BY DEF Place
<1>2. /\ KeyName[q[1]] = KeyName[p.session]
      /\ Number[q[2]] = Number[p.window] /\ Number[q[3]] = Number[p.index]
  BY <1>1 DEF KeyOf, PaneKey
<1>3. q[2] = p.window /\ q[3] = p.index
  BY <1>2, PaneRecordTypes, SaveAssumption DEF Parses, Numeral
<1>4. Place(p) \in Tarred
  BY DEF Tarred, Held
<1> QED BY <1>1, <1>2, <1>3, <1>4 DEF Rivals

LEMMA TextsOfPanes == ReadInv /\ TextInv => TextsFindTheirPanes
<1> SUFFICES ASSUME ReadInv, TextInv PROVE TextsFindTheirPanes
  OBVIOUS
<1>1. CASE phase = "lines"
  <2>1. entered = {} /\ DOMAIN texts = {}
    BY <1>1 DEF TextInv
  <2> QED BY <2>1 DEF TextsFindTheirPanes
<1>2. CASE phase # "lines"
  <2>1. pending = <<>>
    BY <1>2 DEF ReadInv
  <2>2. \A k \in DOMAIN texts :
           texts[k] \in entered /\ texts[k] \in Tarred /\ Parses(texts[k]) /\ KeyOf(texts[k]) = k
    BY DEF TextInv
  <2>3. \A p \in Held : p \in Panes /\ KeyOf(Place(p)) \in ValidKeys
    BY <2>1, KeyIsValid DEF Held
  <2>4. ASSUME NEW k \in DOMAIN texts, Rivals(texts[k]) = {}
        PROVE  \E p \in Held : Place(p) = texts[k] /\ KeyOf(Place(p)) = k
    <3>1. k \in ValidKeys
      BY DEF TextInv
    <3>2. PICK p \in Held : KeyOf(Place(p)) = k
      BY <2>1, <3>1, ValidIsHeld
    <3> QED BY <2>2, <2>3, <2>4, <3>2, OneKey
  <2>5. ASSUME NEW p \in Held, Rivals(Place(p)) = {}
        PROVE  IF Place(p) \in entered /\ p.session \notin Slashed
               THEN KeyOf(Place(p)) \in DOMAIN texts /\ texts[KeyOf(Place(p))] = Place(p)
               ELSE KeyOf(Place(p)) \notin DOMAIN texts
    <3>1. ASSUME KeyOf(Place(p)) \in DOMAIN texts PROVE texts[KeyOf(Place(p))] = Place(p)
      BY <2>2, <2>3, <2>5, <3>1, OneKey
    <3>2. Place(p)[1] = p.session /\ Place(p)[2] = p.window /\ Place(p)[3] = p.index
      BY DEF Place
    <3>3. Parses(Place(p)) <=> p.session \notin Slashed
      BY <2>3, <3>2, PaneRecordTypes DEF Parses, Numeral
    <3>4. CASE Place(p) \in entered /\ p.session \notin Slashed
      BY <2>3, <3>1, <3>3, <3>4 DEF TextInv
    <3>5. CASE ~(Place(p) \in entered /\ p.session \notin Slashed)
      BY <2>2, <3>1, <3>3, <3>5
    <3> QED BY <3>4, <3>5
  <2> QED BY <2>4, <2>5 DEF TextsFindTheirPanes
<1> QED BY <1>1, <1>2

(* For saves of any length and any tar: a pane whose key no other place has *)
(* holds its own text as soon as its entry is read, and none before; and an *)
(* entry whose key no other place has is attached to the pane of its place, *)
(* or to none if there is none.                                             *)
THEOREM TextsGoHome == ISpec => []TextsFindTheirPanes
<1>1. ISpec => [](ReadInv /\ TextInv)
  BY ReadInit, ReadStep, TextInit, TextStep, PTL DEF ISpec
<1> QED BY <1>1, TextsOfPanes, PTL

=============================================================================
