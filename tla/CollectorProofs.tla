--------------------------- MODULE CollectorProofs ---------------------------
(***************************************************************************)
(* What a collection yields while tmux's user goes on, for any number of   *)
(* sessions, windows, panes and acts of the user.  The collector looks     *)
(* three times, and what ties the looks together is the owner of a window: *)
(* of the sessions that show it exactly one is kept, and stays kept, until *)
(* one that showed it is closed.                                           *)
(***************************************************************************)
EXTENDS Collector, SequenceTheorems, WellFoundedInduction, TLAPS

Spared(s) == \A c \in closed : c[1] # s         \* no session of that name was closed
Whole(o) == \A c \in closed : c[2] # o          \* none that showed these windows was

(* A window that stands as it stood when the collection began. *)
Calm(o, i) == IsWindow(o, i) /\ <<o, i>> \notin touched /\ Whole(o)

RowsOf(s, i) == {<<r[3], r[4]>> : r \in {q \in rows : q[1] = s /\ q[2] = i}}
PanesOf(o, i) == {<<k, windows[o][i][k]>> : k \in DOMAIN windows[o][i]}

Listed == pc \in {"windows", "panes", "captures", "saved"}

Looks ==
    /\ Listed => \A o \in Sessions : (Showing(o) # {} /\ Whole(o)) =>
          \E s \in Showing(o) : s \in kept
    /\ pc \in {"panes", "captures", "saved"} =>
          \A o \in Sessions, i \in Indexes : Calm(o, i) =>
              \E s \in Showing(o) : <<s, i>> \in wins
    /\ pc \in {"captures", "saved"} =>
          \A o \in Sessions, i \in Indexes : Calm(o, i) =>
              \E s \in Showing(o) : <<s, i>> \in wins /\ RowsOf(s, i) = PanesOf(o, i)

(* Two kept sessions show the same windows only after one was closed and    *)
(* its name used again.                                                     *)
OneOfEach ==
    /\ \A s, t \in kept : (s # t /\ Spared(s) /\ Spared(t)) =>
          s \in Live /\ t \in Live /\ shows[s] # shows[t]
    /\ \A r, q \in rows : (r[4] = q[4] /\ r # q) =>
          \E c \in closed : c[1] \in {r[1], q[1]}

HasText(r) ==
    \/ r[4] \in warned
    \/ /\ Key(r[1], r[2], r[3]) \in DOMAIN texts
       /\ \E q \in rows : /\ Key(q[1], q[2], q[3]) = Key(r[1], r[2], r[3])
                          /\ texts[Key(r[1], r[2], r[3])] = q[4]

Texts ==
    /\ pc \in {"captures", "saved"} => \A r \in rows \ todo : HasText(r)
    /\ pc = "saved" => todo = {}

(* Nothing has happened since the collection began that may have made       *)
(* another session than before the one to be kept of those that show what s *)
(* shows.                                                                   *)
Steady(s, o) ==
    /\ s \in Showing(o) /\ <<s, o>> \notin joined /\ Whole(o)
    /\ \/ \A j \in joined : j[2] # o
       \/ shows[o] = o /\ <<o, o>> \notin joined

Chosen ==
    /\ Listed => \A s, o \in Sessions : Steady(s, o) => (s \in kept <=> Kept(s))
    /\ pc \in {"panes", "captures", "saved"} =>
          \A s, o \in Sessions, i \in Indexes : (Steady(s, o) /\ Calm(o, i)) =>
              (<<s, i>> \in wins <=> s \in kept)

NotYet ==
    /\ pc \in {"server", "sessions"} => wins = {}
    /\ pc \in {"server", "sessions", "windows"} => rows = {}

CollectInv ==
    /\ COTypeOK /\ NotYet /\ Orderly(shows, grouped, windows, lastPane)
    /\ acts \in Nat
    /\ Looks /\ OneOfEach /\ Texts /\ Chosen

-----------------------------------------------------------------------------
(* The server stays orderly *)

Shift(j, k) == IF j < k THEN j ELSE j + 1

LEMMA Removed ==
  ASSUME NEW S, NEW s \in Seq(S), NEW k \in DOMAIN s
  PROVE  /\ RemoveAt(s, k) \in Seq(S)
         /\ \A j \in DOMAIN RemoveAt(s, k) :
               j \in Nat /\ Shift(j, k) \in DOMAIN s /\ RemoveAt(s, k)[j] = s[Shift(j, k)]
         /\ Len(s) # 1 => RemoveAt(s, k) # <<>>
<1>1. PICK n \in Nat : n = Len(s) /\ DOMAIN s = 1..n /\ k \in 1..n
  BY LenProperties
<1> DEFINE a == SubSeq(s, 1, k - 1)
           b == SubSeq(s, k + 1, n)
<1>2. /\ a \in Seq(S) /\ Len(a) = k - 1
      /\ \A j \in 1..(k - 1) : a[j] = s[j]
  <2>1. \A j \in 1..(k - 1) : s[j] \in S
    BY <1>1, ElementOfSeq
  <2>2. k - 1 \in 0..Len(s)
    BY <1>1
  <2>3. 1 \in 1..(Len(s) + 1) /\ k - 1 \in 0..Len(s)
    BY <1>1
  <2> QED BY <1>1, <2>1, <2>3, SubSeqProperties
<1>3. /\ b \in Seq(S) /\ Len(b) = n - k
      /\ \A j \in 1..(n - k) : b[j] = s[k + j]
  <2>1. \A j \in (k + 1)..n : s[j] \in S
    BY <1>1, ElementOfSeq
  <2>2. k + 1 \in 1..(Len(s) + 1) /\ n \in 0..Len(s)
    BY <1>1
  <2> QED BY <1>1, <2>1, <2>2, SubSeqProperties
<1> HIDE DEF a, b
<1>4. PICK x \in Nat, y \in Nat : k = x + 1 /\ n = x + 1 + y
  <2>1. k - 1 \in Nat /\ n - k \in Nat /\ k = (k - 1) + 1 /\ n = (k - 1) + 1 + (n - k)
    BY <1>1
  <2> QED BY <2>1
<1>9. /\ a \in Seq(S) /\ Len(a) = x /\ \A j \in 1..x : a[j] = s[j]
      /\ b \in Seq(S) /\ Len(b) = y /\ \A j \in 1..y : b[j] = s[x + 1 + j]
  <2>1. k - 1 = x /\ n - k = y
    BY <1>4
  <2> QED BY <1>2, <1>3, <1>4, <2>1
<1>5. /\ a \o b \in Seq(S) /\ Len(a \o b) = x + y
      /\ \A j \in 1..(x + y) : (a \o b)[j] = IF j <= x THEN a[j] ELSE b[j - x]
  <2>1. a \in Seq(S) /\ b \in Seq(S) /\ Len(a) = x /\ Len(b) = y
    BY <1>9
  <2> HIDE DEF a, b
  <2> QED BY <2>1, ConcatProperties
<1>6. ASSUME NEW j \in 1..(x + y)
      PROVE  Shift(j, k) \in 1..n /\ (a \o b)[j] = s[Shift(j, k)]
  <2>1. CASE j <= x
    <3>1. j \in 1..x /\ j < x + 1 /\ j \in 1..(x + 1 + y)
      BY <2>1
    <3> QED BY <1>4, <1>5, <1>9, <2>1, <3>1 DEF Shift
  <2>2. CASE ~(j <= x)
    <3>1. j - x \in 1..y /\ x + 1 + (j - x) = j + 1
      BY <2>2
    <3>2. ~(j < x + 1) /\ j + 1 \in 1..(x + 1 + y)
      BY <2>2
    <3> QED BY <1>4, <1>5, <1>9, <2>2, <3>1, <3>2 DEF Shift
  <2> QED BY <2>1, <2>2
<1>7. RemoveAt(s, k) = a \o b
  BY <1>1 DEF RemoveAt, a, b
<1>8. DOMAIN (a \o b) = 1..(x + y)
  BY <1>5, LenProperties
<1>10. ASSUME Len(s) # 1 PROVE a \o b # <<>>
  <2>1. x + y # 0 /\ Len(<<>>) = 0
    BY <1>1, <1>4, <1>10
  <2> QED BY <1>5, <2>1
<1>11. \A j \in DOMAIN (a \o b) :
          j \in Nat /\ Shift(j, k) \in DOMAIN s /\ (a \o b)[j] = s[Shift(j, k)]
  <2> SUFFICES ASSUME NEW j \in 1..(x + y)
               PROVE  j \in Nat /\ Shift(j, k) \in DOMAIN s /\ (a \o b)[j] = s[Shift(j, k)]
    BY <1>8
  <2>1. j \in Nat
    OBVIOUS
  <2> QED BY <1>1, <1>6, <2>1
<1>12. a \o b \in Seq(S)
  BY <1>5
<1> QED BY <1>7, <1>10, <1>11, <1>12, Zenon

Server == Orderly(shows, grouped, windows, lastPane)

(* The panes a window holds are told from those of every other. *)
Distinct(ws) ==
    \A o, p \in Sessions, i, j \in Indexes :
        \A k \in DOMAIN ws[o][i], l \in DOMAIN ws[p][j] :
            ws[o][i][k] = ws[p][j][l] => o = p /\ i = j /\ k = l

Numbered(ws, last) ==
    \A o \in Sessions, i \in Indexes : \A k \in DOMAIN ws[o][i] : ws[o][i][k] <= last

HasPane(o, i, id) == \E l \in DOMAIN windows[o][i] : windows[o][i][l] = id

LEMMA InSeq ==
  ASSUME NEW S, NEW s \in Seq(S), NEW k \in DOMAIN s
  PROVE  s[k] \in S /\ k \in Nat
<1>1. PICK n \in Nat : n = Len(s) /\ DOMAIN s = 1..n
  BY LenProperties
<1> QED BY <1>1, ElementOfSeq

(* One window gets other panes: some of its own, or new ones. *)
LEMMA WindowChanged ==
  ASSUME Server, NEW o \in Sessions, NEW i \in Indexes,
         NEW s \in Seq(1..MaxPane), NEW last \in 0..MaxPane, lastPane <= last,
         windows' = [windows EXCEPT ![o][i] = s],
         \A k, l \in DOMAIN s : s[k] = s[l] => k = l,
         \A k \in DOMAIN s :
            /\ s[k] <= last
            /\ s[k] > lastPane \/ HasPane(o, i, s[k])
  PROVE  /\ windows' \in [Sessions -> [Indexes -> Seq(1..MaxPane)]]
         /\ Distinct(windows') /\ Numbered(windows', last)
<1>a. /\ windows \in [Sessions -> [Indexes -> Seq(1..MaxPane)]]
      /\ Distinct(windows) /\ Numbered(windows, lastPane)
      /\ lastPane \in Nat /\ MaxPane \in Nat
  <2>1. MaxPane \in Nat /\ lastPane \in 0..MaxPane
    BY CollectAssumption DEF Server, Orderly
  <2>2. windows \in [Sessions -> [Indexes -> Seq(1..MaxPane)]]
    BY DEF Server, Orderly
  <2>3. Distinct(windows)
    BY DEF Server, Orderly, Distinct
  <2>4. Numbered(windows, lastPane)
    BY DEF Server, Orderly, Numbered
  <2>5. lastPane \in Nat
    BY <2>1
  <2> QED BY <2>1, <2>2, <2>3, <2>4, <2>5
<1>1. windows' \in [Sessions -> [Indexes -> Seq(1..MaxPane)]]
  <2> DEFINE Rows == [Indexes -> Seq(1..MaxPane)]
  <2>0. windows \in [Sessions -> Rows]
    BY <1>a
  <2>1. [windows[o] EXCEPT ![i] = s] \in Rows
    BY <1>a
  <2>2. windows' = [windows EXCEPT ![o] = [windows[o] EXCEPT ![i] = s]]
    BY <1>a
  <2> HIDE DEF Rows
  <2>3. windows' \in [Sessions -> Rows]
    BY <2>0, <2>1, <2>2, SMTT(60)
  <2> QED BY <2>3 DEF Rows
<1>2. /\ windows'[o][i] = s
      /\ \A p \in Sessions, j \in Indexes :
            p # o \/ j # i => windows'[p][j] = windows[p][j]
  BY <1>a
<1>3. ASSUME NEW p \in Sessions, NEW j \in Indexes, p # o \/ j # i,
             NEW k \in DOMAIN s, NEW l \in DOMAIN windows[p][j]
      PROVE  s[k] # windows[p][j][l]
  <2>1. CASE s[k] > lastPane
    <3>1. windows[p][j][l] <= lastPane
      BY <1>a DEF Numbered
    <3>2. windows[p][j] \in Seq(1..MaxPane)
      BY <1>a
    <3>3. s[k] \in 1..MaxPane /\ windows[p][j][l] \in 1..MaxPane
      BY <3>2, InSeq
    <3> QED BY <1>a, <2>1, <3>1, <3>3
  <2>2. CASE HasPane(o, i, s[k])
    <3>1. PICK m \in DOMAIN windows[o][i] : windows[o][i][m] = s[k]
      BY <2>2 DEF HasPane
    <3>2. Distinct(windows)
      BY <1>a
    <3> QED BY <1>3, <3>1, <3>2 DEF Distinct
  <2> QED BY <2>1, <2>2
<1>4. Distinct(windows')
  <2> SUFFICES ASSUME NEW p \in Sessions, NEW q \in Sessions, NEW j \in Indexes, NEW m \in Indexes,
                      NEW k \in DOMAIN windows'[p][j], NEW l \in DOMAIN windows'[q][m],
                      windows'[p][j][k] = windows'[q][m][l]
               PROVE  p = q /\ j = m /\ k = l
    BY DEF Distinct
  <2>1. CASE p = o /\ j = i /\ q = o /\ m = i
    BY <1>2, <2>1
  <2>2. CASE (p # o \/ j # i) /\ (q # o \/ m # i)
    <3>1. windows'[p][j] = windows[p][j] /\ windows'[q][m] = windows[q][m]
      BY <1>2, <2>2
    <3>2. Distinct(windows)
      BY <1>a
    <3> QED BY <3>1, <3>2 DEF Distinct
  <2>3. CASE p = o /\ j = i /\ (q # o \/ m # i)
    BY <1>2, <1>3, <2>3
  <2>4. CASE (p # o \/ j # i) /\ q = o /\ m = i
    BY <1>2, <1>3, <2>4
  <2> QED BY <2>1, <2>2, <2>3, <2>4
<1>5. Numbered(windows', last)
  <2> SUFFICES ASSUME NEW p \in Sessions, NEW j \in Indexes, NEW k \in DOMAIN windows'[p][j]
               PROVE  windows'[p][j][k] <= last
    BY DEF Numbered
  <2>1. CASE p = o /\ j = i
    BY <1>2, <2>1
  <2>2. CASE p # o \/ j # i
    <3>1. windows'[p][j] = windows[p][j] /\ windows[p][j] \in Seq(1..MaxPane)
      BY <1>a, <1>2, <2>2
    <3>2. windows[p][j][k] \in 1..MaxPane /\ windows[p][j][k] <= lastPane
      BY <1>a, <3>1, InSeq DEF Numbered
    <3> QED BY <1>a, <3>1, <3>2
  <2> QED BY <2>1, <2>2
<1> QED BY <1>1, <1>4, <1>5

(* A session has a window as long as it lives.                              *)
Housed == \A s \in Sessions : shows[s] # None => \E i \in Indexes : windows[shows[s]][i] # Gap

LEMMA HousedStep ==
  ASSUME CollectInv, [CONext]_covars
  PROVE  Housed'
<1>a. /\ Housed /\ lastPane \in 0..MaxPane /\ MaxPane \in Nat
      /\ shows \in [Sessions -> Sessions \cup {None}] /\ None \notin Sessions
      /\ windows \in [Sessions -> [Indexes -> Seq(1..MaxPane)]]
  BY CollectAssumption DEF CollectInv, Orderly, Housed
<1>1. ASSUME UNCHANGED shows,
             \A o \in Sessions, i \in Indexes : windows[o][i] # Gap =>
                \E j \in Indexes : windows'[o][j] # Gap
      PROVE  Housed'
  BY <1>a, <1>1 DEF Housed
<1>2. CASE UNCHANGED server
  BY <1>a, <1>2 DEF Housed, server
<1>3. CASE UserOpens
  <2>1. PICK o \in Sessions, i \in Indexes :
            UNCHANGED shows /\ windows' = [windows EXCEPT ![o][i] = <<lastPane'>>]
    BY <1>3 DEF UserOpens, Rearranges
  <2>2. <<lastPane'>> # Gap
    BY DEF Gap
  <2>3. \A p \in Sessions, j \in Indexes :
            windows'[p][j] = windows[p][j] \/ windows'[p][j] # Gap
    <3> DEFINE t == <<lastPane'>>
    <3>1. windows' = [windows EXCEPT ![o][i] = t] /\ t # Gap
      BY <2>1, <2>2
    <3> HIDE DEF t
    <3> QED BY <1>a, <3>1
  <2> QED BY <1>1, <2>1, <2>3
<1>4. CASE UserSplits
  <2>1. PICK o \in Sessions, i \in Indexes :
            /\ UNCHANGED shows /\ windows' = [windows EXCEPT ![o][i] = Append(@, lastPane')]
            /\ lastPane < MaxPane /\ lastPane' = lastPane + 1
    BY <1>4 DEF UserSplits, Rearranges
  <2>2. Append(windows[o][i], lastPane') # Gap
    <3>1. PICK s \in Seq(1..MaxPane) : s = windows[o][i]
      BY <1>a
    <3>2. lastPane' \in 1..MaxPane
      BY <1>a, <2>1
    <3>3. Len(Append(s, lastPane')) = Len(s) + 1 /\ Len(s) \in Nat
      BY <3>2, AppendProperties, LenProperties
    <3>4. Len(<<>>) = 0
      OBVIOUS
    <3> QED BY <3>1, <3>3, <3>4 DEF Gap
  <2>3. \A p \in Sessions, j \in Indexes :
            windows'[p][j] = windows[p][j] \/ windows'[p][j] # Gap
    <3> DEFINE t == Append(windows[o][i], lastPane')
    <3>1. windows' = [windows EXCEPT ![o][i] = t] /\ t # Gap
      BY <2>1, <2>2
    <3> HIDE DEF t
    <3> QED BY <1>a, <3>1
  <2> QED BY <1>1, <2>1, <2>3
<1>5. CASE UserKillsPane
  <2>1. PICK o \in Sessions, i \in Indexes :
            /\ Len(windows[o][i]) = 1 => \E j \in Indexes \ {i} : windows[o][j] # Gap
            /\ UNCHANGED shows
            /\ \E k \in DOMAIN windows[o][i] : windows' = [windows EXCEPT ![o][i] = RemoveAt(@, k)]
    BY <1>5 DEF UserKillsPane, Rearranges
  <2>2. PICK k \in DOMAIN windows[o][i] :
            windows' = [windows EXCEPT ![o][i] = RemoveAt(windows[o][i], k)]
    BY <2>1
  <2>3. Len(windows[o][i]) # 1 => RemoveAt(windows[o][i], k) # Gap
    <3>1. PICK s \in Seq(1..MaxPane) : s = windows[o][i]
      BY <1>a
    <3> QED BY <3>1, Removed DEF Gap
  <2> DEFINE t == RemoveAt(windows[o][i], k)
  <2>4. windows' = [windows EXCEPT ![o][i] = t]
    BY <2>2
  <2>5. t # Gap \/ \E j \in Indexes \ {i} : windows[o][j] # Gap
    BY <2>1, <2>3
  <2> HIDE DEF t
  <2> QED BY <1>1, <1>a, <2>1, <2>4, <2>5
<1>6. CASE UserSwaps
  <2>1. PICK o \in Sessions, i \in Indexes, j \in Indexes :
            /\ UNCHANGED shows
            /\ windows' = [windows EXCEPT ![o][i] = windows[o][j], ![o][j] = windows[o][i]]
    BY <1>6 DEF UserSwaps, Rearranges
  <2>2. windows'[o][i] \in {windows[o][i], windows[o][j]} /\ windows'[o][j] = windows[o][i]
        /\ (i # j => windows'[o][i] = windows[o][j])
        /\ \A p \in Sessions, k \in Indexes :
              (p # o \/ k \notin {i, j}) => windows'[p][k] = windows[p][k]
    BY <1>a, <2>1
  <2> QED BY <1>1, <2>1, <2>2
<1>7. CASE UserClones
  <2>1. PICK s \in Sessions, o \in Sessions :
            Showing(o) # {} /\ shows' = [shows EXCEPT ![s] = o] /\ UNCHANGED windows
    BY <1>7 DEF UserClones
  <2>2. \E i \in Indexes : windows[o][i] # Gap
    BY <1>a, <2>1 DEF Housed, Showing, Live
  <2> QED BY <1>a, <2>1, <2>2 DEF Housed
<1>8. CASE UserCloses
  <2>1. PICK s \in Live :
            /\ shows' = [shows EXCEPT ![s] = None]
            /\ IF Showing(shows[s]) = {s}
               THEN windows' = [windows EXCEPT ![shows[s]] = [i \in Indexes |-> Gap]]
               ELSE UNCHANGED windows
    BY <1>8 DEF UserCloses
  <2>2. s \in Sessions /\ shows[s] \in Sessions
    BY <1>a DEF Live
  <2>3. ASSUME NEW t \in Sessions, shows'[t] # None
        PROVE  shows'[t] = shows[t] /\ windows'[shows[t]] = windows[shows[t]] /\ shows[t] # None
    <3>1. t # s /\ shows'[t] = shows[t] /\ shows[t] # None
      BY <1>a, <2>1, <2>2, <2>3
    <3>2. CASE Showing(shows[s]) = {s}
      <4>1. shows[t] # shows[s]
        BY <3>1, <3>2 DEF Showing, Live
      <4>2. windows' = [windows EXCEPT ![shows[s]] = [i \in Indexes |-> Gap]]
        BY <2>1, <3>2
      <4> QED BY <1>a, <2>2, <3>1, <4>1, <4>2
    <3>3. CASE Showing(shows[s]) # {s}
      BY <2>1, <3>1, <3>3
    <3> QED BY <3>2, <3>3
  <2> SUFFICES ASSUME NEW t \in Sessions, shows'[t] # None
               PROVE  \E i \in Indexes : windows'[shows'[t]][i] # Gap
    BY DEF Housed
  <2>4. PICK o : o = shows[t] /\ shows'[t] = o /\ windows'[o] = windows[o]
    BY <2>3
  <2>5. PICK i \in Indexes : windows[o][i] # Gap
    BY <1>a, <2>3, <2>4 DEF Housed
  <2> QED BY <2>4, <2>5
<1> QED BY <1>2, <1>3, <1>4, <1>5, <1>6, <1>7, <1>8
        DEF CONext, User, Collect, ServerInfo, ListSessions, ListWindows, ListPanes, Capture,
            CaptureMissed, Saved, ConnectionFails, Step, covars

LEMMA ServerStep ==
  ASSUME CollectInv, [CONext]_covars
  PROVE  Server'
<1>h. \A s \in Sessions : shows'[s] # None => \E i \in Indexes : windows'[shows'[s]][i] # Gap
  BY HousedStep DEF Housed
<1>a. /\ Server /\ MaxPane \in Nat /\ lastPane \in 0..MaxPane
      /\ windows \in [Sessions -> [Indexes -> Seq(1..MaxPane)]]
      /\ shows \in [Sessions -> Sessions \cup {None}] /\ grouped \subseteq Sessions
      /\ Distinct(windows) /\ Numbered(windows, lastPane)
      /\ \A s, t \in Sessions : s # t /\ shows[s] = shows[t] => shows[s] \in grouped \cup {None}
      /\ None \notin Sessions
  BY CollectAssumption DEF CollectInv, Server, Orderly, Distinct, Numbered
<1>b. ASSUME UNCHANGED <<shows, grouped>>,
             windows' \in [Sessions -> [Indexes -> Seq(1..MaxPane)]],
             Distinct(windows'), lastPane' \in 0..MaxPane, Numbered(windows', lastPane')
      PROVE  Server'
  BY <1>a, <1>b, <1>h DEF Server, Orderly, Distinct, Numbered
<1>1. CASE UNCHANGED server
  BY <1>a, <1>1 DEF Server, Orderly, server
<1>2. CASE UserOpens
  <2>1. PICK o \in Sessions, i \in Indexes :
            /\ lastPane < MaxPane /\ lastPane' = lastPane + 1 /\ UNCHANGED <<shows, grouped>>
            /\ windows' = [windows EXCEPT ![o][i] = <<lastPane'>>]
    BY <1>2 DEF UserOpens, Rearranges
  <2>2. lastPane' \in 0..MaxPane /\ lastPane' \in 1..MaxPane /\ lastPane <= lastPane'
        /\ lastPane' > lastPane
    BY <1>a, <2>1
  <2>3. <<lastPane'>> \in Seq(1..MaxPane) /\ \A k \in DOMAIN <<lastPane'>> : k = 1
    BY <2>2
  <2> DEFINE t == <<lastPane'>>
  <2>4. /\ t \in Seq(1..MaxPane) /\ windows' = [windows EXCEPT ![o][i] = t]
        /\ \A k, l \in DOMAIN t : t[k] = t[l] => k = l
        /\ \A k \in DOMAIN t : t[k] <= lastPane' /\ t[k] > lastPane
    BY <2>1, <2>2, <2>3
  <2> HIDE DEF t
  <2>5. /\ windows' \in [Sessions -> [Indexes -> Seq(1..MaxPane)]]
        /\ Distinct(windows') /\ Numbered(windows', lastPane')
    BY <1>a, <2>2, <2>4, WindowChanged
  <2> QED BY <1>b, <2>1, <2>2, <2>5
<1>3. CASE UserSplits
  <2>1. PICK o \in Sessions, i \in Indexes :
            /\ lastPane < MaxPane /\ lastPane' = lastPane + 1 /\ UNCHANGED <<shows, grouped>>
            /\ windows' = [windows EXCEPT ![o][i] = Append(@, lastPane')]
    BY <1>3 DEF UserSplits, Rearranges
  <2>2. lastPane' \in 0..MaxPane /\ lastPane' \in 1..MaxPane /\ lastPane <= lastPane'
        /\ lastPane' > lastPane
    BY <1>a, <2>1
  <2>3. PICK s \in Seq(1..MaxPane), n \in Nat :
            s = windows[o][i] /\ n = Len(s) /\ DOMAIN s = 1..n
    BY <1>a, LenProperties
  <2>4. /\ Append(s, lastPane') \in Seq(1..MaxPane) /\ DOMAIN Append(s, lastPane') = 1..(n + 1)
        /\ \A k \in 1..n : Append(s, lastPane')[k] = s[k]
        /\ Append(s, lastPane')[n + 1] = lastPane'
    <3>1. Append(s, lastPane') \in Seq(1..MaxPane) /\ Len(Append(s, lastPane')) = n + 1
      BY <2>2, <2>3, AppendProperties
    <3>2. DOMAIN Append(s, lastPane') = 1..(n + 1)
      BY <3>1, LenProperties
    <3> QED BY <2>2, <2>3, <3>1, <3>2, AppendProperties
  <2>5. \A k \in 1..n : s[k] <= lastPane /\ s[k] \in Nat
    <3>1. \A k \in 1..n : s[k] \in 1..MaxPane
      BY <2>3, ElementOfSeq
    <3> QED BY <1>a, <2>3, <3>1 DEF Numbered
  <2>6. \A k \in 1..(n + 1) : k \in 1..n \/ k = n + 1
    OBVIOUS
  <2>7. ASSUME NEW k \in 1..n PROVE s[k] <= lastPane' /\ s[k] # lastPane'
    BY <1>a, <2>1, <2>5
  <2>8. \A k, l \in 1..n : s[k] = s[l] => k = l
    BY <1>a, <2>3 DEF Distinct
  <2> DEFINE t == Append(s, lastPane')
  <2>9. /\ \A k, l \in DOMAIN t : t[k] = t[l] => k = l
        /\ \A k \in DOMAIN t : /\ t[k] <= lastPane'
                               /\ t[k] > lastPane \/ HasPane(o, i, t[k])
    BY <2>2, <2>3, <2>4, <2>6, <2>7, <2>8 DEF HasPane
  <2>10. windows' = [windows EXCEPT ![o][i] = t]
    BY <1>a, <2>1, <2>3
  <2> HIDE DEF t
  <2>11. t \in Seq(1..MaxPane)
    BY <2>4 DEF t
  <2>12. /\ windows' \in [Sessions -> [Indexes -> Seq(1..MaxPane)]]
         /\ Distinct(windows') /\ Numbered(windows', lastPane')
    BY <1>a, <2>2, <2>3, <2>9, <2>10, <2>11, WindowChanged
  <2> QED BY <1>b, <2>1, <2>2, <2>12
<1>4. CASE UserKillsPane
  <2>1. PICK o \in Sessions, i \in Indexes : \E k \in DOMAIN windows[o][i] :
            /\ UNCHANGED <<shows, grouped, lastPane>>
            /\ windows' = [windows EXCEPT ![o][i] = RemoveAt(@, k)]
    BY <1>4 DEF UserKillsPane, Rearranges
  <2>2. PICK k \in DOMAIN windows[o][i] :
            windows' = [windows EXCEPT ![o][i] = RemoveAt(@, k)]
    BY <2>1
  <2>3. PICK s \in Seq(1..MaxPane) : s = windows[o][i]
    BY <1>a
  <2> DEFINE t == RemoveAt(s, k)
  <2>4. /\ t \in Seq(1..MaxPane) /\ k \in Nat
        /\ \A j \in DOMAIN t : j \in Nat /\ Shift(j, k) \in DOMAIN s /\ t[j] = s[Shift(j, k)]
    <3>1. k \in DOMAIN s /\ k \in Nat
      BY <2>3, LenProperties
    <3> QED BY <3>1, Removed
  <2>5. windows' = [windows EXCEPT ![o][i] = t]
    BY <1>a, <2>2, <2>3
  <2> HIDE DEF t
  <2>6. ASSUME NEW j \in DOMAIN t, NEW l \in DOMAIN t, t[j] = t[l] PROVE j = l
    <3>1. Shift(j, k) = Shift(l, k)
      BY <1>a, <2>3, <2>4, <2>6 DEF Distinct
    <3> QED BY <2>4, <3>1 DEF Shift
  <2>7. \A j \in DOMAIN t : t[j] <= lastPane /\ HasPane(o, i, t[j])
    BY <1>a, <2>3, <2>4 DEF Numbered, HasPane
  <2>8. lastPane <= lastPane /\ lastPane' = lastPane
    BY <1>a, <2>1
  <2>9. /\ windows' \in [Sessions -> [Indexes -> Seq(1..MaxPane)]]
        /\ Distinct(windows') /\ Numbered(windows', lastPane)
    BY <1>a, <2>3, <2>4, <2>5, <2>6, <2>7, <2>8, WindowChanged
  <2> QED BY <1>a, <1>b, <2>1, <2>8, <2>9
<1>5. CASE UserSwaps
  <2>1. PICK o \in Sessions, i \in Indexes, j \in Indexes :
            /\ i < j /\ UNCHANGED lastPane
            /\ Rearranges({<<o, i>>, <<o, j>>},
                          [windows EXCEPT ![o][i] = windows[o][j], ![o][j] = windows[o][i]])
    BY <1>5 DEF UserSwaps
  <2>a. i # j
    BY <2>1 DEF Indexes
  <2>b. /\ UNCHANGED <<shows, grouped>>
        /\ windows' = [windows EXCEPT ![o][i] = windows[o][j], ![o][j] = windows[o][i]]
    BY <2>1 DEF Rearranges
  <2> DEFINE Came(p, k) == IF p = o /\ k = i THEN j ELSE IF p = o /\ k = j THEN i ELSE k
  <2>2. /\ windows' \in [Sessions -> [Indexes -> Seq(1..MaxPane)]]
        /\ \A p \in Sessions, k \in Indexes :
              Came(p, k) \in Indexes /\ windows'[p][k] = windows[p][Came(p, k)]
    BY <1>a, <2>a, <2>b
  <2>c. \A p \in Sessions, k, l \in Indexes : Came(p, k) = Came(p, l) => k = l
    BY <2>a
  <2> HIDE DEF Came
  <2>3. Distinct(windows')
    <3> SUFFICES ASSUME NEW p \in Sessions, NEW q \in Sessions, NEW x \in Indexes, NEW y \in Indexes,
                        NEW k \in DOMAIN windows'[p][x], NEW l \in DOMAIN windows'[q][y],
                        windows'[p][x][k] = windows'[q][y][l]
                 PROVE  p = q /\ x = y /\ k = l
      BY DEF Distinct
    <3>1. windows'[p][x] = windows[p][Came(p, x)] /\ windows'[q][y] = windows[q][Came(q, y)]
          /\ Came(p, x) \in Indexes /\ Came(q, y) \in Indexes
      BY <2>2
    <3>a. /\ k \in DOMAIN windows[p][Came(p, x)] /\ l \in DOMAIN windows[q][Came(q, y)]
          /\ windows[p][Came(p, x)][k] = windows[q][Came(q, y)][l]
      BY <3>1
    <3>b. Distinct(windows)
      BY <1>a
    <3>2. p = q /\ Came(p, x) = Came(q, y) /\ k = l
      BY <3>1, <3>a, <3>b DEF Distinct
    <3> QED BY <2>c, <3>2
  <2>4. Numbered(windows', lastPane')
    BY <1>a, <2>1, <2>2 DEF Numbered
  <2> QED BY <1>a, <1>b, <2>1, <2>b, <2>2, <2>3, <2>4
<1>6. CASE UserClones
  <2>1. PICK s \in Sessions, o \in Sessions :
            /\ shows' = [shows EXCEPT ![s] = o] /\ grouped' = grouped \cup {o}
            /\ UNCHANGED <<windows, lastPane>>
    BY <1>6 DEF UserClones
  <2>2. /\ shows' \in [Sessions -> Sessions \cup {None}] /\ grouped' \subseteq Sessions
        /\ \A t, u \in Sessions : t # u /\ shows'[t] = shows'[u] =>
              shows'[t] \in grouped' \cup {None}
    BY <1>a, <2>1
  <2> QED BY <1>a, <1>h, <2>1, <2>2 DEF Server, Orderly
<1>7. CASE UserCloses
  <2>1. PICK s \in Live :
            /\ shows' = [shows EXCEPT ![s] = None] /\ UNCHANGED lastPane
            /\ IF Showing(shows[s]) = {s}
               THEN /\ windows' = [windows EXCEPT ![shows[s]] = [i \in Indexes |-> Gap]]
                    /\ grouped' = grouped \ {shows[s]}
               ELSE UNCHANGED <<windows, grouped>>
    BY <1>7 DEF UserCloses
  <2>2. s \in Sessions /\ shows[s] \in Sessions
    BY <1>a DEF Live
  <2>3. /\ shows' \in [Sessions -> Sessions \cup {None}] /\ grouped' \subseteq Sessions
        /\ \A t, u \in Sessions : t # u /\ shows'[t] = shows'[u] =>
              shows'[t] \in grouped' \cup {None}
    BY <1>a, <2>1, <2>2 DEF Showing, Live
  <2>4. /\ windows' \in [Sessions -> [Indexes -> Seq(1..MaxPane)]]
        /\ \A o \in Sessions, i \in Indexes :
              windows'[o][i] = windows[o][i] \/ windows'[o][i] = <<>>
    <3>1. CASE UNCHANGED windows
      BY <1>a, <3>1
    <3>2. CASE windows' = [windows EXCEPT ![shows[s]] = [i \in Indexes |-> Gap]]
      <4>1. [i \in Indexes |-> Gap] \in [Indexes -> Seq(1..MaxPane)]
        BY DEF Gap
      <4>2. windows' \in [Sessions -> [Indexes -> Seq(1..MaxPane)]]
        BY <1>a, <2>2, <3>2, <4>1
      <4> QED BY <1>a, <2>2, <3>2, <4>2 DEF Gap
    <3> QED BY <2>1, <3>1, <3>2
  <2>5. DOMAIN <<>> = {}
    OBVIOUS
  <2>6. Distinct(windows') /\ Numbered(windows', lastPane')
    <3>1. ASSUME NEW o \in Sessions, NEW i \in Indexes, NEW k \in DOMAIN windows'[o][i]
          PROVE  windows'[o][i] = windows[o][i]
      BY <2>4, <2>5
    <3>2. Distinct(windows')
      <4> SUFFICES ASSUME NEW o \in Sessions, NEW p \in Sessions,
                          NEW i \in Indexes, NEW j \in Indexes,
                          NEW k \in DOMAIN windows'[o][i], NEW l \in DOMAIN windows'[p][j],
                          windows'[o][i][k] = windows'[p][j][l]
                   PROVE  o = p /\ i = j /\ k = l
        BY DEF Distinct
      <4>1. windows'[o][i] = windows[o][i] /\ windows'[p][j] = windows[p][j]
        BY <3>1
      <4>2. Distinct(windows)
        BY <1>a
      <4> QED BY <4>1, <4>2 DEF Distinct
    <3>3. Numbered(windows', lastPane')
      BY <1>a, <2>1, <3>1 DEF Numbered
    <3> QED BY <3>2, <3>3
  <2> QED BY <1>a, <1>h, <2>1, <2>3, <2>4, <2>6 DEF Server, Orderly, Distinct, Numbered
<1> QED BY <1>1, <1>2, <1>3, <1>4, <1>5, <1>6, <1>7
        DEF CONext, User, Collect, ServerInfo, ListSessions, ListWindows, ListPanes, Capture,
            CaptureMissed, Saved, ConnectionFails, Step, covars


-----------------------------------------------------------------------------
(* What the collector has *)

(* The user changes nothing the collector holds. *)
LEMMA UserStep ==
  ASSUME acts \in Nat, User
  PROVE  /\ UNCHANGED <<pc, kept, wins, rows, todo, texts, warned>>
         /\ acts' = acts + 1 /\ pc \notin {"saved", "failed"}
<1>1. ASSUME NEW changed, NEW now, Rearranges(changed, now) PROVE UserActs
  BY <1>1 DEF Rearranges
<1>2. UserActs
  BY <1>1 DEF User, UserOpens, UserSplits, UserKillsPane, UserSwaps, UserClones, UserCloses
<1> QED BY <1>2 DEF UserActs

(* Each look is of what the look before it found. *)
LEMMA TypesStep ==
  ASSUME CollectInv, [CONext]_covars
  PROVE  COTypeOK' /\ NotYet' /\ acts' \in Nat
<1>a. COTypeOK /\ NotYet /\ acts \in Nat
  BY DEF CollectInv
<1>b. /\ shows' \in [Sessions -> Sessions \cup {None}] /\ grouped' \subseteq Sessions
      /\ windows' \in [Sessions -> [Indexes -> Seq(1..MaxPane)]]
  BY ServerStep DEF Server, Orderly
<1> DEFINE Rest == /\ pc \in {"server", "sessions", "windows", "panes", "captures", "saved", "failed"}
                   /\ kept \subseteq Sessions
                   /\ wins \subseteq kept \X Indexes
                   /\ \A r \in rows : <<r[1], r[2]>> \in wins
                   /\ todo \subseteq rows
<1>c. Rest
  BY <1>a DEF COTypeOK
<1>1. CASE User \/ UNCHANGED covars
  <2>1. UNCHANGED <<pc, kept, wins, rows, todo>> /\ acts' \in Nat
    BY <1>1, <1>a, UserStep DEF covars
  <2> QED BY <1>a, <1>b, <1>c, <2>1 DEF COTypeOK, NotYet
<1>2. CASE Collect \/ ConnectionFails
  <2>1. acts' = acts
    BY <1>2 DEF Collect, ServerInfo, ListSessions, ListWindows, ListPanes, Capture, CaptureMissed,
                Saved, ConnectionFails, Step
  <2>2. Rest' /\ NotYet'
    <3>1. CASE ServerInfo \/ Saved \/ ConnectionFails
      BY <1>a, <1>c, <3>1 DEF ServerInfo, Saved, ConnectionFails, Step, NotYet
    <3>2. CASE ListSessions
      BY <1>a, <1>c, <3>2 DEF ListSessions, Step, NotYet, Live
    <3>3. CASE ListWindows
      BY <1>a, <1>c, <3>3 DEF ListWindows, Step, NotYet, Live
    <3>4. CASE ListPanes
      <4>1. \A r \in rows' : <<r[1], r[2]>> \in wins
        <5>1. ASSUME NEW r \in rows' PROVE <<r[1], r[2]>> \in wins
          <6>1. PICK w \in wins : \E k \in DOMAIN windows[shows[w[1]]][w[2]] :
                    r = <<w[1], w[2], k, windows[shows[w[1]]][w[2]][k]>>
            BY <3>4, <5>1 DEF ListPanes
          <6>2. w = <<w[1], w[2]>>
            BY <1>c
          <6>3. r[1] = w[1] /\ r[2] = w[2]
            BY <6>1
          <6> QED BY <6>2, <6>3
        <5> QED BY <5>1
      <4> QED BY <1>a, <1>c, <3>4, <4>1 DEF ListPanes, Step, NotYet
    <3>5. CASE Capture \/ CaptureMissed
      BY <1>a, <1>c, <3>5 DEF Capture, CaptureMissed, Step, NotYet
    <3> QED BY <1>2, <3>1, <3>2, <3>3, <3>4, <3>5 DEF Collect
  <2> QED BY <1>a, <1>b, <2>1, <2>2 DEF COTypeOK
<1> QED BY <1>1, <1>2 DEF CONext

(* A text is had of every pane that was tried.                              *)
LEMMA TextsStep ==
  ASSUME CollectInv, [CONext]_covars
  PROVE  Texts'
<1>a. Texts /\ todo \subseteq rows /\ acts \in Nat
  BY DEF CollectInv, COTypeOK
<1>1. CASE UNCHANGED <<pc, rows, todo, texts, warned>>
  BY <1>a, <1>1 DEF Texts, HasText, Key
<1>2. CASE ServerInfo \/ ListSessions \/ ListWindows \/ ConnectionFails
  BY <1>2 DEF ServerInfo, ListSessions, ListWindows, ConnectionFails, Step, Texts
<1>3. CASE ListPanes
  BY <1>3 DEF ListPanes, Step, Texts
<1>4. CASE Capture
  <2>1. PICK r \in todo :
            /\ todo' = todo \ {r} /\ texts' = WithText(Key(r[1], r[2], r[3]), r[4])
            /\ pc = "captures" /\ pc' = "captures" /\ UNCHANGED <<rows, warned>>
    BY <1>4 DEF Capture, Step
  <2>2. r \in rows
    BY <1>a
  <2>3. /\ DOMAIN texts' = DOMAIN texts \cup {Key(r[1], r[2], r[3])}
        /\ texts'[Key(r[1], r[2], r[3])] = r[4]
        /\ \A k \in DOMAIN texts : k # Key(r[1], r[2], r[3]) => texts'[k] = texts[k]
    BY <2>1 DEF WithText
  <2>4. ASSUME NEW q \in rows, q = r \/ HasText(q) PROVE HasText(q)'
    <3>1. CASE Key(q[1], q[2], q[3]) = Key(r[1], r[2], r[3])
      BY <2>1, <2>2, <2>3, <3>1 DEF HasText, Key
    <3>2. CASE Key(q[1], q[2], q[3]) # Key(r[1], r[2], r[3])
      <4>1. q # r
        BY <3>2
      <4> QED BY <2>1, <2>3, <2>4, <3>2, <4>1 DEF HasText, Key
    <3> QED BY <3>1, <3>2
  <2> QED BY <1>a, <2>1, <2>4 DEF Texts
<1>5. CASE CaptureMissed
  <2>1. PICK r \in todo :
            /\ todo' = todo \ {r} /\ warned' = warned \cup {r[4]}
            /\ pc = "captures" /\ pc' = "captures" /\ UNCHANGED <<rows, texts>>
    BY <1>5 DEF CaptureMissed, Step
  <2>2. ASSUME NEW q \in rows, q = r \/ HasText(q) PROVE HasText(q)'
    BY <2>1, <2>2 DEF HasText, Key
  <2> QED BY <1>a, <2>1, <2>2 DEF Texts
<1>6. CASE Saved
  BY <1>6, <1>a DEF Saved, Step, Texts, HasText, Key
<1> QED BY <1>1, <1>2, <1>3, <1>4, <1>5, <1>6, <1>a, UserStep
        DEF CONext, Collect, covars

-----------------------------------------------------------------------------
(* What the user may do between two looks *)

LEMMA Goes ==
  ASSUME CollectInv, [CONext]_covars
  PROVE  /\ closed \subseteq closed'
         /\ \A s \in Live : Spared(s)' => s \in Live' /\ shows'[s] = shows[s]
         /\ \A o \in Sessions : Whole(o)' =>
               /\ Whole(o) /\ Showing(o) \subseteq Showing(o)'
               /\ Showing(o)' # {} => Showing(o) # {}
         /\ \A o \in Sessions, i \in Indexes : Calm(o, i)' =>
               Calm(o, i) /\ windows'[o][i] = windows[o][i]
<1>a. /\ shows \in [Sessions -> Sessions \cup {None}] /\ None \notin Sessions
      /\ windows \in [Sessions -> [Indexes -> Seq(1..MaxPane)]]
  BY CollectAssumption DEF CollectInv, COTypeOK
<1>1. CASE UNCHANGED <<shows, windows, closed, touched>>
  <2>1. /\ Live' = Live /\ \A s : Spared(s)' = Spared(s)
        /\ \A o : Whole(o)' = Whole(o) /\ Showing(o)' = Showing(o)
        /\ \A o, i : Calm(o, i)' = Calm(o, i)
    BY <1>1 DEF Live, Spared, Whole, Showing, Calm, IsWindow
  <2> QED BY <1>1, <2>1 DEF Live
<1>2. ASSUME NEW changed, NEW now, Rearranges(changed, now),
             \A o \in Sessions, i \in Indexes :
                <<o, i>> \notin changed => now[o][i] = windows[o][i]
      PROVE  /\ UNCHANGED <<shows, closed>>
             /\ \A o \in Sessions, i \in Indexes : <<o, i>> \notin touched' =>
                   <<o, i>> \notin touched /\ windows'[o][i] = windows[o][i]
  BY <1>2 DEF Rearranges
<1>3. CASE UserOpens \/ UserSplits \/ UserKillsPane \/ UserSwaps
  <2>1. /\ UNCHANGED <<shows, closed>>
        /\ \A o \in Sessions, i \in Indexes : <<o, i>> \notin touched' =>
              <<o, i>> \notin touched /\ windows'[o][i] = windows[o][i]
    <3>1. CASE UserOpens
      <4>1. PICK p \in Sessions, j \in Indexes :
                Rearranges({<<p, j>>}, [windows EXCEPT ![p][j] = <<lastPane'>>])
        BY <3>1 DEF UserOpens
      <4> DEFINE now == [windows EXCEPT ![p][j] = <<lastPane'>>]
      <4>2. \A o \in Sessions, i \in Indexes : <<o, i>> \notin {<<p, j>>} => now[o][i] = windows[o][i]
        BY <1>a
      <4>3. Rearranges({<<p, j>>}, now)
        BY <4>1
      <4> HIDE DEF now
      <4> QED BY <1>2, <4>2, <4>3
    <3>2. CASE UserSplits
      <4>1. PICK p \in Sessions, j \in Indexes :
                Rearranges({<<p, j>>}, [windows EXCEPT ![p][j] = Append(@, lastPane')])
        BY <3>2 DEF UserSplits
      <4> DEFINE now == [windows EXCEPT ![p][j] = Append(@, lastPane')]
      <4>2. \A o \in Sessions, i \in Indexes : <<o, i>> \notin {<<p, j>>} => now[o][i] = windows[o][i]
        BY <1>a
      <4>3. Rearranges({<<p, j>>}, now)
        BY <4>1
      <4> HIDE DEF now
      <4> QED BY <1>2, <4>2, <4>3
    <3>3. CASE UserKillsPane
      <4>1. PICK p \in Sessions, j \in Indexes : \E k \in DOMAIN windows[p][j] :
                Rearranges({<<p, j>>}, [windows EXCEPT ![p][j] = RemoveAt(@, k)])
        BY <3>3 DEF UserKillsPane
      <4>2. PICK k : Rearranges({<<p, j>>}, [windows EXCEPT ![p][j] = RemoveAt(@, k)])
        BY <4>1
      <4> DEFINE now == [windows EXCEPT ![p][j] = RemoveAt(@, k)]
      <4>3. \A o \in Sessions, i \in Indexes : <<o, i>> \notin {<<p, j>>} => now[o][i] = windows[o][i]
        BY <1>a
      <4>4. Rearranges({<<p, j>>}, now)
        BY <4>2
      <4> HIDE DEF now
      <4> QED BY <1>2, <4>3, <4>4
    <3>4. CASE UserSwaps
      <4>1. PICK p \in Sessions, j \in Indexes, l \in Indexes :
                Rearranges({<<p, j>>, <<p, l>>},
                           [windows EXCEPT ![p][j] = windows[p][l], ![p][l] = windows[p][j]])
        BY <3>4 DEF UserSwaps
      <4> DEFINE now == [windows EXCEPT ![p][j] = windows[p][l], ![p][l] = windows[p][j]]
      <4>2. \A o \in Sessions, i \in Indexes : <<o, i>> \notin {<<p, j>>, <<p, l>>} => now[o][i] = windows[o][i]
        BY <1>a
      <4>3. Rearranges({<<p, j>>, <<p, l>>}, now)
        BY <4>1
      <4> HIDE DEF now
      <4> QED BY <1>2, <4>2, <4>3
    <3> QED BY <1>3, <3>1, <3>2, <3>3, <3>4
  <2>2. /\ Live' = Live /\ \A s : Spared(s)' = Spared(s)
        /\ \A o : Whole(o)' = Whole(o) /\ Showing(o)' = Showing(o)
    BY <2>1 DEF Live, Spared, Whole, Showing
  <2> QED BY <2>1, <2>2 DEF Calm, IsWindow, Live
<1>4. CASE UserClones
  <2>1. PICK s \in Sessions \ Live, o \in Sessions :
            /\ Showing(o) # {} /\ shows' = [shows EXCEPT ![s] = o]
            /\ UNCHANGED <<windows, touched, closed>>
    BY <1>4 DEF UserClones
  <2>2. /\ Live \subseteq Live' /\ \A t \in Live : shows'[t] = shows[t]
        /\ \A p \in Sessions : /\ Showing(p) \subseteq Showing(p)' /\ Whole(p)' = Whole(p)
                               /\ Showing(p)' # {} => Showing(p) # {}
    BY <1>a, <2>1 DEF Live, Showing, Whole
  <2> QED BY <2>1, <2>2 DEF Calm, IsWindow, Whole
<1>5. CASE UserCloses
  <2>1. PICK s \in Live :
            /\ shows' = [shows EXCEPT ![s] = None]
            /\ closed' = closed \cup {<<s, shows[s]>>}
            /\ \/ windows' = [windows EXCEPT ![shows[s]] = [i \in Indexes |-> Gap]]
               \/ UNCHANGED windows
            /\ UNCHANGED touched
    BY <1>5 DEF UserCloses
  <2>2. s \in Sessions /\ shows[s] \in Sessions
    BY <1>a DEF Live
  <2>c. \E c \in closed' : c[1] = s /\ c[2] = shows[s]
    <3>1. <<s, shows[s]>> \in closed' /\ <<s, shows[s]>>[1] = s /\ <<s, shows[s]>>[2] = shows[s]
      BY <2>1
    <3> QED BY <3>1
  <2>3. \A o \in Sessions : Whole(o)' => o # shows[s] /\ Whole(o)
    BY <2>1, <2>c DEF Whole
  <2>4. \A t \in Live : Spared(t)' => t # s /\ shows'[t] = shows[t] /\ t \in Live'
    BY <1>a, <2>1, <2>c DEF Spared, Live
  <2>5. \A o \in Sessions : o # shows[s] => Showing(o)' = Showing(o)
    BY <1>a, <2>1, <2>2 DEF Showing, Live
  <2>6. \A o \in Sessions, i \in Indexes : o # shows[s] => windows'[o][i] = windows[o][i]
    BY <1>a, <2>1, <2>2
  <2> QED BY <2>1, <2>3, <2>4, <2>5, <2>6 DEF Calm, IsWindow
<1> QED BY <1>1, <1>3, <1>4, <1>5
        DEF CONext, User, Collect, ServerInfo, ListSessions, ListWindows, ListPanes, Capture,
            CaptureMissed, Saved, ConnectionFails, Step, server, covars

-----------------------------------------------------------------------------
(* One session is kept of those that show the same windows *)

LEMMA SmallestIndex ==
  ASSUME NEW S, S \subseteq Nat, S # {}
  PROVE  \E n \in S : \A m \in S : n <= m
<1>1. PICK n \in S : \A m \in S : <<m, n>> \notin OpToRel(<, Nat)
  BY NatLessThanWellFounded, WFMin
<1>2. ASSUME NEW m \in S PROVE n <= m
  <2>1. m \in Nat /\ n \in Nat /\ <<m, n>> \in Nat \X Nat
    OBVIOUS
  <2> QED BY <1>1, <2>1 DEF OpToRel
<1> QED BY <1>2

LEMMA CanonicalIsMember ==
  ASSUME NEW o, NEW members, members \subseteq Sessions, members # {}
  PROVE  CanonicalMember(o, members) \in members
<1>1. PICK n \in Nat : n = Len(Order) /\ DOMAIN Order = 1..n
  BY CollectAssumption, LenProperties
<1> DEFINE S == {k \in 1..n : Order[k] \in members}
<1>2. S \subseteq Nat /\ S # {}
  BY <1>1, CollectAssumption DEF ToSet
<1>3. PICK k \in S : \A m \in S : k <= m
  <2> HIDE DEF S
  <2> QED BY <1>2, SmallestIndex
<1>4. \A j \in 1..(k - 1) : Order[j] \notin members
  <2>1. ASSUME NEW j \in 1..(k - 1), Order[j] \in members PROVE FALSE
    <3>1. j \in 1..n /\ ~(k <= j)
      BY <1>3
    <3> QED BY <1>3, <2>1, <3>1
  <2> QED BY <2>1
<1>5. \E m \in DOMAIN Order : Order[m] \in members /\ \A j \in 1..(m - 1) : Order[j] \notin members
  BY <1>1, <1>3, <1>4
<1> QED BY <1>5 DEF CanonicalMember

LEMMA OneOfEachStep ==
  ASSUME CollectInv, [CONext]_covars
  PROVE  OneOfEach'
<1>a. /\ OneOfEach /\ NotYet /\ wins \subseteq kept \X Indexes /\ kept \subseteq Sessions
      /\ Distinct(windows) /\ None \notin Sessions
      /\ shows \in [Sessions -> Sessions \cup {None}]
      /\ \A s, t \in Sessions : s # t /\ shows[s] = shows[t] => shows[s] \in grouped \cup {None}
  BY CollectAssumption DEF CollectInv, COTypeOK, Orderly, Distinct
<1>b. ASSUME NEW s, Spared(s)' PROVE Spared(s)
  BY <1>b, Goes DEF Spared
<1>1. CASE UNCHANGED <<kept, rows>>
  <2>1. ASSUME NEW s \in kept, NEW t \in kept, s # t, Spared(s)', Spared(t)'
        PROVE  s \in Live' /\ t \in Live' /\ shows'[s] # shows'[t]
    <3>1. s \in Live /\ t \in Live /\ shows[s] # shows[t]
      BY <1>a, <1>b, <2>1 DEF OneOfEach
    <3> QED BY <2>1, <3>1, Goes
  <2>2. \A r, q \in rows' : (r[4] = q[4] /\ r # q) => \E c \in closed' : c[1] \in {r[1], q[1]}
    BY <1>a, <1>1, Goes DEF OneOfEach
  <2> QED BY <1>1, <2>1, <2>2 DEF OneOfEach
<1>2. CASE ListSessions
  <2>1. /\ kept' = {s \in Live : Kept(s)} /\ rows' = {}
        /\ UNCHANGED <<shows, closed>>
    BY <1>2, <1>a DEF ListSessions, Step, server, NotYet
  <2>2. ASSUME NEW s \in kept', NEW t \in kept', s # t PROVE shows[s] # shows[t]
    <3> SUFFICES ASSUME shows[s] = shows[t] PROVE FALSE
      OBVIOUS
    <3>1. s \in Sessions /\ t \in Sessions /\ shows[s] \in grouped
      BY <1>a, <2>1, <2>2 DEF Live
    <3> QED BY <2>1, <2>2, <3>1 DEF Kept
  <2> QED BY <2>1, <2>2 DEF OneOfEach, Live
<1>3. CASE ListPanes
  <2>1. /\ UNCHANGED <<shows, closed, kept>>
        /\ rows' = UNION {{<<w[1], w[2], k, windows[shows[w[1]]][w[2]][k]>> :
                          k \in DOMAIN windows[shows[w[1]]][w[2]]} :
                          w \in {v \in wins : shows[v[1]] # None}}
    BY <1>3 DEF ListPanes, Step, server
  <2>2. ASSUME NEW r \in rows'
        PROVE  \E w \in wins : \E k \in DOMAIN windows[shows[w[1]]][w[2]] :
                  /\ shows[w[1]] \in Sessions /\ w[1] \in kept /\ w[2] \in Indexes
                  /\ r = <<w[1], w[2], k, windows[shows[w[1]]][w[2]][k]>>
    BY <1>a, <2>1, <2>2
  <2>3. ASSUME NEW r \in rows', NEW q \in rows', r[4] = q[4], r # q
        PROVE  \E c \in closed : c[1] \in {r[1], q[1]}
    <3>1. PICK w \in wins : \E k \in DOMAIN windows[shows[w[1]]][w[2]] :
                  /\ shows[w[1]] \in Sessions /\ w[1] \in kept /\ w[2] \in Indexes
                  /\ r = <<w[1], w[2], k, windows[shows[w[1]]][w[2]][k]>>
      BY <2>2
    <3>2. PICK v \in wins : \E l \in DOMAIN windows[shows[v[1]]][v[2]] :
                  /\ shows[v[1]] \in Sessions /\ v[1] \in kept /\ v[2] \in Indexes
                  /\ q = <<v[1], v[2], l, windows[shows[v[1]]][v[2]][l]>>
      BY <2>2
    <3>3. PICK k \in DOMAIN windows[shows[w[1]]][w[2]] :
                  r = <<w[1], w[2], k, windows[shows[w[1]]][w[2]][k]>>
      BY <3>1
    <3>4. PICK l \in DOMAIN windows[shows[v[1]]][v[2]] :
                  q = <<v[1], v[2], l, windows[shows[v[1]]][v[2]][l]>>
      BY <3>2
    <3>5. shows[w[1]] = shows[v[1]] /\ w[2] = v[2] /\ k = l
      <4>1. windows[shows[w[1]]][w[2]][k] = windows[shows[v[1]]][v[2]][l]
        BY <2>3, <3>3, <3>4
      <4> QED BY <1>a, <3>1, <3>2, <4>1 DEF Distinct
    <3>6. w[1] # v[1]
      BY <2>3, <3>3, <3>4, <3>5
    <3>7. ~Spared(w[1]) \/ ~Spared(v[1])
      BY <1>a, <3>1, <3>2, <3>5, <3>6 DEF OneOfEach
    <3>8. r[1] = w[1] /\ q[1] = v[1]
      BY <3>3, <3>4
    <3> QED BY <3>7, <3>8 DEF Spared
  <2>4. \A s, t \in kept' : (s # t /\ Spared(s)' /\ Spared(t)') =>
            s \in Live' /\ t \in Live' /\ shows'[s] # shows'[t]
    BY <1>a, <2>1 DEF OneOfEach, Spared, Live
  <2> QED BY <2>1, <2>3, <2>4 DEF OneOfEach
<1>4. acts \in Nat
  BY DEF CollectInv
<1> QED BY <1>1, <1>2, <1>3, <1>4, UserStep
        DEF CONext, Collect, ServerInfo, ListWindows, Capture, CaptureMissed, Saved,
            ConnectionFails, covars


LEMMA LooksStep ==
  ASSUME CollectInv, [CONext]_covars
  PROVE  Looks'
<1>a. /\ Looks /\ COTypeOK /\ wins \subseteq kept \X Indexes /\ acts \in Nat
      /\ shows \in [Sessions -> Sessions \cup {None}] /\ None \notin Sessions
      /\ grouped \subseteq Sessions
  BY CollectAssumption DEF CollectInv, COTypeOK
<1>b. \A o \in Sessions : \A s \in Showing(o) : s \in Live /\ shows[s] = o
  BY DEF Showing
<1>1. ASSUME Listed, UNCHANGED kept, NEW o \in Sessions, Showing(o)' # {}, Whole(o)'
      PROVE  \E s \in Showing(o)' : s \in kept'
  <2>1. Whole(o) /\ Showing(o) # {} /\ Showing(o) \subseteq Showing(o)'
    BY <1>1, Goes
  <2>2. PICK s \in Showing(o) : s \in kept
    BY <1>a, <1>1, <2>1 DEF Looks
  <2> QED BY <1>1, <2>1, <2>2
<1>2. ASSUME pc \in {"panes", "captures", "saved"}, UNCHANGED wins,
             NEW o \in Sessions, NEW i \in Indexes, Calm(o, i)'
      PROVE  \E s \in Showing(o)' : <<s, i>> \in wins'
  <2>1. Calm(o, i) /\ Showing(o) \subseteq Showing(o)'
    BY <1>2, Goes DEF Calm
  <2>2. PICK s \in Showing(o) : <<s, i>> \in wins
    BY <1>a, <1>2, <2>1 DEF Looks
  <2> QED BY <1>2, <2>1, <2>2
<1>3. ASSUME pc \in {"captures", "saved"}, UNCHANGED <<wins, rows>>,
             NEW o \in Sessions, NEW i \in Indexes, Calm(o, i)'
      PROVE  \E s \in Showing(o)' : <<s, i>> \in wins' /\ RowsOf(s, i)' = PanesOf(o, i)'
  <2>1. Calm(o, i) /\ Showing(o) \subseteq Showing(o)' /\ windows'[o][i] = windows[o][i]
    BY <1>3, Goes DEF Calm
  <2>2. PICK s \in Showing(o) : <<s, i>> \in wins /\ RowsOf(s, i) = PanesOf(o, i)
    BY <1>a, <1>3, <2>1 DEF Looks
  <2>3. RowsOf(s, i)' = RowsOf(s, i)
    BY <1>3 DEF RowsOf
  <2>4. PanesOf(o, i)' = PanesOf(o, i)
    BY <2>1 DEF PanesOf
  <2> QED BY <1>3, <2>1, <2>2, <2>3, <2>4
<1>4. CASE User \/ UNCHANGED covars \/ Capture \/ CaptureMissed \/ Saved
  <2>1. /\ UNCHANGED <<kept, wins, rows>>
        /\ Listed' => Listed
        /\ pc' \in {"panes", "captures", "saved"} => pc \in {"panes", "captures", "saved"}
        /\ pc' \in {"captures", "saved"} => pc \in {"captures", "saved"}
    BY <1>4, <1>a, UserStep DEF covars, Capture, CaptureMissed, Saved, Step, Listed
  <2>2. UNCHANGED kept /\ UNCHANGED wins /\ UNCHANGED <<wins, rows>>
    BY <2>1
  <2> QED BY <1>1, <1>2, <1>3, <2>1, <2>2 DEF Looks
<1>5. CASE ServerInfo \/ ConnectionFails
  <2>1. pc' \in {"sessions", "failed"}
    BY <1>5 DEF ServerInfo, ConnectionFails, Step
  <2> QED BY <2>1 DEF Looks, Listed
<1>6. CASE ListSessions
  <2>1. pc' = "windows" /\ kept' = {s \in Live : Kept(s)} /\ UNCHANGED server
    BY <1>6 DEF ListSessions, Step
  <2>2. \A o \in Sessions : Showing(o)' = Showing(o)
    BY <2>1 DEF server, Showing, Live
  <2>3. ASSUME NEW o \in Sessions, Showing(o) # {} PROVE \E s \in Showing(o) : s \in kept'
    <3>1. CASE o \in grouped
      <4>1. Members(o) = Showing(o) /\ Showing(o) \subseteq Sessions
        BY <3>1 DEF Members, Showing, Live
      <4>2. CanonicalMember(o, Members(o)) \in Showing(o)
        BY <2>3, <4>1, CanonicalIsMember
      <4> QED BY <1>b, <2>1, <4>2 DEF Kept
    <3>2. CASE o \notin grouped
      BY <1>b, <2>1, <2>3, <3>2 DEF Kept
    <3> QED BY <3>1, <3>2
  <2> QED BY <2>1, <2>2, <2>3 DEF Looks
<1>7. CASE ListWindows
  <2>1. /\ pc = "windows" /\ pc' = "panes" /\ UNCHANGED <<server, closed, touched, kept>>
        /\ wins' = {w \in (kept \cap Live) \X Indexes : windows[shows[w[1]]][w[2]] # Gap}
    BY <1>7 DEF ListWindows, Step
  <2>2. ASSUME NEW o \in Sessions, NEW i \in Indexes, Calm(o, i)'
        PROVE  \E s \in Showing(o)' : <<s, i>> \in wins'
    <3>1. Calm(o, i) /\ Showing(o)' = Showing(o)
      BY <2>1, <2>2, Goes DEF server, Showing, Live
    <3>2. PICK s \in Showing(o) : s \in kept
      BY <1>a, <2>1, <3>1 DEF Looks, Listed, Calm, IsWindow
    <3>3. <<s, i>> \in (kept \cap Live) \X Indexes /\ windows[shows[s]][i] # Gap
      BY <1>b, <3>1, <3>2 DEF Calm, IsWindow
    <3>4. <<s, i>>[1] = s /\ <<s, i>>[2] = i
      OBVIOUS
    <3> QED BY <2>1, <3>1, <3>2, <3>3, <3>4
  <2>3. Listed /\ UNCHANGED kept
    BY <2>1 DEF Listed
  <2> QED BY <1>1, <2>1, <2>2, <2>3 DEF Looks
<1>8. CASE ListPanes
  <2>1. /\ pc = "panes" /\ pc' = "captures" /\ UNCHANGED <<server, closed, touched, kept, wins>>
        /\ rows' = UNION {{<<w[1], w[2], k, windows[shows[w[1]]][w[2]][k]>> :
                          k \in DOMAIN windows[shows[w[1]]][w[2]]} :
                          w \in {v \in wins : shows[v[1]] # None}}
    BY <1>8 DEF ListPanes, Step
  <2>2. ASSUME NEW o \in Sessions, NEW i \in Indexes, Calm(o, i)'
        PROVE  \E s \in Showing(o)' : <<s, i>> \in wins' /\ RowsOf(s, i)' = PanesOf(o, i)'
    <3>1. Calm(o, i) /\ Showing(o)' = Showing(o) /\ windows' = windows
      BY <2>1, <2>2, Goes DEF server, Showing, Live
    <3>2. PICK s \in Showing(o) : <<s, i>> \in wins
      BY <1>a, <2>1, <3>1 DEF Looks
    <3>3. shows[s] = o /\ o # None
      BY <1>a, <1>b, <3>2
    <3>4. ASSUME NEW q \in rows', q[1] = s, q[2] = i PROVE <<q[3], q[4]>> \in PanesOf(o, i)
      <4>1. PICK w \in wins : \E k \in DOMAIN windows[shows[w[1]]][w[2]] :
               q = <<w[1], w[2], k, windows[shows[w[1]]][w[2]][k]>>
        BY <2>1, <3>4
      <4>2. PICK k \in DOMAIN windows[shows[w[1]]][w[2]] :
               q = <<w[1], w[2], k, windows[shows[w[1]]][w[2]][k]>>
        BY <4>1
      <4>3. w[1] = s /\ w[2] = i /\ q[3] = k /\ q[4] = windows[shows[w[1]]][w[2]][k]
        BY <3>4, <4>2
      <4> QED BY <3>3, <4>2, <4>3 DEF PanesOf
    <3>5. ASSUME NEW k \in DOMAIN windows[o][i]
          PROVE  <<s, i, k, windows[o][i][k]>> \in rows'
      <4> DEFINE w == <<s, i>>
      <4>1. w \in wins /\ w[1] = s /\ w[2] = i /\ shows[w[1]] # None
        BY <3>2, <3>3
      <4> HIDE DEF w
      <4>2. k \in DOMAIN windows[shows[w[1]]][w[2]]
        BY <3>3, <4>1
      <4>3. <<w[1], w[2], k, windows[shows[w[1]]][w[2]][k]>> \in rows'
        BY <2>1, <4>1, <4>2
      <4> QED BY <3>3, <4>1, <4>3
    <3>6. RowsOf(s, i)' = PanesOf(o, i)
      <4>1. RowsOf(s, i)' \subseteq PanesOf(o, i)
        BY <3>4 DEF RowsOf
      <4>2. PanesOf(o, i) \subseteq RowsOf(s, i)'
        <5>1. ASSUME NEW x \in PanesOf(o, i) PROVE x \in RowsOf(s, i)'
          <6>1. PICK k \in DOMAIN windows[o][i] : x = <<k, windows[o][i][k]>>
            BY DEF PanesOf
          <6> DEFINE q == <<s, i, k, windows[o][i][k]>>
          <6>2. q \in rows' /\ q[1] = s /\ q[2] = i /\ <<q[3], q[4]>> = x
            BY <3>5, <6>1
          <6> HIDE DEF q
          <6> QED BY <6>2 DEF RowsOf
        <5> QED BY <5>1
      <4> QED BY <4>1, <4>2
    <3>7. PanesOf(o, i)' = PanesOf(o, i)
      BY <3>1 DEF PanesOf
    <3> QED BY <2>1, <3>1, <3>2, <3>6, <3>7
  <2>3. Listed /\ UNCHANGED kept /\ UNCHANGED wins /\ pc \in {"panes", "captures", "saved"}
    BY <2>1 DEF Listed
  <2> QED BY <1>1, <1>2, <2>2, <2>3 DEF Looks
<1> QED BY <1>4, <1>5, <1>6, <1>7, <1>8 DEF CONext, Collect

(* Whether a session is the one to keep does not change while its group is  *)
(* steady: none leaves, and none joins it but where its namesake is kept    *)
(* whoever joins.                                                           *)
LEMMA StillKept ==
  ASSUME CollectInv, [CONext]_covars,
         NEW s \in Sessions, NEW o \in Sessions, Steady(s, o)'
  PROVE  Steady(s, o) /\ (Kept(s)' <=> Kept(s))
<1>a. /\ shows \in [Sessions -> Sessions \cup {None}] /\ None \notin Sessions
      /\ grouped \subseteq Sessions
      /\ \A t, u \in Sessions : t # u /\ shows[t] = shows[u] => shows[t] \in grouped \cup {None}
  BY CollectAssumption DEF CollectInv, COTypeOK, Orderly
<1>1. CASE UNCHANGED <<shows, grouped, closed, joined>>
  <2>1. Steady(s, o)' = Steady(s, o)
    BY <1>1 DEF Steady, Showing, Live, Whole
  <2>2. Kept(s)' = Kept(s)
    BY <1>1 DEF Kept, Members, Showing, Live, CanonicalMember
  <2> QED BY <2>1, <2>2
<1>2. ASSUME NEW so, so = Showing(o), s \in so, shows[s] = o,
             s \in Showing(o)', shows'[s] = o,
             \/ Showing(o)' = so /\ (o \in grouped' <=> o \in grouped)
             \/ o \in so /\ o \in Showing(o)' /\ (s # o => o \in grouped /\ o \in grouped')
      PROVE  Kept(s)' <=> Kept(s)
  <2>1. Kept(s) <=> (o \in grouped => s = CanonicalMember(o, so))
    BY <1>2 DEF Kept, Members
  <2>2. Kept(s)' <=> (o \in grouped' => s = CanonicalMember(o, Showing(o)'))
    BY <1>2 DEF Kept, Members, CanonicalMember
  <2>3. CASE Showing(o)' = so /\ (o \in grouped' <=> o \in grouped)
    BY <2>1, <2>2, <2>3
  <2>4. CASE o \in so /\ o \in Showing(o)' /\ (s # o => o \in grouped /\ o \in grouped')
    <3>1. CanonicalMember(o, so) = o /\ CanonicalMember(o, Showing(o)') = o
      BY <2>4 DEF CanonicalMember
    <3> QED BY <2>1, <2>2, <2>4, <3>1
  <2> QED BY <1>2, <2>3, <2>4
<1>3. CASE UserClones
  <2>1. PICK t \in Sessions \ Live, p \in Sessions :
            /\ Showing(p) # {} /\ shows' = [shows EXCEPT ![t] = p]
            /\ grouped' = grouped \cup {p} /\ joined' = joined \cup {<<t, p>>}
            /\ UNCHANGED closed
    BY <1>3 DEF UserClones
  <2>2. <<t, p>> \in joined' /\ <<t, p>>[2] = p
    BY <2>1
  <2>3. s \in Live' /\ shows'[s] = o /\ Whole(o)
    BY <2>1 DEF Steady, Showing, Whole
  <2>4. s # t
    BY <1>a, <2>1, <2>2, <2>3 DEF Steady
  <2>5. s \in Live /\ shows[s] = o
    BY <1>a, <2>1, <2>3, <2>4 DEF Live
  <2>6. CASE \A j \in joined' : j[2] # o
    <3>1. p # o
      BY <2>2, <2>6
    <3>2. Showing(o)' = Showing(o) /\ (o \in grouped' <=> o \in grouped)
      BY <1>a, <2>1, <3>1 DEF Showing, Live
    <3>3. Kept(s)' <=> Kept(s)
      BY <1>2, <2>3, <2>5, <3>2 DEF Showing
    <3>4. Steady(s, o)
      BY <2>1, <2>3, <2>5, <2>6 DEF Steady, Showing
    <3> QED BY <3>3, <3>4
  <2>7. CASE shows'[o] = o /\ <<o, o>> \notin joined'
    <3>1. o # t
      BY <1>a, <2>1, <2>2, <2>7
    <3>2. shows[o] = o /\ o \in Live /\ o \in Live'
      BY <1>a, <2>1, <2>7, <3>1 DEF Live
    <3>3. s # o => o \in grouped /\ o \in grouped'
      BY <1>a, <2>1, <2>5, <3>2
    <3>4. Kept(s)' <=> Kept(s)
      BY <1>2, <2>3, <2>5, <2>7, <3>2, <3>3 DEF Showing
    <3>5. <<s, o>> \notin joined /\ <<o, o>> \notin joined
      BY <2>1, <2>7 DEF Steady
    <3>6. Steady(s, o)
      BY <2>3, <2>5, <3>2, <3>5 DEF Steady, Showing
    <3> QED BY <3>4, <3>6
  <2> QED BY <2>6, <2>7 DEF Steady
<1>4. CASE UserCloses
  <2>1. PICK t \in Live :
            /\ shows' = [shows EXCEPT ![t] = None]
            /\ closed' = closed \cup {<<t, shows[t]>>}
            /\ grouped' \in {grouped, grouped \ {shows[t]}}
            /\ UNCHANGED joined
    BY <1>4 DEF UserCloses
  <2>2. t \in Sessions /\ shows[t] \in Sessions
    BY <1>a DEF Live
  <2>3. <<t, shows[t]>> \in closed' /\ <<t, shows[t]>>[2] = shows[t]
    BY <2>1
  <2>4. o # shows[t] /\ Whole(o)
    BY <2>1, <2>3 DEF Steady, Whole
  <2>5. Showing(o)' = Showing(o) /\ (o \in grouped' <=> o \in grouped)
    BY <1>a, <2>1, <2>2, <2>4 DEF Showing, Live
  <2>6. s \in Showing(o)' /\ s \in Showing(o) /\ shows'[s] = o /\ shows[s] = o
    BY <2>5 DEF Steady, Showing
  <2>7. Kept(s)' <=> Kept(s)
    BY <1>2, <2>5, <2>6
  <2>8. shows'[o] = o => shows[o] = o
    BY <1>a, <2>1, <2>2
  <2>9. Steady(s, o)
    BY <2>1, <2>4, <2>6, <2>8 DEF Steady
  <2> QED BY <2>7, <2>9
<1>5. ASSUME NEW changed, NEW now, Rearranges(changed, now)
      PROVE  UNCHANGED <<shows, grouped, closed, joined>>
  BY <1>5 DEF Rearranges
<1>6. CASE UserOpens \/ UserSplits \/ UserKillsPane \/ UserSwaps
  BY <1>1, <1>5, <1>6 DEF UserOpens, UserSplits, UserKillsPane, UserSwaps
<1> QED BY <1>1, <1>3, <1>4, <1>6
        DEF CONext, User, Collect, ServerInfo, ListSessions, ListWindows, ListPanes, Capture,
            CaptureMissed, Saved, ConnectionFails, Step, server, covars

LEMMA ChosenStep ==
  ASSUME CollectInv, [CONext]_covars
  PROVE  Chosen'
<1>a. /\ Chosen /\ acts \in Nat /\ kept \subseteq Sessions
      /\ shows \in [Sessions -> Sessions \cup {None}]
  BY DEF CollectInv, COTypeOK
<1>1. CASE /\ UNCHANGED <<kept, wins>> /\ (Listed' => Listed)
           /\ pc' \in {"panes", "captures", "saved"} => pc \in {"panes", "captures", "saved"}
  <2>1. ASSUME Listed', NEW s \in Sessions, NEW o \in Sessions, Steady(s, o)'
        PROVE  s \in kept' <=> Kept(s)'
    BY <1>a, <1>1, <2>1, StillKept DEF Chosen
  <2>2. ASSUME pc' \in {"panes", "captures", "saved"}, NEW s \in Sessions, NEW o \in Sessions,
               NEW i \in Indexes, Steady(s, o)', Calm(o, i)'
        PROVE  <<s, i>> \in wins' <=> s \in kept'
    <3>1. Steady(s, o) /\ Calm(o, i)
      BY <2>2, StillKept, Goes
    <3> QED BY <1>a, <1>1, <2>2, <3>1 DEF Chosen
  <2> QED BY <2>1, <2>2 DEF Chosen
<1>2. CASE ListSessions
  <2>1. kept' = {s \in Live : Kept(s)} /\ pc' = "windows" /\ UNCHANGED <<server, closed, joined>>
    BY <1>2 DEF ListSessions, Step
  <2>2. ASSUME NEW s \in Sessions, NEW o \in Sessions, Steady(s, o)'
        PROVE  s \in kept' <=> Kept(s)'
    <3>1. Kept(s)' <=> Kept(s)
      BY <2>2, StillKept
    <3>2. s \in Live
      BY <2>2, StillKept DEF Steady, Showing
    <3> QED BY <2>1, <3>1, <3>2
  <2> QED BY <2>1, <2>2 DEF Chosen
<1>3. CASE ListWindows
  <2>1. /\ pc = "windows" /\ pc' = "panes" /\ UNCHANGED <<server, kept>>
        /\ wins' = {w \in (kept \cap Live) \X Indexes : windows[shows[w[1]]][w[2]] # Gap}
    BY <1>3 DEF ListWindows, Step
  <2>2. ASSUME NEW s \in Sessions, NEW o \in Sessions, Steady(s, o)'
        PROVE  s \in kept' <=> Kept(s)'
    BY <1>a, <2>1, <2>2, StillKept DEF Chosen, Listed
  <2>3. ASSUME NEW s \in Sessions, NEW o \in Sessions, NEW i \in Indexes,
               Steady(s, o)', Calm(o, i)'
        PROVE  <<s, i>> \in wins' <=> s \in kept'
    <3>1. Steady(s, o) /\ Calm(o, i)
      BY <2>3, StillKept, Goes
    <3>2. s \in Live /\ shows[s] = o /\ windows[o][i] # Gap
      BY <3>1 DEF Steady, Showing, Calm, IsWindow
    <3>3. <<s, i>>[1] = s /\ <<s, i>>[2] = i
      OBVIOUS
    <3> QED BY <2>1, <3>2, <3>3
  <2> QED BY <2>1, <2>2, <2>3 DEF Chosen
<1>4. CASE ServerInfo \/ ConnectionFails
  <2>1. pc' \in {"sessions", "failed"}
    BY <1>4 DEF ServerInfo, ConnectionFails, Step
  <2> QED BY <2>1 DEF Chosen, Listed
<1>5. CASE User \/ UNCHANGED covars \/ ListPanes \/ Capture \/ CaptureMissed \/ Saved
  <2>1. /\ UNCHANGED <<kept, wins>> /\ (Listed' => Listed)
        /\ pc' \in {"panes", "captures", "saved"} => pc \in {"panes", "captures", "saved"}
    BY <1>5, <1>a, UserStep
       DEF covars, ListPanes, Capture, CaptureMissed, Saved, Step, Listed
  <2> QED BY <1>1, <2>1
<1> QED BY <1>2, <1>3, <1>4, <1>5 DEF CONext, Collect

LEMMA CollectInvariant == COSpec => []CollectInv
<1>1. COInit => CollectInv
  <2> SUFFICES ASSUME COInit PROVE CollectInv
    OBVIOUS
  <2>1. Orderly(shows, grouped, windows, lastPane)
    BY ServerAssumption DEF COInit
  <2>2. COTypeOK
    BY <2>1 DEF COInit, COTypeOK, Orderly
  <2>3. acts \in Nat /\ NotYet /\ Looks /\ OneOfEach /\ Texts /\ Chosen
    BY DEF COInit, NotYet, Looks, OneOfEach, Texts, Chosen, Listed
  <2> QED BY <2>1, <2>2, <2>3 DEF CollectInv
<1>2. CollectInv /\ [CONext]_covars => CollectInv'
  <2> SUFFICES ASSUME CollectInv, [CONext]_covars PROVE CollectInv'
    OBVIOUS
  <2>1. Orderly(shows, grouped, windows, lastPane)'
    BY ServerStep DEF Server
  <2> QED BY <2>1, TypesStep, LooksStep, OneOfEachStep, TextsStep, ChosenStep DEF CollectInv
<1> QED BY <1>1, <1>2, PTL DEF COSpec

(* What the collector has at any time is of what it has listed before:      *)
(* panes of listed windows, windows of kept sessions, panes still to be     *)
(* captured among those of the snapshot.                                    *)
THEOREM CollectTypes == COSpec => []COTypeOK
  BY CollectInvariant, PTL DEF CollectInv

(* A window that stands through the collection, in a group that no session  *)
(* leaves, is saved as it stands whatever happens around it; and two panes  *)
(* of the snapshot are one pane only if a closed session's name was used    *)
(* again meanwhile.                                                         *)
THEOREM StillWindows == COSpec => []StillWindowsAreSaved
<1>1. CollectInv => StillWindowsAreSaved
  <2> SUFFICES ASSUME CollectInv PROVE StillWindowsAreSaved
    OBVIOUS
  <2>1. Looks /\ OneOfEach
    BY DEF CollectInv
  <2>2. ASSUME pc = "saved", NEW o \in Sessions, NEW i \in Indexes,
               IsWindow(o, i), <<o, i>> \notin touched, \A c \in closed : c[2] # o
        PROVE  \E s \in Showing(o) : <<s, i>> \in wins /\ RowsOf(s, i) = PanesOf(o, i)
    BY <2>1, <2>2 DEF Looks, Calm, Whole
  <2> QED BY <2>1, <2>2 DEF StillWindowsAreSaved, OneOfEach, RowsOf, PanesOf
<1> QED BY <1>1, CollectInvariant, PTL

(* The text saved with a pane is of that pane or of one whose key is the    *)
(* same; a pane without its text is warned of.                              *)
THEOREM TextsAreTheirs == COSpec => []TextsAreThePanes
<1>1. CollectInv => TextsAreThePanes
  <2> SUFFICES ASSUME CollectInv, pc = "saved", NEW r \in rows
               PROVE  LET sharing == {q \in rows : Key(q[1], q[2], q[3]) = Key(r[1], r[2], r[3])}
                      IN  \/ r[4] \in warned
                          \/ /\ Key(r[1], r[2], r[3]) \in DOMAIN texts
                             /\ texts[Key(r[1], r[2], r[3])] \in {q[4] : q \in sharing}
    BY DEF TextsAreThePanes
  <2>1. HasText(r)
    BY DEF CollectInv, Texts
  <2> QED BY <2>1 DEF HasText
<1> QED BY <1>1, CollectInvariant, PTL

(* A snapshot restored onto the server it was taken from finds there what   *)
(* it saved, of the windows left alone, and nothing else: the collector     *)
(* goes by the sessions tmux lists and restore by the windows it lists, and *)
(* both come to the same member of each group, since no session is without  *)
(* a window and a group that none has left keeps its canonical member.      *)
THEOREM SnapshotIsLive == COSpec => []SavedIsLive
<1>1. CollectInv => SavedIsLive
  <2> SUFFICES ASSUME CollectInv, pc = "saved", NEW o \in Sessions, NEW i \in Indexes,
                      NEW s \in Showing(o), Calm(o, i), Steady(s, o)
               PROVE  <<s, i>> \in wins <=> <<s, i>> \in QueryLive
    BY DEF SavedIsLive, Calm, Whole, Steady
  <2>a. /\ Chosen /\ shows \in [Sessions -> Sessions \cup {None}]
        /\ \A t \in Sessions : shows[t] # None => \E j \in Indexes : windows[shows[t]][j] # Gap
    BY DEF CollectInv, COTypeOK, Orderly
  <2>1. s \in Live /\ shows[s] = o /\ windows[o][i] # Gap
    BY DEF Showing, Calm, IsWindow
  <2>2. <<s, i>> \in wins <=> Kept(s)
    BY <2>a, <2>1 DEF Chosen, Listed, Live
  <2>3. Bucket(o) = Showing(o)
    <3>1. ASSUME NEW w \in WindowRows, shows[w[1]] = o PROVE w[1] \in Showing(o)
      BY <3>1 DEF WindowRows, Showing
    <3>2. ASSUME NEW t \in Showing(o) PROVE \E w \in WindowRows : shows[w[1]] = o /\ w[1] = t
      <4>1. t \in Live /\ shows[t] = o
        BY DEF Showing
      <4>2. PICK j \in Indexes : windows[o][j] # Gap
        BY <2>a, <4>1 DEF Live
      <4>3. <<t, j>> \in Live \X Indexes /\ <<t, j>>[1] = t /\ <<t, j>>[2] = j
        BY <4>1
      <4> QED BY <4>1, <4>2, <4>3 DEF WindowRows
    <3> QED BY <3>1, <3>2 DEF Bucket
  <2>4. <<s, i>> \in WindowRows /\ <<s, i>>[1] = s
    <3>1. <<s, i>> \in Live \X Indexes /\ <<s, i>>[1] = s /\ <<s, i>>[2] = i
      BY <2>1
    <3> QED BY <2>1, <3>1 DEF WindowRows
  <2>5. <<s, i>> \in QueryLive <=> (o \in grouped => s = CanonicalMember(o, Bucket(o)))
    BY <2>1, <2>4 DEF QueryLive
  <2> QED BY <2>1, <2>2, <2>3, <2>5 DEF Kept, Members
<1> QED BY <1>1, CollectInvariant, PTL
=============================================================================
