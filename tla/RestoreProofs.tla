---------------------------- MODULE RestoreProofs ----------------------------
(***************************************************************************)
(* A restore leaves what its user made alone and gives every pane what was *)
(* saved of it, for any snapshot, server, and course of the run.  Nothing  *)
(* in the plan says which window a command belongs to but the index it     *)
(* names: the argument is that the actions for a window follow its         *)
(* creation without a break (Tied), so that when one of them is sent the   *)
(* index is that of the window just made (Current).                        *)
(*                                                                         *)
(* Undisturbed, a restore makes all it planned and leaves nothing for the  *)
(* next: no command takes an index that a later one needs (Apart, Ready),  *)
(* and what is made stands where BuildPlan looks for it (Provided).        *)
(***************************************************************************)
EXTENDS Restore, SequenceTheorems, FiniteSetTheorems, WellFoundedInduction, TLAPS

(* Sessions that a restore has to make were saved from the index on at      *)
(* which the server numbers its windows.  Without this every theorem below  *)
(* but RestoreTypes is false: new-session puts its window at base-index,    *)
(* and the actions after it go to the saved index, where the user may have  *)
(* opened a window; another saved window may have to stand at base-index;   *)
(* and the next run finds the saved index free.                             *)
Based(sn, l) ==
    \A k \in DOMAIN sn :
        \/ sn[k].name \in Unaddressable
        \/ Exists(l, sn[k].name)
        \/ 1 \in DOMAIN sn[k].windows => sn[k].windows[1].index = BaseIndex

FromBase == \A sn \in Snapshots, l \in Servers : Based(sn, l)

Following == {"split", "dress", "show", "type", "select"}
Remarks == {"note", "warn"}

SavedIn(sn, s, w) ==
    \E n \in DOMAIN sn : \E m \in DOMAIN sn[n].windows :
        sn[n].name = s /\ sn[n].windows[m] = w

(* The actions that stand in a plan for a snapshot; `based` where FromBase  *)
(* is relied on.                                                            *)
Acts(sn, based) ==
    {a \in [kind : Creating \cup Following \cup Remarks, session : Sessions,
            saved : SavedWindow \cup {NoWindow},
            target : Indexes \cup {Placeholder}, pane : 1..3] :
        a.kind \notin Remarks =>
            /\ a.saved \in SavedWindow /\ SavedIn(sn, a.session, a.saved)
            /\ a.kind \in {"show", "type"} => a.pane <= a.saved.panes
            /\ a.kind \in {"new_session", "new_window"} =>
                  a.target = a.saved.index /\ a.target \in Indexes
            /\ a.kind = "relocate" => a.target = Placeholder
            /\ (based /\ a.kind = "new_session") => a.target = BaseIndex}

(* What follows on a window's creation, and nothing but its own actions. *)
Tied(a, b) ==
    b.kind \in Following =>
        /\ a.kind \in Creating \cup Following
        /\ a.session = b.session /\ a.saved = b.saved /\ a.target = b.target
        /\ b.kind = "split" => a.kind \in Creating \cup {"split"}

Ordered(p) == \A k \in 1..(Len(p) - 1) : Tied(p[k], p[k + 1])

Starts(p) == p # <<>> => p[1].kind \notin Following

Where(a) == IF a.target = Placeholder THEN win ELSE a.target

AllFresh(w) == \A k \in DOMAIN w.panes : w.panes[k].shown = Nothing /\ w.panes[k].typed = Nothing

Made(a, w) ==
    /\ w.name = a.saved.name /\ w.origin = a.saved.index
    /\ a.kind = "split" => AllFresh(w)

Current ==
    (plan # <<>> /\ plan[1].kind \in Following /\ Runs(plan[1])) =>
        /\ Where(plan[1]) \in Indexes
        /\ Made(plan[1], live[plan[1].session][Where(plan[1])])

Counts ==
    /\ report \in [created : Nat, relocated : Nat, skipped : Nat, notes : Nat]
    /\ planned \in Nat
    /\ report.created + report.relocated + report.skipped + PlannedWindows(plan) <= planned

Typed ==
    /\ snap \in Snapshots
    /\ live \in [Sessions -> [Indexes -> Window]]
    /\ running \in BOOLEAN /\ (~running => plan = <<>>)
    /\ win \in Indexes \cup {Nothing}
    /\ aborted \in Sessions \cup {""}
    /\ skipping \in BOOLEAN
    /\ up \in BOOLEAN

(* No session goes away, so what FromBase says of a server stays so.        *)
Planning(based) ==
    /\ Typed
    /\ plan \in Seq(Acts(snap, based)) /\ Ordered(plan)
    /\ based => Based(snap, live)

RestoreInv == Planning(TRUE) /\ Current /\ RightPane
-----------------------------------------------------------------------------
(* Sequences *)

LEMMA Smallest ==
  ASSUME NEW S, S \subseteq Nat, S # {}
  PROVE  \E n \in S : \A m \in S : n <= m
<1>1. PICK n \in S : \A m \in S : <<m, n>> \notin OpToRel(<, Nat)
  BY NatLessThanWellFounded, WFMin
<1>2. ASSUME NEW m \in S PROVE n <= m
  <2>1. m \in Nat /\ n \in Nat /\ <<m, n>> \in Nat \X Nat
    OBVIOUS
  <2> QED BY <1>1, <2>1 DEF OpToRel
<1> QED BY <1>2

(* What is told of each prefix by the one before it (the function that      *)
(* FlattenSeq reads its result from) exists.                                *)
Flattens(f, seqs, n) ==
    f = [i \in 1..n |-> IF i = 1 THEN seqs[i] ELSE f[i - 1] \o seqs[i]]

LEMMA FlattensExists ==
  ASSUME NEW seqs, NEW n \in Nat
  PROVE  \E f : Flattens(f, seqs, n)
<1> DEFINE Bad == {k \in Nat : ~\E f : Flattens(f, seqs, k)}
<1> SUFFICES ASSUME Bad # {} PROVE FALSE
  OBVIOUS
<1>1. PICK k \in Bad : \A m \in Bad : k <= m
  <2>1. Bad \subseteq Nat
    OBVIOUS
  <2> HIDE DEF Bad
  <2> QED BY <2>1, Smallest
<1>2. k # 0
  <2> DEFINE e == [i \in 1..0 |-> <<>>]
  <2>1. Flattens(e, seqs, 0)
    BY DEF Flattens
  <2> QED BY <1>1, <2>1
<1>3. k \in Nat /\ k - 1 \in Nat /\ k - 1 < k
  BY <1>2
<1>4. PICK f : Flattens(f, seqs, k - 1)
  <2>1. k - 1 \notin Bad
    BY <1>1, <1>3
  <2> QED BY <1>3, <2>1
<1> DEFINE g == [i \in 1..k |-> IF i < k THEN f[i] ELSE
                                IF i = 1 THEN seqs[i] ELSE f[i - 1] \o seqs[i]]
<1>5. ASSUME NEW i \in 1..k
      PROVE  g[i] = IF i = 1 THEN seqs[i] ELSE g[i - 1] \o seqs[i]
  <2>1. CASE i = 1
    <3>1. CASE 1 < k
      <4>1. 1 \in 1..(k - 1) /\ g[1] = f[1]
        BY <1>3, <2>1, <3>1
      <4> QED BY <1>4, <2>1, <4>1 DEF Flattens
    <3>2. CASE ~(1 < k)
      BY <2>1, <3>2
    <3> QED BY <3>1, <3>2
  <2>2. CASE i # 1
    <3>1. i - 1 \in 1..k /\ i - 1 < k
      BY <1>3, <2>2
    <3>2. g[i - 1] = f[i - 1]
      BY <3>1
    <3>3. CASE i < k
      <4>1. i \in 1..(k - 1) /\ g[i] = f[i]
        BY <1>3, <3>3
      <4>2. f[i] = f[i - 1] \o seqs[i]
        BY <1>4, <2>2, <4>1 DEF Flattens
      <4> QED BY <2>2, <3>2, <4>1, <4>2
    <3>4. CASE ~(i < k)
      BY <2>2, <3>2, <3>4
    <3> QED BY <3>3, <3>4
  <2> QED BY <2>1, <2>2
<1>6. Flattens(g, seqs, k)
  <2>1. g = [i \in 1..k |-> g[i]]
    OBVIOUS
  <2> HIDE DEF g
  <2> QED BY <1>5, <2>1 DEF Flattens
<1> QED BY <1>1, <1>6

(* The flattening of members of a class closed under concatenation is in    *)
(* the class.                                                               *)
LEMMA Flattened ==
  ASSUME NEW C, <<>> \in C, \A p, q \in C : p \o q \in C,
         NEW n \in Nat, NEW seqs \in [1..n -> C]
  PROVE  FlattenSeq(seqs) \in C
<1>1. Len(seqs) = n /\ DOMAIN seqs = 1..n
  BY LenProperties
<1>2. CASE n = 0
  <2>1. seqs = <<>>
    BY <1>2
  <2> QED BY <1>1, <1>2, <2>1 DEF FlattenSeq
<1>3. CASE n # 0
  <2>1. PICK f : Flattens(f, seqs, n)
    BY FlattensExists
  <2> DEFINE h == CHOOSE h : h = [i \in 1..n |-> IF i = 1 THEN seqs[i] ELSE h[i - 1] \o seqs[i]]
  <2>2. Flattens(h, seqs, n)
    BY <2>1 DEF Flattens
  <2>3. FlattenSeq(seqs) = h[n]
    BY <1>1, <1>3 DEF FlattenSeq
  <2> HIDE DEF h
  <2> DEFINE Bad == {k \in 1..n : h[k] \notin C}
  <2>4. ASSUME Bad # {} PROVE FALSE
    <3>1. PICK k \in Bad : \A m \in Bad : k <= m
      <4>1. Bad \subseteq Nat
        OBVIOUS
      <4> HIDE DEF Bad
      <4> QED BY <2>4, <4>1, Smallest
    <3>2. k \in 1..n /\ h[k] = IF k = 1 THEN seqs[k] ELSE h[k - 1] \o seqs[k]
      BY <2>2, <3>1 DEF Flattens
    <3>3. k # 1
      BY <3>1, <3>2
    <3>4. k - 1 \in 1..n /\ ~(k <= k - 1)
      BY <3>2, <3>3
    <3>5. h[k - 1] \in C
      BY <3>1, <3>4
    <3> QED BY <3>1, <3>2, <3>3, <3>5
  <2>5. n \in 1..n
    BY <1>3
  <2> QED BY <2>3, <2>4, <2>5
<1> QED BY <1>2, <1>3

LEMMA Joined ==
  ASSUME NEW S, NEW p \in Seq(S), NEW q \in Seq(S),
         NEW m \in Nat, NEW n \in Nat, m = Len(p), n = Len(q)
  PROVE  /\ p \o q \in Seq(S) /\ Len(p \o q) = m + n
         /\ \A k \in 1..m : (p \o q)[k] = p[k] /\ p[k] \in S
         /\ \A k \in (m + 1)..(m + n) :
               (p \o q)[k] = q[k - m] /\ k - m \in 1..n /\ q[k - m] \in S
<1>1. /\ p \o q \in Seq(S) /\ Len(p \o q) = m + n
      /\ \A k \in 1..(m + n) : (p \o q)[k] = IF k <= m THEN p[k] ELSE q[k - m]
  BY ConcatProperties
<1>2. ASSUME NEW k \in 1..m PROVE (p \o q)[k] = p[k] /\ p[k] \in S
  <2>1. k \in 1..(m + n) /\ k <= m
    OBVIOUS
  <2> QED BY <1>1, <2>1, ElementOfSeq
<1>3. ASSUME NEW k \in (m + 1)..(m + n)
      PROVE (p \o q)[k] = q[k - m] /\ k - m \in 1..n /\ q[k - m] \in S
  <2>1. k \in 1..(m + n) /\ ~(k <= m) /\ k - m \in 1..n
    OBVIOUS
  <2> QED BY <1>1, <2>1, ElementOfSeq
<1> QED BY <1>1, <1>2, <1>3

LEMMA Flatter ==
  ASSUME NEW S, NEW n \in Nat, NEW seqs \in [1..n -> Seq(S)]
  PROVE  FlattenSeq(seqs) \in Seq(S)
<1> DEFINE C == Seq(S)
<1>1. <<>> \in C /\ \A p, q \in C : p \o q \in C
  BY ConcatProperties, EmptySeq
<1> HIDE DEF C
<1>2. seqs \in [1..n -> C]
  BY DEF C
<1>3. FlattenSeq(seqs) \in C
  BY <1>1, <1>2, Flattened
<1> QED BY <1>3 DEF C


-----------------------------------------------------------------------------
(* The plan *)

(* Sequences of actions that no other action may come between. *)
Plans(A) == {p \in Seq(A) : Ordered(p) /\ Starts(p)}

LEMMA PlansJoin ==
  ASSUME NEW A, NEW p \in Plans(A), NEW q \in Plans(A)
  PROVE  p \o q \in Plans(A)
<1>1. p \in Seq(A) /\ q \in Seq(A) /\ Ordered(p) /\ Ordered(q) /\ Starts(p) /\ Starts(q)
  BY DEF Plans
<1>2. PICK m \in Nat, n \in Nat : m = Len(p) /\ n = Len(q)
  BY <1>1, LenProperties
<1>3. /\ p \o q \in Seq(A) /\ Len(p \o q) = m + n
      /\ \A k \in 1..m : (p \o q)[k] = p[k] /\ p[k] \in A
      /\ \A k \in (m + 1)..(m + n) :
            (p \o q)[k] = q[k - m] /\ k - m \in 1..n /\ q[k - m] \in A
  BY <1>1, <1>2, Joined
<1>4. ASSUME NEW k \in 1..(m + n - 1) PROVE Tied((p \o q)[k], (p \o q)[k + 1])
  <2>1. CASE k + 1 <= m
    <3>1. k \in 1..(m - 1) /\ k \in 1..m /\ k + 1 \in 1..m
      BY <2>1
    <3> QED BY <1>1, <1>2, <1>3, <3>1 DEF Ordered
  <2>2. CASE k = m
    <3>1. k + 1 \in (m + 1)..(m + n) /\ (k + 1) - m = 1 /\ n # 0
      BY <2>2
    <3>2. (p \o q)[k + 1] = q[1]
      BY <1>3, <3>1
    <3>3. q # <<>>
      BY <1>2, <3>1, EmptySeq
    <3> QED BY <1>1, <3>2, <3>3 DEF Starts, Tied
  <2>3. CASE k > m
    <3>1. PICK j \in 1..(n - 1) : k = m + j
      <4>1. k - m \in 1..(n - 1) /\ k = m + (k - m)
        BY <2>3
      <4> QED BY <4>1
    <3>2. k \in (m + 1)..(m + n) /\ k + 1 \in (m + 1)..(m + n) /\ k - m = j /\ (k + 1) - m = j + 1
      BY <3>1
    <3>3. (p \o q)[k] = q[j] /\ (p \o q)[k + 1] = q[j + 1]
      BY <1>3, <3>2
    <3> QED BY <1>1, <1>2, <3>3 DEF Ordered
  <2>4. k + 1 <= m \/ k = m \/ k > m
    OBVIOUS
  <2> QED BY <2>1, <2>2, <2>3, <2>4
<1>5. Starts(p \o q)
  <2> SUFFICES ASSUME p \o q # <<>> PROVE (p \o q)[1].kind \notin Following
    BY DEF Starts
  <2>1. CASE m = 0
    <3>1. p = <<>>
      BY <1>1, <1>2, <2>1, EmptySeq
    <3>2. p \o q = q
      BY <1>1, <3>1, ConcatEmptySeq
    <3> QED BY <1>1, <3>2 DEF Starts
  <2>2. CASE m # 0
    <3>1. 1 \in 1..m /\ p # <<>>
      BY <1>2, <2>2, EmptySeq
    <3> QED BY <1>1, <1>3, <3>1 DEF Starts
  <2> QED BY <2>1, <2>2
<1>6. Ordered(p \o q)
  BY <1>3, <1>4 DEF Ordered
<1> QED BY <1>3, <1>5, <1>6 DEF Plans

LEMMA PlansEmpty ==
  ASSUME NEW A
  PROVE  <<>> \in Plans(A)
<1>1. <<>> \in Seq(A) /\ Len(<<>>) = 0
  BY EmptySeq
<1>2. Ordered(<<>>) /\ Starts(<<>>)
  BY <1>1 DEF Ordered, Starts
<1> QED BY <1>1, <1>2 DEF Plans

LEMMA PlansFlat ==
  ASSUME NEW A, NEW n \in Nat, NEW seqs \in [1..n -> Plans(A)]
  PROVE  FlattenSeq(seqs) \in Plans(A)
<1> DEFINE C == Plans(A)
<1>1. <<>> \in C /\ \A p, q \in C : p \o q \in C
  BY PlansJoin, PlansEmpty
<1> HIDE DEF C
<1>2. seqs \in [1..n -> C]
  BY DEF C
<1>3. FlattenSeq(seqs) \in C
  BY <1>1, <1>2, Flattened
<1> QED BY <1>3 DEF C

LEMMA TailJoins ==
  ASSUME NEW O, NEW F \in SUBSET O, \A a \in O, b \in F : Tied(a, b),
         NEW p \in Seq(O), Ordered(p), p # <<>>, p[1].kind \in Creating,
         NEW q \in Seq(O), \A j \in 1..Len(q) : q[j] \in F
  PROVE  /\ p \o q \in Seq(O) /\ Ordered(p \o q)
         /\ p \o q # <<>> /\ (p \o q)[1].kind \in Creating
<1>1. PICK m \in Nat, n \in Nat : m = Len(p) /\ n = Len(q) /\ m # 0
  BY LenProperties, EmptySeq
<1>2. \A j \in 1..n : q[j] \in F
  BY <1>1
<1>3. /\ p \o q \in Seq(O) /\ Len(p \o q) = m + n
      /\ \A k \in 1..m : (p \o q)[k] = p[k] /\ p[k] \in O
      /\ \A k \in (m + 1)..(m + n) :
            (p \o q)[k] = q[k - m] /\ k - m \in 1..n /\ q[k - m] \in O
  <2>1. p \in Seq(O) /\ q \in Seq(O) /\ m = Len(p) /\ n = Len(q) /\ m \in Nat /\ n \in Nat
    BY <1>1
  <2>2. p \o q \in Seq(O) /\ Len(p \o q) = m + n
    BY <2>1, Joined
  <2>3. \A k \in 1..m : (p \o q)[k] = p[k] /\ p[k] \in O
    BY <2>1, Joined
  <2>4. ASSUME NEW k \in (m + 1)..(m + n)
        PROVE  (p \o q)[k] = q[k - m] /\ k - m \in 1..n /\ q[k - m] \in O
    <3>1. (p \o q)[k] = q[k - m]
      BY <2>1, Joined
    <3>2. k - m \in 1..n
      OBVIOUS
    <3> QED BY <2>1, <3>1, <3>2, ElementOfSeq
  <2> QED BY <2>2, <2>3, <2>4
<1>4. ASSUME NEW k \in 1..(m + n - 1) PROVE Tied((p \o q)[k], (p \o q)[k + 1])
  <2>1. CASE k + 1 <= m
    <3>1. k \in 1..(m - 1) /\ k \in 1..m /\ k + 1 \in 1..m
      BY <2>1
    <3> QED BY <1>1, <1>3, <3>1 DEF Ordered
  <2>2. CASE ~(k + 1 <= m)
    <3>1. k + 1 \in (m + 1)..(m + n) /\ (k \in 1..m \/ k \in (m + 1)..(m + n))
      BY <2>2
    <3>2. (p \o q)[k + 1] \in F
      BY <1>2, <1>3, <3>1
    <3>3. (p \o q)[k] \in O
      BY <1>3, <3>1
    <3> QED BY <3>2, <3>3
  <2> QED BY <2>1, <2>2
<1>5. 1 \in 1..m /\ m + n # 0
  BY <1>1
<1>6. p \o q # <<>> /\ (p \o q)[1] = p[1]
  BY <1>3, <1>5, EmptySeq
<1>7. Ordered(p \o q)
  BY <1>3, <1>4 DEF Ordered
<1> QED BY <1>3, <1>6, <1>7


LEMMA Wider ==
  ASSUME NEW O, NEW F \in SUBSET O, NEW q \in Seq(F)
  PROVE  q \in Seq(O) /\ \A j \in 1..Len(q) : q[j] \in F
<1>1. PICK n \in Nat : n = Len(q) /\ DOMAIN q = 1..n /\ q \in [1..n -> F]
  BY LenProperties
<1>2. \A j \in 1..n : q[j] \in F
  BY <1>1, ElementOfSeq
<1>3. q \in [1..n -> O]
  BY <1>1, <1>2
<1> QED BY <1>1, <1>2, <1>3

(* The actions of one window follow on each other. *)
LEMMA BlockPlan ==
  ASSUME NEW sn \in Snapshots, NEW based \in BOOLEAN, NEW s \in Sessions,
         NEW w \in SavedWindow, SavedIn(sn, s, w),
         NEW fate \in Creating \cup {"skip"}, NEW isActive \in BOOLEAN,
         (based /\ fate = "new_session") => w.index = BaseIndex
  PROVE  Block(s, w, fate, isActive) \in Plans(Acts(sn, based))
<1> DEFINE A == Acts(sn, based)
           target == IF fate = "relocate" THEN Placeholder ELSE w.index
           do(kind, pane) == Act(kind, s, w, target, pane)
           O == {a \in A : /\ a.kind \in {fate} \cup Following
                           /\ a.session = s /\ a.saved = w /\ a.target = target}
           F == {a \in O : a.kind \in {"dress", "show", "type", "select"}}
<1>w. w.index \in Indexes /\ w.panes \in 1..3 /\ target \in Indexes \cup {Placeholder}
  BY DEF SavedWindow
<1>1. CASE fate = "skip"
  <2>1. do("note", 1) \in A
    BY <1>w DEF Acts, Act, Remarks
  <2> DEFINE p == <<do("note", 1)>>
  <2>2. p \in Seq(A) /\ Len(p) = 1 /\ p[1] = do("note", 1)
    BY <2>1
  <2>3. Ordered(p)
    BY <2>2 DEF Ordered
  <2>4. Starts(p)
    BY <2>2 DEF Starts, Act, Following
  <2>5. Block(s, w, fate, isActive) = p
    BY <1>1 DEF Block
  <2> QED BY <2>2, <2>3, <2>4, <2>5 DEF Plans
<1>2. CASE fate # "skip"
  <2>1. ASSUME NEW kind \in {fate} \cup Following, NEW pane \in 1..3,
               kind \in {"show", "type"} => pane <= w.panes
        PROVE  do(kind, pane) \in O
    <3>1. fate \in Creating
      BY <1>2
    <3>2. do(kind, pane) \in A
      BY <1>2, <1>w, <2>1, <3>1 DEF Acts, Act, Creating, Following, Remarks, Placeholder
    <3> QED BY <2>1, <3>2 DEF Act
  <2>2. \A a \in O, b \in F : Tied(a, b)
    <3>1. fate \in Creating
      BY <1>2
    <3> QED BY <3>1 DEF Tied
  <2>3. F \in SUBSET O
    OBVIOUS
  <2> DEFINE splits == [k \in 1..(w.panes - 1) |-> do("split", k + 1)]
             made == <<do(fate, 1)>> \o splits
             dress == <<do("dress", 1)>>
             texts == FlattenSeq([k \in 1..w.panes |-> <<do("show", k), do("type", k)>>])
             sel == IF isActive THEN <<do("select", 1)>> ELSE <<>>
  <2>4. Block(s, w, fate, isActive) = ((made \o dress) \o texts) \o sel
    BY <1>2 DEF Block
  <2>5. made \in Seq(O) /\ made # <<>> /\ made[1].kind \in Creating /\ Ordered(made)
    <3>1. PICK m \in 1..3 : m = w.panes
      BY <1>w
    <3>2. /\ <<do(fate, 1)>> \in Seq(O) /\ Len(<<do(fate, 1)>>) = 1
          /\ <<do(fate, 1)>>[1] = do(fate, 1)
      <4>1. do(fate, 1) \in O
        <5>1. fate \notin {"show", "type"}
          BY <1>2 DEF Creating
        <5> QED BY <2>1, <5>1
      <4> HIDE DEF do, O
      <4> QED BY <4>1
    <3>3. splits \in Seq(O) /\ Len(splits) = m - 1
      <4>1. \A k \in 1..(m - 1) : do("split", k + 1) \in O
        BY <2>1, <3>1 DEF Following
      <4> HIDE DEF do, O
      <4>2. splits \in [1..(m - 1) -> O] /\ m - 1 \in Nat
        BY <3>1, <4>1
      <4> HIDE DEF splits
      <4> QED BY <4>2, LenProperties
    <3> DEFINE one == <<do(fate, 1)>>
    <3>4. /\ made \in Seq(O) /\ Len(made) = m /\ made[1] = do(fate, 1)
          /\ \A k \in 2..m : made[k] = splits[k - 1]
      <4>1. one \in Seq(O) /\ Len(one) = 1 /\ one[1] = do(fate, 1)
        BY <3>2
      <4>2. made = one \o splits
        OBVIOUS
      <4> HIDE DEF one, splits, O, do, made
      <4>3. /\ one \o splits \in Seq(O) /\ Len(one \o splits) = 1 + (m - 1)
            /\ \A i \in 1..(1 + (m - 1)) : (one \o splits)[i] =
                  IF i <= 1 THEN one[i] ELSE splits[i - 1]
        <5>1. /\ one \o splits \in Seq(O) /\ Len(one \o splits) = Len(one) + Len(splits)
              /\ \A i \in 1..(Len(one) + Len(splits)) : (one \o splits)[i] =
                    IF i <= Len(one) THEN one[i] ELSE splits[i - Len(one)]
          BY <3>3, <4>1, ConcatProperties
        <5> QED BY <3>3, <4>1, <5>1
      <4>4. made \in Seq(O) /\ Len(made) = m
        BY <4>2, <4>3
      <4>5. made[1] = one[1]
        <5>1. 1 \in 1..(1 + (m - 1)) /\ 1 <= 1
          OBVIOUS
        <5> QED BY <4>2, <4>3, <5>1
      <4>6. ASSUME NEW k \in 2..m PROVE made[k] = splits[k - 1]
        <5>1. k \in 1..(1 + (m - 1)) /\ ~(k <= 1)
          OBVIOUS
        <5> QED BY <4>2, <4>3, <5>1
      <4> QED BY <4>1, <4>4, <4>5, <4>6
    <3>5. \A k \in 2..m : made[k] = do("split", k)
      <4>1. ASSUME NEW k \in 2..m PROVE splits[k - 1] = do("split", k)
        <5>1. k - 1 \in 1..(m - 1) /\ (k - 1) + 1 = k
          OBVIOUS
        <5> HIDE DEF do
        <5> QED BY <3>1, <5>1
      <4> HIDE DEF splits, do, made
      <4> QED BY <3>4, <4>1
    <3>6. ASSUME NEW k \in 1..(m - 1) PROVE Tied(made[k], made[k + 1])
      <4>1. made[k + 1] = do("split", k + 1)
        <5>1. k + 1 \in 2..m
          OBVIOUS
        <5> HIDE DEF made, do
        <5> QED BY <3>5, <5>1
      <4>2. made[k] = do(fate, 1) \/ made[k] = do("split", k)
        <5>1. k = 1 \/ k \in 2..m
          OBVIOUS
        <5> HIDE DEF made, do
        <5> QED BY <3>4, <3>5, <5>1
      <4>3. fate \in Creating
        BY <1>2
      <4> HIDE DEF made
      <4> QED BY <4>1, <4>2, <4>3 DEF Tied, Act, Following
    <3>7. made # <<>>
      <4> HIDE DEF made, O
      <4> QED BY <3>4, EmptySeq
    <3>8. Ordered(made)
      <4> HIDE DEF made
      <4> QED BY <3>4, <3>6 DEF Ordered
    <3>9. made[1].kind \in Creating
      <4> HIDE DEF made
      <4> QED BY <1>2, <3>4 DEF Act
    <3> QED BY <3>4, <3>7, <3>8, <3>9
  <2>6. dress \in Seq(F) /\ texts \in Seq(F) /\ sel \in Seq(F)
    <3>1. ASSUME NEW kind \in {"dress", "show", "type", "select"}, NEW pane \in 1..3, pane <= w.panes
          PROVE  do(kind, pane) \in F
      <4>1. kind \in Following
        BY DEF Following
      <4>2. do(kind, pane) \in O
        BY <2>1, <3>1, <4>1
      <4>3. do(kind, pane).kind = kind
        BY DEF Act
      <4> HIDE DEF do, O
      <4> QED BY <4>2, <4>3
    <3>2. dress \in Seq(F)
      <4>1. do("dress", 1) \in F
        BY <1>w, <3>1
      <4> HIDE DEF do, F
      <4> QED BY <4>1
    <3>3. sel \in Seq(F)
      <4>1. do("select", 1) \in F
        BY <1>w, <3>1
      <4> HIDE DEF do, F
      <4> QED BY <4>1
    <3>4. texts \in Seq(F)
      <4>1. PICK m \in 1..3 : m = w.panes
        BY <1>w
      <4>2. \A k \in 1..m : do("show", k) \in F /\ do("type", k) \in F
        BY <3>1, <4>1
      <4> DEFINE pair(k) == <<do("show", k), do("type", k)>>
                 pairs == [k \in 1..m |-> pair(k)]
      <4>3. \A k \in 1..m : pair(k) \in Seq(F)
        <5> HIDE DEF do, F
        <5> QED BY <4>2
      <4>4. texts = FlattenSeq(pairs)
        BY <4>1
      <4> HIDE DEF pair, texts, F, do
      <4>5. pairs \in [1..m -> Seq(F)] /\ m \in Nat
        BY <4>3
      <4> HIDE DEF pairs
      <4> QED BY <4>4, <4>5, Flatter
    <3> QED BY <3>2, <3>3, <3>4
  <2> HIDE DEF F, made, dress, texts, sel
  <2>7. \A q \in {dress, texts, sel} : q \in Seq(O) /\ \A j \in 1..Len(q) : q[j] \in F
    BY <2>3, <2>6, Wider
  <2> HIDE DEF O
  <2>8. /\ made \o dress \in Seq(O) /\ Ordered(made \o dress)
        /\ made \o dress # <<>> /\ (made \o dress)[1].kind \in Creating
    BY <2>2, <2>3, <2>5, <2>7, TailJoins
  <2> DEFINE two == made \o dress
  <2>9. /\ two \o texts \in Seq(O) /\ Ordered(two \o texts)
        /\ two \o texts # <<>> /\ (two \o texts)[1].kind \in Creating
    <3> HIDE DEF two
    <3>1. two \in Seq(O) /\ Ordered(two) /\ two # <<>> /\ two[1].kind \in Creating
      BY <2>8 DEF two
    <3> QED BY <2>2, <2>3, <3>1, <2>7, TailJoins
  <2> DEFINE three == two \o texts
  <2>10. /\ three \o sel \in Seq(O) /\ Ordered(three \o sel)
         /\ three \o sel # <<>> /\ (three \o sel)[1].kind \in Creating
    <3> HIDE DEF three
    <3>1. three \in Seq(O) /\ Ordered(three) /\ three # <<>> /\ three[1].kind \in Creating
      BY <2>9 DEF three
    <3> QED BY <2>2, <2>3, <3>1, <2>7, TailJoins
  <2> DEFINE four == three \o sel
  <2>11. four \in Seq(A)
    <3>1. O \in SUBSET A
      BY DEF O
    <3> HIDE DEF four, A
    <3> QED BY <2>10, <3>1, Wider DEF four
  <2>12. Starts(four)
    BY <2>10 DEF Starts, Creating, Following
  <2> QED BY <2>4, <2>10, <2>11, <2>12 DEF Plans
<1> QED BY <1>1, <1>2


LEMMA FateKinds ==
  ASSUME NEW l, NEW s, NEW windows, NEW k
  PROVE  /\ Fate(l, s, windows, k) \in Creating \cup {"skip"}
         /\ Fate(l, s, windows, k) = "new_session" => ~Exists(l, s) /\ k = 1
  BY DEF Fate, Creating

LEMMA OrderTypes ==
  ASSUME NEW l, NEW sess \in SavedSession
  PROVE  InPlanOrder(l, sess) \in Seq(DOMAIN sess.windows)
<1>1. PICK n \in Nat : n = Len(sess.windows) /\ DOMAIN sess.windows = 1..n
  BY LenProperties DEF SavedSession
<1> DEFINE D == DOMAIN sess.windows
           moves(k) == Fate(l, sess.name, sess.windows, k) = "relocate"
           picked(moving) == [k \in D |-> IF moves(k) = moving THEN <<k>> ELSE <<>>]
           those(moving) == FlattenSeq(picked(moving))
<1>2. ASSUME NEW moving PROVE those(moving) \in Seq(D)
  <2>1. \A k \in D : (IF moves(k) = moving THEN <<k>> ELSE <<>>) \in Seq(D)
    <3> HIDE DEF D, moves
    <3> QED OBVIOUS
  <2>2. picked(moving) \in [1..n -> Seq(D)]
    <3>1. D = 1..n
      BY <1>1
    <3> HIDE DEF D, moves
    <3> QED BY <2>1, <3>1
  <2> HIDE DEF D, picked
  <2> QED BY <2>2, Flatter
<1>3. InPlanOrder(l, sess) = those(FALSE) \o those(TRUE)
  BY DEF InPlanOrder
<1> HIDE DEF D, those
<1>4. those(FALSE) \o those(TRUE) \in Seq(D)
  BY <1>2, ConcatProperties
<1> QED BY <1>3, <1>4 DEF D

LEMMA RemarksPlan ==
  ASSUME NEW A, NEW p \in Seq(A), \A a \in A : a.kind \notin Following
  PROVE  Ordered(p) /\ Starts(p)
<1>1. PICK n \in Nat : n = Len(p) /\ \A k \in 1..n : p[k] \in A
  BY LenProperties, ElementOfSeq
<1>2. ASSUME NEW k \in 1..(n - 1) PROVE Tied(p[k], p[k + 1])
  <2>1. k + 1 \in 1..n
    OBVIOUS
  <2> QED BY <1>1, <2>1 DEF Tied
<1>3. p # <<>> => 1 \in 1..n
  BY <1>1, EmptySeq
<1> QED BY <1>1, <1>2, <1>3 DEF Ordered, Starts

LEMMA SessionPlanned ==
  ASSUME NEW sn \in Snapshots, NEW l, NEW based \in BOOLEAN, based => Based(sn, l),
         NEW n \in DOMAIN sn
  PROVE  SessionPlan(l, sn[n]) \in Plans(Acts(sn, based))
<1> DEFINE sess == sn[n]
<1>1. sn \in Seq(SavedSession) /\ sess \in SavedSession
  BY RestoreAssumption, LenProperties, ElementOfSeq
<1>2. PICK m \in Nat : m = Len(sess.windows) /\ DOMAIN sess.windows = 1..m
  BY <1>1, LenProperties DEF SavedSession
<1>3. \A k \in 1..m : sess.windows[k] \in SavedWindow
  BY <1>1, <1>2, ElementOfSeq DEF SavedSession
<1>4. CASE sess.name \in Unaddressable
  <2> DEFINE R == {a \in Acts(sn, based) : a.kind \in Remarks}
             warn == <<Act("warn", sess.name, NoWindow, Nothing, 1)>>
             notes == [k \in DOMAIN sess.windows |->
                          Act("note", sess.name, sess.windows[k], Nothing, 1)]
  <2>1. ASSUME NEW kind \in Remarks, NEW w \in SavedWindow \cup {NoWindow}
        PROVE  Act(kind, sess.name, w, Nothing, 1) \in R
    BY <1>1 DEF Acts, Act, Remarks, SavedSession, Nothing, Placeholder
  <2>2. warn \in Seq(R)
    <3>1. Act("warn", sess.name, NoWindow, Nothing, 1) \in R
      BY <2>1 DEF Remarks
    <3> HIDE DEF R
    <3> QED BY <3>1
  <2>3. notes \in Seq(R)
    <3>1. \A k \in 1..m : Act("note", sess.name, sess.windows[k], Nothing, 1) \in R
      BY <1>3, <2>1 DEF Remarks
    <3> HIDE DEF R
    <3>2. notes \in [1..m -> R]
      BY <1>2, <3>1
    <3> QED BY <3>2
  <2>4. SessionPlan(l, sess) = warn \o notes
    BY <1>4 DEF SessionPlan
  <2>5. \A a \in R : a.kind \notin Following
    BY DEF Remarks, Following
  <2>6. R \in SUBSET Acts(sn, based)
    OBVIOUS
  <2> DEFINE both == warn \o notes
  <2> HIDE DEF R, warn, notes
  <2>7. both \in Seq(R)
    BY <2>2, <2>3, ConcatProperties
  <2> HIDE DEF both
  <2>8. both \in Seq(Acts(sn, based))
    BY <2>6, <2>7, Wider
  <2>9. Ordered(both) /\ Starts(both)
    BY <2>5, <2>7, RemarksPlan
  <2> QED BY <2>4, <2>8, <2>9 DEF Plans, both
<1>5. CASE sess.name \notin Unaddressable
  <2>1. PICK order \in Seq(1..m) : order = InPlanOrder(l, sess)
    BY <1>1, <1>2, OrderTypes
  <2>2. PICK q \in Nat : q = Len(order) /\ DOMAIN order = 1..q /\ \A j \in 1..q : order[j] \in 1..m
    BY <2>1, LenProperties, ElementOfSeq
  <2> DEFINE fate(k) == Fate(l, sess.name, sess.windows, k)
             block(k) == Block(sess.name, sess.windows[k], fate(k),
                               sess.windows[k].index = sess.active)
             blocks == [j \in 1..q |-> block(order[j])]
  <2>3. SessionPlan(l, sess) = FlattenSeq(blocks)
    BY <1>5, <2>1, <2>2 DEF SessionPlan
  <2>4. ASSUME NEW k \in 1..m PROVE block(k) \in Plans(Acts(sn, based))
    <3>1. fate(k) \in Creating \cup {"skip"}
      BY FateKinds
    <3>2. (based /\ fate(k) = "new_session") => sess.windows[k].index = BaseIndex
      <4> SUFFICES ASSUME based, fate(k) = "new_session" PROVE sess.windows[k].index = BaseIndex
        OBVIOUS
      <4>1. ~Exists(l, sess.name) /\ k = 1
        BY FateKinds
      <4> QED BY <1>2, <1>5, <4>1 DEF Based
    <3>3. SavedIn(sn, sess.name, sess.windows[k])
      BY <1>2 DEF SavedIn
    <3>4. sess.name \in Sessions
      BY <1>1 DEF SavedSession
    <3>5. sess.windows[k] \in SavedWindow /\ (sess.windows[k].index = sess.active) \in BOOLEAN
      BY <1>3
    <3> HIDE DEF fate, sess
    <3> QED BY <3>1, <3>2, <3>3, <3>4, <3>5, BlockPlan
  <2>5. blocks \in [1..q -> Plans(Acts(sn, based))]
    <3> HIDE DEF block
    <3> QED BY <2>2, <2>4
  <2> HIDE DEF blocks
  <2> QED BY <2>3, <2>5, PlansFlat
<1> QED BY <1>4, <1>5

LEMMA PlanMade ==
  ASSUME NEW sn \in Snapshots, NEW l, NEW based \in BOOLEAN, based => Based(sn, l)
  PROVE  BuildPlan(l, sn) \in Plans(Acts(sn, based))
<1>1. PICK n \in Nat : n = Len(sn) /\ DOMAIN sn = 1..n
  BY RestoreAssumption, LenProperties
<1> DEFINE parts == [k \in DOMAIN sn |-> SessionPlan(l, sn[k])]
<1>2. parts \in [1..n -> Plans(Acts(sn, based))]
  BY <1>1, SessionPlanned
<1>3. BuildPlan(l, sn) = FlattenSeq(parts)
  BY DEF BuildPlan
<1> HIDE DEF parts
<1> QED BY <1>2, <1>3, PlansFlat


-----------------------------------------------------------------------------
(* Taking the first action off the plan *)

LEMMA TailParts ==
  ASSUME NEW A, NEW p \in Seq(A), p # <<>>
  PROVE  \E n \in Nat :
            /\ Len(p) = n + 1 /\ DOMAIN p = 1..(n + 1) /\ Len(Tail(p)) = n
            /\ DOMAIN Tail(p) = 1..n /\ Tail(p) \in Seq(A)
            /\ \A k \in 1..n : Tail(p)[k] = p[k + 1]
            /\ Head(p) = p[1] /\ p[1] \in A
<1>1. /\ Tail(p) \in Seq(A) /\ Len(Tail(p)) = Len(p) - 1
      /\ \A k \in 1..Len(Tail(p)) : Tail(p)[k] = p[k + 1]
      /\ Head(p) \in A /\ Len(p) \in Nat \ {0}
  BY HeadTailProperties, EmptySeq
<1>2. PICK n \in Nat : Len(p) = n + 1
  <2>1. Len(p) - 1 \in Nat /\ Len(p) = (Len(p) - 1) + 1
    BY <1>1
  <2> QED BY <2>1
<1>3. Len(Tail(p)) = n
  BY <1>1, <1>2
<1>4. DOMAIN p = 1..(n + 1) /\ DOMAIN Tail(p) = 1..n
  BY <1>1, <1>2, <1>3, LenProperties
<1>5. 1 \in 1..Len(p) /\ Head(p) = p[1]
  BY <1>2
<1>6. p[1] \in A
  BY <1>5, ElementOfSeq
<1> QED BY <1>1, <1>2, <1>3, <1>4, <1>5, <1>6

LEMMA TailOrdered ==
  ASSUME NEW A, NEW p \in Seq(A), p # <<>>, Ordered(p)
  PROVE  /\ Tail(p) \in Seq(A) /\ Ordered(Tail(p)) /\ Head(p) \in A /\ Head(p) = p[1]
         /\ Tail(p) # <<>> => Tied(Head(p), Tail(p)[1])
<1>1. PICK n \in Nat :
            /\ Len(p) = n + 1 /\ DOMAIN p = 1..(n + 1) /\ Len(Tail(p)) = n
            /\ DOMAIN Tail(p) = 1..n /\ Tail(p) \in Seq(A)
            /\ \A k \in 1..n : Tail(p)[k] = p[k + 1]
            /\ Head(p) = p[1] /\ p[1] \in A
  BY TailParts
<1>2. \A k \in 1..n : Tied(p[k], p[k + 1])
  <2>1. (n + 1) - 1 = n
    OBVIOUS
  <2> QED BY <1>1, <2>1 DEF Ordered
<1>3. ASSUME NEW k \in 1..(n - 1) PROVE Tied(Tail(p)[k], Tail(p)[k + 1])
  <2>1. k \in 1..n /\ k + 1 \in 1..n
    OBVIOUS
  <2> QED BY <1>1, <1>2, <2>1
<1>4. Ordered(Tail(p))
  BY <1>1, <1>3 DEF Ordered
<1>5. ASSUME Tail(p) # <<>> PROVE Tied(p[1], Tail(p)[1])
  <2>1. n # 0
    BY <1>1, <1>5, EmptySeq
  <2>2. 1 \in 1..n /\ Tail(p)[1] = p[1 + 1]
    BY <1>1, <2>1
  <2>3. 1 + 1 = 2
    OBVIOUS
  <2> QED BY <1>2, <2>2, <2>3
<1> QED BY <1>1, <1>4, <1>5

Counting(a) == a.kind \in Creating \cup {"note"}

LEMMA PlannedFinite ==
  ASSUME NEW A, NEW p \in Seq(A)
  PROVE  /\ IsFiniteSet({k \in DOMAIN p : Counting(p[k])})
         /\ PlannedWindows(p) \in Nat
<1>1. PICK n \in Nat : n = Len(p) /\ DOMAIN p = 1..n
  BY LenProperties
<1>2. IsFiniteSet(1..n)
  BY FS_Interval
<1>3. IsFiniteSet({k \in DOMAIN p : Counting(p[k])})
  BY <1>1, <1>2, FS_Subset
<1> QED BY <1>3, FS_CardinalityType DEF PlannedWindows, Counting

LEMMA PlannedTail ==
  ASSUME NEW A, NEW p \in Seq(A), p # <<>>
  PROVE  PlannedWindows(p) = PlannedWindows(Tail(p)) + IF Counting(Head(p)) THEN 1 ELSE 0
<1>1. PICK n \in Nat :
            /\ Len(p) = n + 1 /\ DOMAIN p = 1..(n + 1) /\ Len(Tail(p)) = n
            /\ DOMAIN Tail(p) = 1..n /\ Tail(p) \in Seq(A)
            /\ \A k \in 1..n : Tail(p)[k] = p[k + 1]
            /\ Head(p) = p[1] /\ p[1] \in A
  BY TailParts
<1> DEFINE whole == {k \in DOMAIN p : Counting(p[k])}
           rest == {k \in DOMAIN Tail(p) : Counting(Tail(p)[k])}
           moved == whole \ {1}
           f == [k \in rest |-> k + 1]
<1>2. f \in [rest -> moved]
  <2>1. ASSUME NEW k \in rest PROVE k + 1 \in moved
    <3>1. k \in 1..n /\ k + 1 \in 1..(n + 1) /\ k + 1 # 1
      BY <1>1
    <3> QED BY <1>1, <3>1
  <2> QED BY <2>1
<1>3. \A j, k \in rest : f[j] = f[k] => j = k
  BY <1>1
<1>4. \A k \in moved : \E j \in rest : f[j] = k
  <2>1. ASSUME NEW k \in moved PROVE \E j \in rest : f[j] = k
    <3>1. k \in 1..(n + 1) /\ k # 1 /\ Counting(p[k])
      BY <1>1
    <3>2. k - 1 \in 1..n /\ (k - 1) + 1 = k
      BY <3>1
    <3>3. k - 1 \in rest
      BY <1>1, <3>1, <3>2
    <3> QED BY <3>2, <3>3
  <2> QED BY <2>1
<1>5. ExistsBijection(rest, moved)
  BY <1>2, <1>3, <1>4 DEF ExistsBijection, Bijection, Injection, Surjection, IsInjective
<1>6. IsFiniteSet(rest) /\ IsFiniteSet(whole)
  BY <1>1, PlannedFinite
<1>7. Cardinality(moved) = Cardinality(rest)
  <2> HIDE DEF rest, moved
  <2> QED BY <1>5, <1>6, FS_Bijection
<1>8. Cardinality(moved) = IF 1 \in whole THEN Cardinality(whole) - 1 ELSE Cardinality(whole)
  <2> HIDE DEF whole
  <2> QED BY <1>6, FS_RemoveElement
<1>9. 1 \in whole <=> Counting(Head(p))
  BY <1>1
<1>10. PlannedWindows(p) = Cardinality(whole) /\ PlannedWindows(Tail(p)) = Cardinality(rest)
  BY DEF PlannedWindows, Counting
<1>11. Cardinality(whole) \in Nat /\ Cardinality(rest) \in Nat
  BY <1>6, FS_CardinalityType
<1> HIDE DEF whole, rest, moved
<1> QED BY <1>7, <1>8, <1>9, <1>10, <1>11

LEMMA PlannedNone == PlannedWindows(<<>>) = 0
<1>1. {k \in DOMAIN <<>> : <<>>[k].kind \in Creating \cup {"note"}} = {}
  OBVIOUS
<1> QED BY <1>1, FS_EmptySet DEF PlannedWindows

(* A pane put after the active one. *)
LEMMA PaneInserted ==
  ASSUME NEW P, NEW s \in Seq(P), s # <<>>, NEW e \in P
  PROVE  /\ InsertAt(s, 2, e) \in Seq(P) /\ InsertAt(s, 2, e) # <<>>
         /\ \A k \in DOMAIN InsertAt(s, 2, e) :
               InsertAt(s, 2, e)[k] = e \/ \E j \in DOMAIN s : InsertAt(s, 2, e)[k] = s[j]
<1>1. PICK n \in Nat : Len(s) = n /\ n # 0 /\ DOMAIN s = 1..n
  BY LenProperties, EmptySeq
<1> DEFINE a == SubSeq(s, 1, 1)
           b == SubSeq(s, 2, n)
           e1 == <<e>>
<1>2. a \in Seq(P) /\ Len(a) = 1 /\ a[1] = s[1]
  <2>1. \A i \in 1..1 : s[i] \in P
    BY <1>1, ElementOfSeq
  <2>2. /\ a \in Seq(P) /\ Len(a) = (IF 1 <= 1 THEN 1 - 1 + 1 ELSE 0)
        /\ \A i \in 1..(1 - 1 + 1) : a[i] = s[1 + i - 1]
    BY <2>1, SubSeqProperties
  <2>3. 1 \in 1..(1 - 1 + 1) /\ 1 + 1 - 1 = 1
    OBVIOUS
  <2> HIDE DEF a
  <2> QED BY <2>2, <2>3
<1>3. /\ b \in Seq(P) /\ Len(b) = n - 1
      /\ \A i \in 1..(n - 1) : b[i] = s[i + 1]
  <2>1. \A i \in 2..n : s[i] \in P
    BY <1>1, ElementOfSeq
  <2>2. /\ b \in Seq(P) /\ Len(b) = (IF 2 <= n THEN n - 2 + 1 ELSE 0)
        /\ \A i \in 1..(n - 2 + 1) : b[i] = s[2 + i - 1]
    BY <2>1, SubSeqProperties
  <2> HIDE DEF b
  <2>3. Len(b) = n - 1
    BY <1>1, <2>2
  <2>4. ASSUME NEW i \in 1..(n - 1) PROVE b[i] = s[i + 1]
    <3>1. i \in 1..(n - 2 + 1) /\ 2 + i - 1 = i + 1
      OBVIOUS
    <3> QED BY <2>2, <3>1
  <2> QED BY <2>2, <2>3, <2>4
<1>4. e1 \in Seq(P) /\ Len(e1) = 1 /\ e1[1] = e
  OBVIOUS
<1> HIDE DEF a, b, e1
<1>5. /\ a \o e1 \in Seq(P) /\ Len(a \o e1) = 2
      /\ (a \o e1)[1] = s[1] /\ (a \o e1)[2] = e
  <2>1. /\ a \o e1 \in Seq(P) /\ Len(a \o e1) = 1 + 1
        /\ \A i \in 1..(1 + 1) : (a \o e1)[i] = IF i <= 1 THEN a[i] ELSE e1[i - 1]
    <3>1. /\ a \o e1 \in Seq(P) /\ Len(a \o e1) = Len(a) + Len(e1)
          /\ \A i \in 1..(Len(a) + Len(e1)) :
                (a \o e1)[i] = IF i <= Len(a) THEN a[i] ELSE e1[i - Len(a)]
      BY <1>2, <1>4, ConcatProperties
    <3> QED BY <1>2, <1>4, <3>1
  <2>2. 1 \in 1..(1 + 1) /\ 2 \in 1..(1 + 1) /\ 2 - 1 = 1 /\ ~(2 <= 1)
    OBVIOUS
  <2>3. (a \o e1)[1] = a[1]
    BY <2>1, <2>2
  <2>4. (a \o e1)[2] = e1[1]
    BY <2>1, <2>2
  <2> QED BY <1>2, <1>4, <2>1, <2>3, <2>4
<1> DEFINE two == a \o e1
<1>6. InsertAt(s, 2, e) = two \o b
  <2>1. 2 - 1 = 1
    OBVIOUS
  <2> QED BY <1>1, <2>1 DEF InsertAt, a, b, e1
<1>7. two \in Seq(P) /\ Len(two) = 2 /\ two[1] = s[1] /\ two[2] = e
  BY <1>5
<1> HIDE DEF two
<1>8. /\ two \o b \in Seq(P) /\ Len(two \o b) = 2 + (n - 1)
      /\ \A i \in 1..(2 + (n - 1)) : (two \o b)[i] = IF i <= 2 THEN two[i] ELSE b[i - 2]
  <2>1. /\ two \o b \in Seq(P) /\ Len(two \o b) = Len(two) + Len(b)
        /\ \A i \in 1..(Len(two) + Len(b)) :
              (two \o b)[i] = IF i <= Len(two) THEN two[i] ELSE b[i - Len(two)]
    BY <1>3, <1>7, ConcatProperties
  <2> QED BY <1>3, <1>7, <2>1
<1>9. ASSUME NEW k \in 1..(2 + (n - 1))
      PROVE  (two \o b)[k] = e \/ \E j \in 1..n : (two \o b)[k] = s[j]
  <2>1. CASE k = 1
    <3>1. (two \o b)[k] = s[1] /\ 1 \in 1..n
      BY <1>1, <1>7, <1>8, <2>1
    <3> QED BY <3>1
  <2>2. CASE k = 2
    BY <1>7, <1>8, <2>2
  <2>3. CASE k # 1 /\ k # 2
    <3>1. ~(k <= 2) /\ k - 2 \in 1..(n - 1) /\ (k - 2) + 1 \in 1..n
      BY <2>3
    <3>2. (two \o b)[k] = s[(k - 2) + 1]
      BY <1>3, <1>8, <3>1
    <3> QED BY <3>1, <3>2
  <2> QED BY <2>1, <2>2, <2>3
<1>10. DOMAIN (two \o b) = 1..(2 + (n - 1)) /\ two \o b # <<>>
  <2>1. 2 + (n - 1) # 0
    BY <1>1
  <2> QED BY <1>8, <2>1, LenProperties, EmptySeq
<1> DEFINE all == two \o b
<1>11. /\ all \in Seq(P) /\ all # <<>>
       /\ \A k \in DOMAIN all : all[k] = e \/ \E j \in DOMAIN s : all[k] = s[j]
  BY <1>1, <1>8, <1>9, <1>10
<1>12. InsertAt(s, 2, e) = all
  BY <1>6
<1> HIDE DEF all
<1> QED BY <1>11, <1>12


-----------------------------------------------------------------------------
(* Types *)

LEMMA Loose ==
  ASSUME NEW sn
  PROVE  Acts(sn, TRUE) \in SUBSET Acts(sn, FALSE)
  BY DEF Acts

LEMMA AtIndex ==
  ASSUME NEW sn, NEW based, NEW a \in Acts(sn, based), NEW w, NEW i \in At(a, w)
  PROVE  i \in Indexes
<1>1. BaseIndex \in Indexes
  BY RestoreAssumption
<1>2. a.target \in Indexes \cup {Placeholder}
  BY DEF Acts
<1> QED BY <1>1, <1>2 DEF At, NextFree

LEMMA EffectTyped ==
  ASSUME NEW sn, NEW based, NEW a \in Acts(sn, based), a.kind \notin Remarks,
         NEW W \in Window, a.kind \notin Creating => W # Gap,
         a.kind \in {"show", "type"} => a.pane \in DOMAIN W.panes
  PROVE  Effect(a, W) \in Window
<1>1. /\ a.kind \in Creating \cup Following /\ a.pane \in 1..3
      /\ a.saved.name \in Names /\ a.saved.index \in Indexes
  BY DEF Acts, SavedWindow
<1>2. \A c \in 1..3 \cup {Nothing} : Fresh(c) \in Pane
  BY DEF Fresh, Pane
<1>3. CASE a.kind \in Creating
  <2>1. <<Fresh(1)>> \in Seq(Pane) \ {<<>>}
    <3>1. Fresh(1) \in Pane
      BY <1>2
    <3> HIDE DEF Fresh
    <3> QED BY <3>1, EmptySeq
  <2>2. Effect(a, W) = [name |-> a.saved.name, origin |-> a.saved.index,
                        panes |-> <<Fresh(1)>>, dressed |-> FALSE]
    BY <1>3 DEF Effect, Creating
  <2> QED BY <1>1, <2>1, <2>2 DEF Window
<1>4. CASE a.kind \notin Creating
  <2>1. /\ W = [name |-> W.name, origin |-> W.origin, panes |-> W.panes, dressed |-> W.dressed]
        /\ W.name \in Names /\ W.origin \in Indexes \cup {User}
        /\ W.panes \in Seq(Pane) /\ W.panes # <<>> /\ W.dressed \in BOOLEAN
    BY <1>4 DEF Window
  <2>2. CASE a.kind = "split"
    <3>1. InsertAt(W.panes, 2, Fresh(a.pane)) \in Seq(Pane) \ {<<>>}
      <4>1. Fresh(a.pane) \in Pane
        BY <1>1, <1>2
      <4> QED BY <2>1, <4>1, PaneInserted
    <3>2. Effect(a, W) = [name |-> W.name, origin |-> W.origin,
                          panes |-> InsertAt(W.panes, 2, Fresh(a.pane)), dressed |-> W.dressed]
      BY <1>4, <2>1, <2>2 DEF Effect
    <3> QED BY <2>1, <3>1, <3>2 DEF Window
  <2>3. CASE a.kind = "dress"
    <3>1. Effect(a, W) = [name |-> W.name, origin |-> W.origin,
                          panes |-> W.panes, dressed |-> TRUE]
      BY <1>4, <2>1, <2>3 DEF Effect
    <3> QED BY <2>1, <3>1 DEF Window
  <2>4. CASE a.kind = "select"
    BY <1>4, <2>4 DEF Effect
  <2>5. CASE a.kind \in {"show", "type"}
    <3>1. PICK n \in Nat : n = Len(W.panes) /\ DOMAIN W.panes = 1..n /\ W.panes \in [1..n -> Pane]
      BY <2>1, LenProperties
    <3>2. W.panes[a.pane] \in Pane
      BY <3>1, <2>5
    <3>3. PICK ps \in Seq(Pane) \ {<<>>} : Effect(a, W) = [W EXCEPT !.panes = ps]
      <4> DEFINE q == W.panes[a.pane]
                 new == IF a.kind = "show" THEN [q EXCEPT !.shown = a.pane]
                        ELSE [q EXCEPT !.typed = a.pane]
                 ps == [W.panes EXCEPT ![a.pane] = new]
      <4>1. new \in Pane
        BY <1>1, <3>2 DEF Pane
      <4>2. ps \in [1..n -> Pane]
        <5> HIDE DEF new
        <5> QED BY <3>1, <4>1
      <4>3. ps \in Seq(Pane) /\ Len(ps) = n
        <5> HIDE DEF ps
        <5> QED BY <4>2, LenProperties
      <4>4. ps # <<>>
        <5>1. n # 0
          BY <2>1, <3>1, EmptySeq
        <5> HIDE DEF ps
        <5> QED BY <4>3, <5>1, EmptySeq
      <4>5. Effect(a, W) = [W EXCEPT !.panes = ps]
        BY <1>4, <2>5 DEF Effect
      <4> HIDE DEF ps
      <4> QED BY <4>3, <4>4, <4>5
    <3>4. Effect(a, W) = [name |-> W.name, origin |-> W.origin, panes |-> ps, dressed |-> W.dressed]
      BY <2>1, <3>3
    <3> QED BY <2>1, <3>4 DEF Window
  <2> QED BY <1>1, <1>4, <2>2, <2>3, <2>4, <2>5 DEF Following
<1> QED BY <1>3, <1>4

(* What a step of Apply finds at the head of the plan. *)
LEMMA Consumed ==
  ASSUME NEW based \in BOOLEAN, Planning(based), Consume
  PROVE  /\ plan' \in Seq(Acts(snap', based)) /\ Ordered(plan')
         /\ Head(plan) \in Acts(snap, based) /\ Head(plan) = plan[1] /\ plan # <<>>
         /\ plan' # <<>> => Tied(Head(plan), plan'[1])
<1>1. /\ plan \in Seq(Acts(snap, based)) /\ plan # <<>> /\ Ordered(plan)
      /\ plan' = Tail(plan) /\ snap' = snap
  BY DEF Planning, Consume
<1>2. /\ Tail(plan) \in Seq(Acts(snap, based)) /\ Ordered(Tail(plan))
      /\ Head(plan) \in Acts(snap, based) /\ Head(plan) = plan[1]
      /\ Tail(plan) # <<>> => Tied(Head(plan), Tail(plan)[1])
  BY <1>1, TailOrdered
<1>3. Ordered(plan')
  BY <1>1, <1>2 DEF Ordered
<1> QED BY <1>1, <1>2, <1>3

LEMMA PlanStep ==
  ASSUME NEW based \in BOOLEAN, Planning(based), [RNext]_rvars
  PROVE  /\ plan' \in Seq(Acts(snap', based)) /\ Ordered(plan')
         /\ ~(Consume \/ plan' = plan) => Starts(plan')
<1>1. /\ snap \in Snapshots /\ plan \in Seq(Acts(snap, based)) /\ Ordered(plan)
      /\ based => Based(snap, live)
  BY DEF Planning, Typed
<1>2. CASE plan' = plan /\ snap' = snap
  BY <1>1, <1>2 DEF Ordered
<1>3. CASE Consume
  BY <1>3, Consumed
<1>4. CASE snap' = snap /\ plan' = <<>>
  <2>1. <<>> \in Plans(Acts(snap, based))
    BY PlansEmpty
  <2> QED BY <1>4, <2>1 DEF Plans, Ordered, Starts
<1>5. CASE StartRestore
  <2>1. plan' = BuildPlan(live, snap) /\ snap' = snap
    BY <1>5 DEF StartRestore
  <2>2. BuildPlan(live, snap) \in Plans(Acts(snap, based))
    BY <1>1, PlanMade
  <2> QED BY <2>1, <2>2 DEF Plans, Ordered, Starts
<1> QED BY <1>2, <1>3, <1>4, <1>5
        DEF RNext, Apply, ApplyQuiet, ApplySkip, ApplyRun, ApplyUnheard, ApplyRefused, Finish,
            Cancelled,
            Stop, UserOpens, rvars


(* What a command that is carried out does to the server, be Apply told or  *)
(* not.                                                                     *)
LEMMA Ran ==
  ASSUME NEW based \in BOOLEAN, Planning(based), ApplyRun \/ ApplyUnheard
  PROVE  \E i \in Indexes :
            /\ i \in At(Head(plan), Target(Head(plan))) /\ Accepts(Head(plan), i)
            /\ live' = [live EXCEPT ![Head(plan).session][i] =
                           Effect(Head(plan), live[Head(plan).session][i])]
            /\ win' = IF ApplyRun /\ Head(plan).kind = "relocate" THEN i ELSE Target(Head(plan))
            /\ Effect(Head(plan), live[Head(plan).session][i]) \in Window
            /\ live[Head(plan).session][i] \in Window
            /\ Head(plan).session \in Sessions
            /\ Head(plan).kind \notin Creating => live[Head(plan).session][i] # Gap
<1> DEFINE a == Head(plan)
<1>1. a \in Acts(snap, based) /\ a.kind \notin Remarks
  BY Consumed DEF ApplyRun, ApplyUnheard, Runs, Remarks
<1>2. \E i \in At(a, Target(a)) :
            /\ Accepts(a, i)
            /\ live' = [live EXCEPT ![a.session][i] = Effect(a, @)]
            /\ win' = IF ApplyRun /\ a.kind = "relocate" THEN i ELSE Target(a)
  <2>1. CASE ApplyRun
    <3>1. PICK i \in At(a, Target(a)) :
              Done(a, i) /\ win' = IF a.kind = "relocate" THEN i ELSE Target(a)
      BY <2>1 DEF ApplyRun
    <3> HIDE DEF a
    <3> QED BY <2>1, <3>1 DEF Done
  <2>2. CASE ~ApplyRun
    <3>1. (\E i \in At(a, Target(a)) : Done(a, i)) /\ win' = Target(a)
      BY <2>2 DEF ApplyUnheard, Failed
    <3> HIDE DEF a
    <3> QED BY <2>2, <3>1 DEF Done
  <2> QED BY <2>1, <2>2
<1>0. PICK i \in At(a, Target(a)) :
            /\ Accepts(a, i)
            /\ live' = [live EXCEPT ![a.session][i] = Effect(a, @)]
            /\ win' = IF ApplyRun /\ a.kind = "relocate" THEN i ELSE Target(a)
  BY <1>2
<1>3. i \in Indexes
  BY <1>1, AtIndex
<1>4. a.session \in Sessions
  BY <1>1 DEF Acts
<1>5. live[a.session][i] \in Window
  BY <1>3, <1>4 DEF Planning, Typed
<1>6. /\ a.kind \notin Creating => live[a.session][i] # Gap
      /\ a.kind \in {"show", "type"} => a.pane \in DOMAIN live[a.session][i].panes
  BY <1>0 DEF Accepts, Creating
<1>7. Effect(a, live[a.session][i]) \in Window
  BY <1>1, <1>5, <1>6, EffectTyped
<1>8. live' = [live EXCEPT ![a.session][i] = Effect(a, live[a.session][i])]
  <2>1. live \in [Sessions -> [Indexes -> Window]]
    BY DEF Planning, Typed
  <2> HIDE DEF a
  <2> QED BY <1>0, <1>3, <1>4, <2>1
<1> QED BY <1>0, <1>3, <1>4, <1>5, <1>6, <1>7, <1>8

LEMMA OpenedTyped ==
  ASSUME NEW name \in Names
  PROVE  /\ Opened(name) \in Window /\ Opened(name) # Gap
         /\ Opened(name).panes = <<Fresh(Nothing)>>
<1>1. Fresh(Nothing) \in Pane
  BY DEF Fresh, Pane
<1>2. <<Fresh(Nothing)>> \in Seq(Pane) /\ <<Fresh(Nothing)>> # <<>>
  <2> HIDE DEF Fresh
  <2> QED BY <1>1, EmptySeq
<1>3. Opened(name) \in Window /\ Opened(name).panes = <<Fresh(Nothing)>>
  BY <1>2 DEF Window, Opened
<1>4. Opened(name) # Gap
  <2>1. Opened(name).name = name /\ Gap.name = "" /\ name # ""
    BY RestoreAssumption DEF Opened, Gap
  <2> QED BY <2>1
<1> QED BY <1>3, <1>4

LEMMA TypedStep ==
  ASSUME NEW based \in BOOLEAN, Planning(based), [RNext]_rvars
  PROVE  Typed'
<1>1. /\ Typed /\ snap \in Snapshots /\ live \in [Sessions -> [Indexes -> Window]]
      /\ win \in Indexes \cup {Nothing} /\ aborted \in Sessions \cup {""} /\ skipping \in BOOLEAN
      /\ running \in BOOLEAN /\ (~running => plan = <<>>) /\ up \in BOOLEAN
  BY DEF Planning, Typed
<1>2. CASE UNCHANGED rvars
  BY <1>1, <1>2 DEF Typed, rvars
<1>3. CASE StartRestore
  BY <1>1, <1>3 DEF Typed, StartRestore
<1>4. CASE ApplyQuiet
  BY <1>1, <1>4 DEF Typed, ApplyQuiet, Consume, applyvars
<1>5. CASE ApplySkip
  BY <1>1, <1>5 DEF Typed, ApplySkip, Consume, applyvars
<1>6. CASE ApplyRun \/ ApplyUnheard
  <2> DEFINE a == Head(plan)
  <2>1. PICK i \in Indexes :
            /\ live' = [live EXCEPT ![a.session][i] = Effect(a, live[a.session][i])]
            /\ win' = IF ApplyRun /\ a.kind = "relocate" THEN i ELSE Target(a)
            /\ Effect(a, live[a.session][i]) \in Window
            /\ a.session \in Sessions
    BY <1>6, Ran
  <2>2. live' \in [Sessions -> [Indexes -> Window]]
    <3> HIDE DEF a
    <3> QED BY <1>1, <2>1
  <2>3. win' \in Indexes \cup {Nothing}
    BY <1>1, <2>1 DEF Target
  <2>4. skipping' \in BOOLEAN /\ up' \in BOOLEAN /\ UNCHANGED <<running, snap>> /\ running
    BY <1>1, <1>6 DEF ApplyRun, ApplyUnheard, Failed, Consume
  <2>5. aborted' \in Sessions \cup {""}
    BY <1>1, <1>6, <2>1 DEF ApplyRun, ApplyUnheard, Failed
  <2> QED BY <1>1, <2>2, <2>3, <2>4, <2>5 DEF Typed
<1>7. CASE ApplyRefused
  <2>1. /\ UNCHANGED <<live, running, snap>> /\ running
        /\ win' = Target(Head(plan))
        /\ skipping' = (skipping \/ Head(plan).kind \in Creating)
        /\ aborted' = IF Head(plan).kind = "new_session" THEN Head(plan).session ELSE aborted
        /\ up' \in BOOLEAN
    BY <1>1, <1>7 DEF ApplyRefused, Failed, Consume
  <2>2. Head(plan).session \in Sessions
    BY <1>7, Consumed DEF ApplyRefused, Acts
  <2>3. skipping' \in BOOLEAN
    BY <1>1, <2>1
  <2>4. win' \in Indexes \cup {Nothing} /\ aborted' \in Sessions \cup {""}
    BY <1>1, <2>1, <2>2 DEF Target
  <2> QED BY <1>1, <2>1, <2>3, <2>4 DEF Typed
<1>8. CASE Finish \/ Cancelled
  BY <1>1, <1>8 DEF Typed, Finish, Cancelled, Stop, applyvars
<1>9. CASE UserOpens
  <2>1. PICK s \in Sessions, i \in Indexes, name \in Names :
            live' = [live EXCEPT ![s][i] = Opened(name)]
    BY <1>9 DEF UserOpens
  <2>2. Opened(name) \in Window
    BY OpenedTyped
  <2>3. live' \in [Sessions -> [Indexes -> Window]]
    BY <1>1, <2>1, <2>2
  <2>4. UNCHANGED <<snap, plan, running, win, aborted, skipping>>
    BY <1>9 DEF UserOpens, applyvars
  <2>5. up' = up
    BY <1>9 DEF UserOpens
  <2> QED BY <1>1, <2>3, <2>4, <2>5 DEF Typed
<1> QED BY <1>2, <1>3, <1>4, <1>5, <1>6, <1>7, <1>8, <1>9 DEF RNext, Apply

LEMMA CountsStep ==
  ASSUME NEW based \in BOOLEAN, Planning(based), Counts, [RNext]_rvars
  PROVE  Counts'
<1> DEFINE R == [created : Nat, relocated : Nat, skipped : Nat, notes : Nat]
           sum(r) == r.created + r.relocated + r.skipped
<1>1. /\ report \in R /\ planned \in Nat /\ sum(report) + PlannedWindows(plan) <= planned
      /\ sum(report) \in Nat
  BY DEF Counts
<1>2. plan \in Seq(Acts(snap, based)) /\ PlannedWindows(plan) \in Nat
  BY PlannedFinite DEF Planning
<1>3. CASE UNCHANGED <<plan, report, planned>>
  BY <1>1, <1>3 DEF Counts, PlannedWindows
<1>4. CASE plan' = <<>> /\ UNCHANGED <<report, planned>>
  <2>1. PlannedWindows(plan') = 0
    BY <1>4, PlannedNone
  <2>2. report' \in R /\ planned' \in Nat /\ sum(report') + 0 <= planned'
    BY <1>1, <1>2, <1>4
  <2> QED BY <2>1, <2>2 DEF Counts, PlannedWindows
<1>5. CASE StartRestore
  <2>1. plan' \in Seq(Acts(snap', based))
    BY <1>5, PlanStep
  <2>2. /\ report' = NoReport /\ planned' = PlannedWindows(plan')
    BY <1>5 DEF StartRestore
  <2>3. PlannedWindows(plan') \in Nat
    BY <2>1, PlannedFinite
  <2>4. report' \in R /\ sum(report') = 0
    BY <2>2 DEF NoReport
  <2>5. sum(report') + PlannedWindows(plan') <= planned' /\ planned' \in Nat
    BY <2>2, <2>3, <2>4
  <2> QED BY <2>4, <2>5 DEF Counts, PlannedWindows
<1>6. CASE /\ Consume
           /\ ApplyQuiet \/ ApplySkip \/ ApplyRun \/ ApplyUnheard \/ ApplyRefused
  <2> DEFINE a == Head(plan)
  <2>1. plan # <<>> /\ plan' = Tail(plan) /\ planned' = planned
    BY <1>6 DEF Consume
  <2>2. PlannedWindows(plan) = PlannedWindows(plan') + IF Counting(a) THEN 1 ELSE 0
    BY <1>2, <2>1, PlannedTail
  <2>3. PlannedWindows(plan') \in Nat
    <3>1. plan' \in Seq(Acts(snap', based))
      BY <1>6, Consumed
    <3> QED BY <3>1, PlannedFinite
  <2>4. report' \in R /\ sum(report') <= sum(report) + IF Counting(a) THEN 1 ELSE 0
    <3>1. CASE ApplyQuiet
      <4>1. report' = report \/ (Counting(a) /\ report' = [report EXCEPT !.skipped = @ + 1])
            \/ report' = [report EXCEPT !.notes = @ + 1]
        BY <3>1 DEF ApplyQuiet, Counting
      <4> HIDE DEF a
      <4> QED BY <1>1, <4>1
    <3>2. CASE ApplySkip
      BY <1>1, <3>2 DEF ApplySkip
    <3>3. CASE ApplyRun
      <4>1. report' = report \/ (Counting(a) /\ report' = [report EXCEPT !.created = @ + 1])
            \/ (Counting(a) /\ report' = [report EXCEPT !.relocated = @ + 1])
        BY <3>3 DEF ApplyRun, Counted, Counting, Creating
      <4> HIDE DEF a
      <4> QED BY <1>1, <4>1
    <3>4. CASE ApplyUnheard \/ ApplyRefused
      <4>1. report' = [report EXCEPT !.notes = @ + 1]
        BY <3>4 DEF ApplyUnheard, ApplyRefused, Failed
      <4> HIDE DEF a
      <4> QED BY <1>1, <4>1
    <3> QED BY <1>6, <3>1, <3>2, <3>3, <3>4
  <2>5. sum(report') \in Nat
    BY <2>4
  <2>6. sum(report') + PlannedWindows(plan') <= planned' /\ planned' \in Nat
    <3> HIDE DEF a, sum
    <3>1. CASE Counting(a)
      BY <1>1, <1>2, <2>1, <2>2, <2>3, <2>4, <2>5, <3>1, SMTT(30)
    <3>2. CASE ~Counting(a)
      BY <1>1, <1>2, <2>1, <2>2, <2>3, <2>4, <2>5, <3>2, SMTT(30)
    <3> QED BY <3>1, <3>2
  <2> QED BY <2>4, <2>6 DEF Counts, PlannedWindows
<1> QED BY <1>3, <1>4, <1>5, <1>6
        DEF RNext, Apply, ApplyQuiet, ApplySkip, ApplyRun, ApplyUnheard, ApplyRefused, Finish,
            Cancelled,
            Stop, UserOpens, rvars


LEMMA UserWindowTyped ==
  ASSUME NEW W \in UserWindows
  PROVE  /\ W \in Window /\ W.origin = User
         /\ \A k \in DOMAIN W.panes : W.panes[k] = Fresh(Nothing)
<1>1. CASE W = Gap
  <2>1. W \in Window
    BY <1>1 DEF Window
  <2>2. W.origin = User /\ W.panes = <<>>
    BY <1>1 DEF Gap
  <2> QED BY <2>1, <2>2
<1>2. CASE W # Gap
  <2>1. W \in [name : Names, origin : {User}, panes : Seq({Fresh(Nothing)}) \ {<<>>},
               dressed : {FALSE}]
    BY <1>2 DEF UserWindows
  <2>2. {Fresh(Nothing)} \in SUBSET Pane
    BY DEF Fresh, Pane
  <2>3. W.panes \in Seq(Pane)
    <3>1. W.panes \in Seq({Fresh(Nothing)})
      BY <2>1
    <3> HIDE DEF Fresh
    <3> QED BY <2>2, <3>1, Wider
  <2>4. ASSUME NEW k \in DOMAIN W.panes PROVE W.panes[k] = Fresh(Nothing)
    <3>1. W.panes \in Seq({Fresh(Nothing)})
      BY <2>1
    <3>2. W.panes[k] \in {Fresh(Nothing)}
      <4> HIDE DEF Fresh
      <4>1. PICK n \in Nat : n = Len(W.panes) /\ DOMAIN W.panes = 1..n
        BY <3>1, LenProperties
      <4> QED BY <3>1, <4>1, ElementOfSeq
    <3> QED BY <3>2
  <2> QED BY <2>1, <2>3, <2>4 DEF Window
<1> QED BY <1>1, <1>2

LEMMA PlanningInit ==
  ASSUME RInit, NEW based \in BOOLEAN, based => FromBase
  PROVE  Planning(based)
<1>1. snap \in Snapshots /\ live \in Servers /\ plan = <<>>
  BY DEF RInit
<1>2. live \in [Sessions -> [Indexes -> UserWindows]]
  BY <1>1, RestoreAssumption
<1>3. live \in [Sessions -> [Indexes -> Window]]
  <2>1. UserWindows \subseteq Window
    BY UserWindowTyped
  <2> QED BY <1>2, <2>1
<1>4. Typed
  BY <1>1, <1>3 DEF Typed, RInit
<1>5. plan \in Seq(Acts(snap, based)) /\ Ordered(plan)
  BY <1>1, PlansEmpty DEF Plans, Ordered
<1>6. based => Based(snap, live)
  BY <1>1 DEF FromBase
<1> QED BY <1>4, <1>5, <1>6 DEF Planning

LEMMA CountsInit ==
  ASSUME RInit
  PROVE  Counts
<1>1. plan = <<>> /\ report = NoReport /\ planned = 0
  BY DEF RInit
<1>2. PlannedWindows(plan) = 0
  BY <1>1, PlannedNone
<1> QED BY <1>1, <1>2 DEF Counts, NoReport

LEMMA NamedOrGap ==
  ASSUME NEW W \in Window
  PROVE  W # Gap <=> W.name # ""
<1>1. Gap.name = ""
  BY DEF Gap
<1>2. W # Gap => W.name \in Names
  BY DEF Window
<1> QED BY <1>1, <1>2, RestoreAssumption

LEMMA EffectName ==
  ASSUME NEW a, NEW W \in Window, a.kind \in Creating \cup Following,
         a.kind \notin Creating => W # Gap
  PROVE  /\ a.kind \in Creating =>
              /\ Effect(a, W).name = a.saved.name /\ Effect(a, W).origin = a.saved.index
              /\ Effect(a, W).panes = <<Fresh(1)>>
         /\ a.kind \notin Creating => Effect(a, W).name = W.name /\ Effect(a, W).origin = W.origin
         /\ a.kind = "split" => Effect(a, W).panes = InsertAt(W.panes, 2, Fresh(a.pane))
         /\ a.kind \in {"dress", "select"} => Effect(a, W).panes = W.panes
         /\ a.kind = "show" => Effect(a, W).panes = [W.panes EXCEPT ![a.pane].shown = a.pane]
         /\ a.kind = "type" => Effect(a, W).panes = [W.panes EXCEPT ![a.pane].typed = a.pane]
<1>1. CASE a.kind \in Creating
  <2>1. Effect(a, W) = [name |-> a.saved.name, origin |-> a.saved.index,
                        panes |-> <<Fresh(1)>>, dressed |-> FALSE]
    BY <1>1 DEF Effect, Creating
  <2> QED BY <1>1, <2>1 DEF Creating
<1>2. CASE a.kind \notin Creating
  <2>1. DOMAIN W = {"name", "origin", "panes", "dressed"}
    BY <1>2 DEF Window
  <2> QED BY <1>2, <2>1 DEF Effect, Following
<1> QED BY <1>1, <1>2

(* A window stays, if not as it was. *)
LEMMA WindowsStay ==
  ASSUME NEW based \in BOOLEAN, Planning(based), [RNext]_rvars,
         NEW s \in Sessions, NEW i \in Indexes, live[s][i] # Gap
  PROVE  live'[s][i] # Gap
<1>1. live \in [Sessions -> [Indexes -> Window]] /\ live[s][i] \in Window
  BY DEF Planning, Typed
<1>2. CASE ApplyRun \/ ApplyUnheard
  <2> DEFINE a == Head(plan)
  <2>1. PICK j \in Indexes :
            /\ live' = [live EXCEPT ![a.session][j] = Effect(a, live[a.session][j])]
            /\ Effect(a, live[a.session][j]) \in Window
            /\ live[a.session][j] \in Window /\ a.session \in Sessions
            /\ a.kind \notin Creating => live[a.session][j] # Gap
    BY <1>2, Ran
  <2>2. a.kind \in Creating \cup Following /\ (a.kind \in Creating => a.saved.name \in Names)
    BY <1>2, Consumed DEF ApplyRun, ApplyUnheard, Runs, Acts, Remarks, SavedWindow, Creating
  <2>3. Effect(a, live[a.session][j]).name # ""
    <3>1. CASE a.kind \in Creating
      <4>1. Effect(a, live[a.session][j]).name = a.saved.name
        BY <2>1, <2>2, <3>1, EffectName
      <4> QED BY <2>2, <3>1, <4>1, RestoreAssumption
    <3>2. CASE a.kind \notin Creating
      BY <2>1, <2>2, <3>2, EffectName, NamedOrGap, ZenonT(60)
    <3> QED BY <3>1, <3>2
  <2>4. Effect(a, live[a.session][j]) # Gap
    BY <2>1, <2>3, NamedOrGap
  <2> HIDE DEF a
  <2> QED BY <1>1, <2>1, <2>4
<1>3. CASE UserOpens
  <2>1. PICK t \in Sessions, j \in Indexes, name \in Names :
            live[t][j] = Gap /\ live' = [live EXCEPT ![t][j] = Opened(name)]
    BY <1>3 DEF UserOpens
  <2> QED BY <1>1, <2>1
<1>4. CASE live' = live
  BY <1>4
<1> QED BY <1>2, <1>3, <1>4
        DEF RNext, Apply, StartRestore, ApplyQuiet, ApplySkip, ApplyRefused, Finish, Cancelled,
            Stop, rvars

LEMMA PlanningStep ==
  ASSUME NEW based \in BOOLEAN, Planning(based), [RNext]_rvars
  PROVE  Planning(based)'
<1>1. Typed' /\ plan' \in Seq(Acts(snap', based)) /\ Ordered(plan')
  BY TypedStep, PlanStep
<1>2. snap' = snap /\ snap \in Snapshots
  BY DEF Planning, Typed, RNext, Apply, StartRestore, ApplyQuiet, ApplySkip, ApplyRun, ApplyUnheard,
         ApplyRefused, Consume, Finish, Cancelled, Stop, UserOpens, rvars
<1>3. ASSUME based PROVE Based(snap', live')
  <2>1. Based(snap, live)
    BY <1>3 DEF Planning
  <2>2. ASSUME NEW k \in DOMAIN snap, Exists(live, snap[k].name) PROVE Exists(live', snap[k].name)
    <3>1. PICK i \in Indexes : live[snap[k].name][i] # Gap
      BY <2>2 DEF Exists, Taken
    <3>2. snap[k].name \in Sessions
      <4>1. PICK n \in Nat : n = Len(snap) /\ DOMAIN snap = 1..n
        BY <1>2, RestoreAssumption, LenProperties
      <4>2. snap[k] \in SavedSession
        BY <1>2, <4>1, RestoreAssumption, ElementOfSeq
      <4> QED BY <4>2 DEF SavedSession
    <3>3. live'[snap[k].name][i] # Gap
      BY <3>1, <3>2, WindowsStay
    <3> QED BY <3>3 DEF Exists, Taken
  <2> QED BY <1>2, <2>1, <2>2 DEF Based
<1> QED BY <1>1, <1>3 DEF Planning, Ordered

(* A restore goes over well-formed windows, wherever it is cut short: its   *)
(* plan is empty when it does not run, and it never reports more windows    *)
(* than it planned (Apply and its Report).                                  *)
THEOREM RestoreTypes == RSpec => []RTypeOK
<1> DEFINE Inv == Planning(FALSE) /\ Counts
<1>1. RInit => Inv
  BY PlanningInit, CountsInit
<1>2. Inv /\ [RNext]_rvars => Inv'
  BY PlanningStep, CountsStep
<1>3. Inv => RTypeOK
  <2> SUFFICES ASSUME Inv PROVE RTypeOK
    OBVIOUS
  <2>1. PlannedWindows(plan) \in Nat
    BY PlannedFinite DEF Planning
  <2>2. report.created + report.relocated + report.skipped <= planned
    BY <2>1 DEF Counts
  <2> QED BY <2>2 DEF RTypeOK, Planning, Typed
<1> QED BY <1>1, <1>2, <1>3, PTL DEF RSpec


-----------------------------------------------------------------------------
(* The window a command names is the one just made *)

LEMMA HeadMade ==
  ASSUME RestoreInv, Consume, Runs(Head(plan)), Head(plan).kind \in Following,
         NEW i \in At(Head(plan), Target(Head(plan)))
  PROVE  /\ Target(Head(plan)) = win /\ i = Where(Head(plan)) /\ i \in Indexes
         /\ Made(Head(plan), live[Head(plan).session][i])
<1> DEFINE a == Head(plan)
<1>1. a = plan[1] /\ plan # <<>>
  BY Consumed DEF RestoreInv
<1>2. Where(a) \in Indexes /\ Made(a, live[a.session][Where(a)])
  BY <1>1 DEF RestoreInv, Current
<1>3. Target(a) = win
  BY DEF Target, Following
<1>4. At(a, win) = IF a.target = Placeholder THEN {win} \cap Indexes ELSE {a.target}
  BY DEF At, Following
<1>5. i = Where(a)
  BY <1>3, <1>4 DEF Where
<1> QED BY <1>2, <1>3, <1>5

(* Where a window is made for a saved one, its other actions will find it. *)
LEMMA CreatedHere ==
  ASSUME NEW a \in Acts(snap, TRUE), a.kind \in Creating, NEW w,
         NEW i \in At(a, w)
  PROVE  IF a.target = Placeholder THEN a.kind = "relocate" ELSE a.target = i
  BY DEF Acts, At, Creating, Remarks, Placeholder, Indexes

LEMMA FreshPane ==
  ASSUME NEW c
  PROVE  /\ Fresh(c).shown = Nothing /\ Fresh(c).typed = Nothing
         /\ <<Fresh(c)>>[1] = Fresh(c) /\ DOMAIN <<Fresh(c)>> = {1}
<1>1. Fresh(c).shown = Nothing /\ Fresh(c).typed = Nothing
  BY DEF Fresh
<1> HIDE DEF Fresh
<1>2. <<Fresh(c)>>[1] = Fresh(c) /\ DOMAIN <<Fresh(c)>> = 1..1
  OBVIOUS
<1>3. 1..1 = {1}
  OBVIOUS
<1> QED BY <1>1, <1>2, <1>3

LEMMA InsertedFresh ==
  ASSUME NEW W \in Window, W # Gap, AllFresh(W), NEW c \in 1..3
  PROVE  \A k \in DOMAIN InsertAt(W.panes, 2, Fresh(c)) :
            /\ InsertAt(W.panes, 2, Fresh(c))[k].shown = Nothing
            /\ InsertAt(W.panes, 2, Fresh(c))[k].typed = Nothing
<1>1. W.panes \in Seq(Pane) /\ W.panes # <<>> /\ Fresh(c) \in Pane
  BY DEF Window, Fresh, Pane
<1>2. \A k \in DOMAIN InsertAt(W.panes, 2, Fresh(c)) :
            \/ InsertAt(W.panes, 2, Fresh(c))[k] = Fresh(c)
            \/ \E j \in DOMAIN W.panes : InsertAt(W.panes, 2, Fresh(c))[k] = W.panes[j]
  BY <1>1, PaneInserted
<1> QED BY <1>2, FreshPane DEF AllFresh

LEMMA StillMade ==
  ASSUME NEW a, a.kind \in Creating \cup Following, a.pane \in 1..3,
         NEW W \in Window, a.kind \in Following => W # Gap /\ Made(a, W),
         NEW b, Tied(a, b), b.kind \in Following
  PROVE  Made(b, Effect(a, W))
<1>1. a.saved = b.saved /\ (b.kind = "split" => a.kind \in Creating \cup {"split"})
  BY DEF Tied
<1>2. CASE a.kind \in Creating
  <2>1. /\ Effect(a, W).name = a.saved.name /\ Effect(a, W).origin = a.saved.index
        /\ Effect(a, W).panes = <<Fresh(1)>>
    BY <1>2, EffectName, ZenonT(60)
  <2>2. AllFresh(Effect(a, W))
    BY <2>1, FreshPane DEF AllFresh
  <2> QED BY <1>1, <2>1, <2>2 DEF Made
<1>3. CASE a.kind \notin Creating
  <2>1. W # Gap /\ Made(a, W) /\ Effect(a, W).name = W.name /\ Effect(a, W).origin = W.origin
        /\ (a.kind = "split" => Effect(a, W).panes = InsertAt(W.panes, 2, Fresh(a.pane)))
    BY <1>3, EffectName
  <2>2. ASSUME b.kind = "split" PROVE AllFresh(Effect(a, W))
    <3>1. a.kind = "split"
      BY <1>1, <1>3, <2>2
    <3>2. AllFresh(W) /\ Effect(a, W).panes = InsertAt(W.panes, 2, Fresh(a.pane))
      BY <2>1, <3>1 DEF Made
    <3> QED BY <2>1, <3>2, InsertedFresh DEF AllFresh
  <2> QED BY <1>1, <2>1, <2>2 DEF Made
<1> QED BY <1>2, <1>3

LEMMA CurrentStep ==
  ASSUME RestoreInv, [RNext]_rvars
  PROVE  Current'
<1> SUFFICES ASSUME plan' # <<>>, plan'[1].kind \in Following,
                    plan'[1].session # aborted', ~skipping'
             PROVE  LET at == IF plan'[1].target = Placeholder THEN win' ELSE plan'[1].target
                    IN  at \in Indexes /\ Made(plan'[1], live'[plan'[1].session][at])
  BY DEF Current, Where, Runs, Creating, Following, Made, AllFresh
<1> DEFINE a == Head(plan)
           b == plan'[1]
           at == IF b.target = Placeholder THEN win' ELSE b.target
<1>0. /\ Planning(TRUE) /\ Typed /\ Current /\ live \in [Sessions -> [Indexes -> Window]]
      /\ win \in Indexes \cup {Nothing}
  BY DEF RestoreInv, Planning, Typed
<1>1. CASE plan' = plan /\ UNCHANGED <<win, aborted, skipping>>
  <2>1. Runs(plan[1]) /\ plan # <<>> /\ plan[1].kind \in Following
    BY <1>1 DEF Runs, Following
  <2>2. at = Where(plan[1])
    BY <1>1 DEF Where
  <2>3. at \in Indexes /\ Made(plan[1], live[plan[1].session][at])
    BY <1>0, <2>1, <2>2 DEF Current
  <2>4. CASE live' = live
    BY <1>1, <2>3, <2>4
  <2>5. CASE UserOpens
    <3>1. PICK t \in Sessions, j \in Indexes, name \in Names :
              live[t][j] = Gap /\ live' = [live EXCEPT ![t][j] = Opened(name)]
      BY <2>5 DEF UserOpens
    <3>2. plan[1] \in Acts(snap, TRUE)
      <4>1. PICK n \in Nat : n = Len(plan) /\ n # 0 /\ plan \in Seq(Acts(snap, TRUE))
        BY <1>0, <2>1, EmptySeq, LenProperties DEF Planning
      <4>2. 1 \in 1..n
        BY <4>1
      <4> QED BY <4>1, <4>2, ElementOfSeq
    <3>3. plan[1].session \in Sessions /\ plan[1].saved.name \in Names
      BY <2>1, <3>2 DEF Acts, Following, Remarks, SavedWindow
    <3>4. live[plan[1].session][at] # Gap
      <4>1. live[plan[1].session][at].name # ""
        BY <2>3, <3>3, RestoreAssumption DEF Made
      <4>2. Gap.name = ""
        BY DEF Gap
      <4> QED BY <4>1, <4>2
    <3>5. live'[plan[1].session][at] = live[plan[1].session][at]
      BY <1>0, <2>3, <3>1, <3>3, <3>4
    <3> QED BY <1>1, <2>3, <3>5
  <2>6. live' = live \/ UserOpens
    <3>1. plan # <<>> => Tail(plan) # plan
      <4> SUFFICES ASSUME plan # <<>> PROVE Len(Tail(plan)) # Len(plan)
        OBVIOUS
      <4>1. plan \in Seq(Acts(snap, TRUE))
        BY <1>0 DEF Planning
      <4>2. PICK n \in Nat : Len(plan) = n + 1 /\ Len(Tail(plan)) = n
        BY <4>1, TailParts
      <4> QED BY <4>2
    <3> QED BY <1>1, <3>1 DEF RNext, Apply, StartRestore, ApplyQuiet, ApplySkip, ApplyRun,
                              ApplyUnheard,
                              ApplyRefused, Consume, Finish, Cancelled, Stop, rvars
  <2> QED BY <2>4, <2>5, <2>6
<1>2. CASE Consume
  <2>1. /\ a \in Acts(snap, TRUE) /\ a = plan[1] /\ plan # <<>>
        /\ Tied(a, b)
    BY <1>0, <1>2, Consumed
  <2>2. /\ a.kind \in Creating \cup Following /\ a.session = b.session
        /\ a.saved = b.saved /\ a.target = b.target
        /\ (b.kind = "split" => a.kind \in Creating \cup {"split"})
    BY <2>1 DEF Tied
  <2>3. a.kind \notin Remarks
    BY <2>2 DEF Creating, Following, Remarks
  <2>4. CASE ApplyQuiet
    BY <2>2, <2>3, <2>4 DEF ApplyQuiet, Remarks, applyvars
  <2>5. CASE ApplySkip
    BY <2>5 DEF ApplySkip, applyvars
  <2>6. CASE ApplyRefused
    <3>1. /\ Runs(a) /\ win' = Target(a) /\ live' = live
          /\ skipping' = (skipping \/ a.kind \in Creating)
      BY <2>6 DEF ApplyRefused, Failed
    <3>2. a.kind \notin Creating /\ a.kind \in Following
      BY <2>2, <3>1
    <3>3. Where(a) \in Indexes /\ Made(a, live[a.session][Where(a)])
      BY <1>0, <2>1, <3>1, <3>2 DEF Current
    <3>4. win' = win
      BY <3>1, <3>2 DEF Target, Creating
    <3>5. at = Where(a)
      BY <2>2, <3>4 DEF Where
    <3>6. Made(b, live[a.session][at])
      BY <2>2, <3>2, <3>3, <3>5 DEF Made
    <3> QED BY <2>2, <3>1, <3>3, <3>5, <3>6
  <2>7. CASE ApplyRun \/ ApplyUnheard
    <3>0. a.kind \in Creating => ApplyRun
      BY <2>7 DEF ApplyUnheard, Failed
    <3>1. PICK i \in Indexes :
            /\ i \in At(a, Target(a)) /\ Accepts(a, i)
            /\ live' = [live EXCEPT ![a.session][i] = Effect(a, live[a.session][i])]
            /\ win' = IF ApplyRun /\ a.kind = "relocate" THEN i ELSE Target(a)
            /\ live[a.session][i] \in Window
            /\ a.session \in Sessions
            /\ a.kind \notin Creating => live[a.session][i] # Gap
      BY <1>0, <2>7, Ran
    <3>2. Runs(a)
      BY <2>7 DEF ApplyRun, ApplyUnheard
    <3>3. a.kind \in Following => Target(a) = win /\ i = Where(a) /\ Made(a, live[a.session][i])
      BY <1>2, <3>1, <3>2, HeadMade
    <3>4. at = i
      <4>1. CASE a.kind \in Creating
        BY <2>1, <2>2, <3>0, <3>1, <4>1, CreatedHere
      <4>2. CASE a.kind \notin Creating
        BY <2>2, <3>0, <3>1, <3>3, <4>2 DEF Where, Creating
      <4> QED BY <4>1, <4>2
    <3>5. a.pane \in 1..3 /\ (a.kind \in Following => a.kind \notin Creating)
      BY <2>1 DEF Acts, Creating, Following
    <3>6. Made(b, Effect(a, live[a.session][i]))
      BY <2>1, <2>2, <3>1, <3>3, <3>5, StillMade
    <3>7. live'[a.session][i] = Effect(a, live[a.session][i])
      <4> HIDE DEF a
      <4> QED BY <1>0, <3>1
    <3> QED BY <2>2, <3>1, <3>4, <3>6, <3>7
  <2>8. ApplyQuiet \/ ApplySkip \/ ApplyRefused \/ ApplyRun \/ ApplyUnheard
    <3>1. plan # <<>> /\ plan' = Tail(plan) /\ running' = running /\ running /\ runs' = runs
          /\ plan' # plan
      <4>1. plan \in Seq(Acts(snap, TRUE)) /\ plan # <<>>
        BY <1>0, <2>1 DEF Planning
      <4>2. PICK n \in Nat : Len(plan) = n + 1 /\ Len(Tail(plan)) = n
        BY <4>1, TailParts
      <4> QED BY <1>2, <4>2 DEF Consume
    <3> QED BY <3>1 DEF RNext, Apply, StartRestore, Finish, Cancelled, Stop, UserOpens, rvars
  <2> QED BY <2>4, <2>5, <2>6, <2>7, <2>8
<1>3. CASE ~Consume /\ plan' # plan
  <2>1. Starts(plan')
    BY <1>0, <1>3, PlanStep
  <2> QED BY <2>1 DEF Starts
<1>4. CASE ~Consume /\ plan' = plan
  <2>1. CASE UNCHANGED <<win, aborted, skipping>>
    BY <1>1, <1>4, <2>1
  <2>2. CASE StartRestore
    <3>1. plan = <<>>
      BY <1>0, <2>2 DEF StartRestore, Typed
    <3> QED BY <1>4, <3>1
  <2> QED BY <1>4, <2>1, <2>2
          DEF RNext, Apply, ApplyQuiet, ApplySkip, ApplyRun, ApplyUnheard, ApplyRefused, Finish,
              Cancelled,
              Stop, UserOpens, applyvars, rvars
<1> QED BY <1>2, <1>3, <1>4


-----------------------------------------------------------------------------
(* What is shown and typed *)

Right(s, W) ==
    \A k \in DOMAIN W.panes :
        /\ W.panes[k].shown \in {Nothing, k} /\ W.panes[k].typed \in {Nothing, k}
        /\ W.panes[k].typed # Nothing => \E n \in DOMAIN snap : \E m \in DOMAIN snap[n].windows :
              /\ snap[n].name = s
              /\ snap[n].windows[m].index = W.origin
              /\ snap[n].windows[m].name = W.name
              /\ k <= snap[n].windows[m].panes

LEMMA FreshRight ==
  ASSUME NEW s, NEW W, AllFresh(W)
  PROVE  Right(s, W)
  BY DEF Right, AllFresh

LEMMA EffectRight ==
  ASSUME NEW a \in Acts(snap, TRUE), a.kind \in Creating \cup Following, NEW W \in Window,
         a.kind \in Following =>
            /\ W # Gap /\ Made(a, W) /\ Right(a.session, W)
            /\ a.kind \in {"show", "type"} => a.pane \in DOMAIN W.panes
  PROVE  Right(a.session, Effect(a, W))
<1>1. CASE a.kind \in Creating
  <2>1. Effect(a, W).panes = <<Fresh(1)>>
    BY <1>1, EffectName
  <2>2. AllFresh(Effect(a, W))
    BY <2>1, FreshPane DEF AllFresh
  <2> QED BY <2>2, FreshRight
<1>2. CASE a.kind \notin Creating
  <2>1. /\ W # Gap /\ Made(a, W) /\ Right(a.session, W)
        /\ Effect(a, W).name = W.name /\ Effect(a, W).origin = W.origin
        /\ a.kind \in {"show", "type"} => a.pane \in DOMAIN W.panes
    BY <1>2, EffectName
  <2>2. CASE a.kind = "split"
    <3>1. Effect(a, W).panes = InsertAt(W.panes, 2, Fresh(a.pane)) /\ AllFresh(W)
      BY <2>1, <2>2, <1>2, EffectName DEF Made
    <3>2. a.pane \in 1..3
      BY DEF Acts
    <3>3. AllFresh(Effect(a, W))
      BY <2>1, <3>1, <3>2, InsertedFresh DEF AllFresh
    <3> QED BY <3>3, FreshRight
  <2>3. CASE a.kind \in {"dress", "select"}
    <3>1. Effect(a, W).panes = W.panes
      BY <2>1, <2>3, <1>2, EffectName
    <3> QED BY <2>1, <3>1 DEF Right
  <2>4. CASE a.kind \in {"show", "type"}
    <3> DEFINE E == Effect(a, W)
    <3>1. PICK n \in Nat : DOMAIN W.panes = 1..n /\ \A k \in 1..n : W.panes[k] \in Pane
      <4>1. W.panes \in Seq(Pane)
        BY <2>1 DEF Window
      <4> QED BY <4>1, LenProperties, ElementOfSeq
    <3>2. a.pane \in 1..n /\ W.panes[a.pane] \in Pane
      BY <2>1, <2>4, <3>1
    <3>3. /\ DOMAIN E.panes = 1..n
          /\ \A k \in 1..n : k # a.pane => E.panes[k] = W.panes[k]
          /\ a.kind = "show" => E.panes[a.pane] = [W.panes[a.pane] EXCEPT !.shown = a.pane]
          /\ a.kind = "type" => E.panes[a.pane] = [W.panes[a.pane] EXCEPT !.typed = a.pane]
      <4>1. CASE a.kind = "show"
        <5>1. E.panes = [W.panes EXCEPT ![a.pane].shown = a.pane]
          BY <2>1, <1>2, <4>1, EffectName
        <5> QED BY <3>1, <3>2, <4>1, <5>1
      <4>2. CASE a.kind = "type"
        <5>1. E.panes = [W.panes EXCEPT ![a.pane].typed = a.pane]
          BY <2>1, <1>2, <4>2, EffectName
        <5> QED BY <3>1, <3>2, <4>2, <5>1
      <4> QED BY <2>4, <4>1, <4>2
    <3>4. /\ a.kind = "show" => /\ E.panes[a.pane].shown = a.pane
                                /\ E.panes[a.pane].typed = W.panes[a.pane].typed
          /\ a.kind = "type" => /\ E.panes[a.pane].typed = a.pane
                                /\ E.panes[a.pane].shown = W.panes[a.pane].shown
      <4> HIDE DEF E
      <4> QED BY <3>2, <3>3 DEF Pane
    <3>5. \E m1 \in DOMAIN snap : \E m2 \in DOMAIN snap[m1].windows :
              /\ snap[m1].name = a.session
              /\ snap[m1].windows[m2].index = W.origin
              /\ snap[m1].windows[m2].name = W.name
              /\ a.pane <= snap[m1].windows[m2].panes
      <4>1. SavedIn(snap, a.session, a.saved) /\ a.pane <= a.saved.panes
        BY <2>4 DEF Acts, Remarks
      <4> QED BY <2>1, <4>1 DEF SavedIn, Made
    <3>6. E.name = W.name /\ E.origin = W.origin
      BY <2>1
    <3> HIDE DEF E
    <3>7. ASSUME NEW k \in DOMAIN E.panes
          PROVE  /\ E.panes[k].shown \in {Nothing, k} /\ E.panes[k].typed \in {Nothing, k}
                 /\ E.panes[k].typed # Nothing =>
                       \E m1 \in DOMAIN snap : \E m2 \in DOMAIN snap[m1].windows :
                          /\ snap[m1].name = a.session
                          /\ snap[m1].windows[m2].index = E.origin
                          /\ snap[m1].windows[m2].name = E.name
                          /\ k <= snap[m1].windows[m2].panes
      <4>1. k \in DOMAIN W.panes
        BY <3>1, <3>3
      <4>2. CASE k # a.pane
        <5>1. E.panes[k] = W.panes[k]
          BY <3>3, <4>2
        <5> QED BY <2>1, <3>6, <4>1, <5>1 DEF Right
      <4>3. CASE k = a.pane
        <5>1. E.panes[k].shown \in {Nothing, k} /\ E.panes[k].typed \in {Nothing, k}
          BY <2>1, <2>4, <3>4, <4>1, <4>3 DEF Right
        <5> QED BY <3>5, <3>6, <4>3, <5>1
      <4> QED BY <4>2, <4>3
    <3> QED BY <3>7 DEF Right, E
  <2> QED BY <1>2, <2>2, <2>3, <2>4 DEF Following
<1> QED BY <1>1, <1>2

LEMMA RightStep ==
  ASSUME RestoreInv, [RNext]_rvars
  PROVE  RightPane'
<1>0. /\ Planning(TRUE) /\ live \in [Sessions -> [Indexes -> Window]]
      /\ \A s \in Sessions, i \in Indexes : Right(s, live[s][i])
  BY DEF RestoreInv, Planning, Typed, RightPane, Right
<1>1. snap' = snap
  BY DEF RNext, Apply, StartRestore, ApplyQuiet, ApplySkip, ApplyRun, ApplyUnheard, ApplyRefused,
         Consume,
         Finish, Cancelled, Stop, UserOpens, rvars
<1> SUFFICES ASSUME NEW s \in Sessions, NEW i \in Indexes PROVE Right(s, live'[s][i])
  BY <1>1 DEF RightPane, Right
<1>2. CASE live' = live
  BY <1>0, <1>2
<1>3. CASE ApplyRun \/ ApplyUnheard
  <2> DEFINE a == Head(plan)
  <2>1. PICK j \in Indexes :
            /\ j \in At(a, Target(a)) /\ Accepts(a, j)
            /\ live' = [live EXCEPT ![a.session][j] = Effect(a, live[a.session][j])]
            /\ live[a.session][j] \in Window
            /\ a.session \in Sessions
            /\ a.kind \notin Creating => live[a.session][j] # Gap
    BY <1>0, <1>3, Ran
  <2>2. Runs(a) /\ Consume /\ a \in Acts(snap, TRUE)
    BY <1>0, <1>3, Consumed DEF ApplyRun, ApplyUnheard
  <2>3. a.kind \in Creating \cup Following
    BY <2>2 DEF Runs, Acts, Remarks
  <2>4. a.kind \in Following =>
            /\ a.kind \notin Creating /\ Made(a, live[a.session][j])
            /\ a.kind \in {"show", "type"} => a.pane \in DOMAIN live[a.session][j].panes
    <3>1. a.kind \in Following => a.kind \notin Creating
      BY DEF Creating, Following
    <3>2. a.kind \in Following => Made(a, live[a.session][j])
      BY <2>1, <2>2, HeadMade
    <3>3. a.kind \in {"show", "type"} => a.pane \in DOMAIN live[a.session][j].panes
      BY <2>1 DEF Accepts
    <3> QED BY <3>1, <3>2, <3>3
  <2>5. Right(a.session, Effect(a, live[a.session][j]))
    BY <1>0, <2>1, <2>2, <2>3, <2>4, EffectRight
  <2>6. CASE s = a.session /\ i = j
    <3>1. live'[s][i] = Effect(a, live[a.session][j])
      <4> HIDE DEF a
      <4> QED BY <1>0, <2>1, <2>6
    <3> QED BY <2>5, <2>6, <3>1
  <2>7. CASE ~(s = a.session /\ i = j)
    <3>1. live'[s][i] = live[s][i]
      <4> HIDE DEF a
      <4> QED BY <1>0, <2>1, <2>7
    <3> QED BY <1>0, <3>1
  <2> QED BY <2>6, <2>7
<1>4. CASE UserOpens
  <2>1. PICK t \in Sessions, j \in Indexes, name \in Names :
            live' = [live EXCEPT ![t][j] = Opened(name)]
    BY <1>4 DEF UserOpens
  <2>2. AllFresh(Opened(name))
    BY OpenedTyped, FreshPane DEF AllFresh
  <2>3. live'[s][i] = live[s][i] \/ live'[s][i] = Opened(name)
    BY <1>0, <2>1
  <2> QED BY <1>0, <2>2, <2>3, FreshRight
<1> QED BY <1>2, <1>3, <1>4
        DEF RNext, Apply, StartRestore, ApplyQuiet, ApplySkip, ApplyRefused, Finish, Cancelled,
            Stop, rvars

LEMMA RestoreInit ==
  ASSUME RInit, FromBase
  PROVE  RestoreInv
<1>1. Planning(TRUE)
  BY PlanningInit
<1>2. Current
  BY DEF Current, RInit
<1>3. RightPane
  <2>1. live \in [Sessions -> [Indexes -> UserWindows]]
    BY RestoreAssumption DEF RInit
  <2>2. ASSUME NEW s \in Sessions, NEW i \in Indexes PROVE Right(s, live[s][i])
    <3>1. live[s][i] \in UserWindows
      BY <2>1
    <3>2. AllFresh(live[s][i])
      BY <3>1, UserWindowTyped, FreshPane DEF AllFresh
    <3> QED BY <3>2, FreshRight
  <2> QED BY <2>2 DEF RightPane, Right
<1> QED BY <1>1, <1>2, <1>3 DEF RestoreInv

LEMMA RestoreStep ==
  ASSUME RestoreInv, [RNext]_rvars
  PROVE  RestoreInv'
<1>1. Planning(TRUE)'
  BY PlanningStep DEF RestoreInv
<1> QED BY <1>1, CurrentStep, RightStep DEF RestoreInv

(* What a saved pane showed and ran goes to the pane of that number in the  *)
(* window made for it: though windows are named by their indexes, and the   *)
(* user opens others while Apply works through the plan, a split, a text or *)
(* a command never reaches a window of another saved window, nor one of the *)
(* user's, if the sessions to be made were saved from base-index on.        *)
THEOREM RightPanes == FromBase => (RSpec => []RightPane)
<1> SUFFICES ASSUME FromBase PROVE RSpec => []RightPane
  OBVIOUS
<1>1. RInit => RestoreInv
  BY RestoreInit
<1>2. RestoreInv /\ [RNext]_rvars => RestoreInv'
  BY RestoreStep
<1>3. RestoreInv => RightPane
  BY DEF RestoreInv
<1> QED BY <1>1, <1>2, <1>3, PTL DEF RSpec

LEMMA UserLeftAlone ==
  ASSUME RestoreInv, [RNext]_rvars, NEW s \in Sessions, NEW i \in Indexes,
         live[s][i] # Gap, live[s][i].origin = User
  PROVE  live'[s][i] = live[s][i]
<1>0. Planning(TRUE) /\ live \in [Sessions -> [Indexes -> Window]]
  BY DEF RestoreInv, Planning, Typed
<1>1. CASE ApplyRun \/ ApplyUnheard
  <2> DEFINE a == Head(plan)
  <2>1. PICK j \in Indexes :
            /\ j \in At(a, Target(a)) /\ Accepts(a, j)
            /\ live' = [live EXCEPT ![a.session][j] = Effect(a, live[a.session][j])]
            /\ a.session \in Sessions
    BY <1>0, <1>1, Ran
  <2>2. Runs(a) /\ Consume /\ a \in Acts(snap, TRUE)
    BY <1>0, <1>1, Consumed DEF ApplyRun, ApplyUnheard
  <2>3. ~(s = a.session /\ i = j)
    <3>1. CASE a.kind \in Creating
      <4>1. CASE a.kind = "new_session"
        <5>1. ~Exists(live, a.session) /\ live[a.session][j] = Gap
          BY <2>1, <4>1 DEF Accepts, Exists, Taken
        <5> QED BY <5>1
      <4>2. CASE a.kind # "new_session"
        <5>1. live[a.session][j] = Gap
          BY <2>1, <3>1, <4>2 DEF Accepts, Creating
        <5> QED BY <5>1
      <4> QED BY <4>1, <4>2
    <3>2. CASE a.kind \notin Creating
      <4>1. a.kind \in Following /\ a.saved.index \in Indexes
        BY <2>2, <3>2 DEF Runs, Acts, Remarks, SavedWindow
      <4>2. Made(a, live[a.session][j])
        BY <2>1, <2>2, <4>1, HeadMade
      <4>3. live[a.session][j].origin \in Indexes
        BY <4>1, <4>2 DEF Made
      <4>4. User \notin Indexes
        BY DEF User, Indexes
      <4> QED BY <4>3, <4>4
    <3> QED BY <3>1, <3>2
  <2> HIDE DEF a
  <2> QED BY <1>0, <2>1, <2>3
<1>2. CASE UserOpens
  <2>1. PICK t \in Sessions, j \in Indexes, name \in Names :
            live[t][j] = Gap /\ live' = [live EXCEPT ![t][j] = Opened(name)]
    BY <1>2 DEF UserOpens
  <2> QED BY <1>0, <2>1
<1>3. CASE live' = live
  BY <1>3
<1> QED BY <1>1, <1>2, <1>3
        DEF RNext, Apply, StartRestore, ApplyQuiet, ApplySkip, ApplyRefused, Finish, Cancelled,
            Stop, rvars

(* A restore only adds: it changes no window its user made, though it was   *)
(* opened at an index the plan had found free (FromBase as above).          *)
THEOREM OnlyAdds == FromBase => (RSpec => Additive)
<1> SUFFICES ASSUME FromBase PROVE RSpec => Additive
  OBVIOUS
<1>1. RInit => RestoreInv
  BY RestoreInit
<1>2. RestoreInv /\ [RNext]_rvars => RestoreInv'
  BY RestoreStep
<1>3. RestoreInv /\ [RNext]_rvars =>
          \A s \in Sessions, i \in Indexes :
             (live[s][i] # Gap /\ live[s][i].origin = User) => live'[s][i] = live[s][i]
  BY UserLeftAlone
<1> QED BY <1>1, <1>2, <1>3, PTL DEF RSpec, Additive

-----------------------------------------------------------------------------
(* A restore makes all that it planned, and leaves nothing for the next. *)

(* Each member of p and every later one. *)
Pairwise(p, R) == \A j, k \in DOMAIN p : j < k => <<p[j], p[k]>> \in R

LEMMA JoinRange ==
  ASSUME NEW S, NEW p \in Seq(S), NEW q \in Seq(S)
  PROVE  ToSet(p \o q) = ToSet(p) \cup ToSet(q)
<1>1. PICK m \in Nat, n \in Nat :
          m = Len(p) /\ n = Len(q) /\ DOMAIN p = 1..m /\ DOMAIN q = 1..n
  BY LenProperties
<1>2. /\ Len(p \o q) = m + n
      /\ \A k \in 1..m : (p \o q)[k] = p[k]
      /\ \A k \in (m + 1)..(m + n) : (p \o q)[k] = q[k - m] /\ k - m \in 1..n
  BY <1>1, Joined
<1>3. DOMAIN (p \o q) = 1..(m + n)
  BY <1>2, LenProperties, ConcatProperties
<1> DEFINE u == p \o q
<1>4. /\ DOMAIN u = 1..(m + n)
      /\ \A k \in 1..m : u[k] = p[k]
      /\ \A k \in (m + 1)..(m + n) : u[k] = q[k - m] /\ k - m \in 1..n
  BY <1>2, <1>3
<1> HIDE DEF u
<1>5. ASSUME NEW k \in 1..(m + n) PROVE u[k] \in ToSet(p) \cup ToSet(q)
  <2>1. CASE k \in 1..m
    BY <1>1, <1>4, <2>1 DEF ToSet
  <2>2. CASE k \in (m + 1)..(m + n)
    BY <1>1, <1>4, <2>2 DEF ToSet
  <2> QED BY <2>1, <2>2
<1>6. ASSUME NEW k \in 1..m PROVE p[k] \in ToSet(u)
  <2>1. k \in 1..(m + n)
    OBVIOUS
  <2> QED BY <1>4, <2>1 DEF ToSet
<1>7. ASSUME NEW k \in 1..n PROVE q[k] \in ToSet(u)
  <2>1. m + k \in 1..(m + n) /\ m + k \in (m + 1)..(m + n) /\ (m + k) - m = k
    OBVIOUS
  <2>2. u[m + k] = q[k]
    BY <1>4, <2>1
  <2> QED BY <1>4, <2>1, <2>2 DEF ToSet
<1>8. ToSet(u) = ToSet(p) \cup ToSet(q)
  BY <1>1, <1>4, <1>5, <1>6, <1>7 DEF ToSet
<1> QED BY <1>8, Zenon DEF u

LEMMA JoinPairs ==
  ASSUME NEW S, NEW p \in Seq(S), NEW q \in Seq(S), NEW R,
         Pairwise(p, R), Pairwise(q, R),
         \A x \in ToSet(p), y \in ToSet(q) : <<x, y>> \in R
  PROVE  Pairwise(p \o q, R)
<1>1. PICK m \in Nat, n \in Nat :
          m = Len(p) /\ n = Len(q) /\ DOMAIN p = 1..m /\ DOMAIN q = 1..n
  BY LenProperties
<1>2. /\ Len(p \o q) = m + n
      /\ \A k \in 1..m : (p \o q)[k] = p[k]
      /\ \A k \in (m + 1)..(m + n) : (p \o q)[k] = q[k - m] /\ k - m \in 1..n
  BY <1>1, Joined
<1>3. DOMAIN (p \o q) = 1..(m + n)
  BY <1>2, LenProperties, ConcatProperties
<1> DEFINE u == p \o q
<1>4. /\ DOMAIN u = 1..(m + n)
      /\ \A k \in 1..m : u[k] = p[k]
      /\ \A k \in (m + 1)..(m + n) : u[k] = q[k - m] /\ k - m \in 1..n
  BY <1>2, <1>3
<1> HIDE DEF u
<1>5. ASSUME NEW j \in 1..(m + n), NEW k \in 1..(m + n), j < k
      PROVE  <<u[j], u[k]>> \in R
  <2>1. CASE k \in 1..m
    <3>1. j \in 1..m
      BY <1>5, <2>1
    <3> QED BY <1>1, <1>4, <1>5, <2>1, <3>1 DEF Pairwise
  <2>2. CASE j \in 1..m /\ k \in (m + 1)..(m + n)
    <3>1. p[j] \in ToSet(p) /\ q[k - m] \in ToSet(q)
      BY <1>1, <1>4, <2>2 DEF ToSet
    <3> QED BY <1>4, <2>2, <3>1
  <2>3. CASE j \in (m + 1)..(m + n)
    <3>1. k \in (m + 1)..(m + n) /\ j - m < k - m
      BY <1>5, <2>3
    <3>2. j - m \in 1..n /\ k - m \in 1..n /\ u[j] = q[j - m] /\ u[k] = q[k - m]
      BY <1>4, <2>3, <3>1
    <3> QED BY <1>1, <3>1, <3>2 DEF Pairwise
  <2>4. k \in 1..m \/ (j \in 1..m /\ k \in (m + 1)..(m + n)) \/ j \in (m + 1)..(m + n)
    BY <1>5
  <2> QED BY <2>1, <2>2, <2>3, <2>4
<1>6. Pairwise(u, R)
  BY <1>4, <1>5 DEF Pairwise
<1> QED BY <1>6 DEF u

(* h[k] is the flattening of the first k parts. *)
Growing(h, seqs, n, S) ==
    \A k \in 1..n : h[k] \in Seq(S) /\ h[k] = IF k = 1 THEN seqs[k] ELSE h[k - 1] \o seqs[k]

LEMMA FlatSteps ==
  ASSUME NEW S, NEW n \in Nat, n # 0, NEW seqs \in [1..n -> Seq(S)]
  PROVE  \E h : FlattenSeq(seqs) = h[n] /\ Growing(h, seqs, n, S)
<1>1. Len(seqs) = n /\ DOMAIN seqs = 1..n
  BY LenProperties
<1>2. PICK f : Flattens(f, seqs, n)
  BY FlattensExists
<1> DEFINE h == CHOOSE h : h = [i \in 1..n |-> IF i = 1 THEN seqs[i] ELSE h[i - 1] \o seqs[i]]
<1>3. Flattens(h, seqs, n)
  BY <1>2 DEF Flattens
<1>4. FlattenSeq(seqs) = h[n]
  BY <1>1 DEF FlattenSeq
<1> HIDE DEF h
<1>5. \A k \in 1..n : h[k] = IF k = 1 THEN seqs[k] ELSE h[k - 1] \o seqs[k]
  BY <1>3 DEF Flattens
<1> DEFINE Bad == {k \in 1..n : h[k] \notin Seq(S)}
<1>6. ASSUME Bad # {} PROVE FALSE
  <2>1. PICK k \in Bad : \A m \in Bad : k <= m
    <3>1. Bad \subseteq Nat
      OBVIOUS
    <3> HIDE DEF Bad
    <3> QED BY <1>6, <3>1, Smallest
  <2>2. k \in 1..n /\ h[k] = (IF k = 1 THEN seqs[k] ELSE h[k - 1] \o seqs[k]) /\ k # 1
    BY <1>5, <2>1
  <2>3. k - 1 \in 1..n /\ ~(k <= k - 1)
    BY <2>2
  <2>4. h[k - 1] \in Seq(S) /\ seqs[k] \in Seq(S)
    BY <2>1, <2>2, <2>3
  <2>5. h[k] \in Seq(S)
    BY <2>2, <2>4, ConcatProperties
  <2> QED BY <2>1, <2>5
<1>7. Growing(h, seqs, n, S)
  BY <1>5, <1>6 DEF Growing
<1> QED BY <1>4, <1>7

(* The members of the parts are those of the whole, and parts whose members *)
(* stand in R to those of the later ones make a whole whose members do.     *)
LEMMA FlatPairs ==
  ASSUME NEW S, NEW n \in Nat, NEW seqs \in [1..n -> Seq(S)], NEW R,
         \A k \in 1..n : Pairwise(seqs[k], R),
         \A j, k \in 1..n : j < k =>
             \A x \in ToSet(seqs[j]), y \in ToSet(seqs[k]) : <<x, y>> \in R
  PROVE  /\ ToSet(FlattenSeq(seqs)) = UNION {ToSet(seqs[k]) : k \in 1..n}
         /\ Pairwise(FlattenSeq(seqs), R)
<1>1. CASE n = 0
  <2>1. seqs = <<>> /\ Len(seqs) = 0
    BY <1>1
  <2>2. FlattenSeq(seqs) = <<>>
    BY <2>1 DEF FlattenSeq
  <2>3. DOMAIN FlattenSeq(seqs) = {} /\ 1..n = {}
    BY <1>1, <2>2
  <2> QED BY <2>3 DEF ToSet, Pairwise
<1>2. CASE n # 0
  <2>0. PICK h : FlattenSeq(seqs) = h[n] /\ Growing(h, seqs, n, S)
    BY <1>2, FlatSteps
  <2>1. ASSUME NEW k \in 1..n
        PROVE  h[k] \in Seq(S) /\ h[k] = IF k = 1 THEN seqs[k] ELSE h[k - 1] \o seqs[k]
    BY <2>0 DEF Growing
  <2> DEFINE Good(k) == /\ ToSet(h[k]) = UNION {ToSet(seqs[j]) : j \in 1..k}
                        /\ Pairwise(h[k], R)
             Bad == {k \in 1..n : ~Good(k)}
  <2>2. ASSUME Bad # {} PROVE FALSE
    <3>1. PICK k \in Bad : \A m \in Bad : k <= m
      <4>1. Bad \subseteq Nat
        OBVIOUS
      <4> HIDE DEF Bad
      <4> QED BY <2>2, <4>1, Smallest
    <3>2. k \in 1..n /\ ~Good(k)
      OBVIOUS
    <3>3. CASE k = 1
      <4>1. h[k] = seqs[k] /\ 1..k = {k}
        BY <2>1, <3>3
      <4>2. Pairwise(h[k], R)
        BY <3>2, <4>1
      <4>3. ToSet(h[k]) = UNION {ToSet(seqs[j]) : j \in 1..k}
        BY <4>1
      <4> QED BY <3>2, <4>2, <4>3
    <3>4. CASE k # 1
      <4>0. h[k] = h[k - 1] \o seqs[k]
        BY <2>1, <3>2, <3>4
      <4>1. k - 1 \in 1..n /\ ~(k <= k - 1)
        BY <3>2, <3>4
      <4>2. Good(k - 1)
        BY <3>1, <4>1
      <4>3. h[k - 1] \in Seq(S) /\ seqs[k] \in Seq(S)
        BY <2>1, <3>2, <4>1
      <4>4. ToSet(h[k]) = ToSet(h[k - 1]) \cup ToSet(seqs[k])
        BY <4>0, <4>3, JoinRange
      <4>5. 1..k = (1..(k - 1)) \cup {k}
        BY <3>2
      <4>6. ToSet(h[k]) = UNION {ToSet(seqs[j]) : j \in 1..k}
        BY <4>2, <4>4, <4>5
      <4>7. ASSUME NEW x \in ToSet(h[k - 1]), NEW y \in ToSet(seqs[k]) PROVE <<x, y>> \in R
        <5>1. PICK j \in 1..(k - 1) : x \in ToSet(seqs[j])
          BY <4>2
        <5>2. j \in 1..n /\ j < k
          BY <3>2, <5>1
        <5> QED BY <3>2, <5>1, <5>2
      <4>8. Pairwise(seqs[k], R) /\ Pairwise(h[k - 1], R)
        BY <3>2, <4>2
      <4>9. Pairwise(h[k], R)
        BY <4>0, <4>3, <4>7, <4>8, JoinPairs
      <4> QED BY <3>2, <4>6, <4>9
    <3> QED BY <3>3, <3>4
  <2>3. n \in 1..n
    BY <1>2
  <2> QED BY <2>0, <2>2, <2>3
<1> QED BY <1>1, <1>2

LEMMA OneOrNone ==
  ASSUME NEW k, NEW R
  PROVE  /\ ToSet(<<k>>) = {k} /\ Pairwise(<<k>>, R)
         /\ ToSet(<<>>) = {} /\ Pairwise(<<>>, R)
<1>1. DOMAIN <<k>> = {1} /\ <<k>>[1] = k
  OBVIOUS
<1>2. DOMAIN <<>> = {}
  OBVIOUS
<1> QED BY <1>1, <1>2 DEF ToSet, Pairwise

(* Every window of a session gets its place in the plan, and what stands    *)
(* before a window that keeps its index keeps its own, and was saved before *)
(* it.                                                                      *)
Moves(l, sess, k) == Fate(l, sess.name, sess.windows, k) = "relocate"

Ahead(l, sess) ==
    {jk \in (DOMAIN sess.windows) \X (DOMAIN sess.windows) :
        ~Moves(l, sess, jk[2]) => ~Moves(l, sess, jk[1]) /\ jk[1] < jk[2]}

LEMMA OrderPairs ==
  ASSUME NEW l, NEW sess \in SavedSession
  PROVE  /\ ToSet(InPlanOrder(l, sess)) = DOMAIN sess.windows
         /\ Pairwise(InPlanOrder(l, sess), Ahead(l, sess))
<1>1. PICK n \in Nat : n = Len(sess.windows) /\ DOMAIN sess.windows = 1..n
  BY LenProperties DEF SavedSession
<1> DEFINE D == DOMAIN sess.windows
           moves(k) == Moves(l, sess, k)
           picked(moving) == [k \in D |-> IF moves(k) = moving THEN <<k>> ELSE <<>>]
           those(moving) == FlattenSeq(picked(moving))
           R == Ahead(l, sess)
<1>2. InPlanOrder(l, sess) = those(FALSE) \o those(TRUE)
  BY DEF InPlanOrder, Moves
<1>3. ASSUME NEW j \in 1..n, NEW k \in 1..n
      PROVE  <<j, k>> \in R <=> (~moves(k) => ~moves(j) /\ j < k)
  BY <1>1 DEF Ahead
<1> HIDE DEF moves, R
<1>4. ASSUME NEW moving \in BOOLEAN
      PROVE  /\ those(moving) \in Seq(1..n)
             /\ ToSet(those(moving)) = {k \in 1..n : moves(k) = moving}
             /\ Pairwise(those(moving), R)
  <2> DEFINE seqs == picked(moving)
  <2>1. ASSUME NEW k \in 1..n
        PROVE  /\ seqs[k] \in Seq(1..n) /\ Pairwise(seqs[k], R)
               /\ ToSet(seqs[k]) = IF moves(k) = moving THEN {k} ELSE {}
    <3>1. seqs[k] = IF moves(k) = moving THEN <<k>> ELSE <<>>
      BY <1>1
    <3>2. <<k>> \in Seq(1..n) /\ <<>> \in Seq(1..n)
      BY EmptySeq
    <3> HIDE DEF seqs
    <3> QED BY <3>1, <3>2, OneOrNone, ZenonT(60)
  <2>2. seqs = [k \in 1..n |-> seqs[k]]
    BY <1>1
  <2>3. those(moving) = FlattenSeq(seqs)
    OBVIOUS
  <2> HIDE DEF seqs, those
  <2>4. seqs \in [1..n -> Seq(1..n)]
    BY <2>1, <2>2
  <2>5. ASSUME NEW j \in 1..n, NEW k \in 1..n, j < k,
               NEW x \in ToSet(seqs[j]), NEW y \in ToSet(seqs[k])
        PROVE  <<x, y>> \in R
    <3>1. x = j /\ y = k /\ moves(j) = moving /\ moves(k) = moving
      BY <2>1
    <3> QED BY <1>3, <2>5, <3>1
  <2>6. /\ ToSet(FlattenSeq(seqs)) = UNION {ToSet(seqs[k]) : k \in 1..n}
        /\ Pairwise(FlattenSeq(seqs), R)
    BY <2>1, <2>4, <2>5, FlatPairs
  <2>7. FlattenSeq(seqs) \in Seq(1..n)
    BY <2>4, Flatter
  <2>8. UNION {ToSet(seqs[k]) : k \in 1..n} = {k \in 1..n : moves(k) = moving}
    <3>1. ASSUME NEW k \in 1..n, NEW x \in ToSet(seqs[k]) PROVE x = k /\ moves(k) = moving
      BY <2>1
    <3>2. ASSUME NEW k \in 1..n, moves(k) = moving PROVE k \in ToSet(seqs[k])
      BY <2>1, <3>2
    <3> QED BY <3>1, <3>2
  <2> QED BY <2>3, <2>6, <2>7, <2>8
<1> DEFINE still == those(FALSE)
           moved == those(TRUE)
<1>5. /\ still \in Seq(1..n) /\ ToSet(still) = {k \in 1..n : moves(k) = FALSE} /\ Pairwise(still, R)
      /\ moved \in Seq(1..n) /\ ToSet(moved) = {k \in 1..n : moves(k) = TRUE} /\ Pairwise(moved, R)
  BY <1>4
<1>6. \A k : moves(k) \in BOOLEAN
  BY DEF moves, Moves
<1> HIDE DEF still, moved
<1>7. \A x \in ToSet(still), y \in ToSet(moved) : <<x, y>> \in R
  BY <1>3, <1>5
<1>8. ToSet(still \o moved) = ToSet(still) \cup ToSet(moved) /\ Pairwise(still \o moved, R)
  BY <1>5, <1>7, JoinRange, JoinPairs
<1>9. ToSet(still) \cup ToSet(moved) = 1..n
  BY <1>5, <1>6
<1> QED BY <1>1, <1>2, <1>8, <1>9 DEF still, moved, R

(* What makes a saved window, and what follows it.                          *)
First(s, w, fate) == Act(fate, s, w, IF fate = "relocate" THEN Placeholder ELSE w.index, 1)

Led(p, a, F) ==
    /\ p \in Seq(F \cup {a}) /\ a \in ToSet(p)
    /\ \A j, k \in DOMAIN p : j < k => p[k] \in F

LEMMA LedOn ==
  ASSUME NEW a, NEW F, NEW p, Led(p, a, F), NEW q \in Seq(F)
  PROVE  Led(p \o q, a, F)
<1> DEFINE O == F \cup {a}
           R == O \X F
<1>1. p \in Seq(O) /\ q \in Seq(O) /\ a \in ToSet(p)
  BY Wider DEF Led
<1>2. ToSet(p) \subseteq O /\ ToSet(q) \subseteq F
  <2>1. \A k \in DOMAIN p : p[k] \in O
    BY <1>1, ElementOfSeq, LenProperties
  <2>2. \A k \in DOMAIN q : q[k] \in F
    BY ElementOfSeq, LenProperties
  <2> QED BY <2>1, <2>2 DEF ToSet
<1>3. Pairwise(p, R)
  BY <1>2 DEF Led, Pairwise, ToSet
<1>4. Pairwise(q, R)
  BY <1>2 DEF Pairwise, ToSet
<1>5. \A x \in ToSet(p), y \in ToSet(q) : <<x, y>> \in R
  BY <1>2
<1> HIDE DEF R, O
<1>6. Pairwise(p \o q, R) /\ ToSet(p \o q) = ToSet(p) \cup ToSet(q) /\ p \o q \in Seq(O)
  BY <1>1, <1>3, <1>4, <1>5, JoinPairs, JoinRange, ConcatProperties
<1> QED BY <1>1, <1>6 DEF Led, Pairwise, R, O

Rest(s, w, fate) ==
    {Act(kind, s, w, IF fate = "relocate" THEN Placeholder ELSE w.index, pane) :
        kind \in Following, pane \in 1..3}

LEMMA BlockLed ==
  ASSUME NEW s, NEW w \in SavedWindow, NEW fate \in Creating, NEW isActive \in BOOLEAN
  PROVE  Led(Block(s, w, fate, isActive), First(s, w, fate), Rest(s, w, fate))
<1> DEFINE target == IF fate = "relocate" THEN Placeholder ELSE w.index
           do(kind, pane) == Act(kind, s, w, target, pane)
           F == Rest(s, w, fate)
           a == First(s, w, fate)
<1>1. PICK m \in 1..3 : m = w.panes
  BY DEF SavedWindow
<1>2. ASSUME NEW kind \in Following, NEW pane \in 1..3 PROVE do(kind, pane) \in F
  BY DEF Rest
<1> DEFINE one == <<do(fate, 1)>>
           splits == [k \in 1..(m - 1) |-> do("split", k + 1)]
           dress == <<do("dress", 1)>>
           pair(k) == <<do("show", k), do("type", k)>>
           pairs == [k \in 1..m |-> pair(k)]
           texts == FlattenSeq(pairs)
           sel == IF isActive THEN <<do("select", 1)>> ELSE <<>>
<1>3. Block(s, w, fate, isActive) = (((one \o splits) \o dress) \o texts) \o sel
  <2>1. fate # "skip"
    BY DEF Creating
  <2> QED BY <1>1, <2>1 DEF Block
<1>4. do(fate, 1) = a
  BY DEF First
<1>5. splits \in Seq(F)
  <2>1. \A k \in 1..(m - 1) : do("split", k + 1) \in F
    BY <1>2 DEF Following
  <2> HIDE DEF do, F
  <2>2. splits \in [1..(m - 1) -> F] /\ m - 1 \in Nat
    BY <2>1
  <2> HIDE DEF splits
  <2> QED BY <2>2, LenProperties
<1>6. dress \in Seq(F) /\ sel \in Seq(F)
  <2>1. do("dress", 1) \in F /\ do("select", 1) \in F
    BY <1>2 DEF Following
  <2> HIDE DEF do, F
  <2>2. <<do("dress", 1)>> \in Seq(F) /\ <<do("select", 1)>> \in Seq(F) /\ <<>> \in Seq(F)
    BY <2>1, EmptySeq
  <2> QED BY <2>2
<1>7. texts \in Seq(F)
  <2>1. \A k \in 1..m : do("show", k) \in F /\ do("type", k) \in F
    BY <1>2 DEF Following
  <2>2. \A k \in 1..m : pair(k) \in Seq(F)
    <3> HIDE DEF do, F
    <3> QED BY <2>1
  <2> HIDE DEF pair, F
  <2>3. pairs \in [1..m -> Seq(F)] /\ m \in Nat
    BY <2>2
  <2> HIDE DEF pairs
  <2> QED BY <2>3, Flatter
<1>8. Led(one, a, F)
  <2> HIDE DEF a, F, do
  <2>1. one = <<a>> /\ one \in Seq(F \cup {a}) /\ DOMAIN one = {1}
    BY <1>4
  <2>2. a \in ToSet(one)
    BY <2>1 DEF ToSet
  <2>3. \A j, k \in DOMAIN one : ~(j < k)
    BY <2>1
  <2> HIDE DEF one
  <2> QED BY <2>1, <2>2, <2>3 DEF Led
<1> HIDE DEF one, splits, dress, texts, sel, a, F
<1>9. Led(one \o splits, a, F)
  BY <1>5, <1>8, LedOn
<1>10. Led((one \o splits) \o dress, a, F)
  BY <1>6, <1>9, LedOn
<1>11. Led(((one \o splits) \o dress) \o texts, a, F)
  BY <1>7, <1>10, LedOn
<1>12. Led((((one \o splits) \o dress) \o texts) \o sel, a, F)
  BY <1>6, <1>11, LedOn
<1> QED BY <1>3, <1>12 DEF a, F

(* The actions for a window are its own, and only the first makes one.      *)
Makes(p, s, w, fate) ==
    /\ \A a \in ToSet(p) :
          /\ a.session = s
          /\ a.kind \in Creating => fate # "skip" /\ a = First(s, w, fate)
    /\ fate # "skip" => First(s, w, fate) \in ToSet(p)
    /\ \A j, k \in DOMAIN p : j < k => p[k].kind \notin Creating

LEMMA BlockMakes ==
  ASSUME NEW s, NEW w \in SavedWindow, NEW fate \in Creating \cup {"skip"},
         NEW isActive \in BOOLEAN
  PROVE  Makes(Block(s, w, fate, isActive), s, w, fate)
<1> DEFINE p == Block(s, w, fate, isActive)
<1>1. CASE fate = "skip"
  <2> DEFINE note == Act("note", s, w, w.index, 1)
  <2>1. p = <<note>>
    BY <1>1 DEF Block
  <2>2. note.session = s /\ note.kind \notin Creating
    BY DEF Act, Creating
  <2> HIDE DEF p, note
  <2>3. DOMAIN p = {1} /\ ToSet(p) = {note}
    BY <2>1 DEF ToSet
  <2>4. \A j, k \in DOMAIN p : ~(j < k)
    BY <2>3
  <2> QED BY <1>1, <2>2, <2>3, <2>4 DEF p, Makes
<1>2. CASE fate # "skip"
  <2>1. Led(p, First(s, w, fate), Rest(s, w, fate))
    BY <1>2, BlockLed
  <2>2. ASSUME NEW b \in Rest(s, w, fate) PROVE b.session = s /\ b.kind \notin Creating
    BY DEF Rest, Act, Creating, Following
  <2>3. First(s, w, fate).session = s
    BY DEF First, Act
  <2> DEFINE F == Rest(s, w, fate)
             a == First(s, w, fate)
  <2> HIDE DEF p, F, a
  <2>4. p \in Seq(F \cup {a}) /\ a \in ToSet(p) /\ \A j, k \in DOMAIN p : j < k => p[k] \in F
    BY <2>1 DEF Led, F, a
  <2>5. ToSet(p) \subseteq F \cup {a}
    <3>1. \A k \in DOMAIN p : p[k] \in F \cup {a}
      BY <2>4, LenProperties, ElementOfSeq
    <3> QED BY <3>1 DEF ToSet
  <2> QED BY <1>2, <2>2, <2>3, <2>4, <2>5 DEF p, F, a, Makes
<1> QED BY <1>1, <1>2

(* No window takes the place of one that is made after it.                  *)
Apart(a, b) ==
    (a.kind \in Creating /\ b.kind \in Creating /\ a.session = b.session) =>
        /\ b.kind # "new_session"
        /\ b.kind = "new_window" => a.kind # "relocate" /\ a.target # b.target

Clear(A) == {ab \in A \X A : Apart(ab[1], ab[2])}

(* The command that makes the k-th window of a session. *)
Maker(l, sess, k) == First(sess.name, sess.windows[k], Fate(l, sess.name, sess.windows, k))

Absent(l, sess, k) == Fate(l, sess.name, sess.windows, k) # "skip"

(* p makes the windows of a session that are not there, and no other. *)
Laid(l, sess, p) ==
    /\ \A a \in ToSet(p) :
          /\ a.session = sess.name
          /\ a.kind \in Creating =>
                /\ sess.name \notin Unaddressable
                /\ \E k \in DOMAIN sess.windows : Absent(l, sess, k) /\ a = Maker(l, sess, k)
    /\ sess.name \notin Unaddressable =>
          \A k \in DOMAIN sess.windows : Absent(l, sess, k) => Maker(l, sess, k) \in ToSet(p)

LEMMA SeqRange ==
  ASSUME NEW S, NEW p \in Seq(S)
  PROVE  ToSet(p) \subseteq S
<1>1. \A k \in DOMAIN p : p[k] \in S
  BY LenProperties, ElementOfSeq
<1> QED BY <1>1 DEF ToSet

LEMMA MakersApart ==
  ASSUME NEW l, NEW sess \in SavedSession,
         \A j, k \in DOMAIN sess.windows :
             sess.windows[j].index = sess.windows[k].index => j = k,
         NEW j \in DOMAIN sess.windows, NEW k \in DOMAIN sess.windows,
         <<j, k>> \in Ahead(l, sess)
  PROVE  Apart(Maker(l, sess, j), Maker(l, sess, k))
<1>1. PICK n \in Nat : DOMAIN sess.windows = 1..n
  BY LenProperties DEF SavedSession
<1>2. ~Moves(l, sess, k) => ~Moves(l, sess, j) /\ j < k
  BY DEF Ahead
<1>3. \A i \in 1..n :
          /\ Maker(l, sess, i).kind = Fate(l, sess.name, sess.windows, i)
          /\ ~Moves(l, sess, i) => Maker(l, sess, i).target = sess.windows[i].index
  BY DEF Maker, First, Act, Moves
<1>4. Fate(l, sess.name, sess.windows, k) # "new_session"
  <2> SUFFICES ASSUME Fate(l, sess.name, sess.windows, k) = "new_session" PROVE FALSE
    OBVIOUS
  <2>1. k = 1 /\ ~Moves(l, sess, k)
    BY FateKinds DEF Moves
  <2> QED BY <1>1, <1>2, <2>1
<1>5. ASSUME Fate(l, sess.name, sess.windows, k) = "new_window"
      PROVE  /\ Fate(l, sess.name, sess.windows, j) # "relocate"
             /\ Maker(l, sess, j).target # Maker(l, sess, k).target
  <2>1. ~Moves(l, sess, k) /\ ~Moves(l, sess, j) /\ j < k
    BY <1>2, <1>5 DEF Moves
  <2>2. sess.windows[j].index # sess.windows[k].index
    BY <1>1, <2>1
  <2> QED BY <1>1, <1>3, <2>1, <2>2 DEF Moves
<1> QED BY <1>1, <1>3, <1>4, <1>5 DEF Apart

LEMMA SessionLaid ==
  ASSUME NEW sn \in Snapshots, NEW l, Based(sn, l), NEW n \in DOMAIN sn
  PROVE  /\ Laid(l, sn[n], SessionPlan(l, sn[n]))
         /\ Pairwise(SessionPlan(l, sn[n]), Clear(Acts(sn, TRUE)))
<1> DEFINE sess == sn[n]
           A == Acts(sn, TRUE)
           R == Clear(A)
<1>1. sn \in Seq(SavedSession) /\ sess \in SavedSession
  BY RestoreAssumption, LenProperties, ElementOfSeq
<1>2. PICK m \in Nat : m = Len(sess.windows) /\ DOMAIN sess.windows = 1..m
  BY <1>1, LenProperties DEF SavedSession
<1>3. \A k \in 1..m : sess.windows[k] \in SavedWindow
  BY <1>1, <1>2, ElementOfSeq DEF SavedSession
<1>4. SessionPlan(l, sess) \in Seq(A)
  BY SessionPlanned DEF Plans
<1>5. CASE sess.name \in Unaddressable
  <2> DEFINE warn == <<Act("warn", sess.name, NoWindow, Nothing, 1)>>
             note(k) == Act("note", sess.name, sess.windows[k], Nothing, 1)
             notes == [k \in DOMAIN sess.windows |-> note(k)]
             O == {Act("warn", sess.name, NoWindow, Nothing, 1)} \cup {note(k) : k \in 1..m}
  <2>1. SessionPlan(l, sess) = warn \o notes
    BY <1>5 DEF SessionPlan
  <2>2. \A a \in O : a.session = sess.name /\ a.kind \notin Creating
    BY DEF Act, Creating
  <2>3. warn \in Seq(O)
    <3>1. Act("warn", sess.name, NoWindow, Nothing, 1) \in O
      OBVIOUS
    <3> HIDE DEF O
    <3> QED BY <3>1
  <2>4. notes \in Seq(O)
    <3>1. \A k \in 1..m : note(k) \in O
      OBVIOUS
    <3> HIDE DEF O, note
    <3>2. notes \in [1..m -> O]
      BY <1>2, <3>1
    <3> QED BY <3>2
  <2> HIDE DEF O, warn, notes
  <2>5. SessionPlan(l, sess) \in Seq(O)
    BY <2>1, <2>3, <2>4, ConcatProperties
  <2>6. \A a \in ToSet(SessionPlan(l, sess)) : a \in A /\ a.session = sess.name /\ a.kind \notin Creating
    BY <1>4, <2>2, <2>5, SeqRange
  <2>7. Pairwise(SessionPlan(l, sess), R)
    BY <2>6 DEF Pairwise, Clear, Apart, ToSet
  <2>8. Laid(l, sess, SessionPlan(l, sess))
    BY <1>5, <2>6 DEF Laid
  <2> QED BY <2>7, <2>8
<1>6. CASE sess.name \notin Unaddressable
  <2>1. PICK order \in Seq(1..m) : order = InPlanOrder(l, sess)
    BY <1>1, <1>2, OrderTypes
  <2>2. PICK q \in Nat : q = Len(order) /\ DOMAIN order = 1..q /\ \A j \in 1..q : order[j] \in 1..m
    BY <2>1, LenProperties, ElementOfSeq
  <2> DEFINE fate(k) == Fate(l, sess.name, sess.windows, k)
             block(k) == Block(sess.name, sess.windows[k], fate(k),
                               sess.windows[k].index = sess.active)
             blocks == [j \in 1..q |-> block(order[j])]
  <2>3. SessionPlan(l, sess) = FlattenSeq(blocks)
    BY <1>6, <2>1, <2>2 DEF SessionPlan
  <2>4. ToSet(order) = 1..m /\ Pairwise(order, Ahead(l, sess))
    BY <1>1, <1>2, <2>1, OrderPairs
  <2>5. ASSUME NEW k \in 1..m
        PROVE  /\ \A a \in ToSet(block(k)) :
                     /\ a.session = sess.name
                     /\ a.kind \in Creating => Absent(l, sess, k) /\ a = Maker(l, sess, k)
               /\ Absent(l, sess, k) => Maker(l, sess, k) \in ToSet(block(k))
               /\ \A i, j \in DOMAIN block(k) : i < j => block(k)[j].kind \notin Creating
               /\ block(k) \in Seq(A)
    <3>1. fate(k) \in Creating \cup {"skip"}
      BY FateKinds
    <3>2. sess.windows[k] \in SavedWindow /\ (sess.windows[k].index = sess.active) \in BOOLEAN
      BY <1>3
    <3>3. (fate(k) = "new_session") => sess.windows[k].index = BaseIndex
      <4> SUFFICES ASSUME fate(k) = "new_session" PROVE sess.windows[k].index = BaseIndex
        OBVIOUS
      <4>1. ~Exists(l, sess.name) /\ k = 1
        BY FateKinds
      <4> QED BY <1>2, <1>6, <4>1 DEF Based
    <3>4. SavedIn(sn, sess.name, sess.windows[k]) /\ sess.name \in Sessions
      BY <1>1, <1>2 DEF SavedIn, SavedSession
    <3>5. block(k) \in Plans(A)
      <4> HIDE DEF fate, sess
      <4> QED BY <3>1, <3>2, <3>3, <3>4, BlockPlan
    <3>6. Makes(block(k), sess.name, sess.windows[k], fate(k))
      <4> HIDE DEF fate, sess
      <4> QED BY <3>1, <3>2, BlockMakes
    <3> QED BY <3>5, <3>6 DEF Makes, Absent, Maker, Plans
  <2> HIDE DEF block
  <2>6. blocks \in [1..q -> Seq(A)]
    BY <2>2, <2>5
  <2>7. ASSUME NEW k \in 1..m PROVE Pairwise(block(k), R)
    <3>1. \A j \in DOMAIN block(k) : block(k)[j] \in A
      BY <2>5, SeqRange DEF ToSet
    <3>2. ASSUME NEW i \in DOMAIN block(k), NEW j \in DOMAIN block(k), i < j
          PROVE  <<block(k)[i], block(k)[j]>> \in R
      BY <2>5, <3>1, <3>2 DEF Clear, Apart
    <3> QED BY <3>2 DEF Pairwise
  <2>8. ASSUME NEW i \in 1..q, NEW j \in 1..q, i < j,
               NEW x \in ToSet(block(order[i])), NEW y \in ToSet(block(order[j]))
        PROVE  <<x, y>> \in R
    <3>1. order[i] \in 1..m /\ order[j] \in 1..m /\ <<order[i], order[j]>> \in Ahead(l, sess)
      BY <2>2, <2>4, <2>8 DEF Pairwise
    <3>2. x \in A /\ y \in A
      BY <2>5, <3>1, SeqRange
    <3>3. CASE x.kind \in Creating /\ y.kind \in Creating
      <4>1. x = Maker(l, sess, order[i]) /\ y = Maker(l, sess, order[j])
        BY <2>5, <3>1, <3>3
      <4>2. \A a, b \in DOMAIN sess.windows : sess.windows[a].index = sess.windows[b].index => a = b
        BY SavedAssumption
      <4>3. Apart(Maker(l, sess, order[i]), Maker(l, sess, order[j]))
        <5> HIDE DEF sess
        <5> QED BY <1>1, <1>2, <3>1, <4>2, MakersApart
      <4> QED BY <3>2, <4>1, <4>3 DEF Clear
    <3>4. CASE ~(x.kind \in Creating /\ y.kind \in Creating)
      BY <3>2, <3>4 DEF Clear, Apart
    <3> QED BY <3>3, <3>4
  <2>9. \A j \in 1..q : blocks[j] = block(order[j])
    OBVIOUS
  <2> HIDE DEF blocks, R, A, fate
  <2>91. \A j \in 1..q : Pairwise(blocks[j], R)
    BY <2>2, <2>7, <2>9
  <2>92. ASSUME NEW i \in 1..q, NEW j \in 1..q, i < j,
               NEW x \in ToSet(blocks[i]), NEW y \in ToSet(blocks[j])
         PROVE  <<x, y>> \in R
    BY <2>8, <2>9, <2>92
  <2>10. /\ ToSet(FlattenSeq(blocks)) = UNION {ToSet(blocks[j]) : j \in 1..q}
         /\ Pairwise(FlattenSeq(blocks), R)
    <3> HIDE DEF sess
    <3> QED BY <2>6, <2>91, <2>92, FlatPairs
  <2>11. Laid(l, sess, FlattenSeq(blocks))
    <3>1. ASSUME NEW a \in ToSet(FlattenSeq(blocks))
          PROVE  /\ a.session = sess.name
                 /\ a.kind \in Creating =>
                       \E k \in DOMAIN sess.windows : Absent(l, sess, k) /\ a = Maker(l, sess, k)
      <4>1. PICK j \in 1..q : a \in ToSet(block(order[j]))
        BY <2>9, <2>10
      <4>2. order[j] \in 1..m
        BY <2>2
      <4> QED BY <1>2, <2>5, <4>1, <4>2
    <3>2. ASSUME NEW k \in 1..m, Absent(l, sess, k)
          PROVE  Maker(l, sess, k) \in ToSet(FlattenSeq(blocks))
      <4>1. PICK j \in 1..q : order[j] = k
        BY <2>2, <2>4 DEF ToSet
      <4>2. Maker(l, sess, k) \in ToSet(blocks[j])
        BY <2>5, <2>9, <3>2, <4>1
      <4> QED BY <2>10, <4>2
    <3> QED BY <1>2, <1>6, <3>1, <3>2 DEF Laid
  <2> QED BY <2>3, <2>10, <2>11 DEF R, A
<1> QED BY <1>5, <1>6

(* p makes what of a snapshot is not there, and nothing else.               *)
Supplied(l, sn, p) ==
    /\ \A a \in ToSet(p) : a.kind \in Creating =>
          \E n \in DOMAIN sn :
             /\ sn[n].name \notin Unaddressable
             /\ \E k \in DOMAIN sn[n].windows : Absent(l, sn[n], k) /\ a = Maker(l, sn[n], k)
    /\ \A n \in DOMAIN sn : sn[n].name \notin Unaddressable =>
          \A k \in DOMAIN sn[n].windows : Absent(l, sn[n], k) => Maker(l, sn[n], k) \in ToSet(p)

LEMMA PlanLaid ==
  ASSUME NEW sn \in Snapshots, NEW l, Based(sn, l)
  PROVE  /\ Supplied(l, sn, BuildPlan(l, sn))
         /\ Pairwise(BuildPlan(l, sn), Clear(Acts(sn, TRUE)))
<1> DEFINE A == Acts(sn, TRUE)
           R == Clear(A)
           parts == [n \in DOMAIN sn |-> SessionPlan(l, sn[n])]
<1>1. PICK q \in Nat : q = Len(sn) /\ DOMAIN sn = 1..q
  BY RestoreAssumption, LenProperties
<1>2. ASSUME NEW n \in 1..q
      PROVE  parts[n] \in Seq(A) /\ Laid(l, sn[n], parts[n]) /\ Pairwise(parts[n], R)
  BY <1>1, SessionPlanned, SessionLaid DEF Plans
<1>3. BuildPlan(l, sn) = FlattenSeq(parts)
  BY DEF BuildPlan
<1>4. parts = [n \in 1..q |-> parts[n]]
  BY <1>1
<1> HIDE DEF parts, R, A
<1>5. parts \in [1..q -> Seq(A)]
  BY <1>2, <1>4
<1>6. ASSUME NEW j \in 1..q, NEW k \in 1..q, j < k,
             NEW x \in ToSet(parts[j]), NEW y \in ToSet(parts[k])
      PROVE  <<x, y>> \in R
  <2>1. x.session = sn[j].name /\ y.session = sn[k].name
    BY <1>2 DEF Laid
  <2>2. sn[j].name # sn[k].name
    <3>1. j # k
      BY <1>6
    <3> QED BY <1>1, <3>1, SavedAssumption
  <2>3. x \in A /\ y \in A
    BY <1>2, SeqRange
  <2> QED BY <2>1, <2>2, <2>3 DEF R, Clear, Apart
<1>7. \A n \in 1..q : Pairwise(parts[n], R)
  BY <1>2
<1>8. /\ ToSet(FlattenSeq(parts)) = UNION {ToSet(parts[n]) : n \in 1..q}
      /\ Pairwise(FlattenSeq(parts), R)
  BY <1>5, <1>6, <1>7, FlatPairs
<1>9. ASSUME NEW a \in ToSet(FlattenSeq(parts)), a.kind \in Creating
      PROVE  \E n \in DOMAIN sn :
                /\ sn[n].name \notin Unaddressable
                /\ \E k \in DOMAIN sn[n].windows : Absent(l, sn[n], k) /\ a = Maker(l, sn[n], k)
  <2>1. PICK n \in 1..q : a \in ToSet(parts[n])
    BY <1>8
  <2> QED BY <1>1, <1>2, <1>9, <2>1 DEF Laid
<1>10. ASSUME NEW n \in 1..q, sn[n].name \notin Unaddressable,
              NEW k \in DOMAIN sn[n].windows, Absent(l, sn[n], k)
       PROVE  Maker(l, sn[n], k) \in ToSet(FlattenSeq(parts))
  <2>1. Maker(l, sn[n], k) \in ToSet(parts[n])
    BY <1>2, <1>10 DEF Laid
  <2> QED BY <1>8, <2>1
<1>11. Supplied(l, sn, FlattenSeq(parts))
  BY <1>1, <1>9, <1>10 DEF Supplied
<1> QED BY <1>3, <1>8, <1>11 DEF R, A

(* What a command that makes a window is sent to find.                      *)
Ready(a, l, p) ==
    /\ a.kind = "new_session" => ~Exists(l, a.session) /\ a.target = a.saved.index
    /\ a.kind = "new_window" =>
          /\ a.target = a.saved.index /\ l[a.session][a.target] = Gap
          /\ \/ Exists(l, a.session)
             \/ \E b \in ToSet(p) : b.kind = "new_session" /\ b.session = a.session
    /\ a.kind = "relocate" => Exists(l, a.session) /\ l[a.session][a.saved.index] # Gap

LEMMA MakerReady ==
  ASSUME NEW sn \in Snapshots, NEW l, NEW p, Supplied(l, sn, p), NEW a \in ToSet(p)
  PROVE  Ready(a, l, p)
<1> SUFFICES ASSUME a.kind \in Creating PROVE Ready(a, l, p)
  BY DEF Ready, Creating
<1>1. PICK n \in DOMAIN sn :
          /\ sn[n].name \notin Unaddressable
          /\ \E k \in DOMAIN sn[n].windows : Absent(l, sn[n], k) /\ a = Maker(l, sn[n], k)
  BY DEF Supplied
<1>2. PICK sess : sess = sn[n]
  OBVIOUS
<1>3. PICK k \in DOMAIN sess.windows : Absent(l, sess, k) /\ a = Maker(l, sess, k)
  BY <1>1, <1>2
<1>4. sess \in SavedSession
  BY <1>2, RestoreAssumption, LenProperties, ElementOfSeq
<1>5. PICK m \in Nat : m = Len(sess.windows) /\ DOMAIN sess.windows = 1..m
  BY <1>4, LenProperties DEF SavedSession
<1>6. PICK s, w : s = sess.name /\ w = sess.windows[k]
  OBVIOUS
<1>7. w.index \in Indexes
  <2>1. w \in SavedWindow
    BY <1>3, <1>4, <1>5, <1>6, ElementOfSeq DEF SavedSession
  <2> QED BY <2>1 DEF SavedWindow
<1>8. PICK fate : fate = Fate(l, s, sess.windows, k)
  OBVIOUS
<1>9. /\ a.kind = fate /\ a.session = s /\ a.saved = w
      /\ fate # "relocate" => a.target = w.index
  BY <1>3, <1>6, <1>8 DEF Maker, First, Act
<1>10. /\ fate = "new_session" => ~Exists(l, s)
       /\ fate = "new_window" => \/ ~Exists(l, s) /\ k # 1
                                 \/ Exists(l, s) /\ l[s][w.index] = Gap
       /\ fate = "relocate" => Exists(l, s) /\ l[s][w.index] # Gap
  BY <1>6, <1>8 DEF Fate
<1>11. ~Exists(l, s) => l[s][w.index] = Gap
  BY <1>7 DEF Exists, Taken
<1>12. ASSUME ~Exists(l, s)
       PROVE  \E b \in ToSet(p) : b.kind = "new_session" /\ b.session = s
  <2>1. 1 \in DOMAIN sess.windows
    BY <1>3, <1>5
  <2>2. Fate(l, s, sess.windows, 1) = "new_session"
    BY <1>12 DEF Fate
  <2>3. Absent(l, sess, 1) /\ Maker(l, sess, 1).kind = "new_session" /\ Maker(l, sess, 1).session = s
    BY <1>6, <2>2 DEF Absent, Maker, First, Act
  <2>4. Maker(l, sess, 1) \in ToSet(p)
    BY <1>1, <1>2, <2>1, <2>3 DEF Supplied
  <2> QED BY <2>3, <2>4
<1> QED BY <1>9, <1>10, <1>11, <1>12 DEF Ready

LEMMA TailClear ==
  ASSUME NEW A, NEW p \in Seq(A), p # <<>>, NEW R
  PROVE  /\ ToSet(p) = {Head(p)} \cup ToSet(Tail(p))
         /\ Pairwise(p, R) => /\ Pairwise(Tail(p), R)
                              /\ \A b \in ToSet(Tail(p)) : <<Head(p), b>> \in R
<1>1. PICK n \in Nat :
            /\ Len(p) = n + 1 /\ DOMAIN p = 1..(n + 1) /\ Len(Tail(p)) = n
            /\ DOMAIN Tail(p) = 1..n /\ Tail(p) \in Seq(A)
            /\ \A k \in 1..n : Tail(p)[k] = p[k + 1]
            /\ Head(p) = p[1] /\ p[1] \in A
  BY TailParts
<1> DEFINE t == Tail(p)
           a == Head(p)
<1> HIDE DEF t, a
<1>2. /\ DOMAIN t = 1..n /\ \A k \in 1..n : t[k] = p[k + 1]
      /\ a = p[1] /\ DOMAIN p = 1..(n + 1)
  BY <1>1 DEF t, a
<1>3. ASSUME NEW k \in 1..n PROVE k + 1 \in 1..(n + 1) /\ 1 < k + 1 /\ t[k] = p[k + 1]
  BY <1>2
<1>4. ToSet(p) = {a} \cup ToSet(t)
  <2>1. ASSUME NEW k \in 1..(n + 1) PROVE p[k] = a \/ p[k] \in ToSet(t)
    <3>1. CASE k = 1
      BY <1>2, <3>1
    <3>2. CASE k # 1
      <4>1. k - 1 \in 1..n /\ (k - 1) + 1 = k
        BY <3>2
      <4>2. t[k - 1] = p[k]
        BY <1>2, <4>1
      <4> QED BY <1>2, <4>1, <4>2 DEF ToSet
    <3> QED BY <3>1, <3>2
  <2>2. ToSet(p) \subseteq {a} \cup ToSet(t)
    BY <1>2, <2>1 DEF ToSet
  <2>3. a \in ToSet(p)
    <3>1. 1 \in 1..(n + 1)
      OBVIOUS
    <3> QED BY <1>2, <3>1 DEF ToSet
  <2>4. ToSet(t) \subseteq ToSet(p)
    BY <1>2, <1>3 DEF ToSet
  <2> QED BY <2>2, <2>3, <2>4
<1>5. ASSUME Pairwise(p, R) PROVE Pairwise(t, R)
  <2>1. ASSUME NEW j \in 1..n, NEW k \in 1..n, j < k PROVE <<t[j], t[k]>> \in R
    <3>1. j + 1 \in 1..(n + 1) /\ k + 1 \in 1..(n + 1) /\ j + 1 < k + 1
      BY <2>1
    <3> QED BY <1>2, <1>3, <1>5, <3>1 DEF Pairwise
  <2> QED BY <1>2, <2>1 DEF Pairwise
<1>6. ASSUME Pairwise(p, R), NEW b \in ToSet(t) PROVE <<a, b>> \in R
  <2>1. PICK k \in 1..n : b = t[k]
    BY <1>2 DEF ToSet
  <2>2. 1 \in 1..(n + 1)
    OBVIOUS
  <2> QED BY <1>2, <1>3, <1>6, <2>1, <2>2 DEF Pairwise
<1> QED BY <1>4, <1>5, <1>6 DEF t, a

(* A run that nothing has disturbed: every command that makes a window will *)
(* be accepted, and all that was planned is made, noted or still to come.   *)
Exact == report.created + report.relocated + report.skipped + PlannedWindows(plan) = planned

Clearly(p, l, sn) ==
    /\ Pairwise(p, Clear(Acts(sn, TRUE)))
    /\ \A a \in ToSet(p) : Ready(a, l, p)

Undisturbed ==
    (running /\ settled) => up /\ aborted \notin Sessions /\ Exact /\ Clearly(plan, live, snap)

(* No command that can be run takes away what a later one needs.            *)
LEMMA StaysReady ==
  ASSUME RestoreInv, ApplyQuiet \/ ApplySkip \/ ApplyRefused \/ ApplyRun,
         ApplyRefused => Head(plan).kind # "new_session",
         aborted \notin Sessions, Clearly(plan, live, snap)
  PROVE  Clearly(plan', live', snap')
<1> DEFINE a == Head(plan)
           R == Clear(Acts(snap, TRUE))
<1>0. Consume /\ Planning(TRUE) /\ [RNext]_rvars
  BY DEF RestoreInv, RNext, Apply, ApplyQuiet, ApplySkip, ApplyRefused, ApplyRun
<1>1. /\ plan \in Seq(Acts(snap, TRUE)) /\ plan # <<>> /\ plan' = Tail(plan) /\ snap' = snap
      /\ live \in [Sessions -> [Indexes -> Window]]
  BY <1>0 DEF Consume, Planning, Typed
<1>2. /\ ToSet(plan) = {a} \cup ToSet(plan') /\ Pairwise(plan', R)
      /\ \A b \in ToSet(plan') : <<a, b>> \in R
  <2>1. Pairwise(plan, R)
    BY DEF Clearly
  <2>2. /\ ToSet(plan) = {a} \cup ToSet(Tail(plan)) /\ Pairwise(Tail(plan), R)
        /\ \A b \in ToSet(Tail(plan)) : <<a, b>> \in R
    <3> HIDE DEF R
    <3> QED BY <1>1, <2>1, TailClear
  <2>3. ToSet(plan') = ToSet(Tail(plan)) /\ (Pairwise(Tail(plan), R) => Pairwise(plan', R))
    BY <1>1 DEF ToSet, Pairwise
  <2> QED BY <2>2, <2>3
<1>3. a \in Acts(snap, TRUE) /\ a.session \in Sessions
  BY <1>0, Consumed DEF Acts
<1>4. ASSUME NEW s \in Sessions, Exists(live, s) PROVE Exists(live', s)
  <2>1. PICK i \in Indexes : live[s][i] # Gap
    BY <1>4 DEF Exists, Taken
  <2>2. live'[s][i] # Gap
    BY <1>0, <2>1, WindowsStay
  <2> QED BY <2>2 DEF Exists, Taken
<1>5. ASSUME NEW b \in ToSet(plan') PROVE Ready(b, live', plan')
  <2>1. /\ b \in Acts(snap, TRUE) /\ Apart(a, b) /\ Ready(b, live, plan)
        /\ b.session \in Sessions
    <3>1. <<a, b>> \in R
      BY <1>2
    <3>2. Ready(b, live, plan)
      BY <1>2 DEF Clearly
    <3> QED BY <3>1, <3>2 DEF Clear, Acts
  <2>2. b.kind \in Creating => b.saved.index \in Indexes
    BY <2>1 DEF Acts, Remarks, Creating, SavedWindow
  <2>3. b.kind = "relocate" => Exists(live', b.session) /\ live'[b.session][b.saved.index] # Gap
    BY <1>0, <1>4, <2>1, <2>2, WindowsStay DEF Ready, Creating
  <2>4. CASE live' = live /\ a.kind # "new_session"
    <3>1. b.kind = "new_window" =>
             \/ Exists(live', b.session)
             \/ \E c \in ToSet(plan') : c.kind = "new_session" /\ c.session = b.session
      BY <1>2, <2>1, <2>4 DEF Ready
    <3> QED BY <2>1, <2>3, <2>4, <3>1 DEF Ready
  <2>5. CASE ApplyRun
    <3>1. PICK i \in Indexes :
            /\ i \in At(a, Target(a)) /\ Accepts(a, i)
            /\ live' = [live EXCEPT ![a.session][i] = Effect(a, live[a.session][i])]
            /\ a.kind \notin Creating => live[a.session][i] # Gap
      BY <1>0, <2>5, Ran
    <3>2. \A s \in Sessions, j \in Indexes :
             (s # a.session \/ j # i) => live'[s][j] = live[s][j]
      <4> HIDE DEF a
      <4> QED BY <1>1, <1>3, <3>1
    <3>3. a.kind = "new_session" => i = BaseIndex /\ a.target = BaseIndex
      BY <1>3, <3>1 DEF At, Acts, Remarks
    <3>4. a.kind = "new_window" => i = a.target
      BY <1>3, <3>1 DEF At, Acts, Remarks, Placeholder, Indexes
    <3>5. b.kind = "new_session" => ~Exists(live', b.session)
      <4> SUFFICES ASSUME b.kind = "new_session" PROVE ~Exists(live', b.session)
        OBVIOUS
      <4>1. ~Exists(live, b.session)
        BY <2>1 DEF Ready
      <4>2. a.session # b.session
        <5>1. CASE a.kind \in Creating
          BY <2>1, <5>1 DEF Apart, Creating
        <5>2. CASE a.kind \notin Creating
          BY <3>1, <4>1, <5>2 DEF Exists, Taken
        <5> QED BY <5>1, <5>2
      <4> QED BY <2>1, <3>2, <4>1, <4>2 DEF Exists, Taken
    <3>6. b.kind = "new_window" => live'[b.session][b.target] = Gap
      <4> SUFFICES ASSUME b.kind = "new_window" PROVE live'[b.session][b.target] = Gap
        OBVIOUS
      <4>1. live[b.session][b.target] = Gap /\ b.target \in Indexes
        BY <2>1 DEF Ready, Acts, Remarks
      <4>2. b.session # a.session \/ b.target # i
        <5>1. CASE a.kind \in Creating
          BY <2>1, <3>3, <3>4, <5>1 DEF Apart, Creating
        <5>2. CASE a.kind \notin Creating
          BY <3>1, <4>1, <5>2
        <5> QED BY <5>1, <5>2
      <4> QED BY <2>1, <3>2, <4>1, <4>2
    <3>7. b.kind = "new_window" =>
             \/ Exists(live', b.session)
             \/ \E c \in ToSet(plan') : c.kind = "new_session" /\ c.session = b.session
      <4> SUFFICES ASSUME b.kind = "new_window"
                   PROVE  \/ Exists(live', b.session)
                          \/ \E c \in ToSet(plan') : c.kind = "new_session" /\ c.session = b.session
        OBVIOUS
      <4>1. CASE Exists(live, b.session)
        BY <1>4, <2>1, <4>1
      <4>2. CASE \E c \in ToSet(plan') : c.kind = "new_session" /\ c.session = b.session
        BY <4>2
      <4>3. CASE a.kind = "new_session" /\ a.session = b.session
        <5>1. Effect(a, live[a.session][i]).name # ""
          <6>1. a.kind \in Creating \cup Following /\ a.saved.name \in Names
                /\ live[a.session][i] \in Window
            BY <1>1, <1>3, <4>3 DEF Acts, Creating, Remarks, SavedWindow
          <6>2. Effect(a, live[a.session][i]).name = a.saved.name
            BY <4>3 DEF Effect, Creating
          <6> QED BY <6>1, <6>2, RestoreAssumption
        <5>2. live'[a.session][i] = Effect(a, live[a.session][i])
          <6> HIDE DEF a
          <6> QED BY <1>1, <1>3, <3>1
        <5>3. Gap.name = ""
          BY DEF Gap
        <5> QED BY <4>3, <5>1, <5>2, <5>3 DEF Exists, Taken
      <4> QED BY <1>2, <2>1, <4>1, <4>2, <4>3 DEF Ready
    <3>8. b.kind \in {"new_session", "new_window"} => b.target = b.saved.index
      BY <2>1 DEF Ready
    <3> QED BY <2>3, <3>5, <3>6, <3>7, <3>8 DEF Ready
  <2>6. CASE ApplyQuiet
    <3>1. a.session # aborted
      BY <1>3, RestoreAssumption
    <3> QED BY <2>4, <2>6, <3>1 DEF ApplyQuiet
  <2>7. CASE ApplySkip
    BY <2>4, <2>7 DEF ApplySkip, Creating
  <2>8. CASE ApplyRefused
    BY <2>4, <2>8 DEF ApplyRefused
  <2> QED BY <2>5, <2>6, <2>7, <2>8
<1> QED BY <1>1, <1>2, <1>5 DEF Clearly

LEMMA MadeInGap ==
  ASSUME NEW a, a.kind \in Creating, NEW i \in Indexes, Accepts(a, i)
  PROVE  live[a.session][i] = Gap
<1>1. CASE a.kind = "new_session"
  <2>1. ~Exists(live, a.session)
    BY <1>1 DEF Accepts
  <2> QED BY <2>1 DEF Exists, Taken
<1>2. CASE a.kind # "new_session"
  BY <1>2 DEF Accepts, Creating
<1> QED BY <1>1, <1>2

(* tmux refuses no command that makes a window but for want of an index.    *)
LEMMA NotRefused ==
  ASSUME RestoreInv, up, aborted \notin Sessions, Clearly(plan, live, snap), ApplyRefused, settled'
  PROVE  Head(plan).kind \notin Creating
<1> DEFINE a == Head(plan)
           R == Clear(Acts(snap, TRUE))
<1>0. Consume /\ Planning(TRUE) /\ plan \in Seq(Acts(snap, TRUE)) /\ plan # <<>>
  BY DEF RestoreInv, ApplyRefused, Planning, Consume
<1>1. a \in Acts(snap, TRUE)
  BY <1>0, Consumed
<1>2. (\A i \in At(a, Target(a)) : ~Accepts(a, i)) /\ ~NoRoom(a)
  BY DEF ApplyRefused, Mishap
<1>3. ToSet(plan) = {a} \cup ToSet(Tail(plan)) /\ \A b \in ToSet(Tail(plan)) : <<a, b>> \in R
  <2>1. Pairwise(plan, R)
    BY DEF Clearly
  <2> HIDE DEF R
  <2> QED BY <1>0, <2>1, TailClear
<1>4. Ready(a, live, plan)
  BY <1>3 DEF Clearly
<1>5. a.kind # "new_session"
  BY <1>2, <1>4 DEF Ready, At, Accepts
<1>6. a.kind # "new_window"
  <2> SUFFICES ASSUME a.kind = "new_window" PROVE FALSE
    OBVIOUS
  <2>1. At(a, Target(a)) = {a.target}
    <3>1. a.target \in Indexes
      BY <1>1 DEF Acts, Remarks
    <3>2. a.target # Placeholder
      BY <3>1 DEF Indexes, Placeholder
    <3> QED BY <3>2 DEF At
  <2>2. ~Exists(live, a.session)
    BY <1>2, <1>4, <2>1 DEF Ready, Accepts
  <2>3. PICK b \in ToSet(Tail(plan)) : b.kind = "new_session" /\ b.session = a.session
    BY <1>3, <1>4, <2>2 DEF Ready
  <2>4. Apart(a, b)
    BY <1>3 DEF Clear
  <2> QED BY <2>3, <2>4 DEF Apart, Creating
<1>7. a.kind # "relocate"
  <2> SUFFICES ASSUME a.kind = "relocate" PROVE FALSE
    OBVIOUS
  <2>1. PICK i \in NextFree(a.session) : i \in At(a, Target(a))
    BY <1>2 DEF NoRoom, At
  <2>2. live[a.session][i] = Gap
    BY DEF NextFree
  <2> QED BY <1>2, <1>4, <2>1, <2>2 DEF Ready, Accepts
<1> QED BY <1>5, <1>6, <1>7 DEF Creating

LEMMA ExactStep ==
  ASSUME RestoreInv, Counts, ApplyQuiet \/ ApplySkip \/ ApplyRefused \/ ApplyRun,
         ApplyRefused => Head(plan).kind \notin Creating, aborted \notin Sessions, Exact
  PROVE  Exact'
<1> DEFINE a == Head(plan)
           rest == PlannedWindows(plan')
<1>0. Consume /\ Planning(TRUE)
  BY DEF RestoreInv, ApplyQuiet, ApplySkip, ApplyRefused, ApplyRun
<1>1. /\ plan \in Seq(Acts(snap, TRUE)) /\ plan # <<>> /\ plan' = Tail(plan) /\ planned' = planned
      /\ report \in [created : Nat, relocated : Nat, skipped : Nat, notes : Nat]
  BY <1>0 DEF Consume, Planning, Counts
<1>2. a \in Acts(snap, TRUE) /\ a.session # aborted
  <2>1. a \in Acts(snap, TRUE)
    BY <1>0, Consumed
  <2> QED BY <2>1, RestoreAssumption DEF Acts
<1>3. PICK d \in {0, 1} : d = 1 <=> Counting(a)
  <2>1. CASE Counting(a)
    BY <2>1
  <2>2. CASE ~Counting(a)
    BY <2>2
  <2> QED BY <2>1, <2>2
<1>4. rest \in Nat /\ PlannedWindows(plan) = rest + d
  <2>1. plan' \in Seq(Acts(snap', TRUE))
    BY <1>0, Consumed
  <2>2. PlannedWindows(plan) = rest + IF Counting(a) THEN 1 ELSE 0
    BY <1>1, PlannedTail
  <2> QED BY <1>3, <2>1, <2>2, PlannedFinite
<1>5. report.created + report.relocated + report.skipped + PlannedWindows(plan) = planned
  BY DEF Exact
<1> DEFINE Sum(r) == r.created + r.relocated + r.skipped
<1>6. Sum(report') = Sum(report) + d
  <2>1. CASE ApplyQuiet
    <3>1. \/ d = 1 /\ report' = [report EXCEPT !.skipped = @ + 1]
          \/ d = 0 /\ report' = [report EXCEPT !.notes = @ + 1]
      BY <1>2, <1>3, <2>1 DEF ApplyQuiet, Counting, Creating
    <3> HIDE DEF a
    <3> QED BY <1>1, <3>1
  <2>2. CASE ApplySkip
    <3>1. d = 0 /\ report' = report
      BY <1>3, <2>2 DEF ApplySkip, Counting
    <3> HIDE DEF a
    <3> QED BY <1>1, <3>1
  <2>3. CASE ApplyRun
    <3>1. \/ d = 1 /\ report' = [report EXCEPT !.created = @ + 1]
          \/ d = 1 /\ report' = [report EXCEPT !.relocated = @ + 1]
          \/ d = 0 /\ report' = report
      BY <1>3, <2>3 DEF ApplyRun, Runs, Counted, Counting, Creating
    <3> HIDE DEF a
    <3>2. CASE d = 1 /\ report' = [report EXCEPT !.created = @ + 1]
      BY <1>1, <3>2
    <3>3. CASE d = 1 /\ report' = [report EXCEPT !.relocated = @ + 1]
      BY <1>1, <3>3
    <3>4. CASE d = 0 /\ report' = report
      BY <1>1, <3>4
    <3> QED BY <3>1, <3>2, <3>3, <3>4
  <2>4. CASE ApplyRefused
    <3>1. d = 0 /\ report' = [report EXCEPT !.notes = @ + 1]
      BY <1>3, <2>4 DEF ApplyRefused, Failed, Runs, Counting
    <3> HIDE DEF a
    <3> QED BY <1>1, <3>1
  <2> QED BY <2>1, <2>2, <2>3, <2>4
<1>7. Sum(report) \in Nat
  BY <1>1
<1>8. Sum(report') + rest = planned
  <2> HIDE DEF Sum, rest, a
  <2>1. Sum(report) + PlannedWindows(plan) = planned
    BY <1>5 DEF Sum
  <2> QED BY <1>4, <1>6, <1>7, <2>1
<1>9. PlannedWindows(plan)' = rest
  BY DEF PlannedWindows
<1> QED BY <1>1, <1>8, <1>9 DEF Exact

LEMMA UndisturbedStep ==
  ASSUME RestoreInv, Counts, Undisturbed, [RNext]_rvars
  PROVE  Undisturbed'
<1> SUFFICES ASSUME running', settled'
             PROVE  up' /\ aborted' \notin Sessions /\ Exact' /\ Clearly(plan', live', snap')
  BY DEF Undisturbed, Clearly, Pairwise, Clear, Acts, Ready, Apart, SavedIn, ToSet, Exists, Taken
<1>0. Planning(TRUE) /\ snap \in Snapshots /\ Based(snap, live)
  BY DEF RestoreInv, Planning, Typed
<1>1. CASE UNCHANGED rvars
  <2>1. running /\ settled /\ UNCHANGED <<up, aborted, report, plan, planned, live, snap>>
    BY <1>1 DEF rvars
  <2>2. up /\ aborted \notin Sessions /\ Exact /\ Clearly(plan, live, snap)
    BY <2>1 DEF Undisturbed
  <2>3. Exact'
    BY <2>1, <2>2 DEF Exact, PlannedWindows
  <2> QED BY <2>1, <2>2, <2>3
<1>2. CASE StartRestore
  <2>1. /\ plan' = BuildPlan(live, snap) /\ live' = live /\ snap' = snap /\ aborted' = ""
        /\ report' = NoReport /\ planned' = PlannedWindows(plan') /\ up'
    BY <1>2 DEF StartRestore
  <2>2. PICK p : p = BuildPlan(live, snap)
    OBVIOUS
  <2>3. Supplied(live, snap, p) /\ Pairwise(p, Clear(Acts(snap, TRUE)))
    BY <1>0, <2>2, PlanLaid
  <2>4. \A a \in ToSet(p) : Ready(a, live, p)
    BY <1>0, <2>3, MakerReady
  <2>5. Clearly(plan', live', snap')
    BY <2>1, <2>2, <2>3, <2>4 DEF Clearly
  <2>6. plan' \in Seq(Acts(snap', TRUE))
    BY <1>0, PlanStep
  <2>7. PlannedWindows(plan') \in Nat
    BY <2>6, PlannedFinite
  <2>8. Exact'
    <3>1. report'.created = 0 /\ report'.relocated = 0 /\ report'.skipped = 0
      BY <2>1 DEF NoReport
    <3>2. planned' = PlannedWindows(plan')
      BY <2>1
    <3>3. PlannedWindows(plan)' = PlannedWindows(plan')
      BY DEF PlannedWindows
    <3> QED BY <2>7, <3>1, <3>2, <3>3 DEF Exact
  <2>9. aborted' \notin Sessions
    BY <2>1, RestoreAssumption
  <2> QED BY <2>1, <2>5, <2>8, <2>9
<1>3. CASE ApplyQuiet \/ ApplySkip \/ ApplyRun \/ ApplyRefused
  <2>1. running /\ settled
    BY <1>3 DEF ApplyQuiet, ApplySkip, ApplyRun, ApplyRefused, Mishap, Consume
  <2>2. up /\ aborted \notin Sessions /\ Exact /\ Clearly(plan, live, snap)
    BY <2>1 DEF Undisturbed
  <2>3. ApplyRefused => Head(plan).kind \notin Creating
    BY <2>2, NotRefused
  <2>4. Exact'
    BY <1>3, <2>2, <2>3, ExactStep
  <2>5. Clearly(plan', live', snap')
    BY <1>3, <2>2, <2>3, StaysReady DEF Creating
  <2>6. aborted' = aborted
    BY <1>3, <2>3 DEF ApplyQuiet, ApplySkip, ApplyRun, ApplyRefused, Failed, applyvars, Creating
  <2>7. up'
    BY <1>3, <2>2 DEF ApplyQuiet, ApplySkip, ApplyRun, ApplyRefused, Mishap
  <2> QED BY <2>2, <2>4, <2>5, <2>6, <2>7
<1> QED BY <1>1, <1>2, <1>3
        DEF RNext, Apply, ApplyUnheard, Mishap, Finish, Cancelled, Stop, UserOpens

(* No window a restore or its user made is made again, or renamed.          *)
LEMMA NamesStay ==
  ASSUME Planning(TRUE), [RNext]_rvars, NEW s \in Sessions, NEW i \in Indexes, live[s][i] # Gap
  PROVE  live'[s][i] # Gap /\ live'[s][i].name = live[s][i].name
<1>0. live \in [Sessions -> [Indexes -> Window]] /\ live'[s][i] # Gap
  BY WindowsStay DEF Planning, Typed
<1>1. CASE live' = live
  BY <1>0, <1>1
<1>2. CASE ApplyRun \/ ApplyUnheard
  <2> DEFINE a == Head(plan)
  <2>1. PICK j \in Indexes :
            /\ Accepts(a, j)
            /\ live' = [live EXCEPT ![a.session][j] = Effect(a, live[a.session][j])]
            /\ live[a.session][j] \in Window /\ a.session \in Sessions
            /\ a.kind \notin Creating => live[a.session][j] # Gap
    BY <1>2, Ran
  <2>2. a.kind \in Creating \cup Following
    BY <1>2, Consumed DEF ApplyRun, ApplyUnheard, Runs, Acts, Remarks
  <2>3. CASE s = a.session /\ i = j
    <3>1. a.kind \notin Creating
      BY <2>1, <2>3, MadeInGap
    <3>2. Effect(a, live[a.session][j]).name = live[a.session][j].name
      BY <2>1, <2>2, <3>1, EffectName
    <3>3. live'[s][i] = Effect(a, live[a.session][j])
      <4> HIDE DEF a
      <4> QED BY <1>0, <2>1, <2>3
    <3> QED BY <1>0, <2>3, <3>2, <3>3
  <2>4. CASE ~(s = a.session /\ i = j)
    <3>1. live'[s][i] = live[s][i]
      <4> HIDE DEF a
      <4> QED BY <1>0, <2>1, <2>4
    <3> QED BY <1>0, <3>1
  <2> QED BY <2>3, <2>4
<1>3. CASE UserOpens
  <2>1. PICK t \in Sessions, j \in Indexes, name \in Names :
            live[t][j] = Gap /\ live' = [live EXCEPT ![t][j] = Opened(name)]
    BY <1>3 DEF UserOpens
  <2> QED BY <1>0, <2>1
<1> QED BY <1>1, <1>2, <1>3
        DEF RNext, Apply, StartRestore, ApplyQuiet, ApplySkip, ApplyRefused, Finish, Cancelled,
            Stop, rvars

(* A saved window that a restore would skip. *)
There(s, w) == live[s][w.index] # Gap /\ Named(live, s, w.name) # {}

Coming(s, w) == \E a \in ToSet(plan) : a.kind \in Creating /\ a.session = s /\ a.saved = w

(* What was saved is there or will be made. *)
Provided ==
    settled => \A n \in DOMAIN snap : \A k \in DOMAIN snap[n].windows :
        \/ snap[n].name \in Unaddressable
        \/ There(snap[n].name, snap[n].windows[k])
        \/ Coming(snap[n].name, snap[n].windows[k])

LEMMA SavedTyped ==
  ASSUME NEW sn \in Snapshots, NEW n \in DOMAIN sn, NEW k \in DOMAIN sn[n].windows
  PROVE  sn[n].name \in Sessions /\ sn[n].windows[k] \in SavedWindow /\ sn[n].windows[k].index \in Indexes
<1>1. sn \in Seq(SavedSession) /\ sn[n] \in SavedSession
  BY RestoreAssumption, LenProperties, ElementOfSeq
<1>2. sn[n].windows[k] \in SavedWindow
  BY <1>1, LenProperties, ElementOfSeq DEF SavedSession
<1> QED BY <1>1, <1>2 DEF SavedSession, SavedWindow

LEMMA StillThere ==
  ASSUME Planning(TRUE), [RNext]_rvars, NEW s \in Sessions, NEW w, w.index \in Indexes, There(s, w)
  PROVE  live'[s][w.index] # Gap /\ Named(live', s, w.name) # {}
<1>1. live[s][w.index] # Gap
  BY DEF There
<1>2. PICK i \in Indexes : live[s][i] # Gap /\ live[s][i].name = w.name
  BY DEF There, Named, Taken
<1>3. live'[s][i] # Gap /\ live'[s][i].name = w.name /\ live'[s][w.index] # Gap
  BY <1>1, <1>2, NamesStay
<1> QED BY <1>3 DEF Named, Taken

(* A command that makes a window puts it where the next run looks for it.   *)
LEMMA NowThere ==
  ASSUME RestoreInv, Clearly(plan, live, snap), ApplyRun, Head(plan).kind \in Creating,
         NEW s, NEW w, Head(plan).session = s, Head(plan).saved = w
  PROVE  live'[s][w.index] # Gap /\ Named(live', s, w.name) # {}
<1> DEFINE a == Head(plan)
<1>0. /\ Planning(TRUE) /\ [RNext]_rvars /\ live \in [Sessions -> [Indexes -> Window]]
      /\ plan \in Seq(Acts(snap, TRUE)) /\ plan # <<>>
  BY DEF RestoreInv, Planning, Typed, RNext, Apply, ApplyRun, Consume
<1>1. PICK i \in Indexes :
            /\ i \in At(a, Target(a)) /\ Accepts(a, i)
            /\ live' = [live EXCEPT ![a.session][i] = Effect(a, live[a.session][i])]
            /\ live[a.session][i] \in Window /\ a.session \in Sessions
  BY <1>0, Ran
<1>2. a \in Acts(snap, TRUE) /\ w.name \in Names /\ w.index \in Indexes
  <2>1. a \in Acts(snap, TRUE)
    BY <1>0, Consumed DEF ApplyRun
  <2> QED BY <2>1 DEF Acts, Creating, Remarks, SavedWindow
<1>3. live'[s][i].name = w.name
  <2>1. s = a.session /\ w = a.saved
    OBVIOUS
  <2>2. live'[s][i] = Effect(a, live[a.session][i])
    <3> HIDE DEF a
    <3> QED BY <1>0, <1>1, <2>1
  <2>3. Effect(a, live[a.session][i]).name = w.name
    BY <2>1 DEF Effect, Creating
  <2> QED BY <2>2, <2>3
<1>4. live'[s][i] # Gap
  <2>1. Gap.name = ""
    BY DEF Gap
  <2> QED BY <1>2, <1>3, <2>1, RestoreAssumption
<1>5. Named(live', s, w.name) # {}
  BY <1>3, <1>4 DEF Named, Taken
<1>6. Ready(a, live, plan)
  <2>1. a \in ToSet(plan)
    <3>1. ToSet(plan) = {a} \cup ToSet(Tail(plan))
      BY <1>0, TailClear
    <3> QED BY <3>1
  <2> QED BY <2>1 DEF Clearly
<1>7. CASE a.kind \in {"new_session", "new_window"}
  <2>1. a.target = w.index
    BY <1>6, <1>7 DEF Ready
  <2>2. i = a.target
    <3>1. CASE a.kind = "new_session"
      BY <1>1, <1>2, <3>1 DEF At, Acts, Remarks
    <3>2. CASE a.kind = "new_window"
      BY <1>1, <1>2, <2>1, <3>2 DEF At, Placeholder, Indexes
    <3> QED BY <1>7, <3>1, <3>2
  <2> QED BY <1>4, <1>5, <2>1, <2>2
<1>8. CASE a.kind = "relocate"
  <2>1. live[s][w.index] # Gap
    BY <1>6, <1>8 DEF Ready
  <2>2. live'[s][w.index] # Gap
    BY <1>0, <1>1, <1>2, <2>1, WindowsStay
  <2> QED BY <1>5, <2>2
<1> QED BY <1>7, <1>8 DEF Creating

LEMMA ProvidedStep ==
  ASSUME RestoreInv, Undisturbed, Provided, [RNext]_rvars
  PROVE  Provided'
<1>0. Planning(TRUE) /\ snap \in Snapshots /\ Based(snap, live) /\ (~running => plan = <<>>)
  BY DEF RestoreInv, Planning, Typed
<1>1. snap' = snap
  BY DEF RNext, Apply, StartRestore, ApplyQuiet, ApplySkip, ApplyRun, ApplyUnheard, ApplyRefused,
         Consume,
         Finish, Cancelled, Stop, UserOpens, rvars
<1> SUFFICES ASSUME settled', NEW n \in DOMAIN snap, NEW k \in DOMAIN snap[n].windows,
                    snap[n].name \notin Unaddressable
             PROVE  \/ There(snap[n].name, snap[n].windows[k])'
                    \/ Coming(snap[n].name, snap[n].windows[k])'
  BY <1>1 DEF Provided, There, Coming, Named, Taken, ToSet
<1>2. PICK s, w : s = snap[n].name /\ w = snap[n].windows[k]
  OBVIOUS
<1>3. s \in Sessions /\ w.index \in Indexes
  BY <1>0, <1>2, SavedTyped
<1> SUFFICES \/ live'[s][w.index] # Gap /\ Named(live', s, w.name) # {}
             \/ \E a \in ToSet(plan') : a.kind \in Creating /\ a.session = s /\ a.saved = w
  BY <1>1, <1>2 DEF There, Coming, Named, Taken, ToSet
<1>4. CASE StartRestore
  <2>1. plan' = BuildPlan(live, snap) /\ live' = live
    BY <1>4 DEF StartRestore
  <2>2. Supplied(live, snap, plan')
    BY <1>0, <2>1, PlanLaid
  <2>3. CASE Absent(live, snap[n], k)
    <3>1. Maker(live, snap[n], k) \in ToSet(plan')
      BY <2>2, <2>3 DEF Supplied
    <3>2. /\ Maker(live, snap[n], k).kind \in Creating
          /\ Maker(live, snap[n], k).session = s /\ Maker(live, snap[n], k).saved = w
      BY <1>2, <2>3, FateKinds DEF Maker, First, Act, Absent
    <3> QED BY <3>1, <3>2
  <2>4. CASE ~Absent(live, snap[n], k)
    <3>1. Fate(live, s, snap[n].windows, k) = "skip"
      BY <1>2, <2>4 DEF Absent
    <3>2. live[s][w.index] # Gap /\ Named(live, s, w.name) # {}
      BY <1>2, <3>1 DEF Fate
    <3> QED BY <2>1, <3>2
  <2> QED BY <2>3, <2>4
<1>5. CASE ~StartRestore
  <2>1. settled
    BY <1>5 DEF Mishap, RNext, Apply, ApplyQuiet, ApplySkip, ApplyRun, ApplyUnheard,
                ApplyRefused, Finish, Cancelled,
                UserOpens, rvars
  <2>2. There(s, w) \/ Coming(s, w)
    BY <1>2, <2>1 DEF Provided
  <2>3. CASE There(s, w)
    BY <1>0, <1>3, <2>3, StillThere
  <2>4. CASE Coming(s, w) /\ plan' = plan
    BY <2>4 DEF Coming
  <2>5. CASE Coming(s, w) /\ Consume
    <3> DEFINE a == Head(plan)
    <3>1. /\ plan \in Seq(Acts(snap, TRUE)) /\ plan # <<>> /\ plan' = Tail(plan)
          /\ running /\ a \in Acts(snap, TRUE)
      BY <1>0, <2>5, Consumed DEF Planning, Consume
    <3>2. ToSet(plan) = {a} \cup ToSet(Tail(plan))
      BY <3>1, TailClear
    <3>3. PICK b \in ToSet(plan) : b.kind \in Creating /\ b.session = s /\ b.saved = w
      BY <2>5 DEF Coming
    <3>4. CASE b \in ToSet(Tail(plan))
      BY <3>1, <3>3, <3>4
    <3>5. CASE b = a
      <4>1. up /\ aborted \notin Sessions /\ Clearly(plan, live, snap)
        BY <2>1, <3>1 DEF Undisturbed
      <4>2. ~ApplyQuiet /\ ~ApplySkip /\ ~ApplyRefused /\ ~ApplyUnheard
        <5>1. ~ApplyQuiet
          BY <1>3, <3>3, <3>5, <4>1 DEF ApplyQuiet, Creating
        <5>2. ~ApplySkip
          BY <3>3, <3>5 DEF ApplySkip
        <5>3. ~ApplyRefused
          BY <3>3, <3>5, <4>1, NotRefused
        <5>4. ~ApplyUnheard
          BY DEF ApplyUnheard, Mishap
        <5> QED BY <5>1, <5>2, <5>3, <5>4
      <4>3. ApplyRun
        <5>1. runs' = runs /\ plan' = Tail(plan) /\ plan' # plan /\ running'
          <6>1. PICK m \in Nat : Len(plan) = m + 1 /\ Len(Tail(plan)) = m
            BY <3>1, TailParts
          <6> QED BY <2>5, <3>1, <6>1 DEF Consume
        <5> QED BY <1>5, <4>2, <5>1 DEF RNext, Apply, Finish, Cancelled, Stop, UserOpens, rvars
      <4> QED BY <3>3, <3>5, <4>1, <4>3, NowThere
    <3> QED BY <3>2, <3>3, <3>4, <3>5
  <2>6. plan' = plan \/ Consume
    BY <1>5 DEF Mishap, RNext, Apply, ApplyQuiet, ApplySkip, ApplyRun, ApplyUnheard,
                ApplyRefused, Finish, Cancelled,
                Stop, UserOpens, rvars
  <2> QED BY <2>2, <2>3, <2>4, <2>5, <2>6
<1> QED BY <1>4, <1>5

(* The run's own account of the windows it made: it knows of no window that  *)
(* it did not make, and has a note for each it was not told of.             *)
Tallied(m, told, notes, exact) ==
    told <= m /\ m <= told + notes /\ (exact => m = told)

Tally ==
    running =>
        /\ before \subseteq Restored(live) /\ IsFiniteSet(Restored(live) \ before)
        /\ Tallied(Cardinality(Restored(live) \ before), report.created + report.relocated,
                   report.notes, settled)

(* A window changes who made it only where there was none.                  *)
LEMMA Changed ==
  ASSUME NEW s \in Sessions, NEW i \in Indexes, NEW W,
         live \in [Sessions -> [Indexes -> Window]],
         live' = [live EXCEPT ![s][i] = W]
  PROVE  /\ W.origin = live[s][i].origin => Restored(live') = Restored(live)
         /\ W.origin # User => Restored(live') = Restored(live) \cup {<<s, i>>}
<1>1. ASSUME NEW t \in Sessions, NEW j \in Indexes
      PROVE  live'[t][j] = IF t = s /\ j = i THEN W ELSE live[t][j]
  OBVIOUS
<1>2. ASSUME NEW at \in Sessions \X Indexes
      PROVE  live'[at[1]][at[2]] = IF at = <<s, i>> THEN W ELSE live[at[1]][at[2]]
  <2>1. PICK t \in Sessions, j \in Indexes : at = <<t, j>>
    OBVIOUS
  <2> QED BY <1>1, <2>1
<1>3. <<s, i>> \in Sessions \X Indexes
  OBVIOUS
<1>4. <<s, i>>[1] = s /\ <<s, i>>[2] = i
  OBVIOUS
<1> QED BY <1>2, <1>3, <1>4 DEF Restored

LEMMA TallyStep ==
  ASSUME RestoreInv, Counts, Tally, [RNext]_rvars
  PROVE  Tally'
<1> DEFINE made == Restored(live) \ before
<1> SUFFICES ASSUME running'
             PROVE  /\ before' \subseteq Restored(live') /\ IsFiniteSet(Restored(live') \ before')
                    /\ Tallied(Cardinality(Restored(live') \ before'),
                               report'.created + report'.relocated, report'.notes, settled')
  BY DEF Tally, Tallied, Restored
<1>0. /\ Planning(TRUE) /\ live \in [Sessions -> [Indexes -> Window]]
      /\ report \in [created : Nat, relocated : Nat, skipped : Nat, notes : Nat]
  BY DEF RestoreInv, Planning, Typed, Counts
<1>g. Gap.origin = User
  BY DEF Gap
<1>1. running => /\ before \subseteq Restored(live) /\ IsFiniteSet(made)
                 /\ Tallied(Cardinality(made), report.created + report.relocated,
                            report.notes, settled)
  BY DEF Tally
<1>f. running => Cardinality(made) \in Nat
  BY <1>1, FS_CardinalityType
<1>2. CASE StartRestore
  <2>1. before' = Restored(live') /\ report' = NoReport
    BY <1>2 DEF StartRestore, Restored
  <2>2. Restored(live') \ before' = {}
    BY <2>1
  <2>3. report'.created + report'.relocated = 0 /\ report'.notes = 0
    BY <2>1 DEF NoReport
  <2>4. Cardinality(Restored(live') \ before') = 0 /\ IsFiniteSet(Restored(live') \ before')
    BY <2>2, FS_EmptySet
  <2> QED BY <2>1, <2>3, <2>4 DEF Tallied
<1>3. CASE /\ running /\ before' = before /\ Restored(live') = Restored(live)
           /\ report'.created = report.created /\ report'.relocated = report.relocated
           /\ report'.notes \in {report.notes, report.notes + 1}
           /\ settled' => settled
  <2>1. Restored(live') \ before' = made
    BY <1>3
  <2>2. PICK m \in Nat, told \in Nat, notes \in Nat :
            m = Cardinality(made) /\ told = report.created + report.relocated /\ notes = report.notes
    BY <1>0, <1>3, <1>f
  <2>3. Tallied(m, told, notes, settled)
    BY <1>1, <1>3, <2>2
  <2>4. report'.created + report'.relocated = told /\ report'.notes \in {notes, notes + 1}
    BY <1>3, <2>2
  <2>5. Tallied(m, told, report'.notes, settled')
    BY <1>3, <2>3, <2>4, <2>2 DEF Tallied
  <2>6. PICK m2, told2 : /\ m2 = Cardinality(Restored(live') \ before')
                         /\ told2 = report'.created + report'.relocated
    OBVIOUS
  <2>8. m2 = m /\ told2 = told
    BY <2>1, <2>2, <2>4, <2>6
  <2>9. Tallied(m2, told2, report'.notes, settled')
    BY <2>5, <2>8
  <2>7. before' \subseteq Restored(live') /\ IsFiniteSet(Restored(live') \ before')
    BY <1>1, <1>3, <2>1
  <2> QED BY <2>6, <2>7, <2>9 DEF Tallied
<1>4. CASE ApplyQuiet \/ ApplySkip \/ ApplyRefused
  <2>1. running /\ before' = before /\ live' = live
    BY <1>4 DEF ApplyQuiet, ApplySkip, ApplyRefused, Consume
  <2>3. settled' => settled
    BY <1>4, ZenonT(60) DEF ApplyQuiet, ApplySkip, ApplyRefused, Mishap
  <2>2. /\ report'.created = report.created /\ report'.relocated = report.relocated
        /\ report'.notes \in {report.notes, report.notes + 1}
    BY <1>0, <1>4 DEF ApplyQuiet, ApplySkip, ApplyRefused, Failed
  <2> QED BY <1>3, <2>1, <2>2, <2>3
<1>5. CASE UserOpens
  <2>1. PICK s \in Sessions, i \in Indexes, name \in Names :
            live[s][i] = Gap /\ live' = [live EXCEPT ![s][i] = Opened(name)]
    BY <1>5 DEF UserOpens
  <2>2. Opened(name).origin = live[s][i].origin
    <3>1. Opened(name).origin = User
      BY DEF Opened
    <3> QED BY <1>g, <2>1, <3>1
  <2>3. Restored(live') = Restored(live)
    BY <1>0, <2>1, <2>2, Changed
  <2>4. running /\ before' = before /\ report' = report /\ ~settled'
    BY <1>5 DEF UserOpens
  <2> QED BY <1>3, <2>3, <2>4
<1>6. CASE ApplyRun \/ ApplyUnheard
  <2> DEFINE a == Head(plan)
  <2>1. PICK i \in Indexes :
            /\ Accepts(a, i)
            /\ live' = [live EXCEPT ![a.session][i] = Effect(a, live[a.session][i])]
            /\ live[a.session][i] \in Window /\ a.session \in Sessions
            /\ a.kind \notin Creating => live[a.session][i] # Gap
    BY <1>0, <1>6, Ran
  <2>2. /\ a.kind \in Creating \cup Following
        /\ a.kind \in Creating => a.saved.index \in Indexes
        /\ running /\ before' = before
    BY <1>0, <1>6, Consumed
       DEF ApplyRun, ApplyUnheard, Consume, Runs, Acts, Remarks, SavedWindow, Creating
  <2>r. \/ report' = Counted(a) /\ settled' = settled
        \/ report' = [report EXCEPT !.notes = @ + 1] /\ ~settled'
    BY <1>6 DEF ApplyRun, ApplyUnheard, Failed, Mishap
  <2>3. CASE a.kind \notin Creating
    <3>1. Effect(a, live[a.session][i]).origin = live[a.session][i].origin
      BY <2>1, <2>2, <2>3, EffectName
    <3>2. Restored(live') = Restored(live)
      <4> HIDE DEF a
      <4> QED BY <1>0, <2>1, <3>1, Changed
    <3>3. \/ report' = report /\ settled' = settled
          \/ report' = [report EXCEPT !.notes = @ + 1] /\ ~settled'
      BY <2>r, <2>3 DEF Counted, Creating
    <3>4. /\ report'.created = report.created /\ report'.relocated = report.relocated
          /\ report'.notes \in {report.notes, report.notes + 1}
          /\ settled' => settled
      <4> HIDE DEF a
      <4> QED BY <1>0, <3>3
    <3> QED BY <1>3, <2>2, <3>2, <3>4
  <2>4. CASE a.kind \in Creating
    <3>1. live[a.session][i].origin = User
      <4>1. live[a.session][i] = Gap
        BY <2>1, <2>4, MadeInGap
      <4> QED BY <1>g, <4>1
    <3>2. Effect(a, live[a.session][i]).origin # User
      <4>1. Effect(a, live[a.session][i]).origin = a.saved.index
        BY <2>4 DEF Effect, Creating
      <4>2. User \notin Indexes
        BY DEF User, Indexes
      <4> QED BY <2>2, <2>4, <4>1, <4>2
    <3>3. PICK at : at = <<a.session, i>>
      OBVIOUS
    <3>4. Restored(live') = Restored(live) \cup {at}
      <4> HIDE DEF a
      <4> QED BY <1>0, <2>1, <3>2, <3>3, Changed
    <3>5. at \notin Restored(live)
      <4>1. at[1] = a.session /\ at[2] = i
        BY <3>3
      <4> QED BY <3>1, <4>1 DEF Restored
    <3>6. Restored(live') \ before' = made \cup {at} /\ at \notin made
      BY <1>1, <2>2, <3>4, <3>5
    <3>7. PICK m \in Nat, told \in Nat, notes \in Nat :
              m = Cardinality(made) /\ told = report.created + report.relocated
              /\ notes = report.notes
      BY <1>0, <1>f, <2>2
    <3>8. Tallied(m, told, notes, settled) /\ IsFiniteSet(made)
      BY <1>1, <2>2, <3>7
    <3>9. before' \subseteq Restored(live')
      BY <1>1, <2>2, <3>4
    <3>10. IsFiniteSet(made \cup {at}) /\ Cardinality(made \cup {at}) = m + 1
      <4> HIDE DEF made
      <4> QED BY <3>6, <3>7, <3>8, FS_AddElement
    <3>11. Tallied(m + 1, report'.created + report'.relocated, report'.notes, settled')
      <4>1. \/ report' = [report EXCEPT !.created = @ + 1] /\ settled' = settled
            \/ report' = [report EXCEPT !.relocated = @ + 1] /\ settled' = settled
            \/ report' = [report EXCEPT !.notes = @ + 1] /\ ~settled'
        BY <2>r, <2>4 DEF Counted, Creating
      <4> HIDE DEF a, made
      <4>2. CASE report' = [report EXCEPT !.created = @ + 1] /\ settled' = settled
        <5>1. report'.created + report'.relocated = told + 1 /\ report'.notes = notes
          BY <1>0, <3>7, <4>2
        <5> QED BY <3>8, <4>2, <5>1, <3>7 DEF Tallied
      <4>3. CASE report' = [report EXCEPT !.relocated = @ + 1] /\ settled' = settled
        <5>1. report'.created + report'.relocated = told + 1 /\ report'.notes = notes
          BY <1>0, <3>7, <4>3
        <5> QED BY <3>8, <4>3, <5>1, <3>7 DEF Tallied
      <4>4. CASE report' = [report EXCEPT !.notes = @ + 1] /\ ~settled'
        <5>1. report'.created + report'.relocated = told /\ report'.notes = notes + 1
          BY <1>0, <3>7, <4>4
        <5> QED BY <3>8, <4>4, <5>1, <3>7 DEF Tallied
      <4> QED BY <4>1, <4>2, <4>3, <4>4
    <3> QED BY <3>6, <3>9, <3>10, <3>11
  <2> QED BY <2>3, <2>4
<1>7. CASE UNCHANGED rvars
  <2>1. running /\ UNCHANGED <<before, live, report, settled>>
    BY <1>7 DEF rvars
  <2> QED BY <1>3, <2>1
<1> QED BY <1>2, <1>4, <1>5, <1>6, <1>7 DEF RNext, Apply, Finish, Cancelled, Stop

(* A window that was relocated leaves another at its saved index.           *)
Displaced(p, l) ==
    \A a \in ToSet(p) : a.kind = "relocate" => l[a.session][a.saved.index] # Gap

(* A window that a restore made has the name it was saved with, and         *)
(* something stands at the index it was saved with: the next run will find  *)
(* it there, however this one ended.                                        *)
Origins ==
    \A s \in Sessions, i \in Indexes : live[s][i].origin # User =>
        /\ live[s][i].origin \in Indexes /\ live[s][live[s][i].origin] # Gap
        /\ \E w \in SavedWindow : /\ SavedIn(snap, s, w)
                                  /\ w.index = live[s][i].origin /\ w.name = live[s][i].name

LEMMA DisplacedStep ==
  ASSUME RestoreInv, Displaced(plan, live), [RNext]_rvars
  PROVE  Displaced(plan', live')
<1>0. Planning(TRUE) /\ snap \in Snapshots /\ Based(snap, live) /\ plan \in Seq(Acts(snap, TRUE))
  BY DEF RestoreInv, Planning, Typed
<1>1. CASE StartRestore
  <2>1. plan' = BuildPlan(live, snap) /\ live' = live
    BY <1>1 DEF StartRestore
  <2>2. PICK p : p = BuildPlan(live, snap)
    OBVIOUS
  <2>3. Supplied(live, snap, p)
    BY <1>0, <2>2, PlanLaid
  <2>4. \A a \in ToSet(p) : Ready(a, live, p)
    BY <1>0, <2>3, MakerReady
  <2> QED BY <2>1, <2>2, <2>4 DEF Displaced, Ready
<1>2. CASE ~StartRestore
  <2>1. ToSet(plan') \subseteq ToSet(plan)
    <3>1. CASE plan' = plan
      BY <3>1
    <3>2. CASE plan' = <<>>
      BY <3>2 DEF ToSet
    <3>3. CASE plan # <<>> /\ plan' = Tail(plan)
      BY <1>0, <3>3, TailClear
    <3> QED BY <1>2, <3>1, <3>2, <3>3
            DEF RNext, Apply, ApplyQuiet, ApplySkip, ApplyRun, ApplyUnheard, ApplyRefused,
                Consume, Finish, Cancelled, Stop, UserOpens, rvars
  <2>2. ASSUME NEW a \in ToSet(plan'), a.kind = "relocate"
        PROVE  live'[a.session][a.saved.index] # Gap
    <3>1. a \in ToSet(plan) /\ live[a.session][a.saved.index] # Gap
      BY <2>1, <2>2 DEF Displaced
    <3>2. a \in Acts(snap, TRUE)
      BY <1>0, <3>1, SeqRange
    <3>3. a.session \in Sessions /\ a.saved.index \in Indexes
      BY <2>2, <3>2 DEF Acts, Remarks, SavedWindow
    <3> QED BY <1>0, <3>1, <3>3, WindowsStay
  <2> QED BY <2>2 DEF Displaced
<1> QED BY <1>1, <1>2

LEMMA OriginsStep ==
  ASSUME RestoreInv, Displaced(plan, live), Origins, [RNext]_rvars
  PROVE  Origins'
<1>0. Planning(TRUE) /\ live \in [Sessions -> [Indexes -> Window]] /\ plan \in Seq(Acts(snap, TRUE))
  BY DEF RestoreInv, Planning, Typed
<1>1. snap' = snap
  BY DEF RNext, Apply, StartRestore, ApplyQuiet, ApplySkip, ApplyRun, ApplyUnheard, ApplyRefused,
         Consume, Finish, Cancelled, Stop, UserOpens, rvars
<1>g. Gap.origin = User
  BY DEF Gap
<1> SUFFICES ASSUME NEW s \in Sessions, NEW i \in Indexes, live'[s][i].origin # User
             PROVE  /\ live'[s][i].origin \in Indexes
                    /\ live'[s][live'[s][i].origin] # Gap
                    /\ \E w \in SavedWindow :
                          /\ SavedIn(snap, s, w)
                          /\ w.index = live'[s][i].origin /\ w.name = live'[s][i].name
  BY <1>1 DEF Origins, SavedIn
<1>2. CASE live'[s][i].origin = live[s][i].origin /\ live'[s][i].name = live[s][i].name
  <2>1. /\ live[s][i].origin \in Indexes /\ live[s][live[s][i].origin] # Gap
        /\ \E w \in SavedWindow : /\ SavedIn(snap, s, w)
                                  /\ w.index = live[s][i].origin /\ w.name = live[s][i].name
    BY <1>2 DEF Origins
  <2>2. live'[s][live[s][i].origin] # Gap
    BY <1>0, <2>1, WindowsStay
  <2> QED BY <1>2, <2>1, <2>2
<1>3. CASE UserOpens
  <2>1. PICK t \in Sessions, j \in Indexes, name \in Names :
            live[t][j] = Gap /\ live' = [live EXCEPT ![t][j] = Opened(name)]
    BY <1>3 DEF UserOpens
  <2>2. Opened(name).origin = User
    BY DEF Opened
  <2>3. live'[s][i] = live[s][i] \/ live'[s][i] = Opened(name)
    BY <1>0, <2>1
  <2> QED BY <1>2, <2>2, <2>3
<1>4. CASE ApplyRun \/ ApplyUnheard
  <2> DEFINE a == Head(plan)
  <2>1. PICK j \in Indexes :
            /\ j \in At(a, Target(a)) /\ Accepts(a, j)
            /\ live' = [live EXCEPT ![a.session][j] = Effect(a, live[a.session][j])]
            /\ live[a.session][j] \in Window /\ a.session \in Sessions
            /\ a.kind \notin Creating => live[a.session][j] # Gap
    BY <1>0, <1>4, Ran
  <2>2. /\ a \in Acts(snap, TRUE) /\ plan # <<>>
        /\ a.kind \in Creating \cup Following
    BY <1>0, <1>4, Consumed DEF ApplyRun, ApplyUnheard, Runs, Acts, Remarks
  <2>3. CASE ~(s = a.session /\ i = j)
    <3>1. live'[s][i] = live[s][i]
      <4> HIDE DEF a
      <4> QED BY <1>0, <2>1, <2>3
    <3> QED BY <1>2, <3>1
  <2>4. CASE s = a.session /\ i = j
    <3>1. live'[s][i] = Effect(a, live[a.session][j])
      <4> HIDE DEF a
      <4> QED BY <1>0, <2>1, <2>4
    <3>2. CASE a.kind \notin Creating
      <4>1. /\ Effect(a, live[a.session][j]).origin = live[a.session][j].origin
            /\ Effect(a, live[a.session][j]).name = live[a.session][j].name
        BY <2>1, <2>2, <3>2, EffectName
      <4> QED BY <1>2, <2>4, <3>1, <4>1
    <3>3. CASE a.kind \in Creating
      <4>1. live'[s][i].origin = a.saved.index /\ live'[s][i].name = a.saved.name
        <5>1. PICK b, W : b = a /\ W = live[a.session][j]
          OBVIOUS
        <5>2. W \in Window /\ b.kind \in Creating
          BY <2>1, <3>3, <5>1
        <5>3. Effect(b, W).name = b.saved.name /\ Effect(b, W).origin = b.saved.index
          BY <5>2, EffectName
        <5>4. live'[s][i] = Effect(b, W)
          BY <3>1, <5>1
        <5> QED BY <5>1, <5>3, <5>4
      <4>2. a.saved \in SavedWindow /\ SavedIn(snap, s, a.saved) /\ a.saved.index \in Indexes
        BY <2>2, <2>4, <3>3 DEF Acts, Creating, Remarks, SavedWindow
      <4>3. live'[s][a.saved.index] # Gap
        <5>1. CASE a.kind = "relocate"
          <6>1. a \in ToSet(plan)
            <7>1. ToSet(plan) = {a} \cup ToSet(Tail(plan))
              BY <1>0, <2>2, TailClear
            <7> QED BY <7>1
          <6>2. live[s][a.saved.index] # Gap
            BY <2>4, <5>1, <6>1 DEF Displaced
          <6> QED BY <1>0, <4>2, <6>2, WindowsStay
        <5>2. CASE a.kind \in {"new_session", "new_window"}
          <6>1. a.target = a.saved.index /\ (a.kind = "new_session" => a.target = BaseIndex)
            BY <2>2, <5>2 DEF Acts, Remarks
          <6>2. j = a.saved.index
            BY <2>1, <4>2, <5>2, <6>1 DEF At, Placeholder, Indexes
          <6>3. live'[s][i].origin # User /\ Gap.origin = User
            BY <1>g
          <6> QED BY <2>4, <6>2, <6>3
        <5> QED BY <3>3, <5>1, <5>2 DEF Creating
      <4> QED BY <4>1, <4>2, <4>3
    <3> QED BY <3>2, <3>3
  <2> QED BY <2>3, <2>4
<1>5. CASE live' = live
  BY <1>2, <1>5
<1> QED BY <1>3, <1>4, <1>5
        DEF RNext, Apply, StartRestore, ApplyQuiet, ApplySkip, ApplyRefused, Finish, Cancelled,
            Stop, rvars

(* Everything the two theorems below rest on.                               *)
MakingInv ==
    RestoreInv /\ Counts /\ Undisturbed /\ Tally /\ Provided /\ Displaced(plan, live) /\ Origins

LEMMA MakingInit ==
  ASSUME RInit, FromBase
  PROVE  MakingInv
<1>1. ~running /\ ~settled /\ plan = <<>> /\ live \in [Sessions -> [Indexes -> UserWindows]]
  BY RestoreAssumption DEF RInit
<1>2. Displaced(plan, live)
  BY <1>1 DEF Displaced, ToSet
<1>3. Origins
  BY <1>1, UserWindowTyped DEF Origins
<1> QED BY <1>1, <1>2, <1>3, RestoreInit, CountsInit
        DEF MakingInv, Undisturbed, Tally, Provided

LEMMA MakingStep ==
  ASSUME MakingInv, [RNext]_rvars
  PROVE  MakingInv'
<1>1. RestoreInv /\ Counts /\ Undisturbed /\ Tally /\ Provided /\ Displaced(plan, live) /\ Origins
  BY DEF MakingInv
<1>2. RestoreInv'
  BY <1>1, RestoreStep
<1>3. Counts'
  BY <1>1, CountsStep DEF RestoreInv
<1>4. Undisturbed' /\ Tally' /\ Provided'
  BY <1>1, UndisturbedStep, TallyStep, ProvidedStep
<1>5. Displaced(plan', live') /\ Origins'
  BY <1>1, DisplacedStep, OriginsStep
<1>6. Displaced(plan, live)'
  BY <1>5 DEF Displaced, ToSet
<1> QED BY <1>2, <1>3, <1>4, <1>5, <1>6 DEF MakingInv

(* The count a restore prints is of windows it put on the server; there may *)
(* be more only where a reply was lost, and each of those has its note.     *)
(* When nothing disturbs it, the count is exact and all that was planned is *)
(* made.  No window of the plan takes an index that another of the same     *)
(* session was saved with: those that get any free index come last.         *)
THEOREM AllIsMade == FromBase => (RSpec => AllMade)
<1> SUFFICES ASSUME FromBase PROVE RSpec => AllMade
  OBVIOUS
<1>1. RInit => MakingInv
  BY MakingInit
<1>2. MakingInv /\ [RNext]_rvars => MakingInv'
  BY MakingStep
<1>3. MakingInv /\ [RNext]_rvars =>
         ((running /\ ~running') =>
             LET made == Cardinality(Restored(live) \ before)
                 told == report.created + report.relocated
             IN  /\ told <= made /\ made <= told + report.notes
                 /\ settled' => (made = told /\ told + report.skipped = planned))
  <2> SUFFICES ASSUME MakingInv, [RNext]_rvars, running, ~running'
               PROVE  /\ Tallied(Cardinality(Restored(live) \ before),
                                 report.created + report.relocated, report.notes, settled')
                      /\ settled' => report.created + report.relocated + report.skipped = planned
    BY DEF Tallied
  <2>1. Tallied(Cardinality(Restored(live) \ before), report.created + report.relocated,
                report.notes, settled)
    BY DEF MakingInv, Tally
  <2>2. ASSUME settled'
        PROVE  settled /\ report.created + report.relocated + report.skipped = planned
    <3>1. Finish
      BY <2>2 DEF RNext, Apply, StartRestore, ApplyQuiet, ApplySkip, ApplyRun, ApplyUnheard,
                  ApplyRefused, Consume, Cancelled, Mishap, UserOpens, rvars
    <3>2. settled /\ plan = <<>>
      BY <2>2, <3>1 DEF Finish
    <3>3. PlannedWindows(plan) = 0
      BY <3>2, PlannedNone
    <3>4. Exact /\ Counts
      BY <3>2 DEF MakingInv, Undisturbed
    <3> QED BY <3>2, <3>3, <3>4 DEF Exact, Counts
  <2> QED BY <2>1, <2>2 DEF Tallied
<1> QED BY <1>1, <1>2, <1>3, PTL DEF RSpec, AllMade

(* No restore makes a window that an earlier one has made, though that was  *)
(* cut short or was not told that it had: something stands at the saved     *)
(* index and a window of the saved name is there, which is what BuildPlan   *)
(* skips by.  After a run that nothing disturbed this is so of every saved  *)
(* window.  This is where the index of a session's first window matters:    *)
(* made at another, its own would be found free the next time.              *)
THEOREM NothingLeftToMake == FromBase => (RSpec => Idempotent)
<1> SUFFICES ASSUME FromBase PROVE RSpec => Idempotent
  OBVIOUS
<1>1. RInit => MakingInv
  BY MakingInit
<1>2. MakingInv /\ [RNext]_rvars => MakingInv'
  BY MakingStep
<1>3. MakingInv /\ [RNext]_rvars =>
         ((~running /\ running') =>
             \A k \in DOMAIN plan' : plan'[k].kind \in Creating =>
                /\ ~settled
                /\ \A i \in Indexes : live[plan'[k].session][i].origin # plan'[k].saved.index)
  <2> SUFFICES ASSUME MakingInv, [RNext]_rvars, ~running, running',
                      NEW k \in DOMAIN plan', plan'[k].kind \in Creating
               PROVE  /\ ~settled
                      /\ \A i \in Indexes :
                            live[plan'[k].session][i].origin # plan'[k].saved.index
    OBVIOUS
  <2>0. snap \in Snapshots /\ Based(snap, live) /\ plan = <<>> /\ Provided /\ Origins
    BY DEF MakingInv, RestoreInv, Planning, Typed
  <2>1. plan' = BuildPlan(live, snap)
    BY DEF RNext, Apply, StartRestore, ApplyQuiet, ApplySkip, ApplyRun, ApplyUnheard,
           ApplyRefused, Consume, Finish, Cancelled, Stop, UserOpens, rvars
  <2>2. PICK p : p = BuildPlan(live, snap)
    OBVIOUS
  <2>3. Supplied(live, snap, p)
    BY <2>0, <2>2, PlanLaid
  <2>4. PICK a \in ToSet(p) : a = plan'[k] /\ a.kind \in Creating
    BY <2>1, <2>2 DEF ToSet
  <2>5. PICK n \in DOMAIN snap :
            /\ snap[n].name \notin Unaddressable
            /\ \E j \in DOMAIN snap[n].windows : Absent(live, snap[n], j) /\ a = Maker(live, snap[n], j)
    BY <2>3, <2>4 DEF Supplied
  <2>6. PICK j \in DOMAIN snap[n].windows : Absent(live, snap[n], j) /\ a = Maker(live, snap[n], j)
    BY <2>5
  <2>7. PICK s, w : s = snap[n].name /\ w = snap[n].windows[j]
    OBVIOUS
  <2>8. a.session = s /\ a.saved = w
    BY <2>6, <2>7 DEF Maker, First, Act
  <2>9. s \in Sessions /\ w \in SavedWindow /\ w.index \in Indexes
    BY <2>0, <2>7, SavedTyped
  <2>10. ~There(s, w)
    <3> SUFFICES ASSUME There(s, w) PROVE FALSE
      OBVIOUS
    <3>1. Exists(live, s)
      BY <2>9 DEF There, Exists, Taken
    <3>2. Fate(live, s, snap[n].windows, j) = "skip"
      BY <2>7, <3>1 DEF Fate, There
    <3> QED BY <2>6, <2>7, <3>2 DEF Absent
  <2>11. ~settled
    <3>1. ~Coming(s, w)
      BY <2>0 DEF Coming, ToSet
    <3> QED BY <2>0, <2>5, <2>7, <2>10, <3>1 DEF Provided
  <2>12. ASSUME NEW i \in Indexes, live[s][i].origin = w.index PROVE FALSE
    <3>1. live[s][i].origin # User
      BY <2>9, <2>12 DEF User, Indexes
    <3>2. live[s][w.index] # Gap
      BY <2>0, <2>9, <2>12, <3>1 DEF Origins
    <3>3. PICK v \in SavedWindow : SavedIn(snap, s, v) /\ v.index = w.index /\ v.name = live[s][i].name
      BY <2>0, <2>9, <2>12, <3>1 DEF Origins
    <3>4. v = w
      <4>1. PICK m \in DOMAIN snap : \E q \in DOMAIN snap[m].windows :
                snap[m].name = s /\ snap[m].windows[q] = v
        BY <3>3 DEF SavedIn
      <4>2. m = n
        BY <2>0, <2>7, <4>1, SavedAssumption
      <4> QED BY <2>0, <2>7, <3>3, <4>1, <4>2, SavedAssumption
    <3>5. live[s][i] # Gap
      <4>1. Gap.origin = User
        BY DEF Gap
      <4> QED BY <3>1, <4>1
    <3>6. i \in Named(live, s, w.name)
      BY <3>3, <3>4, <3>5 DEF Named, Taken
    <3> QED BY <2>10, <3>2, <3>6 DEF There
  <2> QED BY <2>4, <2>8, <2>11, <2>12
<1> QED BY <1>1, <1>2, <1>3, PTL DEF RSpec, Idempotent
=============================================================================
