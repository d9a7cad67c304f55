---------------------------- MODULE SuspendProofs ----------------------------
(***************************************************************************)
(* claude-suspend for every number of panes, conversations, runs, user     *)
(* acts and failures.  The argument is one inductive invariant, in parts:  *)
(* the types and the counts, what is known of the pane being parked while  *)
(* nobody meddles with it, and what the process table still says of the    *)
(* panes the user left alone.                                              *)
(***************************************************************************)
EXTENDS ClaudeSuspend, FiniteSetTheorems, TLAPS

Kinds == {"shell", "claude", "placeholder"}

PaneType == [kind : Kinds, pid : Nat, sid : Sids \cup {None}, box : Boxes \cup {None}]

(* A program with a conversation has its id, and only Claude has a box. *)
Shape(what) ==
    /\ (what.kind = "claude") = (what.box # None)
    /\ (what.kind = "shell") = (what.sid = None)

(* What the variables hold. *)
Typed ==
    /\ pane \in [Panes -> PaneType] /\ \A p \in Panes : Shape(pane[p])
    /\ table \in [Panes -> [kind : Kinds, pid : Nat, sid : Sids \cup {None}]]
    /\ \A p \in Panes : (table[p].kind = "shell") = (table[p].sid = None)
    /\ idle \subseteq Sids
    /\ pc \in {"stopped", "pane", "look", "type", "enter", "poll", "park"}
    /\ todo \in SUBSET Panes
    /\ (cur = None) = (pc \in {"stopped", "pane"})
    /\ cur # None => cur \in Panes \ todo /\ sid \in Sids
    /\ dry \in BOOLEAN
    /\ done \in Nat /\ failed \in Nat

(* A pane is counted once, after it was taken off the list. *)
Ahead == todo \cup ({cur} \ {None})

Counted == done + failed + Cardinality(Ahead) <= Cardinality(Panes)

(* The pane claude-suspend works on, while the user leaves it alone. *)
AtHand ==
    cur # None /\ cur \notin meddled =>
        /\ pc = "type" => Runs(cur, "claude") /\ pane[cur].box = "empty"
        /\ pc = "enter" => Runs(cur, "claude") /\ pane[cur].box = "slash"
        /\ pc = "poll" => /\ cur \in ended
                          /\ \/ Runs(cur, "shell")
                             \/ Runs(cur, "claude") /\ pane[cur].box = "exiting"

(* What was noted down of panes, and when.  No pane on the list was typed   *)
(* into yet, nor the one at hand before its Enter.                          *)
Noted ==
    /\ meddled \subseteq touched
    /\ spoiled \cup ended \cup parked \subseteq Panes \ todo
    /\ pc \in {"look", "type", "enter"} => cur \notin spoiled \cup ended
    /\ cur \notin parked

(* Where the user left a pane alone, a Claude there is the one the process  *)
(* table shows, and the one being parked is parked under its own id.        *)
Same ==
    /\ \A p \in Panes \ touched :
          Runs(p, "claude") => /\ table[p].kind = "claude"
                               /\ pane[p].pid = table[p].pid
                               /\ pane[p].sid = table[p].sid
    /\ cur # None /\ cur \notin touched => sid = table[cur].sid
    /\ pc = "park" /\ cur \notin touched => cur \in ended /\ Runs(cur, "shell")

(* A conversation shown in one pane only stays there while its Claude runs, *)
(* and the idle time looked at is still that of the pane at hand.           *)
Single ==
    /\ \A p \in Panes \ touched, q \in Panes :
          /\ q # p /\ Runs(p, "claude") /\ Alone(p)
          => /\ pane[q].sid # pane[p].sid
             /\ q = cur => sid # pane[p].sid
    /\ /\ IdleFor /\ cur # None /\ cur \notin touched /\ Alone(cur)
       /\ pc \in {"look", "type", "enter"} /\ Runs(cur, "claude")
       => pane[cur].sid \in idle

(* While no pane failed, what was ended is parked, or at hand. *)
Kept ==
    failed = 0 => /\ ended \ touched \subseteq parked \cup {cur}
                  /\ (touched = {} /\ ~dry) => done = Cardinality(parked)

(* The inductive invariant. *)
SInv == Typed /\ Counted /\ AtHand /\ Noted /\ EnterOnlyConfirms /\ Same /\ Single /\ Kept
        /\ ParkedIsResumable

-----------------------------------------------------------------------------
(* What a step may do to the panes *)

(* One pane changes, for something that can run in a pane. *)
Changes(p) ==
    /\ pane' \in [Panes -> PaneType] /\ \A q \in Panes : Shape(pane'[q])
    /\ \A q \in Panes \ {p} : pane'[q] = pane[q]

(* The same program there, with something else in its box. *)
SameProgram(p) ==
    /\ pane'[p].kind = pane[p].kind /\ pane'[p].pid = pane[p].pid
    /\ pane'[p].sid = pane[p].sid

(* What the user can do in a pane: anything, but bring back a conversation  *)
(* that another pane shows, or give one a turn that the pane does not show. *)
UserChanges(p) ==
    /\ Changes(p)
    /\ touched' = touched \cup {p}
    /\ meddled' = IF p = cur THEN meddled \cup {p} ELSE meddled
    /\ \/ pane'[p].sid \in {pane[p].sid, None}
       \/ \A q \in Panes : pane[q].sid # pane'[p].sid
    /\ idle' \subseteq idle /\ idle \ {pane[p].sid} \subseteq idle'
    /\ UNCHANGED <<pc, todo, table, cur, sid, dry, done, failed, ended, parked, spoiled>>

(* What Claude does by itself: it ends its turn, or exits when told to. *)
ClaudeChanges(p) ==
    /\ Changes(p)
    /\ Runs(p, "claude")
    /\ \/ pane[p].box = "busy" /\ SameProgram(p)
       \/ pane[p].box = "exiting" /\ pane'[p].kind = "shell"
    /\ UNCHANGED <<idle, pc, todo, table, cur, sid, dry, done, failed, ghosts>>

LEMMA BoxChanged ==
  ASSUME Typed, NEW p \in Panes, Runs(p, "claude"), NEW box \in Boxes,
         pane' = [pane EXCEPT ![p].box = box]
  PROVE  Changes(p) /\ SameProgram(p) /\ pane'[p].box = box
<1>1. /\ pane'[p] = [pane[p] EXCEPT !.box = box]
      /\ \A q \in Panes \ {p} : pane'[q] = pane[q]
  BY DEF Typed
<1>2. pane[p] \in PaneType /\ Shape(pane[p])
  BY DEF Typed
<1>3. /\ pane'[p] \in PaneType
      /\ pane'[p].kind = pane[p].kind /\ pane'[p].pid = pane[p].pid
      /\ pane'[p].sid = pane[p].sid /\ pane'[p].box = box
  BY <1>1, <1>2 DEF PaneType
<1>4. Shape(pane'[p])
  BY <1>2, <1>3 DEF Shape, Runs, Boxes, None
<1>5. pane' \in [Panes -> PaneType]
  BY <1>1, <1>3 DEF Typed
<1> QED BY <1>1, <1>3, <1>4, <1>5 DEF Typed, Changes, SameProgram

LEMMA ProgramChanged ==
  ASSUME Typed, NEW p \in Panes, NEW what \in PaneType, Shape(what), Become(p, what)
  PROVE  Changes(p) /\ pane'[p] = what
  BY DEF Typed, Become, Changes

(* The programs that take over a pane. *)
LEMMA NewPrograms ==
  ASSUME Typed, NEW p \in Panes
  PROVE  /\ Shell(pane[p].pid) \in PaneType /\ Shape(Shell(pane[p].pid))
         /\ Shell(pane[p].pid).kind = "shell" /\ Shell(pane[p].pid).sid = None
         /\ \A s \in Sids :
               LET claude == Program("claude", pane[p].pid + 1, s, "empty")
                   holder == Program("placeholder", pane[p].pid, s, None)
               IN  /\ claude \in PaneType /\ Shape(claude)
                   /\ claude.kind = "claude" /\ claude.sid = s
                   /\ holder \in PaneType /\ Shape(holder)
                   /\ holder.kind = "placeholder" /\ holder.sid = s
<1>1. pane[p].pid \in Nat
  BY DEF Typed, PaneType
<1>2. \A s \in Sids : s # None
  BY SuspendAssumption
<1> QED BY <1>1, <1>2 DEF Shell, Program, PaneType, Shape, Kinds, Boxes, None

LEMMA UserIsUser ==
  ASSUME Typed, NEW p \in Panes,
         \/ UserDrafts(p) \/ UserSubmits(p) \/ UserAnswersDialog(p)
         \/ UserQuits(p) \/ UserLaunches(p) \/ UserDeclines(p)
  PROVE  UserChanges(p)
<1>1. /\ touched' = touched \cup {p}
      /\ meddled' = IF p = cur THEN meddled \cup {p} ELSE meddled
      /\ UNCHANGED <<pc, todo, table, cur, sid, dry, done, failed, ended, parked, spoiled>>
  BY DEF UserDrafts, UserSubmits, UserAnswersDialog, UserQuits, UserLaunches, UserDeclines,
     UserActs
<1>2. idle' \subseteq idle /\ idle \ {pane[p].sid} \subseteq idle'
  BY DEF UserDrafts, UserSubmits, UserAnswersDialog, UserQuits, UserLaunches, UserDeclines
<1>3. Changes(p) /\ (\/ pane'[p].sid \in {pane[p].sid, None}
                     \/ \A q \in Panes : pane[q].sid # pane'[p].sid)
  <2>1. CASE UserDrafts(p) \/ UserSubmits(p) \/ UserAnswersDialog(p)
    <3>1. PICK box \in Boxes : Runs(p, "claude") /\ pane' = [pane EXCEPT ![p].box = box]
      BY <2>1 DEF UserDrafts, UserSubmits, UserAnswersDialog, Box, Boxes
    <3> QED BY <3>1, BoxChanged DEF SameProgram
  <2>2. CASE UserQuits(p) \/ UserDeclines(p)
    BY <2>2, NewPrograms, ProgramChanged DEF UserQuits, UserDeclines
  <2>3. CASE UserLaunches(p)
    <3>1. PICK s \in Sids : /\ Launch(p, s)
                            /\ s = pane[p].sid \/ \A q \in Panes : pane[q].sid # s
      <4>1. Runs(p, "placeholder") => pane[p].sid \in Sids
        BY DEF Typed, PaneType, Shape, Runs
      <4> QED BY <2>3, <4>1 DEF UserLaunches
    <3>2. Changes(p) /\ pane'[p] = Program("claude", pane[p].pid + 1, s, "empty")
      BY <3>1, NewPrograms, ProgramChanged DEF Launch
    <3> QED BY <3>1, <3>2, NewPrograms
  <2> QED BY <2>1, <2>2, <2>3
<1> QED BY <1>1, <1>2, <1>3 DEF UserChanges

LEMMA ClaudeIsClaude ==
  ASSUME Typed, NEW p \in Panes, ClaudeEndsTurn(p) \/ ClaudeExits(p)
  PROVE  ClaudeChanges(p)
<1>1. CASE ClaudeEndsTurn(p)
  <2>1. PICK box \in Boxes : pane' = [pane EXCEPT ![p].box = box]
    BY <1>1 DEF ClaudeEndsTurn, Box, Boxes
  <2>2. Runs(p, "claude") /\ pane[p].box = "busy" /\ ClaudeActs
    BY <1>1 DEF ClaudeEndsTurn, Box
  <2> QED BY <2>1, <2>2, BoxChanged DEF ClaudeChanges, ClaudeActs
<1>2. CASE ClaudeExits(p)
  <2>1. Changes(p) /\ pane'[p] = Shell(pane[p].pid)
    BY <1>2, NewPrograms, ProgramChanged DEF ClaudeExits
  <2> QED BY <1>2, <2>1, NewPrograms DEF ClaudeExits, ClaudeChanges, ClaudeActs
<1> QED BY <1>1, <1>2

-----------------------------------------------------------------------------
(* The user and Claude keep the invariant. *)

LEMMA UserStep ==
  ASSUME SInv, NEW p \in Panes, UserChanges(p)
  PROVE  SInv'
<1> USE DEF SInv, UserChanges, Changes
<1>1. Typed'
  BY DEF Typed
<1>2. Counted'
  BY DEF Counted, Ahead
<1>3. AtHand'
  BY DEF AtHand, Runs, Typed
<1>4. Noted' /\ EnterOnlyConfirms'
  BY DEF Noted, EnterOnlyConfirms
<1>5. Same'
  BY DEF Same, Runs, Typed
<1>6. Single'
  <2>1. ASSUME NEW a \in Panes \ touched', NEW q \in Panes,
               q # a, Runs(a, "claude")', Alone(a)'
        PROVE  pane'[q].sid # pane'[a].sid /\ (q = cur' => sid' # pane'[a].sid)
    <3>1. a # p /\ pane'[a] = pane[a] /\ Runs(a, "claude") /\ Alone(a)
      BY <2>1 DEF Runs, Alone
    <3>2. pane[q].sid # pane[a].sid /\ (q = cur => sid # pane[a].sid)
      BY <2>1, <3>1 DEF Single
    <3>3. pane[a].sid # None
      BY <3>1 DEF Typed, Shape, Runs
    <3> QED BY <3>1, <3>2, <3>3
  <2>2. ASSUME IdleFor, cur' # None, cur' \notin touched', Alone(cur)',
               pc' \in {"look", "type", "enter"}, Runs(cur, "claude")'
        PROVE  pane'[cur'].sid \in idle'
    <3>1. cur \in Panes \ touched /\ cur # p /\ pane'[cur] = pane[cur]
          /\ Runs(cur, "claude") /\ Alone(cur)
      BY <2>2 DEF Typed, Runs, Alone
    <3>2. pane[cur].sid \in idle /\ pane[p].sid # pane[cur].sid
      BY <2>2, <3>1 DEF Single
    <3> QED BY <3>1, <3>2
  <2> QED BY <2>1, <2>2 DEF Single
<1>7. Kept'
  BY DEF Kept
<1>8. ParkedIsResumable'
  BY DEF ParkedIsResumable, Runs, Noted
<1> QED BY <1>1, <1>2, <1>3, <1>4, <1>5, <1>6, <1>7, <1>8

LEMMA ClaudeStep ==
  ASSUME SInv, NEW p \in Panes, ClaudeChanges(p)
  PROVE  SInv'
<1> USE DEF SInv, ClaudeChanges, Changes, ghosts
<1>1. Typed'
  BY DEF Typed
<1>2. Counted'
  BY DEF Counted, Ahead
<1>3. AtHand'
  BY DEF AtHand, Runs, Typed, SameProgram
<1>4. Noted' /\ EnterOnlyConfirms'
  BY DEF Noted, EnterOnlyConfirms
<1>5. Same'
  BY DEF Same, Runs, Typed, SameProgram
<1>6. Single'
  <2>1. \A q \in Panes : /\ Runs(q, "claude")' => Runs(q, "claude")
                                                  /\ pane'[q].sid = pane[q].sid
                         /\ pane'[q].sid \in {pane[q].sid, None}
    BY DEF Runs, SameProgram, Typed, Shape
  <2>2. \A q \in Panes : Runs(q, "claude") => pane[q].sid # None
    BY DEF Typed, Shape, Runs
  <2>3. \A q \in Panes : Alone(q)' = Alone(q)
    BY DEF Alone
  <2>4. cur # None => cur \in Panes
    BY DEF Typed
  <2> QED BY <2>1, <2>2, <2>3, <2>4 DEF Single
<1>7. Kept'
  BY DEF Kept
<1>8. ParkedIsResumable'
  BY DEF ParkedIsResumable, Runs, Noted, SameProgram
<1> QED BY <1>1, <1>2, <1>3, <1>4, <1>5, <1>6, <1>7, <1>8

-----------------------------------------------------------------------------
(* The steps of claude-suspend that leave the panes alone keep it. *)

LEMMA Sizes ==
  ASSUME NEW S \in SUBSET Panes
  PROVE  /\ IsFiniteSet(S) /\ Cardinality(S) \in Nat
         /\ \A p \in S : Cardinality(S \ {p}) = Cardinality(S) - 1
         /\ \A p \in Panes \ S : Cardinality(S \cup {p}) = Cardinality(S) + 1
<1>1. IsFiniteSet(S)
  BY SuspendAssumption, FS_Subset
<1>2. Cardinality(S) \in Nat
  BY <1>1, FS_CardinalityType
<1> QED BY <1>1, <1>2, FS_AddElement, FS_RemoveElement

(* Giving up or being done with the pane at hand. *)
LEMMA CountsStep ==
  ASSUME Typed, Counted, cur # None, NEW good \in Nat, NEW bad \in Nat,
         good + bad = 1, Counts(good, bad)
  PROVE  Counted' /\ done' \in Nat /\ failed' \in Nat
<1>1. cur \in Panes \ todo /\ todo' = todo /\ cur' = None
  BY DEF Typed, Counts
<1>2. Ahead = todo \cup {cur} /\ Ahead' = todo
  BY <1>1 DEF Ahead
<1>3. /\ Cardinality(todo \cup {cur}) = Cardinality(todo) + 1
      /\ Cardinality(todo) \in Nat /\ Cardinality(Panes) \in Nat
  BY <1>1, Sizes DEF Typed
<1> QED BY <1>2, <1>3 DEF Counted, Counts, Typed

LEMMA ScanStep ==
  ASSUME SInv, Scan
  PROVE  SInv'
<1>1. /\ table' = [p \in Panes |-> [kind |-> pane[p].kind, pid |-> pane[p].pid,
                                    sid |-> pane[p].sid]]
      /\ todo' = Panes /\ cur = None /\ cur' = None /\ pc' = "pane"
      /\ done' = 0 /\ failed' = 0 /\ dry' \in BOOLEAN
      /\ touched' = {} /\ meddled' = {} /\ ended' = {} /\ parked' = {} /\ spoiled' = {}
      /\ UNCHANGED <<pane, idle, sid>>
  BY DEF Scan, world, Read, SInv, Typed
<1>2. Typed'
  BY <1>1 DEF SInv, Typed, PaneType, Shape
<1>3. Counted'
  <2>1. Ahead' = Panes /\ Cardinality(Panes) \in Nat
    BY <1>1, Sizes, SuspendAssumption DEF Ahead
  <2> QED BY <1>1, <2>1 DEF Counted
<1>4. AtHand' /\ Noted' /\ EnterOnlyConfirms'
  BY <1>1, SuspendAssumption DEF AtHand, Noted, EnterOnlyConfirms
<1>5. Same'
  BY <1>1 DEF Same, Runs
<1>6. Single'
  <2>1. \A p \in Panes : table'[p].sid = pane'[p].sid
    BY <1>1
  <2> QED BY <1>1, <2>1, SuspendAssumption DEF Single, Alone, Runs
<1>7. Kept'
  BY <1>1, FS_EmptySet DEF Kept
<1>8. ParkedIsResumable'
  BY <1>1 DEF ParkedIsResumable
<1> QED BY <1>2, <1>3, <1>4, <1>5, <1>6, <1>7, <1>8 DEF SInv

LEMMA TakeStep ==
  ASSUME SInv, TakePane
  PROVE  SInv'
<1>1. PICK p \in todo : /\ todo' = todo \ {p} /\ cur' = p
                        /\ ClaudeInPane(p, sid') /\ (IdleFor => sid' \in idle)
  BY DEF TakePane
<1>2. /\ pc = "pane" /\ pc' = "look" /\ cur = None /\ p \in Panes /\ p # None
      /\ UNCHANGED <<pane, idle, table, dry, done, failed, touched, meddled, ended,
                     parked, spoiled>>
  BY <1>1, SuspendAssumption DEF TakePane, At, world, ghosts, SInv, Typed
<1>3. sid' \in Sids
  BY <1>1, <1>2 DEF ClaudeInPane, Alive, Runs, SInv, Typed, PaneType, Shape
<1>4. Typed'
  BY <1>1, <1>2, <1>3 DEF SInv, Typed
<1>5. Counted'
  <2>1. Ahead' = Ahead
    BY <1>1, <1>2 DEF Ahead
  <2> QED BY <1>2, <2>1 DEF SInv, Counted
<1>6. AtHand' /\ Noted' /\ EnterOnlyConfirms'
  BY <1>1, <1>2 DEF SInv, AtHand, Noted, EnterOnlyConfirms, Typed
<1>7. Same'
  BY <1>1, <1>2 DEF SInv, Same, ClaudeInPane, Alive, Runs, Typed
<1>8. Single'
  <2>1. ASSUME NEW a \in Panes \ touched, a # p, Runs(a, "claude"), Alone(a)
        PROVE  sid' # pane[a].sid
    <3>1. pane[p].sid # pane[a].sid /\ table[p].sid # pane[a].sid
      BY <1>2, <2>1 DEF SInv, Single, Same, Alone, Typed
    <3> QED BY <1>1, <3>1 DEF ClaudeInPane
  <2>2. ASSUME IdleFor, p \notin touched, Runs(p, "claude")
        PROVE  pane[p].sid \in idle
    BY <1>1, <1>2, <2>2 DEF SInv, Same, ClaudeInPane, Alive
  <2>3. \A q \in Panes : Alone(q)' = Alone(q) /\ Runs(q, "claude")' = Runs(q, "claude")
    BY <1>2 DEF Alone, Runs
  <2> QED BY <1>1, <1>2, <2>1, <2>2, <2>3 DEF SInv, Single
<1>9. Kept'
  <2>1. None \notin ended
    BY SuspendAssumption DEF SInv, Noted
  <2> QED BY <1>1, <1>2, <2>1 DEF SInv, Kept
<1>10. ParkedIsResumable'
  BY <1>2 DEF SInv, ParkedIsResumable, Runs
<1> QED BY <1>4, <1>5, <1>6, <1>7, <1>8, <1>9, <1>10 DEF SInv

(* SkipPane, Look, Confirm, TimesOut, PaneFails and Ends move on, or give   *)
(* the pane up.                                                             *)
LEMMA QuietStep ==
  ASSUME SInv,
         \/ SkipPane \/ Look \/ Confirm \/ TimesOut \/ PaneFails \/ Ends
  PROVE  SInv'
<1>1. /\ UNCHANGED <<pane, idle, table, dry, touched, ended, parked, spoiled, sid>>
      /\ meddled' \in {meddled, meddled \ {cur}}
  BY DEF SkipPane, Look, Confirm, TimesOut, PaneFails, Ends, At, Stays, Counts, world, ghosts
<1>2. meddled' # meddled => pc = "look"
  BY DEF SkipPane, Look, Confirm, TimesOut, PaneFails, Ends, At, world, ghosts
<1>3. \/ cur' = cur /\ pc' = "type" /\ pc = "look" /\ PromptIsFree
                    /\ UNCHANGED <<todo, done, failed>>
      \/ cur' = cur /\ pc' = "park" /\ pc = "poll" /\ ~Alive(cur)
                    /\ UNCHANGED <<todo, done, failed>>
      \/ cur' = cur /\ pc' = "stopped" /\ pc = "pane" /\ UNCHANGED <<todo, done, failed>>
      \/ cur' = cur /\ pc' = "pane" /\ pc = "pane" /\ UNCHANGED <<done, failed>>
                    /\ \E p \in todo : todo' = todo \ {p}
      \/ pc \notin {"stopped", "pane"} /\ pc' = "pane" /\ Counts(0, 1)
      \/ pc = "look" /\ pc' = "pane" /\ Counts(1, 0) /\ dry
  BY DEF SkipPane, Look, Confirm, TimesOut, PaneFails, Ends, At, Stays, Counts
<1>4. Counted' /\ Typed'
  <2>1. CASE \/ Counts(0, 1) /\ pc \notin {"stopped", "pane"} /\ pc' = "pane"
             \/ Counts(1, 0) /\ pc = "look" /\ pc' = "pane"
    <3>1. cur # None
      BY <2>1 DEF SInv, Typed
    <3>2. Counted' /\ done' \in Nat /\ failed' \in Nat
      BY <2>1, <3>1, CountsStep DEF SInv
    <3> QED BY <1>1, <2>1, <3>2 DEF SInv, Typed, Counts
  <2>2. CASE cur' = cur /\ UNCHANGED <<todo, done, failed>>
    <3>1. Ahead' = Ahead
      BY <2>2 DEF Ahead
    <3> QED BY <1>1, <1>3, <2>2, <3>1 DEF SInv, Typed, Counted, Counts
  <2>3. CASE cur' = cur /\ pc = "pane" /\ pc' = "pane" /\ UNCHANGED <<done, failed>>
             /\ \E p \in todo : todo' = todo \ {p}
    <3>1. cur = None /\ todo \in SUBSET Panes
      BY <2>3 DEF SInv, Typed
    <3>2. Ahead = todo /\ Ahead' = todo'
      BY <2>3, <3>1 DEF Ahead
    <3>3. Cardinality(todo') = Cardinality(todo) - 1 /\ Cardinality(todo) \in Nat
          /\ Cardinality(Panes) \in Nat
      BY <2>3, <3>1, Sizes
    <3>4. Counted'
      BY <2>3, <3>2, <3>3 DEF SInv, Counted, Typed
    <3> QED BY <1>1, <2>3, <3>4 DEF SInv, Typed
  <2> QED BY <1>3, <2>1, <2>2, <2>3
<1>5. todo' \subseteq todo /\ cur' \in {cur, None}
  BY <1>3 DEF Counts
<1>6. AtHand'
  BY <1>1, <1>3 DEF SInv, AtHand, Runs, PromptIsFree, Counts, Typed
<1>7. Noted' /\ EnterOnlyConfirms'
  <2>1. None \notin parked
    BY SuspendAssumption DEF SInv, Noted
  <2>2. pc = "look" => cur \notin spoiled
    BY DEF SInv, Noted
  <2> QED BY <1>1, <1>2, <1>3, <1>5, <2>1, <2>2 DEF SInv, Noted, EnterOnlyConfirms
<1>8. Same'
  <2>1. pc' = "park" /\ cur' \notin touched' => cur \in ended /\ Runs(cur, "shell")
    BY <1>1, <1>3 DEF SInv, Same, AtHand, Noted, Alive, Runs, Typed, Counts
  <2> QED BY <1>1, <1>5, <1>3, <2>1 DEF SInv, Same, Runs
<1>9. Single'
  <2>1. \A q \in Panes : Alone(q)' = Alone(q) /\ Runs(q, "claude")' = Runs(q, "claude")
    BY <1>1 DEF Alone, Runs
  <2>2. cur' # None => /\ cur' = cur /\ cur \in Panes
                       /\ pc' \in {"look", "type", "enter"}
                            => pc \in {"look", "type", "enter"}
    BY <1>3 DEF Counts, SInv, Typed
  <2>3. \A q \in Panes : q = cur' => q = cur
    BY <1>5, SuspendAssumption
  <2> QED BY <1>1, <2>1, <2>2, <2>3 DEF SInv, Single
<1>10. Kept'
  <2>1. CASE Counts(0, 1)
    BY <2>1 DEF SInv, Typed, Kept, Counts
  <2>2. CASE Counts(1, 0) /\ pc = "look" /\ dry
    BY <1>1, <2>2 DEF SInv, Typed, Noted, Kept, Counts
  <2>3. CASE UNCHANGED <<cur, done, failed>>
    BY <1>1, <2>3 DEF SInv, Kept
  <2> QED BY <1>3, <2>1, <2>2, <2>3
<1>11. ParkedIsResumable'
  BY <1>1 DEF SInv, ParkedIsResumable, Runs
<1> QED BY <1>4, <1>6, <1>7, <1>8, <1>9, <1>10, <1>11 DEF SInv

-----------------------------------------------------------------------------
(* The keys claude-suspend types keep it. *)

(* Submitting gives the conversation of the pane at hand a turn, which the  *)
(* pane of a conversation of its own does not show.                         *)
LEMMA Elsewhere ==
  ASSUME SInv, cur # None, NEW p \in Panes \ touched, p # cur,
         Runs(p, "claude"), Alone(p)
  PROVE  pane[cur].sid # pane[p].sid /\ sid # pane[p].sid
  BY DEF SInv, Single, Typed

LEMMA TypeExitStep ==
  ASSUME SInv, TypeExit
  PROVE  SInv'
<1> DEFINE free == Runs(cur, "claude") /\ pane[cur].box = "empty"
<1>1. /\ pc = "type" /\ pc' = "enter" /\ cur \in Panes /\ cur \notin todo
      /\ UNCHANGED <<idle, table, todo, cur, sid, dry, done, failed, ghosts>>
  BY DEF TypeExit, At, Stays, SInv, Typed
<1>2. Changes(cur) /\ SameProgram(cur) /\ (free => pane'[cur].box = "slash")
  <2>1. CASE free
    BY <1>1, <2>1, BoxChanged DEF TypeExit, SInv, Boxes
  <2>2. CASE ~free
    BY <1>1, <2>2 DEF TypeExit, Changes, SameProgram, SInv, Typed
  <2> QED BY <2>1, <2>2
<1>3. \A q \in Panes : /\ Runs(q, "claude")' = Runs(q, "claude")
                       /\ Runs(q, "shell")' = Runs(q, "shell")
                       /\ Runs(q, "placeholder")' = Runs(q, "placeholder")
                       /\ pane'[q].pid = pane[q].pid /\ pane'[q].sid = pane[q].sid
                       /\ Alone(q)' = Alone(q)
  BY <1>1, <1>2 DEF Changes, SameProgram, Runs, Alone
<1> HIDE DEF free
<1>4. Typed' /\ Counted'
  BY <1>1, <1>2 DEF SInv, Typed, Counted, Ahead, Changes, ghosts
<1>5. AtHand'
  BY <1>1, <1>2, <1>3 DEF SInv, AtHand, ghosts, free
<1>6. Noted' /\ EnterOnlyConfirms'
  BY <1>1 DEF SInv, Noted, EnterOnlyConfirms, ghosts
<1>7. Same'
  BY <1>1, <1>3 DEF SInv, Same, ghosts
<1>8. Single'
  BY <1>1, <1>3 DEF SInv, Single, ghosts
<1>9. Kept'
  BY <1>1 DEF SInv, Kept, ghosts
<1>10. ParkedIsResumable'
  BY <1>1, <1>3 DEF SInv, Noted, ParkedIsResumable, ghosts
<1> QED BY <1>4, <1>5, <1>6, <1>7, <1>8, <1>9, <1>10 DEF SInv

LEMMA Submits ==
  ASSUME SInv, cur # None, Runs(cur, "claude"), Submitted(cur)
  PROVE  /\ Changes(cur) /\ SameProgram(cur)
         /\ idle' \subseteq idle /\ idle \ {pane[cur].sid} \subseteq idle'
<1>1. cur \in Panes
  BY DEF SInv, Typed
<1>2. PICK box \in Boxes : pane' = [pane EXCEPT ![cur].box = box]
  <2>1. pane[cur].box = "exiting" => pane' = [pane EXCEPT ![cur].box = "exiting"]
    BY <1>1 DEF Submitted, SInv, Typed
  <2>2. pane[cur].box # "exiting" => pane' = [pane EXCEPT ![cur].box = "busy"]
    BY <1>1 DEF Submitted, SInv, Typed
  <2> QED BY <2>1, <2>2 DEF Boxes
<1>3. Changes(cur) /\ SameProgram(cur)
  BY <1>1, <1>2, BoxChanged DEF SInv
<1> QED BY <1>3 DEF Submitted

LEMMA Resumes ==
  ASSUME SInv, cur # None, Runs(cur, "placeholder"), Resumed(cur)
  PROVE  /\ Changes(cur) /\ pane'[cur].kind = "claude" /\ pane'[cur].sid = pane[cur].sid
         /\ idle' = idle
<1>1. cur \in Panes
  BY DEF SInv, Typed
<1>2. pane[cur].sid \in Sids
  BY <1>1 DEF SInv, Typed, PaneType, Shape, Runs
<1>3. Changes(cur) /\ pane'[cur] = Program("claude", pane[cur].pid + 1, pane[cur].sid, "empty")
  BY <1>1, <1>2, NewPrograms, ProgramChanged DEF SInv, Resumed, Launch
<1> QED BY <1>1, <1>2, <1>3, NewPrograms DEF SInv, Resumed


(* Keys that go elsewhere than meant, in a pane the user has acted in.      *)
LEMMA StrayStep ==
  ASSUME SInv, cur # None, cur \in touched, Changes(cur),
         pane'[cur].sid = pane[cur].sid,
         idle' \subseteq idle, idle \ {pane[cur].sid} \subseteq idle',
         UNCHANGED <<table, touched>>, cur' \in {cur, None},
         cur' = cur => sid' = sid, pc' \notin {"look", "type", "enter", "park"}
  PROVE  /\ Same' /\ Single'
         /\ parked' \subseteq parked /\ ended \subseteq ended' => ParkedIsResumable'
<1>1. \A q \in Panes \ touched : pane'[q] = pane[q]
  BY DEF Changes
<1>2. \A q \in Panes \ touched : /\ Alone(q)' = Alone(q)
                                 /\ Runs(q, "claude")' = Runs(q, "claude")
  BY <1>1 DEF Alone, Runs
<1>3. Same'
  BY <1>1, <1>2 DEF SInv, Same
<1>4. \A q \in Panes : pane'[q].sid = pane[q].sid
  BY DEF Changes
<1>5. Single'
  BY <1>1, <1>2, <1>4, SuspendAssumption DEF SInv, Single, Typed
<1>6. ASSUME parked' \subseteq parked, ended \subseteq ended' PROVE ParkedIsResumable'
  <2>1. parked \subseteq Panes
    BY DEF SInv, Noted
  <2> QED BY <1>1, <1>6, <2>1 DEF SInv, ParkedIsResumable, Runs
<1> QED BY <1>3, <1>5, <1>6

LEMMA PressEnterStep ==
  ASSUME SInv, PressEnter
  PROVE  SInv'
<1>1. /\ pc = "enter" /\ pc' = "poll" /\ cur \in Panes /\ cur # None /\ cur \notin parked
      /\ cur \notin todo /\ cur \notin ended /\ cur \notin spoiled
      /\ UNCHANGED <<table, todo, cur, sid, dry, done, failed, touched, meddled, parked>>
  BY DEF PressEnter, At, Stays, SInv, Typed, Noted
<1>2. \/ /\ Changes(cur) /\ SameProgram(cur) /\ pane'[cur].box = "exiting"
         /\ Runs(cur, "claude")
         /\ ended' = ended \cup {cur} /\ UNCHANGED <<idle, spoiled>>
      \/ /\ cur \in meddled
         /\ Changes(cur) /\ pane'[cur].sid = pane[cur].sid
         /\ idle' \subseteq idle /\ idle \ {pane[cur].sid} \subseteq idle'
         /\ spoiled' \subseteq spoiled \cup {cur} /\ UNCHANGED ended
  <2>1. cur \notin meddled => Runs(cur, "claude") /\ pane[cur].box = "slash"
    BY <1>1 DEF SInv, AtHand
  <2>2. CASE /\ Runs(cur, "claude") /\ pane[cur].box = "slash"
             /\ pane' = [pane EXCEPT ![cur].box = "exiting"]
             /\ ended' = ended \cup {cur} /\ UNCHANGED <<idle, spoiled>>
    BY <1>1, <2>2, BoxChanged DEF SInv, Boxes
  <2>3. CASE /\ Runs(cur, "claude") /\ pane[cur].box \notin {"slash", "empty"}
             /\ Submitted(cur) /\ spoiled' = spoiled \cup {cur} /\ UNCHANGED ended
    BY <1>1, <2>1, <2>3, Submits DEF SameProgram
  <2>4. CASE /\ Runs(cur, "placeholder") /\ Resumed(cur)
             /\ spoiled' = spoiled \cup {cur} /\ UNCHANGED ended
    BY <1>1, <2>1, <2>4, Resumes DEF Runs
  <2>5. CASE /\ pane[cur].box \in {None, "empty"} /\ ~Runs(cur, "placeholder")
             /\ UNCHANGED <<pane, idle, spoiled, ended>>
    BY <1>1, <2>1, <2>5 DEF Changes, SInv, Typed, None
  <2> QED BY <2>2, <2>3, <2>4, <2>5 DEF PressEnter
<1>3. Typed' /\ Counted'
  BY <1>1, <1>2 DEF SInv, Typed, Counted, Ahead, Changes
<1>4. Noted' /\ EnterOnlyConfirms'
  BY <1>1, <1>2 DEF SInv, Noted, EnterOnlyConfirms
<1>5. CASE cur \notin meddled
  <2>1. /\ Changes(cur) /\ SameProgram(cur) /\ pane'[cur].box = "exiting"
        /\ Runs(cur, "claude")
        /\ ended' = ended \cup {cur} /\ UNCHANGED <<idle, spoiled>>
    BY <1>2, <1>5
  <2>2. \A q \in Panes : /\ Runs(q, "claude")' = Runs(q, "claude")
                         /\ Runs(q, "shell")' = Runs(q, "shell")
                         /\ Runs(q, "placeholder")' = Runs(q, "placeholder")
                         /\ pane'[q].pid = pane[q].pid /\ pane'[q].sid = pane[q].sid
                         /\ Alone(q)' = Alone(q)
    BY <1>1, <2>1 DEF Changes, SameProgram, Runs, Alone
  <2>3. AtHand'
    BY <1>1, <2>1, <2>2 DEF AtHand
  <2>4. Same' /\ Single'
    BY <1>1, <2>1, <2>2 DEF SInv, Same, Single
  <2>5. Kept'
    BY <1>1, <2>1 DEF SInv, Kept
  <2>6. ParkedIsResumable'
    BY <1>1, <2>1, <2>2 DEF SInv, Noted, ParkedIsResumable
  <2> QED BY <1>3, <1>4, <2>3, <2>4, <2>5, <2>6 DEF SInv
<1>6. CASE cur \in meddled
  <2>1. cur \in touched
    BY <1>6 DEF SInv, Noted
  <2>2. /\ Changes(cur) /\ pane'[cur].sid = pane[cur].sid
        /\ idle' \subseteq idle /\ idle \ {pane[cur].sid} \subseteq idle'
        /\ ended \subseteq ended' /\ ended' \subseteq ended \cup {cur}
    BY <1>2 DEF SameProgram
  <2>3. AtHand'
    BY <1>1, <1>6 DEF AtHand
  <2>4. Same' /\ Single' /\ ParkedIsResumable'
    BY <1>1, <2>1, <2>2, StrayStep
  <2>5. Kept'
    BY <1>1, <2>1, <2>2 DEF SInv, Kept
  <2> QED BY <1>3, <1>4, <2>3, <2>4, <2>5 DEF SInv
<1> QED BY <1>5, <1>6

LEMMA TypePlaceholderStep ==
  ASSUME SInv, TypePlaceholder
  PROVE  SInv'
<1>1. /\ pc = "park" /\ pc' = "pane" /\ cur \in Panes /\ cur # None /\ cur \notin parked
      /\ cur \notin todo /\ sid \in Sids /\ Counts(1, 0) /\ cur' = None
      /\ done' = done + 1 /\ failed' = failed
      /\ UNCHANGED <<table, todo, sid, dry, touched, meddled, ended, spoiled>>
  BY DEF TypePlaceholder, At, Counts, SInv, Typed, Noted
<1>2. \/ /\ Changes(cur) /\ pane'[cur].kind = "placeholder" /\ pane'[cur].sid = sid
         /\ parked' = parked \cup {cur} /\ UNCHANGED idle /\ Runs(cur, "shell")
      \/ /\ cur \in touched
         /\ Changes(cur) /\ pane'[cur].sid = pane[cur].sid
         /\ idle' \subseteq idle /\ idle \ {pane[cur].sid} \subseteq idle'
         /\ UNCHANGED parked
  <2>1. cur \notin touched => Runs(cur, "shell")
    BY <1>1 DEF SInv, Same
  <2>2. CASE /\ Runs(cur, "shell")
             /\ Become(cur, Program("placeholder", pane[cur].pid, sid, None))
             /\ parked' = parked \cup {cur} /\ UNCHANGED idle
    BY <1>1, <2>2, NewPrograms, ProgramChanged DEF SInv
  <2>3. CASE Runs(cur, "claude") /\ Submitted(cur) /\ UNCHANGED parked
    BY <1>1, <2>1, <2>3, Submits DEF SameProgram, Runs
  <2>4. CASE Runs(cur, "placeholder") /\ Resumed(cur) /\ UNCHANGED parked
    BY <1>1, <2>1, <2>4, Resumes DEF Runs
  <2> QED BY <2>2, <2>3, <2>4 DEF TypePlaceholder
<1>3. Counted' /\ done' \in Nat
  BY <1>1, CountsStep DEF SInv
<1>4. Typed'
  BY <1>1, <1>2, <1>3 DEF SInv, Typed, Changes
<1>5. AtHand' /\ Noted' /\ EnterOnlyConfirms'
  <2>1. None \notin parked'
    BY <1>1, <1>2, SuspendAssumption DEF SInv, Noted
  <2> QED BY <1>1, <1>2, <2>1 DEF SInv, AtHand, Noted, EnterOnlyConfirms
<1>6. CASE cur \in touched /\ pane'[cur].sid = pane[cur].sid
           /\ idle' \subseteq idle /\ idle \ {pane[cur].sid} \subseteq idle'
           /\ UNCHANGED parked /\ Changes(cur)
  <2>1. Same' /\ Single' /\ ParkedIsResumable'
    BY <1>1, <1>6, StrayStep
  <2>2. Kept'
    BY <1>1, <1>6 DEF SInv, Kept
  <2> QED BY <1>3, <1>4, <1>5, <2>1, <2>2 DEF SInv
<1>7. CASE /\ Changes(cur) /\ pane'[cur].kind = "placeholder" /\ pane'[cur].sid = sid
           /\ parked' = parked \cup {cur} /\ UNCHANGED idle /\ Runs(cur, "shell")
  <2>1. \A q \in Panes : /\ q # cur => pane'[q] = pane[q]
                         /\ Alone(q)' = Alone(q)
                         /\ Runs(q, "claude")' => Runs(q, "claude") /\ q # cur
    BY <1>1, <1>7 DEF Changes, Runs, Alone
  <2>2. Same'
    BY <1>1, <2>1 DEF SInv, Same
  <2>3. Single'
    BY <1>1, <1>7, <2>1, SuspendAssumption DEF SInv, Single
  <2>4. Kept'
    <3>1. Cardinality(parked') = Cardinality(parked) + 1 /\ Cardinality(parked) \in Nat
      BY <1>1, <1>7, Sizes DEF SInv, Noted
    <3>2. (touched' = {} /\ ~dry') /\ failed' = 0 => done' = Cardinality(parked')
      BY <1>1, <3>1 DEF SInv, Kept
    <3>3. failed' = 0 => ended' \ touched' \subseteq parked' \cup {cur'}
      BY <1>1, <1>7 DEF SInv, Kept
    <3> QED BY <3>2, <3>3 DEF Kept
  <2>5. ParkedIsResumable'
    <3>1. ASSUME NEW p \in parked' \ touched'
          PROVE  p \in ended' /\ Runs(p, "placeholder")' /\ pane'[p].sid = table'[p].sid
      <4>1. CASE p = cur
        BY <1>1, <1>7, <3>1, <4>1 DEF SInv, Same, Runs
      <4>2. CASE p # cur
        BY <1>1, <1>7, <2>1, <3>1, <4>2 DEF SInv, Noted, ParkedIsResumable, Runs
      <4> QED BY <4>1, <4>2
    <3> QED BY <3>1 DEF ParkedIsResumable
  <2> QED BY <1>3, <1>4, <1>5, <2>2, <2>3, <2>4, <2>5 DEF SInv
<1> QED BY <1>2, <1>6, <1>7


-----------------------------------------------------------------------------
(* The theorems *)

LEMMA InitSInv == SInit => SInv
<1> SUFFICES ASSUME SInit PROVE SInv
  OBVIOUS
<1>1. \A p \in Panes : \/ pane[p] = Shell(0)
                       \/ \E s \in Sids, box \in {"empty", "busy"} :
                             pane[p] = Program("claude", 0, s, box)
  BY DEF SInit
<1>2. \A p \in Panes : pane[p] \in PaneType /\ Shape(pane[p])
  <2>1. \A s \in Sids : s # None
    BY SuspendAssumption
  <2>2. Shell(0) \in PaneType /\ Shape(Shell(0))
    BY DEF Shell, Program, PaneType, Shape, Kinds, None
  <2>3. \A s \in Sids, box \in {"empty", "busy"} :
           /\ Program("claude", 0, s, box) \in PaneType
           /\ Shape(Program("claude", 0, s, box))
    BY <2>1 DEF Program, PaneType, Shape, Kinds, Boxes, None
  <2> QED BY <1>1, <2>2, <2>3
<1>3. /\ pane \in [Panes -> PaneType]
      /\ table = [p \in Panes |-> [kind |-> pane[p].kind, pid |-> pane[p].pid,
                                   sid |-> pane[p].sid]]
  BY <1>2 DEF SInit, Read
<1>4. Typed
  <2>1. \A p \in Panes : /\ table[p] \in [kind : Kinds, pid : Nat, sid : Sids \cup {None}]
                         /\ (table[p].kind = "shell") = (table[p].sid = None)
    BY <1>2, <1>3 DEF PaneType, Shape
  <2>2. table \in [Panes -> [kind : Kinds, pid : Nat, sid : Sids \cup {None}]]
    <3> HIDE DEF Kinds
    <3> QED BY <1>3, <2>1
  <2>3. idle \subseteq Sids /\ todo \in SUBSET Panes /\ pc = "stopped" /\ cur = None
        /\ dry = FALSE /\ done = 0 /\ failed = 0
    BY DEF SInit
  <2> QED BY <1>2, <1>3, <2>1, <2>2, <2>3 DEF Typed
<1>5. Counted
  <2>1. Ahead = {}
    BY DEF SInit, Ahead
  <2>2. Cardinality(Panes) \in Nat
    BY Sizes
  <2> QED BY <2>1, <2>2, FS_EmptySet DEF SInit, Counted
<1>6. AtHand /\ Noted /\ EnterOnlyConfirms /\ ParkedIsResumable
  BY DEF SInit, AtHand, Noted, EnterOnlyConfirms, ParkedIsResumable
<1>7. Same
  BY <1>3 DEF SInit, Same, Runs
<1>8. Single
  <2>1. \A p, q \in Panes : p # q /\ Runs(p, "claude") => pane[q].sid # pane[p].sid
    BY <1>2 DEF SInit, Shape, Runs
  <2>2. \A p \in Panes : p # cur
    BY SuspendAssumption DEF SInit
  <2> QED BY <2>1, <2>2 DEF SInit, Single
<1>9. Kept
  BY FS_EmptySet DEF SInit, Kept
<1> QED BY <1>4, <1>5, <1>6, <1>7, <1>8, <1>9 DEF SInv

LEMMA NextSInv == SInv /\ [SNext]_suvars => SInv'
<1> SUFFICES ASSUME SInv, [SNext]_suvars PROVE SInv'
  OBVIOUS
<1>1. CASE Scan
  BY <1>1, ScanStep
<1>2. CASE Suspends
  BY <1>2, TakeStep, QuietStep, TypeExitStep, PressEnterStep, TypePlaceholderStep
     DEF Suspends
<1>3. CASE PaneFails
  BY <1>3, QuietStep
<1>4. CASE Programs
  <2>1. SInv => Typed
    BY DEF SInv
  <2> QED BY <1>4, <2>1, UserIsUser, UserStep, ClaudeIsClaude, ClaudeStep DEF Programs
<1>5. CASE UNCHANGED suvars
  BY <1>5 DEF suvars, world, ghosts, SInv, Typed, Counted, Ahead, AtHand, Noted,
     EnterOnlyConfirms, Same, Single, Kept, ParkedIsResumable, Runs, Alone
<1> QED BY <1>1, <1>2, <1>3, <1>4, <1>5 DEF SNext

LEMMA AlwaysSInv == SSpec => []SInv
  BY InitSInv, NextSInv, PTL DEF SSpec

(* Every variable keeps its type, and no pane is counted twice: what a run  *)
(* reports as parked and as failed, with what is still on its list, is never *)
(* more than the panes there are.                                           *)
THEOREM SuspendTypes == SSpec => []STypeOK
<1>1. SInv => STypeOK
  <2> SUFFICES ASSUME SInv PROVE STypeOK
    OBVIOUS
  <2>1. pane \in [Panes -> [kind : {"shell", "claude", "placeholder"}, pid : Nat,
                            sid : Sids \cup {None}, box : Boxes \cup {None}]]
    BY DEF SInv, Typed, PaneType, Kinds
  <2>2. done + failed + Cardinality(todo) <= Cardinality(Panes)
    <3>1. IsFiniteSet(Ahead) /\ todo \subseteq Ahead
      BY Sizes DEF SInv, Typed, Ahead
    <3>2. /\ Cardinality(todo) <= Cardinality(Ahead)
          /\ Cardinality(todo) \in Nat /\ Cardinality(Ahead) \in Nat
          /\ Cardinality(Panes) \in Nat
      BY <3>1, FS_Subset, FS_CardinalityType, Sizes
    <3> QED BY <3>2 DEF SInv, Typed, Counted
  <2> QED BY <2>1, <2>2 DEF SInv, Typed, Shape, STypeOK
<1> QED BY <1>1, AlwaysSInv, PTL

(* Whatever the user does in any pane: Enter submits a draft, picks an      *)
(* option or resumes a conversation only in a pane the user acted in after  *)
(* claude-suspend had looked at its screen.                                 *)
THEOREM EnterConfirms == SSpec => []EnterOnlyConfirms
  BY AlwaysSInv, PTL DEF SInv

(* A pane the user left alone since the process table was read and that is  *)
(* parked holds the placeholder of the conversation the table showed, whose *)
(* Claude was ended.                                                        *)
THEOREM ParkedResumes == SSpec => []ParkedIsResumable
  BY AlwaysSInv, PTL DEF SInv

(* With --idle-for, no Claude is ended in a pane the user left alone unless *)
(* its conversation, shown there only, is still idle.                       *)
THEOREM EndsIdleOnes == SSpec => OnlyIdleEnded
<1>1. SInv /\ [SNext]_suvars
        => [ IdleFor => \A p \in ended' \ (ended \cup touched) :
                           Alone(p) => pane[p].sid \in idle ]_suvars
  <2> SUFFICES ASSUME SInv, SNext, IdleFor,
                      NEW p \in ended' \ (ended \cup touched), Alone(p)
               PROVE  pane[p].sid \in idle
    OBVIOUS
  <2>1. PressEnter
    BY DEF SNext, Scan, Suspends, TakePane, SkipPane, Look, TypeExit, Confirm, TimesOut,
       TypePlaceholder, Ends, PaneFails, Programs, UserDrafts, UserSubmits,
       UserAnswersDialog, UserQuits, UserLaunches, UserDeclines, UserActs, ClaudeEndsTurn,
       ClaudeExits, ClaudeActs, world, ghosts
  <2>2. p = cur /\ pc = "enter" /\ Runs(cur, "claude") /\ cur # None
    BY <2>1 DEF PressEnter, At, SInv, Typed
  <2> QED BY <2>2 DEF SInv, Single
<1> QED BY <1>1, AlwaysSInv, PTL DEF SSpec, OnlyIdleEnded

(* A run of claude-suspend that has come to its end without a failure has   *)
(* ended no Claude the user left alone without parking it, and, where the   *)
(* user did nothing, has parked as many as it says.  That a run comes to    *)
(* its end is a liveness property, which TLC checks.                        *)
THEOREM EndedAreParked == SSpec => [](pc = "stopped" => AllParked)
<1>1. SInv /\ pc = "stopped" => AllParked
  <2> SUFFICES ASSUME SInv, pc = "stopped" PROVE AllParked
    OBVIOUS
  <2>1. cur = None /\ None \notin ended
    BY SuspendAssumption DEF SInv, Typed, Noted
  <2> QED BY <2>1 DEF SInv, Kept, AllParked
<1> QED BY <1>1, AlwaysSInv, PTL

=============================================================================
