---------------------------- MODULE ClaudeSuspend ----------------------------
(***************************************************************************)
(* claude-suspend (internal/cli/claude_suspend.go): park running Claudes   *)
(* behind the claude-resume placeholder, by typing into their panes.  The  *)
(* process table is read once; then pane after pane is looked at, /exit is *)
(* typed, confirmed with Enter, the process is waited for, and the         *)
(* placeholder is typed into the shell that is left.  All the while the    *)
(* user works in the same panes.                                           *)
(*                                                                         *)
(* The panes, the programs in them and the user are external.  Claude's    *)
(* input box is "empty", holds the user's "draft" or the typed "slash"     *)
(* command, or is out of reach: "busy" with a turn, a "dialog", "exiting". *)
(***************************************************************************)
EXTENDS Integers, FiniteSets

CONSTANTS
    Panes,
    Sids,           \* Claude's conversations
    IdleFor,        \* --idle-for is given
    MaxRuns,        \* bound on the runs of claude-suspend
    MaxActs,        \* bound on what the user does
    MaxFails        \* bound on failed commands, writes and scans

None == "none"

ASSUME SuspendAssumption ==
    /\ None \notin Panes \cup Sids
    /\ IsFiniteSet(Panes)
    /\ IdleFor \in BOOLEAN
    /\ MaxRuns \in Nat /\ MaxActs \in Nat /\ MaxFails \in Nat

VARIABLES
    pane,       \* what runs in each pane
    idle,       \* the conversations whose last turn is long ago
    pc, todo, table, cur, sid, dry,     \* of claude-suspend
    done, failed,                       \* what it counts
    runs, acts, fails,
    touched,    \* panes the user acted in since the process table was read
    meddled,    \* those among them since claude-suspend looked at the screen
    ended,      \* Claudes that /exit ended
    parked,     \* panes the placeholder was started in
    spoiled,    \* panes where Enter did something else than confirm /exit
    intoLive    \* panes where the placeholder was typed into a Claude

ghosts == <<touched, meddled, ended, parked, spoiled, intoLive>>
world == <<pane, idle, acts>>
suvars == <<world, pc, todo, table, cur, sid, dry, done, failed, runs, fails, ghosts>>

Boxes == {"empty", "draft", "slash", "busy", "dialog", "exiting"}

(* A pane's program: pid numbers the Claudes there have been in it. *)
Program(kind, pid, s, box) == [kind |-> kind, pid |-> pid, sid |-> s, box |-> box]

Shell(pid) == Program("shell", pid, None, None)

(* What the process table and Claude's registry show of them. *)
Read(panes) == [p \in Panes |-> [kind |-> panes[p].kind, pid |-> panes[p].pid, sid |-> panes[p].sid]]

SInit ==
    /\ pane \in [Panes -> {Shell(0)} \cup {Program("claude", 0, s, box) :
                                              s \in Sids, box \in {"empty", "busy"}}]
    /\ \A p, q \in Panes : p # q /\ pane[p].sid = pane[q].sid => pane[p].sid = None
    /\ idle \in SUBSET Sids
    /\ \A p \in Panes : pane[p].box = "busy" => pane[p].sid \notin idle
    /\ pc = "stopped" /\ todo = {} /\ cur = None /\ sid = None /\ dry = FALSE
    /\ table = Read(pane)
    /\ done = 0 /\ failed = 0
    /\ runs = 0 /\ acts = 0 /\ fails = 0
    /\ touched = {} /\ meddled = {}
    /\ ended = {} /\ parked = {} /\ spoiled = {} /\ intoLive = {}

-----------------------------------------------------------------------------
(* The user and Claude *)

Runs(p, kind) == pane[p].kind = kind

Become(p, what) == pane' = [pane EXCEPT ![p] = what]

Launch(p, s) == Become(p, Program("claude", pane[p].pid + 1, s, "empty"))

Box(p, from, to) ==
    /\ Runs(p, "claude")
    /\ pane[p].box \in from
    /\ pane' = [pane EXCEPT ![p].box = to]

UserActs(p) ==
    /\ acts < MaxActs
    /\ acts' = acts + 1
    /\ touched' = touched \cup {p}
    /\ meddled' = IF p = cur THEN meddled \cup {p} ELSE meddled
    /\ UNCHANGED <<pc, todo, table, cur, sid, dry, done, failed, runs, fails,
                   ended, parked, spoiled, intoLive>>

UserDrafts(p) ==
    UserActs(p) /\ Box(p, {"empty", "slash"}, "draft") /\ UNCHANGED idle

UserSubmits(p) ==
    UserActs(p) /\ Box(p, {"draft"}, "busy") /\ idle' = idle \ {pane[p].sid}

UserAnswersDialog(p) ==
    UserActs(p) /\ Box(p, {"dialog"}, "empty") /\ UNCHANGED idle

UserQuits(p) ==
    UserActs(p) /\ Runs(p, "claude") /\ Become(p, Shell(pane[p].pid)) /\ UNCHANGED idle

(* A new Claude in a shell, or behind the placeholder. *)
UserLaunches(p) ==
    /\ UserActs(p)
    /\ \/ /\ Runs(p, "shell")
          /\ \E s \in Sids : (\A q \in Panes : pane[q].sid # s)
                                /\ Launch(p, s)
       \/ Runs(p, "placeholder") /\ Launch(p, pane[p].sid)
    /\ UNCHANGED idle

(* Ctrl-C at the placeholder leaves a shell. *)
UserDeclines(p) ==
    UserActs(p) /\ Runs(p, "placeholder") /\ Become(p, Shell(pane[p].pid)) /\ UNCHANGED idle

ClaudeActs ==
    UNCHANGED <<idle, acts, pc, todo, table, cur, sid, dry, done, failed, runs, fails, ghosts>>

ClaudeEndsTurn(p) ==
    ClaudeActs /\ \E box \in {"empty", "dialog"} : Box(p, {"busy"}, box)

ClaudeExits(p) ==
    ClaudeActs /\ Runs(p, "claude") /\ pane[p].box = "exiting" /\ Become(p, Shell(pane[p].pid))

Programs ==
    \E p \in Panes : \/ UserDrafts(p) \/ UserSubmits(p) \/ UserAnswersDialog(p)
                     \/ UserQuits(p) \/ UserLaunches(p) \/ UserDeclines(p)
                     \/ ClaudeEndsTurn(p) \/ ClaudeExits(p)

-----------------------------------------------------------------------------
(* claude-suspend *)

(* The process the table shows in a pane still runs. *)
Alive(p) == Runs(p, "claude") /\ pane[p].pid = table[p].pid

Scan ==
    /\ pc = "stopped"
    /\ runs < MaxRuns
    /\ runs' = runs + 1
    /\ dry' \in BOOLEAN
    /\ table' = Read(pane)
    /\ todo' = Panes
    /\ pc' = "pane"
    /\ done' = 0 /\ failed' = 0
    /\ touched' = {} /\ meddled' = {}
    /\ ended' = {} /\ parked' = {} /\ spoiled' = {} /\ intoLive' = {}
    /\ UNCHANGED <<world, cur, sid, fails>>

At(step, next) == pc = step /\ pc' = next /\ UNCHANGED <<table, dry, runs>>

(* On to the next pane, counting this one. *)
Counts(good, bad) ==
    /\ done' = done + good
    /\ failed' = failed + bad
    /\ cur' = None
    /\ UNCHANGED <<todo, sid>>

Stays == UNCHANGED <<todo, cur, sid, done, failed>>

(* The Claude the process table shows in a pane.  Where its process is gone
   already, the file it registered under or its --resume argument may still
   give it away, or it is taken for something else. *)
ClaudeInPane(p, s) ==
    /\ table[p].kind = "claude"
    /\ s = IF Alive(p) THEN pane[p].sid ELSE table[p].sid

(* Mutant: --idle-for is not looked at. *)
TakeAnyPane ==
    /\ At("pane", "look")
    /\ \E p \in todo : todo' = todo \ {p} /\ cur' = p /\ ClaudeInPane(p, sid')
    /\ UNCHANGED <<world, done, failed, fails, ghosts>>

(* Mutant: the first conversation found is the one every pane is parked with. *)
TakePaneWithFirstSid ==
    /\ At("pane", "look")
    /\ \E p \in todo :
          /\ todo' = todo \ {p}
          /\ cur' = p
          /\ \E s \in Sids : ClaudeInPane(p, s) /\ sid' = IF sid = None THEN s ELSE sid
          /\ IdleFor => sid' \in idle
    /\ UNCHANGED <<world, done, failed, fails, ghosts>>

(* Mutant: a pane that was taken stays on the list. *)
TakePaneAgain ==
    /\ At("pane", "look")
    /\ \E p \in todo : cur' = p /\ ClaudeInPane(p, sid')
    /\ UNCHANGED <<world, todo, done, failed, fails, ghosts>>

TakePane ==
    /\ At("pane", "look")
    /\ \E p \in todo :
          /\ todo' = todo \ {p}
          /\ cur' = p
          /\ ClaudeInPane(p, sid')
          /\ IdleFor => sid' \in idle
    /\ UNCHANGED <<world, done, failed, fails, ghosts>>

(* Not a Claude, or not idle for long enough. *)
SkipPane ==
    /\ At("pane", "pane")
    /\ \E p \in todo :
          /\ todo' = todo \ {p}
          /\ \/ table[p].kind # "claude"
             \/ table[p].kind = "claude" /\ ~Alive(p)
             \/ IdleFor /\ \E s \in Sids \ idle : ClaudeInPane(p, s)
    /\ UNCHANGED <<world, cur, sid, done, failed, fails, ghosts>>

(* checkPrompt: the screen shows an empty input box. *)
PromptIsFree == Runs(cur, "claude") /\ pane[cur].box = "empty"

(* Mutant: only a turn under way is looked for. *)
LookForTurn ==
    /\ \/ At("look", "type") /\ pane[cur].box # "busy" /\ ~dry /\ Stays
       \/ At("look", "pane") /\ pane[cur].box # "busy" /\ dry /\ Counts(1, 0)
       \/ At("look", "pane") /\ pane[cur].box = "busy" /\ Counts(0, 1)
    /\ meddled' = meddled \ {cur}
    /\ UNCHANGED <<world, fails, touched, ended, parked, spoiled, intoLive>>

Look ==
    /\ \/ At("look", "type") /\ PromptIsFree /\ ~dry /\ Stays
       \/ At("look", "pane") /\ PromptIsFree /\ dry /\ Counts(1, 0)
       \/ At("look", "pane") /\ ~PromptIsFree /\ Counts(0, 1)
    /\ meddled' = meddled \ {cur}
    /\ UNCHANGED <<world, fails, touched, ended, parked, spoiled, intoLive>>

(* capture-pane, the capture written, and /exit typed. *)
TypeExit ==
    /\ At("type", "enter") /\ Stays
    /\ IF Runs(cur, "claude") /\ pane[cur].box = "empty"
       THEN pane' = [pane EXCEPT ![cur].box = "slash"]
       ELSE UNCHANGED pane
    /\ UNCHANGED <<idle, acts, fails, ghosts>>

(* What is in a Claude's box is submitted; a dialog's option is picked. *)
Submitted(p) ==
    /\ pane' = [pane EXCEPT ![p].box = IF @ = "exiting" THEN @ ELSE "busy"]
    /\ idle' = idle \ {pane[p].sid}

Resumed(p) ==
    /\ Launch(p, pane[p].sid)
    /\ UNCHANGED idle

PressEnter ==
    /\ At("enter", "poll") /\ Stays
    /\ \/ /\ Runs(cur, "claude") /\ pane[cur].box = "slash"
          /\ pane' = [pane EXCEPT ![cur].box = "exiting"]
          /\ ended' = ended \cup {cur}
          /\ UNCHANGED <<idle, spoiled>>
       \/ /\ Runs(cur, "claude") /\ pane[cur].box \notin {"slash", "empty"}
          /\ Submitted(cur)
          /\ spoiled' = spoiled \cup {cur}
          /\ UNCHANGED ended
       \/ /\ Runs(cur, "placeholder")
          /\ Resumed(cur)
          /\ spoiled' = spoiled \cup {cur}
          /\ UNCHANGED ended
       \/ /\ pane[cur].box \in {None, "empty"}
          /\ ~Runs(cur, "placeholder")
          /\ UNCHANGED <<pane, idle, spoiled, ended>>
    /\ UNCHANGED <<acts, fails, touched, meddled, parked, intoLive>>

(* Mutant: the process is not waited for. *)
ConfirmAtOnce ==
    At("poll", "park") /\ Stays /\ UNCHANGED <<world, fails, ghosts>>

Confirm ==
    At("poll", "park") /\ ~Alive(cur) /\ Stays /\ UNCHANGED <<world, fails, ghosts>>

TimesOut ==
    At("poll", "pane") /\ Alive(cur) /\ Counts(0, 1) /\ UNCHANGED <<world, fails, ghosts>>

TypePlaceholder ==
    /\ At("park", "pane") /\ Counts(1, 0)
    /\ \/ /\ Runs(cur, "shell")
          /\ Become(cur, Program("placeholder", pane[cur].pid, sid, None))
          /\ parked' = parked \cup {cur}
          /\ UNCHANGED <<idle, intoLive>>
       \/ /\ Runs(cur, "claude")
          /\ Submitted(cur)
          /\ intoLive' = intoLive \cup {cur}
          /\ UNCHANGED parked
       \/ /\ Runs(cur, "placeholder")
          /\ Resumed(cur)
          /\ UNCHANGED <<parked, intoLive>>
    /\ UNCHANGED <<acts, fails, touched, meddled, ended, spoiled>>

(* Mutant: a failure after /exit is passed over. *)
PaneFailsQuietly ==
    /\ fails < MaxFails
    /\ fails' = fails + 1
    /\ \E step \in {"look", "type", "enter", "poll", "park"} : At(step, "pane")
    /\ Counts(1, 0)
    /\ UNCHANGED <<world, ghosts>>

(* A tmux command, the write of the capture or a scan of /proc fails. *)
PaneFails ==
    /\ fails < MaxFails
    /\ fails' = fails + 1
    /\ \E step \in {"look", "type", "enter", "poll", "park"} : At(step, "pane")
    /\ Counts(0, 1)
    /\ UNCHANGED <<world, ghosts>>

Ends ==
    /\ At("pane", "stopped")
    /\ todo = {}
    /\ Stays
    /\ UNCHANGED <<world, fails, ghosts>>

Suspends ==
    \/ TakePane \/ SkipPane \/ Look \/ TypeExit \/ PressEnter \/ Confirm
    \/ TimesOut \/ TypePlaceholder \/ Ends

SNext == Scan \/ Suspends \/ PaneFails \/ Programs

SSpec == SInit /\ [][SNext]_suvars

(* claude-suspend runs on, or is out of time: its waits have an end. *)
SFairSpec == SSpec /\ WF_suvars(Suspends)

-----------------------------------------------------------------------------
STypeOK ==
    /\ pane \in [Panes -> [kind : {"shell", "claude", "placeholder"}, pid : Nat,
                           sid : Sids \cup {None}, box : Boxes \cup {None}]]
    /\ \A p \in Panes : (pane[p].kind = "claude") = (pane[p].box # None)
    /\ idle \subseteq Sids
    /\ pc \in {"stopped", "pane", "look", "type", "enter", "poll", "park"}
    /\ (cur = None) = (pc \in {"stopped", "pane"})
    /\ cur # None => cur \in Panes \ todo
    /\ done + failed + Cardinality(todo) <= Cardinality(Panes)

(* Enter submits no draft and picks no option, and resumes no conversation: *)
(* nothing but the user's own typing after the look at the screen can bring *)
(* it there, whatever was done in the pane before.                          *)
EnterOnlyConfirms == spoiled \subseteq meddled

(* A pane the user left alone since claude-suspend began holds, once parked, *)
(* the placeholder of the conversation it was showing then, and no Claude    *)
(* was there any more when it was typed.                                     *)
ParkedIsResumable ==
    \A p \in parked \ touched :
        /\ p \in ended
        /\ Runs(p, "placeholder") /\ pane[p].sid = table[p].sid

(* A run comes to its end, though Claude may never come to its own; and one *)
(* that then reports no failure has left no Claude ended without its        *)
(* placeholder, and has parked as many as it says.                          *)
AllParked ==
    failed = 0 => /\ ended \ touched \subseteq parked
                  /\ (touched = {} /\ ~dry) => done = Cardinality(parked)

NoneLost == pc # "stopped" ~> (pc = "stopped" /\ AllParked)

(* No other pane was showing the same conversation.  A second one may: the  *)
(* user launches a Claude in it after the first was told to exit, and       *)
(* resumes the placeholder left there later.                                *)
Alone(p) == \A q \in Panes \ {p} : table[q].sid # table[p].sid

(* With --idle-for, /exit ends no conversation that has had a turn lately,  *)
(* in a pane the user left alone: a turn taken in another pane on the same  *)
(* conversation is not looked for again.                                    *)
OnlyIdleEnded ==
    [][ IdleFor => \A p \in ended' \ (ended \cup touched) :
                        Alone(p) => pane[p].sid \in idle ]_suvars

(* "The placeholder is never typed into a live session" - unless the user   *)
(* starts one after the look at the screen.                                 *)
NeverIntoLive == intoLive \subseteq meddled
=============================================================================
