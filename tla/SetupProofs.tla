---------------------------- MODULE SetupProofs ----------------------------
(***************************************************************************)
(* For any unit files, any renderings and any number of acts of the user,  *)
(* failures and kills: setup keeps what is the user's, leaves no managed   *)
(* path empty or half written, and a validate that finds nothing means     *)
(* that systemd works by the units rendered, but for those that setup      *)
(* itself wrote and left unread.                                           *)
(*                                                                         *)
(* SetupInv is inductive.  Looked ties a process about to rename to what   *)
(* it saw; Read says when systemd has read the units as they are on disk,  *)
(* for which one must know how far the process has come (Stages).          *)
(***************************************************************************)
EXTENDS Setup, SequenceTheorems, WellFoundedInduction, TLAPS

RunShape ==
    run = [pc |-> run.pc, cmd |-> run.cmd, todo |-> run.todo, wrote |-> run.wrote,
           removed |-> run.removed, installed |-> run.installed]

Wrote == run.wrote # {}

Shape ==
    /\ RunShape
    /\ run.removed \in BOOLEAN /\ run.installed \in BOOLEAN
    /\ retired \in BOOLEAN /\ owed \in BOOLEAN
    /\ disk \in [ToSet(Files) -> Content \ {"partial"}]
    /\ link \in Links
    /\ version \in Renderings
    /\ acts \in Nat

(* About to rename, the process has seen that nothing of the user's stands  *)
(* there; if something does now, the user put it there since.               *)
Looked ==
    /\ (run.pc = "rename" /\ First(run.todo) = Config /\ Exists(Config)) => Config \in touched
    /\ (run.pc = "relink" /\ link = "foreign") => "link" \in touched

(* What the process has done at each of its places.                         *)
Stages ==
    /\ run.pc \in {"compare", "prune", "decide", "forget"} => ~Wrote /\ ~run.installed
    /\ run.pc \in {"link", "relink"} /\ Wrote => run.installed
    /\ run.pc \in {"write", "rename", "reload", "enable"} => ~run.installed
    /\ run.pc = "restart" => run.installed
    /\ run.pc = "end" /\ Wrote => run.installed \/ run.cmd = "generate"

(* What the process, undisturbed, has seen to at each of its places.        *)
Started == run.pc \notin {"idle", "compare"} \/ result = "ok"
Asked == run.cmd # "generate"

FilesSeen ==
    (Started /\ Asked) => \A f \in ToSet(Files) \ (run.todo \cup touched) :
        IF f = Config THEN Exists(f) ELSE disk[f] = version

LinkSeen ==
    (/\ \/ run.cmd = "update" /\ run.pc \notin {"idle", "compare", "prune", "link", "relink"}
        \/ run.cmd = "install" /\ run.pc = "end"
        \/ Asked /\ result = "ok"
     /\ "link" \notin touched) => link \in {"ours", "foreign"}

Forgotten ==
    /\ run.pc = "enable" \/ run.installed => (ghostUnit => retired)
    /\ ~owed => \/ ghostUnit => retired
                \/ /\ run.removed
                   /\ run.pc \in {"link", "relink", "decide", "write", "rename", "reload", "forget"}
    /\ (run.cmd = "update" /\ Started /\ run.pc # "prune") => ~retired

(* Units that never ran were never rendered either, or setup owes a reload. *)
Enabled ==
    /\ run.installed => on # "never"
    /\ (on = "never" /\ ~owed) => \/ \A u \in Units : disk[u] \notin Renderings
                                  \/ Wrote /\ run.pc # "idle"
    /\ on # "on" => on \in {"never", "off"}

Course ==
    /\ run.todo \subseteq ToSet(Files)
    /\ result = "ok" => run.pc = "idle"
    /\ run.removed => run.cmd = "update"
    /\ run.installed \/ run.pc \in {"reload", "forget", "enable", "restart", "end"} \/ result = "ok"
          => run.todo = {}
    /\ run.cmd \in {"install", "update", "generate"}
    /\ run.cmd = "install" => run.pc \notin {"compare", "prune", "decide", "forget", "restart"}
    /\ (run.cmd = "install" /\ (run.pc \in {"link", "relink", "end"} \/ result = "ok")) => run.installed
    /\ run.cmd = "generate" => run.pc \in {"idle", "write", "rename", "end"}

Seen == FilesSeen /\ LinkSeen /\ Forgotten /\ Enabled /\ Course

UnitsRead == \A u \in Units : disk[u] \in Renderings => loaded[u] = disk[u]

Read ==
    /\ run.pc = "enable" \/ run.installed => UnitsRead
    /\ ~owed => UnitsRead \/ (Wrote /\ run.pc # "idle")

(* A unit that systemd has not read as it stands rendered on disk was       *)
(* written by the process that runs, or by one that ended without a word to *)
(* systemd.                                                                 *)
Unheard(u) == u \in run.wrote /\ run.pc # "idle" /\ ~Told

Lapses == \A u \in Units :
    disk[u] \in Renderings => loaded[u] = disk[u] \/ u \in lapsed \/ Unheard(u)

SetupInv == Shape /\ Looked /\ Stages /\ Read /\ Lapses

-----------------------------------------------------------------------------
LEMMA Managed == Config \in ToSet(Files) /\ Units \subseteq ToSet(Files)
<1> DEFINE Rest == <<"tmux.conf", Config>>
           Names == STRING \cup {"tmux.conf", Config}
           n == Len(UnitFiles)
<1>1. UnitFiles \in Seq(Names) /\ n \in Nat
  BY SetupAssumption
<1>2. Rest \in Seq(Names) /\ Len(Rest) = 2 /\ Rest[2] = Config
  OBVIOUS
<1> HIDE DEF Rest, Names
<1>3. /\ Files \in Seq(Names) /\ Len(Files) = n + 2
      /\ \A i \in 1..(n + 2) : Files[i] = IF i <= n THEN UnitFiles[i] ELSE Rest[i - n]
  BY <1>1, <1>2, ConcatProperties DEF Files, Rest
<1>4. DOMAIN Files = 1..(n + 2) /\ DOMAIN UnitFiles = 1..n
  BY <1>1, <1>3
<1>5. Files[n + 2] = Config
  BY <1>1, <1>2, <1>3
<1> QED BY <1>1, <1>3, <1>4, <1>5 DEF Units, ToSet

LEMMA InitSetupInv == SUInit => SetupInv
<1> SUFFICES ASSUME SUInit PROVE SetupInv
  OBVIOUS
<1>1. Shape
  BY SetupAssumption DEF SUInit, Shape, RunShape, Quiet, Content, Oddities, Links
<1>2. Looked /\ Stages /\ Read /\ Lapses
  BY SetupAssumption, Managed
     DEF SUInit, Looked, Stages, Read, UnitsRead, Lapses, Quiet, Oddities, Wrote
<1> QED BY <1>1, <1>2 DEF SetupInv

-----------------------------------------------------------------------------
(* What the steps of setup do, by how they change the process.              *)
Starts == StartInstall \/ StartUpdate \/ StartGenerate
Works ==
    \/ Compare \/ Prune \/ Classify \/ Decide \/ WritePart \/ FilesWritten
    \/ Reload \/ Enable \/ Restart \/ EndWell \/ EndBadly
Others == UserEdits \/ UserLinks \/ UserTurnsOff \/ Upgrade \/ ManagerRestarts

LEMMA Steps ==
  ASSUME [SUNext]_vars
  PROVE  Starts \/ Works \/ Relink \/ Rename \/ Others \/ UNCHANGED vars
BY DEF SUNext, Starts, Works, Others

LEMMA StepShape ==
  ASSUME SetupInv, [SUNext]_vars PROVE Shape'
<1> USE DEF SetupInv, Shape, RunShape
<1>1. CASE Starts
  BY <1>1 DEF Starts, StartInstall, StartUpdate, StartGenerate, StartWriting, Quiet, outside
<1>2. CASE Works
  <2>1. CASE Compare \/ Prune \/ Classify \/ Decide
    BY <2>1 DEF Compare, Prune, Classify, Decide, outside, ends
  <2>2. CASE WritePart \/ FilesWritten \/ Reload
    BY <2>2 DEF WritePart, Next1, FilesWritten, WrittenAll, Reload, outside, ends
  <2>3. CASE Enable \/ Restart
    BY <2>3 DEF Enable, Restart, outside, ends
  <2>4. CASE EndWell
    BY <2>4 DEF EndWell, outside
  <2>5. CASE EndBadly
    <3>1. owed' \in BOOLEAN
      BY <2>5 DEF EndBadly
    <3>2. /\ run' = [run EXCEPT !.pc = "idle", !.wrote = {}] /\ acts' = acts + 1
          /\ UNCHANGED <<disk, link, retired, version>>
      BY <2>5 DEF EndBadly, Act
    <3>3. RunShape' /\ run'.removed \in BOOLEAN /\ run'.installed \in BOOLEAN
      BY <3>2
    <3>4. /\ retired' \in BOOLEAN /\ disk' \in [ToSet(Files) -> Content \ {"partial"}]
          /\ link' \in Links /\ version' \in Renderings /\ acts' \in Nat
      BY <3>2
    <3> QED BY <3>1, <3>3, <3>4, ZenonT(60)
  <2> QED BY <1>2, <2>1, <2>2, <2>3, <2>4, <2>5 DEF Works
<1>3. CASE Relink
  BY <1>3 DEF Relink, Links, outside, ends
<1>4. CASE Rename
  <2>1. version \in Content \ {"partial"}
    BY SetupAssumption DEF Content, Oddities
  <2> QED BY <1>4, <2>1 DEF Rename, Next1, outside, ends
<1>5. CASE Others
  <2>1. CASE UserEdits
    <3>1. disk' \in [ToSet(Files) -> Content \ {"partial"}]
      BY <2>1 DEF UserEdits, Content, Oddities
    <3> QED BY <2>1, <3>1 DEF UserEdits, Act, ends
  <2>2. CASE UserLinks \/ UserTurnsOff \/ Upgrade \/ ManagerRestarts
    BY <2>2 DEF UserLinks, UserTurnsOff, Upgrade, ManagerRestarts, ReadBySystemd, Act,
       Links, ends, systemd
  <2> QED BY <1>5, <2>1, <2>2 DEF Others
<1>6. CASE UNCHANGED vars
  BY <1>6 DEF vars
<1> QED BY <1>1, <1>2, <1>3, <1>4, <1>5, <1>6, Steps

LEMMA StepLooked ==
  ASSUME SetupInv, [SUNext]_vars PROVE Looked'
<1> USE Managed DEF SetupInv, Shape, RunShape, Looked, Exists
<1>1. CASE Starts
  BY <1>1 DEF Starts, StartInstall, StartUpdate, StartGenerate, StartWriting, Quiet
<1>2. CASE Works
  <2>1. CASE Compare \/ Prune \/ Classify \/ Decide
    BY <2>1 DEF Compare, Prune, Classify, Decide, AfterLink
  <2>2. CASE WritePart
    BY <2>2 DEF WritePart, Next1
  <2>3. CASE FilesWritten \/ Reload \/ Enable \/ Restart \/ EndWell \/ EndBadly
    BY <2>3 DEF FilesWritten, WrittenAll, Reload, Enable, Restart, EndWell, EndBadly
  <2> QED BY <1>2, <2>1, <2>2, <2>3 DEF Works
<1>3. CASE Relink
  BY <1>3 DEF Relink, AfterLink
<1>4. CASE Rename
  BY <1>4 DEF Rename, Next1
<1>5. CASE Others
  BY <1>5 DEF Others, UserEdits, UserLinks, UserTurnsOff, Upgrade, ManagerRestarts
<1>6. CASE UNCHANGED vars
  BY <1>6 DEF vars
<1> QED BY <1>1, <1>2, <1>3, <1>4, <1>5, <1>6, Steps

LEMMA StepStages ==
  ASSUME SetupInv, [SUNext]_vars PROVE Stages'
<1> USE DEF SetupInv, Shape, RunShape, Stages, Wrote
<1>1. CASE Starts
  BY <1>1 DEF Starts, StartInstall, StartUpdate, StartGenerate, StartWriting, Quiet
<1>2. CASE Works
  <2>1. CASE Compare \/ Prune \/ Classify \/ Decide
    BY <2>1 DEF Compare, Prune, Classify, Decide, AfterLink
  <2>2. CASE WritePart \/ FilesWritten \/ Reload
    BY <2>2 DEF WritePart, Next1, FilesWritten, WrittenAll, Reload
  <2>3. CASE Enable \/ Restart \/ EndWell \/ EndBadly
    BY <2>3 DEF Enable, Restart, EndWell, EndBadly
  <2> QED BY <1>2, <2>1, <2>2, <2>3 DEF Works
<1>3. CASE Relink
  BY <1>3 DEF Relink, AfterLink
<1>4. CASE Rename
  BY <1>4 DEF Rename, Next1
<1>5. CASE Others
  BY <1>5 DEF Others, UserEdits, UserLinks, UserTurnsOff, Upgrade, ManagerRestarts
<1>6. CASE UNCHANGED vars
  BY <1>6 DEF vars
<1> QED BY <1>1, <1>2, <1>3, <1>4, <1>5, <1>6, Steps

(* What systemd has read stays read, as long as no unit file is rendered.   *)
LEMMA StaysRead ==
  ASSUME SetupInv, UNCHANGED loaded, UserEdits \/ UNCHANGED disk, UnitsRead
  PROVE  UnitsRead'
<1>1. CASE UNCHANGED disk
  BY <1>1 DEF UnitsRead
<1>2. CASE UserEdits
  <2>1. PICK f \in ToSet(Files), c \in Oddities : disk' = [disk EXCEPT ![f] = c]
    BY <1>2 DEF UserEdits, Oddities
  <2>2. \A u \in Units : disk'[u] \in Renderings => disk'[u] = disk[u]
    BY <2>1, SetupAssumption, Managed DEF SetupInv, Shape
  <2> QED BY <2>2 DEF UnitsRead
<1> QED BY <1>1, <1>2

LEMMA StepRead ==
  ASSUME SetupInv, [SUNext]_vars PROVE Read'
<1> USE DEF SetupInv, Shape, RunShape, Wrote
<1>1. CASE Starts
  <2>1. UnitsRead => UnitsRead'
    BY <1>1, StaysRead DEF Starts, StartInstall, StartUpdate, StartGenerate, StartWriting, systemd
  <2> QED BY <1>1, <2>1 DEF Read, Starts, StartInstall, StartUpdate, StartGenerate, StartWriting,
                            Quiet
<1>2. CASE Works
  <2>1. CASE Reload
    <3>1. UnitsRead'
      BY <2>1, Managed DEF Reload, ReadBySystemd, UnitsRead
    <3> QED BY <3>1 DEF Read
  <2>2. CASE Compare \/ Prune \/ Classify \/ Decide \/ WritePart \/ FilesWritten
    <3>1. UnitsRead => UnitsRead'
      BY <2>2, StaysRead DEF Compare, Prune, Classify, Decide, WritePart, FilesWritten, systemd
    <3> QED BY <2>2, <3>1 DEF Read, Stages, Compare, Prune, Classify, Decide, AfterLink,
          WritePart, Next1, FilesWritten, WrittenAll, ends
  <2>3. CASE Enable \/ Restart
    <3>1. UnitsRead => UnitsRead'
      BY <2>3, StaysRead DEF Enable, Restart
    <3> QED BY <2>3, <3>1 DEF Read, Stages, Enable, Restart, ends
  <2>4. CASE EndWell \/ EndBadly
    <3>1. UnitsRead => UnitsRead'
      BY <2>4, StaysRead DEF EndWell, EndBadly
    <3> QED BY <2>4, <3>1 DEF Read, Stages, EndWell, EndBadly, Wrote
  <2> QED BY <1>2, <2>1, <2>2, <2>3, <2>4 DEF Works
<1>3. CASE Relink
  <2>1. UnitsRead => UnitsRead'
    BY <1>3, StaysRead DEF Relink, systemd
  <2> QED BY <1>3, <2>1 DEF Read, Relink, AfterLink, ends
<1>4. CASE Rename
  BY <1>4 DEF Rename, Next1, Read, Stages
<1>5. CASE Others
  <2>1. UnitsRead => UnitsRead'
    <3>1. CASE ManagerRestarts
      BY <3>1, Managed DEF ManagerRestarts, ReadBySystemd, UnitsRead
    <3>2. CASE UserEdits \/ UserLinks \/ UserTurnsOff \/ Upgrade
      BY <3>2, StaysRead DEF UserEdits, UserLinks, UserTurnsOff, Upgrade, systemd
    <3> QED BY <1>5, <3>1, <3>2 DEF Others
  <2> QED BY <1>5, <2>1 DEF Read, Others, UserEdits, UserLinks, UserTurnsOff, Upgrade,
        ManagerRestarts, ends
<1>6. CASE UNCHANGED vars
  BY <1>6 DEF vars, Read, UnitsRead
<1> QED BY <1>1, <1>2, <1>3, <1>4, <1>5, <1>6, Steps

LEMMA StepLapses ==
  ASSUME SetupInv, [SUNext]_vars PROVE Lapses'
<1>0. Shape /\ Stages /\ Lapses /\ Read
  BY DEF SetupInv
<1>a. ASSUME UNCHANGED <<loaded, lapsed>>, UNCHANGED disk \/ UserEdits,
             \A u \in Units : Unheard(u) => Unheard(u)'
      PROVE  Lapses'
  <2>1. \A u \in Units : disk'[u] \in Renderings => disk'[u] = disk[u]
    <3>1. CASE UserEdits
      <4>1. PICK f \in ToSet(Files), c \in Oddities : disk' = [disk EXCEPT ![f] = c]
        BY <3>1 DEF UserEdits, Oddities
      <4> QED BY <1>0, <4>1, SetupAssumption, Managed DEF Shape
    <3> QED BY <1>a, <3>1
  <2> QED BY <1>0, <1>a, <2>1 DEF Lapses
<1>1. CASE Starts
  <2>1. /\ run.pc = "idle" /\ UNCHANGED <<loaded, lapsed, disk>>
    BY <1>1 DEF Starts, StartInstall, StartUpdate, StartGenerate, StartWriting, systemd
  <2> QED BY <1>a, <2>1 DEF Unheard
<1>2. CASE Works
  <2>1. CASE Reload
    BY <2>1, Managed DEF Reload, ReadBySystemd, Lapses
  <2>2. CASE Compare \/ Prune \/ Classify \/ Decide \/ WritePart \/ FilesWritten \/ Enable \/ Restart
    <3>1. /\ UNCHANGED <<loaded, lapsed, disk>> /\ run'.pc # "idle" /\ run'.wrote = run.wrote
          /\ Told' => Told
      BY <1>0, <2>2
         DEF Shape, RunShape, Compare, Prune, Classify, Decide, WritePart, Next1, FilesWritten,
             WrittenAll, Enable, Restart, AfterLink, systemd, Told
    <3> QED BY <1>a, <3>1 DEF Unheard
  <2>3. CASE EndWell \/ EndBadly
    <3>1. UNCHANGED <<loaded, disk>> /\ lapsed \subseteq lapsed'
      BY <2>3 DEF EndWell, EndBadly
    <3>2. ASSUME NEW u \in Units, Unheard(u) PROVE u \in lapsed'
      BY <1>0, <2>3, <3>2 DEF EndWell, EndBadly, Unheard, Stages, Wrote, Told
    <3> QED BY <1>0, <3>1, <3>2 DEF Lapses
  <2> QED BY <1>2, <2>1, <2>2, <2>3 DEF Works
<1>3. CASE Relink
  <2>1. /\ UNCHANGED <<loaded, lapsed, disk>> /\ run'.pc # "idle" /\ run'.wrote = run.wrote
        /\ Told' => Told
    BY <1>0, <1>3 DEF Shape, RunShape, Relink, AfterLink, systemd, Told
  <2> QED BY <1>a, <2>1 DEF Unheard
<1>4. CASE Rename
  <2>1. PICK f : f = First(run.todo)
    OBVIOUS
  <2>2. /\ UNCHANGED <<loaded, lapsed>> /\ disk' = [disk EXCEPT ![f] = version]
        /\ run'.pc = "write" /\ run'.wrote = run.wrote \cup {f} /\ ~Told'
    BY <1>0, <1>4, <2>1 DEF Rename, Next1, Shape, RunShape, Stages, Told, systemd
  <2>3. ASSUME NEW u \in Units, u # f PROVE disk'[u] = disk[u]
    BY <1>0, <2>2, <2>3 DEF Shape
  <2>4. ASSUME NEW u \in Units, u = f \/ Unheard(u) PROVE Unheard(u)'
    BY <2>2, <2>4 DEF Unheard
  <2> QED BY <1>0, <2>2, <2>3, <2>4 DEF Lapses
<1>5. CASE Others
  <2>1. CASE ManagerRestarts
    BY <2>1, Managed DEF ManagerRestarts, ReadBySystemd, Lapses
  <2>2. CASE UserEdits \/ UserLinks \/ UserTurnsOff \/ Upgrade
    <3>1. UNCHANGED <<loaded, lapsed, run>> /\ (UNCHANGED disk \/ UserEdits)
      BY <2>2 DEF UserEdits, UserLinks, UserTurnsOff, Upgrade, systemd
    <3> QED BY <1>a, <3>1 DEF Unheard, Told
  <2> QED BY <1>5, <2>1, <2>2 DEF Others
<1>6. CASE UNCHANGED vars
  BY <1>a, <1>6 DEF vars, Unheard, Told
<1> QED BY <1>1, <1>2, <1>3, <1>4, <1>5, <1>6, Steps

LEMMA AlwaysSetupInv == SUSpec => []SetupInv
<1>1. SetupInv /\ [SUNext]_vars => SetupInv'
  <2> SUFFICES ASSUME SetupInv, [SUNext]_vars PROVE SetupInv'
    OBVIOUS
  <2> QED BY StepShape, StepLooked, StepStages, StepRead, StepLapses DEF SetupInv
<1> QED BY InitSetupInv, <1>1, PTL DEF SUSpec

-----------------------------------------------------------------------------
(* No step of setup changes a path, but Rename and Relink.                  *)
LEMMA OnlyRenames ==
  ASSUME SetupInv, [SUNext]_vars, acts' = acts
  PROVE  Rename \/ Relink \/ UNCHANGED <<disk, link>>
<1>1. CASE Others \/ EndBadly
  BY <1>1 DEF SetupInv, Shape, Others, UserEdits, UserLinks, UserTurnsOff, Upgrade,
     ManagerRestarts, EndBadly, Act
<1>2. CASE Starts
  BY <1>2 DEF Starts, StartInstall, StartUpdate, StartGenerate, StartWriting
<1>3. CASE Works /\ ~EndBadly
  BY <1>3 DEF Works, Compare, Prune, Classify, Decide, WritePart, FilesWritten, Reload,
     Enable, Restart, EndWell
<1>4. CASE UNCHANGED vars
  BY <1>4 DEF vars
<1> QED BY <1>1, <1>2, <1>3, <1>4, Steps

(* Neither a config.json of the user's nor a foreign claude-resume is ever  *)
(* replaced, however many runs, failures and edits there are.               *)
THEOREM SetupKeepsTheUsers == SUSpec => UsersThingsKept
<1> DEFINE Kept ==
      /\ (disk[Config] \in {"edited", "loose"} /\ Config \notin touched)
             => disk'[Config] = disk[Config]
      /\ (link = "foreign" /\ "link" \notin touched) => link' = link
<1>1. SetupInv /\ [SUNext]_vars => [acts' = acts => Kept]_vars
  <2> SUFFICES ASSUME SetupInv, [SUNext]_vars, acts' = acts PROVE Kept
    OBVIOUS
  <2>1. CASE Rename
    BY <2>1, Managed DEF Rename, SetupInv, Shape, Looked, Exists
  <2>2. CASE Relink
    BY <2>2 DEF Relink, SetupInv, Looked
  <2>3. CASE UNCHANGED <<disk, link>>
    BY <2>3
  <2> QED BY <2>1, <2>2, <2>3, OnlyRenames
<1> QED BY AlwaysSetupInv, <1>1, PTL DEF SUSpec, UsersThingsKept

(* No managed path is ever empty or half written for a moment.              *)
THEOREM SetupLeavesNothingMissing == SUSpec => NeverMissing
<1> DEFINE Stands ==
      /\ \A f \in ToSet(Files) :
            disk'[f] # "partial" /\ (Exists(f) => disk'[f] # "absent")
      /\ link # "absent" => link' # "absent"
<1>1. SetupInv /\ [SUNext]_vars => [acts' = acts => Stands]_vars
  <2> SUFFICES ASSUME SetupInv, [SUNext]_vars, acts' = acts PROVE Stands
    OBVIOUS
  <2>0. \A f \in ToSet(Files) : disk'[f] # "partial"
    BY StepShape DEF Shape
  <2>1. CASE Rename
    <3>1. version # "absent"
      BY SetupAssumption DEF SetupInv, Shape, Oddities
    <3> QED BY <2>0, <2>1, <3>1 DEF Rename, SetupInv, Shape, Exists
  <2>2. CASE Relink
    BY <2>0, <2>2 DEF Relink, Exists
  <2>3. CASE UNCHANGED <<disk, link>>
    BY <2>0, <2>3 DEF Exists
  <2> QED BY <2>1, <2>2, <2>3, OnlyRenames
<1> QED BY AlwaysSetupInv, <1>1, PTL DEF SUSpec, NeverMissing

(* When validate finds no drift, whatever was edited, upgraded and run      *)
(* again before, systemd works by the units rendered; all but those that a  *)
(* generate over the live directory or a run cut short has written and no   *)
(* reload has followed.                                                     *)
THEOREM NoDriftNoDifference == SUSpec => []ValidateSuffices
<1>1. SetupInv => ValidateSuffices
  <2> SUFFICES ASSUME SetupInv, run.pc = "idle", Drifts = {},
                      NEW u \in Units \ lapsed
               PROVE  loaded[u] = version
    BY DEF ValidateSuffices
  <2>1. ~FileDrift(u)
    BY Managed DEF Drifts
  <2>2. disk[u] = version
    BY <2>1, SetupAssumption DEF FileDrift
  <2> QED BY <2>2 DEF SetupInv, Shape, Lapses, Unheard
<1> QED BY AlwaysSetupInv, <1>1, PTL

-----------------------------------------------------------------------------
(* What a run that nobody interfered with leaves behind                     *)

LEMMA Tokens == "link" \notin ToSet(Files) /\ "units" \notin ToSet(Files)
<1> DEFINE Rest == <<"tmux.conf", Config>>
           Names == STRING \cup {"tmux.conf", Config}
           n == Len(UnitFiles)
<1>1. UnitFiles \in Seq(Names) /\ n \in Nat
  BY SetupAssumption
<1>2. Rest \in Seq(Names) /\ Len(Rest) = 2 /\ Rest[1] = "tmux.conf" /\ Rest[2] = Config
  OBVIOUS
<1> HIDE DEF Rest, Names
<1>3. /\ Files \in Seq(Names) /\ Len(Files) = n + 2
      /\ \A i \in 1..(n + 2) : Files[i] = IF i <= n THEN UnitFiles[i] ELSE Rest[i - n]
  BY <1>1, <1>2, ConcatProperties DEF Files, Rest
<1>4. DOMAIN Files = 1..(n + 2) /\ DOMAIN UnitFiles = 1..n
  BY <1>1, <1>3
<1>5. ASSUME NEW i \in 1..(n + 2) PROVE Files[i] \in Units \cup {"tmux.conf", Config}
  <2>1. CASE i <= n
    <3>1. Files[i] = UnitFiles[i] /\ i \in DOMAIN UnitFiles
      BY <1>1, <1>3, <1>4, <2>1
    <3> QED BY <3>1 DEF Units, ToSet
  <2>2. CASE ~(i <= n)
    <3>1. Files[i] = Rest[i - n] /\ i - n \in {1, 2}
      BY <1>1, <1>3, <2>2
    <3> QED BY <1>2, <3>1
  <2> QED BY <2>1, <2>2
<1>6. ToSet(Files) \subseteq Units \cup {"tmux.conf", Config}
  BY <1>4, <1>5 DEF ToSet
<1> QED BY <1>6, SetupAssumption DEF Config

LEMMA FirstIsOne ==
  ASSUME NEW S, S \subseteq ToSet(Files), S # {}
  PROVE  First(S) \in S
<1> DEFINE Names == STRING \cup {"tmux.conf", Config}
           Ks == {k \in DOMAIN Files : Files[k] \in S}
<1>1. UnitFiles \in Seq(Names) /\ <<"tmux.conf", Config>> \in Seq(Names)
  BY SetupAssumption
<1>2. Files \in Seq(Names)
  <2> HIDE DEF Names
  <2> QED BY <1>1, ConcatProperties DEF Files
<1>3. PICK n \in Nat : DOMAIN Files = 1..n
  BY <1>2, LenProperties
<1>4. Ks \subseteq Nat /\ Ks # {}
  BY <1>3 DEF ToSet
<1>5. PICK k \in Ks : \A m \in Ks : <<m, k>> \notin OpToRel(<, Nat)
  <2> HIDE DEF Ks
  <2> QED BY <1>4, NatLessThanWellFounded, WFMin
<1>6. ASSUME NEW j \in 1..(k - 1) PROVE Files[j] \notin S
  <2> SUFFICES ASSUME Files[j] \in S PROVE FALSE
    OBVIOUS
  <2>1. k \in 1..n /\ j \in 1..n /\ j < k
    BY <1>3
  <2>2. j \in Ks /\ <<j, k>> \in Nat \X Nat
    BY <1>3, <2>1
  <2> QED BY <1>5, <2>1, <2>2 DEF OpToRel
<1>7. \E f \in S : \E m \in DOMAIN Files : Files[m] = f /\ \A j \in 1..(m - 1) : Files[j] \notin S
  BY <1>5, <1>6
<1> QED BY <1>7 DEF First

LEMMA SeenInit == SUInit => Seen
<1> SUFFICES ASSUME SUInit PROVE Seen
  OBVIOUS
<1>1. \A u \in Units : disk[u] = "absent" /\ "absent" \notin Renderings
  BY Managed, SetupAssumption DEF SUInit, Oddities
<1> QED BY <1>1 DEF SUInit, Seen, FilesSeen, LinkSeen, Forgotten, Enabled, Course, Started,
                    Asked, Quiet

LEMMA StepCourse ==
  ASSUME SetupInv, Seen, [SUNext]_vars PROVE Course'
<1> USE DEF SetupInv, Shape, RunShape, Seen, Course
<1>1. CASE Starts
  BY <1>1 DEF Starts, StartInstall, StartUpdate, StartGenerate, StartWriting, Quiet
<1>2. CASE Works
  <2>1. CASE Compare
    BY <2>1 DEF Compare, Stages, ends
  <2>2. CASE Prune \/ Classify \/ Decide
    BY <2>2 DEF Prune, Classify, Decide, AfterLink, ends
  <2>3. CASE WritePart
    BY <2>3 DEF WritePart, Next1, Stages, ends
  <2>4. CASE FilesWritten \/ Reload
    BY <2>4 DEF FilesWritten, WrittenAll, Reload, ends
  <2>5. CASE Enable \/ Restart
    BY <2>5 DEF Enable, Restart, ends
  <2>6. CASE EndWell
    BY <2>6 DEF EndWell
  <2>7. CASE EndBadly
    BY <2>7 DEF EndBadly
  <2> QED BY <1>2, <2>1, <2>2, <2>3, <2>4, <2>5, <2>6, <2>7 DEF Works
<1>3. CASE Relink
  BY <1>3 DEF Relink, AfterLink, ends
<1>4. CASE Rename
  BY <1>4 DEF Rename, Next1, Stages, ends
<1>5. CASE Others
  BY <1>5 DEF Others, UserEdits, UserLinks, UserTurnsOff, Upgrade, ManagerRestarts, ends
<1>6. CASE UNCHANGED vars
  BY <1>6 DEF vars
<1> QED BY <1>1, <1>2, <1>3, <1>4, <1>5, <1>6, Steps

LEMMA StepLinkSeen ==
  ASSUME SetupInv, Seen, [SUNext]_vars PROVE LinkSeen'
<1> USE DEF SetupInv, Shape, RunShape, Seen, LinkSeen, Asked
<1>1. CASE Starts
  BY <1>1 DEF Starts, StartInstall, StartUpdate, StartGenerate, StartWriting, Quiet
<1>2. CASE Works
  <2>1. CASE Compare \/ Prune \/ Decide
    BY <2>1 DEF Compare, Prune, Decide, Course, ends
  <2>2. CASE Classify
    BY <2>2 DEF Classify, AfterLink, Links, Course, ends
  <2>3. CASE WritePart \/ FilesWritten
    BY <2>3, Tokens, FirstIsOne DEF WritePart, Next1, FilesWritten, WrittenAll, Course, ends
  <2>4. CASE Reload \/ Enable \/ Restart
    BY <2>4 DEF Reload, Enable, Restart, Course, ends
  <2>5. CASE EndWell
    BY <2>5 DEF EndWell, Course
  <2>6. CASE EndBadly
    BY <2>6 DEF EndBadly
  <2> QED BY <1>2, <2>1, <2>2, <2>3, <2>4, <2>5, <2>6 DEF Works
<1>3. CASE Relink
  BY <1>3 DEF Relink
<1>4. CASE Rename
  BY <1>4 DEF Rename, Next1, Course, ends
<1>5. CASE Others
  BY <1>5 DEF Others, UserEdits, UserLinks, UserTurnsOff, Upgrade, ManagerRestarts, ends
<1>6. CASE UNCHANGED vars
  BY <1>6 DEF vars
<1> QED BY <1>1, <1>2, <1>3, <1>4, <1>5, <1>6, Steps

LEMMA StepForgotten ==
  ASSUME SetupInv, Seen, [SUNext]_vars PROVE Forgotten'
<1> USE DEF SetupInv, Shape, RunShape, Seen, Forgotten, Started
<1>1. CASE Starts
  <2>1. /\ run.pc = "idle" /\ run'.pc \in {"write", "compare"} /\ ~run'.installed /\ result' = "none"
        /\ UNCHANGED <<retired, ghostUnit, owed>> /\ (run'.pc = "compare" \/ run'.cmd # "update")
    BY <1>1 DEF Starts, StartInstall, StartUpdate, StartGenerate, StartWriting, Quiet, systemd
  <2> QED BY <2>1
<1>2. CASE Works
  <2>1. CASE Compare
    BY <2>1 DEF Compare, Stages, systemd, ends
  <2>2. CASE Prune
    BY <2>2 DEF Prune, Stages, systemd, ends
  <2>3. CASE Classify
    BY <2>3 DEF Classify, AfterLink, systemd, ends, Course
  <2>4. CASE Decide
    BY <2>4 DEF Decide, systemd, ends, Stages
  <2>5. CASE WritePart \/ FilesWritten
    BY <2>5 DEF WritePart, Next1, FilesWritten, WrittenAll, systemd, ends, Stages, Course
  <2>6. CASE Reload
    BY <2>6 DEF Reload, ReadBySystemd, Course, ends
  <2>7. CASE Enable \/ Restart
    <3>1. CASE Enable
      BY <3>1 DEF Enable, Stages
    <3>2. CASE Restart
      <4>1. run.installed /\ run.pc = "restart" /\ run'.pc = "end" /\ run'.installed = run.installed
            /\ run'.cmd = run.cmd /\ UNCHANGED <<retired, ghostUnit, owed, result>>
        BY <3>2 DEF Restart, Stages, ends
      <4> QED BY <4>1
    <3> QED BY <2>7, <3>1, <3>2
  <2>8. CASE EndWell
    BY <2>8 DEF EndWell, systemd
  <2>9. CASE EndBadly
    BY <2>9 DEF EndBadly, Told, Wrote
  <2> QED BY <1>2, <2>1, <2>2, <2>3, <2>4, <2>5, <2>6, <2>7, <2>8, <2>9 DEF Works
<1>3. CASE Relink
  BY <1>3 DEF Relink, AfterLink, systemd, ends, Course
<1>4. CASE Rename
  BY <1>4 DEF Rename, Next1, Stages, systemd, ends
<1>5. CASE Others
  BY <1>5 DEF Others, UserEdits, UserLinks, UserTurnsOff, Upgrade, ManagerRestarts,
     ReadBySystemd, ends, systemd
<1>6. CASE UNCHANGED vars
  BY <1>6 DEF vars
<1> QED BY <1>1, <1>2, <1>3, <1>4, <1>5, <1>6, Steps

LEMMA StepEnabled ==
  ASSUME SetupInv, Seen, [SUNext]_vars PROVE Enabled'
<1> USE DEF SetupInv, Shape, RunShape, Seen, Enabled, Wrote
<1>1. CASE Starts
  <2>1. /\ run.pc = "idle" /\ ~run'.installed /\ UNCHANGED <<disk, on, owed>>
    BY <1>1 DEF Starts, StartInstall, StartUpdate, StartGenerate, StartWriting, Quiet, systemd
  <2> QED BY <2>1
<1>2. CASE Works
  <2>1. CASE Compare \/ Prune \/ Classify \/ Decide
    <3>1. /\ UNCHANGED <<disk, on, owed>> /\ run.pc # "idle" /\ run'.pc # "idle"
          /\ run'.installed = run.installed /\ Wrote' = Wrote
      BY <2>1 DEF Compare, Prune, Classify, Decide, AfterLink, systemd, ends
    <3> QED BY <3>1
  <2>2. CASE WritePart \/ FilesWritten \/ Reload
    <3>1. /\ UNCHANGED <<disk, on, owed>> /\ run.pc # "idle" /\ run'.pc # "idle"
          /\ run'.installed = run.installed /\ Wrote' = Wrote
      BY <2>2 DEF WritePart, Next1, FilesWritten, WrittenAll, Reload, systemd, ends
    <3> QED BY <3>1
  <2>3. CASE Enable \/ Restart
    <3>1. on' = "on"
      BY <2>3 DEF Enable, Restart
    <3> QED BY <3>1
  <2>4. CASE EndWell
    BY <2>4 DEF EndWell, Stages, systemd
  <2>5. CASE EndBadly
    BY <2>5 DEF EndBadly, Told, Wrote
  <2> QED BY <1>2, <2>1, <2>2, <2>3, <2>4, <2>5 DEF Works
<1>3. CASE Relink
  <2>1. /\ UNCHANGED <<disk, on, owed>> /\ run.pc # "idle" /\ run'.pc # "idle"
        /\ run'.installed = run.installed /\ Wrote' = Wrote
    BY <1>3 DEF Relink, AfterLink, systemd, ends
  <2> QED BY <2>1
<1>4. CASE Rename
  <2>1. /\ UNCHANGED <<on, owed>> /\ run'.pc # "idle" /\ Wrote'
        /\ run'.installed = run.installed
    BY <1>4 DEF Rename, Next1, systemd, ends
  <2> QED BY <2>1
<1>5. CASE Others
  <2>1. CASE UserEdits
    <3>1. PICK f \in ToSet(Files), c \in Oddities : disk' = [disk EXCEPT ![f] = c]
      BY <2>1 DEF UserEdits, Oddities
    <3>2. \A u \in Units : disk'[u] \in Renderings => disk'[u] = disk[u]
      BY <3>1, SetupAssumption, Managed
    <3>3. UNCHANGED <<on, owed, run>>
      BY <2>1 DEF UserEdits, ends, systemd
    <3> QED BY <3>2, <3>3
  <2>2. CASE UserTurnsOff
    BY <2>2 DEF UserTurnsOff, ends
  <2>3. CASE UserLinks \/ Upgrade \/ ManagerRestarts
    <3>1. UNCHANGED <<disk, on, owed, run>>
      BY <2>3 DEF UserLinks, Upgrade, ManagerRestarts, ends, systemd
    <3> QED BY <3>1
  <2> QED BY <1>5, <2>1, <2>2, <2>3 DEF Others
<1>6. CASE UNCHANGED vars
  BY <1>6 DEF vars
<1> QED BY <1>1, <1>2, <1>3, <1>4, <1>5, <1>6, Steps

(* A step that renders nothing and looks at no file leaves the files seen   *)
(* to as they were.                                                         *)
LEMMA StaySeen ==
  ASSUME SetupInv, Seen, UNCHANGED <<disk, version>>,
         (Started /\ Asked)' => Started /\ Asked /\ run'.todo = run.todo,
         \A f \in ToSet(Files) : f \in touched => f \in touched'
  PROVE  FilesSeen'
  BY DEF Seen, FilesSeen, Exists

LEMMA StepFilesSeen ==
  ASSUME SetupInv, Seen, [SUNext]_vars PROVE FilesSeen'
<1>0. /\ Shape /\ FilesSeen /\ Course /\ version \in Renderings
      /\ disk \in [ToSet(Files) -> Content \ {"partial"}]
  BY DEF SetupInv, Shape, Seen
<1>1. CASE Starts
  <2>1. CASE StartUpdate
    <3>1. run'.pc = "compare" /\ result' = "none"
      BY <2>1 DEF StartUpdate, Quiet
    <3> QED BY <3>1 DEF FilesSeen, Started
  <2>2. CASE StartInstall \/ StartGenerate
    <3>1. run'.todo = ToSet(Files)
      BY <2>2 DEF StartInstall, StartGenerate, StartWriting, Quiet
    <3> QED BY <3>1 DEF FilesSeen
  <2> QED BY <1>1, <2>1, <2>2 DEF Starts
<1>2. CASE Works
  <2>1. CASE Compare
    <3>1. run'.todo = {f \in ToSet(Files) : Drifted(f)} /\ UNCHANGED <<disk, version>>
      BY <1>0, <2>1 DEF Compare, Shape, RunShape, outside
    <3>2. version # "absent"
      BY <1>0, SetupAssumption DEF Oddities
    <3>3. ASSUME NEW f \in ToSet(Files), f \notin run'.todo
          PROVE  IF f = Config THEN disk[f] # "absent" ELSE disk[f] = version
      BY <3>1, <3>2, <3>3 DEF Drifted, Exists
    <3> QED BY <3>1, <3>3 DEF FilesSeen, Exists
  <2>2. CASE Prune \/ Decide
    <3>1. /\ run'.todo = run.todo /\ run'.cmd = run.cmd /\ run.pc \in {"prune", "decide"}
          /\ UNCHANGED <<disk, version, touched>>
      BY <1>0, <2>2 DEF Prune, Decide, Shape, RunShape, outside
    <3> QED BY <3>1, StaySeen DEF Started, Asked
  <2>3. CASE Classify
    <3>1. /\ run'.todo = run.todo /\ run'.cmd = run.cmd /\ run.pc = "link"
          /\ touched' = touched \ {"link"} /\ UNCHANGED <<disk, version>>
      BY <1>0, <2>3 DEF Classify, Shape, RunShape, outside
    <3>2. \A f \in ToSet(Files) : f \in touched => f \in touched'
      BY <3>1, Tokens
    <3> QED BY <3>1, <3>2, StaySeen DEF Started, Asked
  <2>4. CASE WritePart
    <3> DEFINE one == First(run.todo)
    <3>1. /\ run.pc = "write" /\ one \in run.todo /\ touched' = touched \ {one}
          /\ run'.cmd = run.cmd /\ UNCHANGED <<disk, version>>
          /\ \/ run'.todo = run.todo \ {one} /\ one = Config /\ disk[Config] # "absent"
             \/ run'.todo = run.todo
      BY <1>0, <2>4, FirstIsOne DEF WritePart, Next1, Course, Shape, RunShape, outside, Exists
    <3> HIDE DEF one
    <3>2. ASSUME run.cmd # "generate", NEW f \in ToSet(Files) \ (run'.todo \cup touched')
          PROVE  IF f = Config THEN disk[f] # "absent" ELSE disk[f] = version
      <4>1. CASE f = one
        BY <3>1, <3>2, <4>1
      <4>2. CASE f # one
        <5>1. f \in ToSet(Files) \ (run.todo \cup touched)
          BY <3>1, <3>2, <4>2
        <5> QED BY <1>0, <3>1, <3>2, <5>1 DEF FilesSeen, Started, Asked, Exists
      <4> QED BY <4>1, <4>2
    <3> QED BY <3>1, <3>2 DEF FilesSeen, Asked, Exists
  <2>5. CASE FilesWritten
    <3>1. /\ run'.todo = run.todo /\ run'.cmd = run.cmd /\ run.pc = "write"
          /\ UNCHANGED <<disk, version, touched>>
      BY <1>0, <2>5 DEF FilesWritten, WrittenAll, Shape, RunShape, outside
    <3> QED BY <3>1, StaySeen DEF Started, Asked
  <2>6. CASE Reload \/ Restart
    <3>1. /\ run'.todo = run.todo /\ run'.cmd = run.cmd /\ run.pc \in {"reload", "forget", "restart"}
          /\ UNCHANGED <<disk, version, touched>>
      BY <1>0, <2>6 DEF Reload, Restart, Shape, RunShape, outside
    <3> QED BY <3>1, StaySeen DEF Started, Asked
  <2>7. CASE Enable
    <3>1. /\ run'.todo = run.todo /\ run'.cmd = run.cmd /\ run.pc = "enable"
          /\ touched' = touched \ {"units"} /\ UNCHANGED <<disk, version>>
      BY <1>0, <2>7 DEF Enable, Shape, RunShape, outside
    <3>2. \A f \in ToSet(Files) : f \in touched => f \in touched'
      BY <3>1, Tokens
    <3> QED BY <3>1, <3>2, StaySeen DEF Started, Asked
  <2>8. CASE EndWell
    <3>1. /\ run'.todo = run.todo /\ run'.cmd = run.cmd /\ run.pc = "end"
          /\ UNCHANGED <<disk, version, touched>>
      BY <1>0, <2>8 DEF EndWell, Shape, RunShape, outside
    <3> QED BY <3>1, StaySeen DEF Started, Asked
  <2>9. CASE EndBadly
    <3>1. run'.pc = "idle" /\ result' = "failed"
      BY <1>0, <2>9 DEF EndBadly, Shape, RunShape
    <3> QED BY <3>1 DEF FilesSeen, Started
  <2> QED BY <1>2, <2>1, <2>2, <2>3, <2>4, <2>5, <2>6, <2>7, <2>8, <2>9 DEF Works
<1>3. CASE Relink
  <2>1. /\ run'.todo = run.todo /\ run'.cmd = run.cmd /\ run.pc = "relink"
        /\ UNCHANGED <<disk, version, touched>>
    BY <1>0, <1>3 DEF Relink, Shape, RunShape, outside
  <2> QED BY <2>1, StaySeen DEF Started, Asked
<1>4. CASE Rename
  <2> DEFINE one == First(run.todo)
  <2>1. /\ run.pc = "rename" /\ disk' = [disk EXCEPT ![one] = version]
        /\ run'.todo = run.todo \ {one} /\ run'.cmd = run.cmd /\ UNCHANGED <<version, touched>>
    BY <1>0, <1>4 DEF Rename, Next1, Shape, RunShape, outside
  <2>2. version # "absent"
    BY <1>0, SetupAssumption DEF Oddities
  <2> HIDE DEF one
  <2>3. ASSUME run.cmd # "generate", NEW f \in ToSet(Files) \ (run'.todo \cup touched')
        PROVE  IF f = Config THEN disk'[f] # "absent" ELSE disk'[f] = version
    <3>1. CASE f = one
      BY <1>0, <2>1, <2>2, <3>1
    <3>2. CASE f # one
      <4>1. f \in ToSet(Files) \ (run.todo \cup touched) /\ disk'[f] = disk[f]
        BY <1>0, <2>1, <2>3, <3>2
      <4> QED BY <1>0, <2>1, <2>3, <4>1 DEF FilesSeen, Started, Asked, Exists
    <3> QED BY <3>1, <3>2
  <2> QED BY <2>1, <2>3 DEF FilesSeen, Asked, Exists
<1>5. CASE Others
  <2>1. CASE UserEdits
    <3>1. PICK g \in ToSet(Files), c \in {"absent", "edited", "loose"} :
              disk' = [disk EXCEPT ![g] = c] /\ touched' = touched \cup {g}
      BY <2>1 DEF UserEdits
    <3>2. UNCHANGED <<run, result, version>>
      BY <2>1 DEF UserEdits, ends
    <3>3. \A f \in ToSet(Files) \ touched' : disk'[f] = disk[f] /\ f \notin touched
      BY <1>0, <3>1
    <3> QED BY <1>0, <3>2, <3>3 DEF FilesSeen, Started, Asked, Exists
  <2>2. CASE UserLinks \/ UserTurnsOff \/ ManagerRestarts
    <3>1. /\ UNCHANGED <<run, result, disk, version>>
          /\ \A f \in ToSet(Files) : f \in touched => f \in touched'
      BY <2>2 DEF UserLinks, UserTurnsOff, ManagerRestarts, ends
    <3> QED BY <3>1, StaySeen DEF Started, Asked
  <2>3. CASE Upgrade
    <3>1. run'.pc = "idle" /\ result' = "none"
      BY <2>3 DEF Upgrade
    <3> QED BY <3>1 DEF FilesSeen, Started
  <2> QED BY <1>5, <2>1, <2>2, <2>3 DEF Others
<1>6. CASE UNCHANGED vars
  BY <1>0, <1>6 DEF vars, FilesSeen, Started, Asked, Exists
<1> QED BY <1>1, <1>2, <1>3, <1>4, <1>5, <1>6, Steps

LEMMA AlwaysSeen == SUSpec => [](SetupInv /\ Seen)
<1>1. SetupInv /\ Seen /\ [SUNext]_vars => (SetupInv /\ Seen)'
  <2> SUFFICES ASSUME SetupInv, Seen, [SUNext]_vars PROVE SetupInv' /\ Seen'
    OBVIOUS
  <2>1. SetupInv'
    BY StepShape, StepLooked, StepStages, StepRead, StepLapses DEF SetupInv
  <2>2. Seen'
    BY StepFilesSeen, StepLinkSeen, StepForgotten, StepEnabled, StepCourse DEF Seen
  <2> QED BY <2>1, <2>2
<1> QED BY InitSetupInv, SeenInit, <1>1, PTL DEF SUSpec

(* An install or update that ends well leaves nothing for validate to find, *)
(* whatever runs were cut short before it, and an update has made systemd   *)
(* forget the unit it retired.                                              *)
THEOREM SetupSatisfiesValidate == SUSpec => []ValidateSatisfied
<1>1. SetupInv /\ Seen => ValidateSatisfied
  <2> SUFFICES ASSUME SetupInv, Seen, Settled, run.cmd # "generate",
                      run.cmd = "install" \/ ~owed
               PROVE  /\ Drifts \subseteq LeftToTheUser
                      /\ run.cmd = "update" => ~retired /\ ~ghostUnit
    BY DEF ValidateSatisfied
  <2>0. /\ result = "ok" /\ run.pc = "idle" /\ touched = {} /\ run.todo = {}
        /\ (run.cmd = "install" => run.installed)
    BY DEF Settled, Seen, Course
  <2>1. \A f \in ToSet(Files) : IF f = Config THEN Exists(f) ELSE disk[f] = version
    BY <2>0 DEF Seen, FilesSeen, Started, Asked
  <2>2. \A f \in ToSet(Files) : FileDrift(f) => f = Config /\ disk[Config] = "loose"
    BY <2>1 DEF FileDrift, Exists
  <2>3. link \in {"ours", "foreign"}
    BY <2>0 DEF Seen, LinkSeen, Asked
  <2>4. disk[Dropin] = version /\ version \in Renderings
    BY <2>1, Managed, SetupAssumption DEF SetupInv, Shape
  <2>5. on # "never"
    BY <2>0, <2>4, SetupAssumption DEF Seen, Enabled
  <2>6. on # "on" => on = "off"
    BY <2>5 DEF Seen, Enabled
  <2>7. loaded[Dropin] \in Renderings
    <3>1. UnitsRead
      BY <2>0 DEF SetupInv, Read
    <3> QED BY <2>4, <3>1, SetupAssumption DEF UnitsRead
  <2>8. Drifts \subseteq LeftToTheUser
    BY <2>2, <2>3, <2>6, <2>7 DEF Drifts, LeftToTheUser
  <2>9. run.cmd = "update" => ~retired /\ ~ghostUnit
    BY <2>0 DEF Seen, Forgotten, Started
  <2> QED BY <2>8, <2>9
<1> QED BY AlwaysSeen, <1>1, PTL


=============================================================================
