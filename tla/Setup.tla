------------------------------- MODULE Setup -------------------------------
(***************************************************************************)
(* `setup install`, `setup update` and `setup generate --dir` over a live  *)
(* configuration directory, and what `setup validate` finds in it.         *)
(*                                                                         *)
(* There is one setup process at a time.  It may be killed between any two *)
(* of its steps, a write or a systemctl call may fail, and the user edits  *)
(* files, the claude-resume link and the units' state at any moment.       *)
(* systemd (external) works by what it read at its last reload.            *)
(***************************************************************************)
EXTENDS Naturals, Sequences, SequencesExt

CONSTANTS
    UnitFiles,      \* the service, timer and drop-in files, in Render's order
    Dropin,         \* the one whose effect validate looks up in systemd
    Renderings,     \* what Render may produce, by binary and interval_minutes
    MaxActs         \* bound: acts of the user, failures, kills and upgrades

Config == "config.json"
Files == UnitFiles \o <<"tmux.conf", Config>>     \* Render's order
Units == ToSet(UnitFiles)

(* What stands at a managed path.  "edited" is any content or mode that
   Render did not produce, "loose" a config.json of another mode than 0600,
   "partial" a file that is not all there. *)
Oddities == {"absent", "edited", "loose", "partial"}
Content == Renderings \cup Oddities

(* What classifyClaudeResume tells apart at the path of claude-resume. *)
Links == {"absent", "ours", "replaceable", "foreign"}

ASSUME SetupAssumption ==
    /\ UnitFiles \in Seq(STRING) /\ IsInjective(UnitFiles)
    /\ Units \cap {"tmux.conf", Config, "link", "units"} = {}
    /\ Dropin \in Units
    /\ Renderings # {} /\ Renderings \cap Oddities = {}
    /\ MaxActs \in Nat

VARIABLES
    disk,       \* file -> Content
    link,       \* the claude-resume link
    retired,    \* does the unit file of an earlier version stand
    loaded,     \* unit file -> what systemd has read of it
    ghostUnit,  \* does systemd still know the retired unit
    on,         \* are the units enabled and active: "never", "on", "off" (by the user)
    version,    \* what the installed binary renders from the present config
    run,        \* the setup process
    result,     \* how the last one ended
    owed,       \* did one write or remove files and end without enabling the units
    lapsed,     \* units such a run had written and not made systemd read
    touched,    \* what the user changed since the process looked at it
    acts

vars == <<disk, link, retired, loaded, ghostUnit, on, version, run, result, owed, lapsed,
          touched, acts>>
outside == <<version, acts>>
systemd == <<loaded, ghostUnit, on, lapsed>>
ends == <<result, owed>>

(* todo: the files still to be written, in Render's order; wrote: those this
   process has put in place; installed: has Install come to its link
   step. *)
Quiet == [pc |-> "idle", cmd |-> "update", todo |-> {}, wrote |-> {},
          removed |-> FALSE, installed |-> FALSE]

SUInit ==
    /\ disk = [f \in ToSet(Files) |-> "absent"]
    /\ link \in Links \ {"ours"}
    /\ retired \in BOOLEAN /\ ghostUnit = retired
    /\ loaded = [u \in Units |-> "absent"]
    /\ on = "never" /\ version \in Renderings
    /\ run = Quiet /\ result = "none"
    /\ owed = FALSE /\ lapsed = {} /\ touched = {} /\ acts = 0

Exists(f) == disk[f] # "absent"

(* Install and generate write every file; WriteFiles itself leaves an
   existing config.json alone. *)
StartWriting(cmd) ==
    /\ run.pc = "idle"
    /\ run' = [Quiet EXCEPT !.pc = "write", !.cmd = cmd, !.todo = ToSet(Files)]
    /\ touched' = {} /\ result' = "none"
    /\ UNCHANGED <<disk, link, retired, systemd, outside, owed>>

StartInstall == StartWriting("install")
StartGenerate == StartWriting("generate")

StartUpdate ==
    /\ run.pc = "idle"
    /\ run' = [Quiet EXCEPT !.pc = "compare"]
    /\ touched' = {} /\ result' = "none"
    /\ UNCHANGED <<disk, link, retired, systemd, outside, owed>>

(* Update's comparison: what is missing or is not what Render produces, but
   never a config.json that is there. *)
Drifted(f) == disk[f] # version /\ ~(f = Config /\ Exists(f))

Compare ==
    /\ run.pc = "compare"
    /\ run' = [run EXCEPT !.pc = "prune", !.todo = {f \in ToSet(Files) : Drifted(f)}]
    /\ UNCHANGED <<disk, link, retired, systemd, outside, ends, touched>>

(* pruneRetired; its systemctl calls may fail without consequence. *)
Prune ==
    /\ run.pc = "prune"
    /\ run' = [run EXCEPT !.pc = "link", !.removed = retired]
    /\ retired' = FALSE
    /\ UNCHANGED <<disk, link, systemd, outside, ends, touched>>

(* EnsureClaudeResumeLink: classify, then a symlink beside the path and a
   rename over it. *)
AfterLink == IF run.installed
             THEN IF run.cmd = "update" THEN "restart" ELSE "end"
             ELSE "decide"

Classify ==
    /\ run.pc = "link"
    /\ run' = [run EXCEPT !.pc = IF link \in {"absent", "replaceable"} THEN "relink" ELSE AfterLink]
    /\ touched' = touched \ {"link"}
    /\ UNCHANGED <<disk, link, retired, systemd, outside, ends>>

Relink ==
    /\ run.pc = "relink"
    /\ link' = "ours"
    /\ run' = [run EXCEPT !.pc = AfterLink]
    /\ UNCHANGED <<disk, retired, systemd, outside, ends, touched>>

(* Update has nothing to do, something to write, or only a unit to forget. *)
Decide ==
    /\ run.pc = "decide"
    /\ run' = [run EXCEPT !.pc = IF run.todo # {} THEN "write"
                                 ELSE IF run.removed THEN "forget" ELSE "end"]
    /\ UNCHANGED <<disk, link, retired, systemd, outside, ends, touched>>

(* WriteFiles: the next file goes to its .part, unless it is a config.json
   that exists now.
   Mutants: Update's own check is thought to be enough; and the file is
   written where it stands. *)
First(files) ==
    CHOOSE f \in files : \E k \in DOMAIN Files :
        Files[k] = f /\ \A j \in 1..(k - 1) : Files[j] \notin files

Next1 == [run EXCEPT !.todo = @ \ {First(@)}]

WritePartAlways ==
    /\ run.pc = "write" /\ run.todo # {}
    /\ run' = [run EXCEPT !.pc = "rename"]
    /\ touched' = touched \ {First(run.todo)}
    /\ UNCHANGED <<disk, link, retired, systemd, outside, ends>>

WriteInPlace ==
    /\ run.pc = "write" /\ run.todo # {}
    /\ disk' = [disk EXCEPT ![First(run.todo)] = "partial"]
    /\ run' = [run EXCEPT !.pc = "rename"]
    /\ UNCHANGED <<link, retired, systemd, outside, ends, touched>>

WritePart ==
    /\ run.pc = "write" /\ run.todo # {}
    /\ run' = IF First(run.todo) = Config /\ Exists(Config) THEN Next1
              ELSE [run EXCEPT !.pc = "rename"]
    /\ touched' = touched \ {First(run.todo)}
    /\ UNCHANGED <<disk, link, retired, systemd, outside, ends>>

Rename ==
    /\ run.pc = "rename"
    /\ disk' = [disk EXCEPT ![First(run.todo)] = version]
    /\ run' = [Next1 EXCEPT !.pc = "write", !.wrote = @ \cup {First(run.todo)}]
    /\ UNCHANGED <<link, retired, systemd, outside, ends, touched>>

(* Mutant: no daemon-reload before the units are enabled. *)
WrittenUnread == [run EXCEPT !.pc = IF run.cmd = "generate" THEN "end" ELSE "enable"]
WrittenAll == [run EXCEPT !.pc = IF run.cmd = "generate" THEN "end" ELSE "reload"]

FilesWritten ==
    /\ run.pc = "write" /\ run.todo = {}
    /\ run' = WrittenAll
    /\ UNCHANGED <<disk, link, retired, systemd, outside, ends, touched>>

(* systemctl --user daemon-reload: Install's, or Update's own when all that
   changed is that a unit is gone. *)
ReadBySystemd ==
    loaded' = [u \in Units |-> disk[u]] /\ ghostUnit' = retired /\ lapsed' = {}

Reload ==
    /\ run.pc \in {"reload", "forget"}
    /\ ReadBySystemd
    /\ run' = [run EXCEPT !.pc = IF run.pc = "reload" THEN "enable" ELSE "end"]
    /\ UNCHANGED <<disk, link, retired, on, outside, ends, touched>>

(* systemctl --user enable --now; from here on nothing is owed. *)
Enable ==
    /\ run.pc = "enable"
    /\ on' = "on" /\ owed' = FALSE
    /\ touched' = touched \ {"units"}
    /\ run' = [run EXCEPT !.pc = "link", !.installed = TRUE]
    /\ UNCHANGED <<disk, link, retired, loaded, ghostUnit, lapsed, outside, result>>

Restart ==
    /\ run.pc = "restart"
    /\ on' = "on"
    /\ run' = [run EXCEPT !.pc = "end"]
    /\ UNCHANGED <<disk, link, retired, loaded, ghostUnit, lapsed, outside, ends, touched>>

(* A generate has not said a word to systemd, though the directory it wrote to
   is the live one. *)
EndWell ==
    /\ run.pc = "end"
    /\ result' = "ok"
    /\ owed' = (owed \/ (run.cmd = "generate" /\ run.wrote # {}))
    /\ lapsed' = IF run.cmd = "generate" THEN lapsed \cup (run.wrote \cap Units) ELSE lapsed
    /\ run' = [run EXCEPT !.pc = "idle", !.wrote = {}]
    /\ UNCHANGED <<disk, link, retired, loaded, ghostUnit, on, outside, touched>>

Act == acts < MaxActs /\ acts' = acts + 1

(* Has the process made systemd read what it wrote. *)
Told == run.pc = "enable" \/ run.installed

(* A call fails and the command returns its error, or the process is killed. *)
EndBadly ==
    /\ Act /\ run.pc \notin {"idle", "end", "decide", "compare"}
    /\ result' = "failed"
    /\ owed' = (owed \/ ((run.wrote # {} \/ run.removed) /\ ~run.installed))
    /\ lapsed' = IF Told THEN lapsed ELSE lapsed \cup (run.wrote \cap Units)
    /\ run' = [run EXCEPT !.pc = "idle", !.wrote = {}]
    /\ UNCHANGED <<disk, link, retired, loaded, ghostUnit, on, version, touched>>

(***************************************************************************)
(* The user, and the machine.                                              *)
(***************************************************************************)
UserEdits ==
    /\ Act
    /\ \E f \in ToSet(Files) :
          /\ \E c \in {"absent", "edited"} \cup (IF f = Config THEN {"loose"} ELSE {}) :
                disk' = [disk EXCEPT ![f] = c]
          /\ touched' = touched \cup {f}
    /\ UNCHANGED <<link, retired, systemd, version, run, ends>>

UserLinks ==
    /\ Act
    /\ link' \in {"absent", "replaceable", "foreign"}
    /\ touched' = touched \cup {"link"}
    /\ UNCHANGED <<disk, retired, systemd, version, run, ends>>

UserTurnsOff ==
    /\ Act /\ on = "on"
    /\ on' = "off"
    /\ touched' = touched \cup {"units"}
    /\ UNCHANGED <<disk, link, retired, loaded, ghostUnit, lapsed, version, run, ends>>

(* Another binary, perhaps elsewhere, or another interval_minutes. *)
Upgrade ==
    /\ Act /\ run.pc = "idle"
    /\ version' \in Renderings \ {version}
    /\ link' \in IF link = "ours" THEN {"ours", "replaceable"} ELSE {link}
    /\ result' = "none"
    /\ UNCHANGED <<disk, retired, systemd, run, owed, touched>>

(* The user manager starts again and reads every unit file. *)
ManagerRestarts ==
    /\ Act
    /\ ReadBySystemd
    /\ UNCHANGED <<disk, link, retired, on, version, run, ends, touched>>

SUNext ==
    \/ StartInstall \/ StartUpdate \/ StartGenerate
    \/ Compare \/ Prune \/ Classify \/ Relink \/ Decide
    \/ WritePart \/ Rename \/ FilesWritten \/ Reload \/ Enable \/ Restart
    \/ EndWell \/ EndBadly
    \/ UserEdits \/ UserLinks \/ UserTurnsOff \/ Upgrade \/ ManagerRestarts

SUSpec == SUInit /\ [][SUNext]_vars

(***************************************************************************)
(* setup validate: one drift for each way in which files, link and systemd *)
(* differ from what Render and Install would have made.                    *)
(***************************************************************************)
(* Mutant: a configuration that is not the default one is a drift. *)
FileDriftStrict(f) == disk[f] # version
FileDrift(f) ==
    IF f = Config THEN disk[f] \in {"absent", "loose"} ELSE disk[f] # version

Drifts ==
    {f \in ToSet(Files) : FileDrift(f)}
        \cup (IF link \in {"absent", "replaceable"} THEN {"link"} ELSE {})
        \cup (IF on # "on" THEN {"units"} ELSE {})
        \cup (IF loaded[Dropin] \notin Renderings THEN {"dropin"} ELSE {})

(***************************************************************************)
(* Properties.                                                             *)
(***************************************************************************)

(* What is the user's stays: no step of setup replaces a config.json the    *)
(* user has written or a claude-resume that is not a predecessor of ours,   *)
(* whether by install, update or generate, except one the user put there    *)
(* between the look and the rename.                                         *)
UsersThingsKept ==
    [][acts' = acts =>
          /\ (disk[Config] \in {"edited", "loose"} /\ Config \notin touched)
                 => disk'[Config] = disk[Config]
          /\ (link = "foreign" /\ "link" \notin touched) => link' = link]_vars

(* A managed file or a link that is there is never away, and no managed     *)
(* file is ever half written, wherever setup is killed or fails and however *)
(* it is run again.                                                         *)
NeverMissing ==
    [][acts' = acts =>
          /\ \A f \in ToSet(Files) :
                disk'[f] # "partial" /\ (Exists(f) => disk'[f] # "absent")
          /\ link # "absent" => link' # "absent"]_vars

(* When an install or update that nobody interfered with ends well,         *)
(* validate has nothing to complain of but what setup leaves to the user;   *)
(* an update has also made systemd forget the unit it retired.  What an     *)
(* earlier run wrote and left there, cut short before it enabled the units  *)
(* or a generate over the live directory, is made good by install, and by   *)
(* an update only where that still finds something to write.                *)
Settled == result = "ok" /\ run.pc = "idle" /\ touched = {}
LeftToTheUser ==
    (IF disk[Config] = "loose" THEN {Config} ELSE {}) \cup (IF on = "off" THEN {"units"} ELSE {})

ValidateSatisfied ==
    (Settled /\ run.cmd # "generate" /\ (run.cmd = "install" \/ ~owed)) =>
        /\ Drifts \subseteq LeftToTheUser
        /\ run.cmd = "update" => ~retired /\ ~ghostUnit

(* Validate looks at the files and at one drop-in in systemd.  Whatever was *)
(* edited, upgraded, installed and updated, when it finds no drift systemd  *)
(* works by the units rendered, but for those that a generate over the live *)
(* directory, or a run cut short before its reload, has written since       *)
(* systemd last read them: these validate does not tell from the others.    *)
ValidateSuffices ==
    (run.pc = "idle" /\ Drifts = {}) => \A u \in Units \ lapsed : loaded[u] = version
=============================================================================
