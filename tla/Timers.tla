------------------------------- MODULE Timers -------------------------------
(***************************************************************************)
(* The two timers of go-tmux-saver and what reads the freshness marker.    *)
(* go-tmux-saver.timer starts `save --auto`, whose good outcomes set the   *)
(* marker to now; go-tmux-saver-watch.timer starts `status --check-fresh`, *)
(* which leaves its unit failed when the marker is too old; the status     *)
(* line runs `freshness`, which compares the same age with two thresholds. *)
(*                                                                         *)
(* Time is counted from now: an age upwards, the time to the next run of a *)
(* timer downwards, so that the states stay finite without a last moment.  *)
(* systemd is external.  OnActiveSec and OnUnitActiveSec count monotonic   *)
(* time, which a sleeping machine does not; the marker's age is wall time. *)
(***************************************************************************)
EXTENDS Integers, FiniteSetsExt

CONSTANTS
    Interval,     \* interval_minutes
    Seed,         \* timer -> OnBootSec = OnActiveSec
    WatchEvery,   \* OnUnitActiveSec of the watch timer
    Accuracy,     \* AccuracySec: an elapse may be this late
    SaveTime,     \* the deadline of a save
    Configs,      \* the values of watch_stale_factor and warn_stale_factor
    MaxAge,       \* bound: ages are counted up to here
    MaxJump,      \* bound: how far sleep, reboot or `date -s` move the clock
    MaxMishaps    \* bound: number of restarts, sleeps, stops and troubles

VARIABLES
    config,       \* config.json: the factors; fixed in a behaviour
    marker,       \* does the file `fresh` exist
    age,          \* now minus its mtime; negative after the clock went back
    due,          \* timer -> time to its next elapse
    stopped,      \* has the user stopped go-tmux-saver.timer
    saving,       \* time left to the running save, or Idle
    watch,        \* state of go-tmux-saver-watch.service
    up,           \* time since boot, up to the largest seed
    trouble,      \* do saves fail: no server, a bad disk, the guard, the lock
    mishaps

vars == <<config, marker, age, due, stopped, saving, watch, up, trouble, mishaps>>
world == <<config, stopped, trouble, mishaps>>

Units == {"save", "watch"}
Troubles == {"none", "some", "all"}   \* how many saves fail
Idle == -1
Never == -1

ASSUME TimersAssumption ==
    /\ Interval \in Nat \ {0} /\ WatchEvery \in Nat \ {0}
    /\ Accuracy \in Nat /\ SaveTime \in Nat
    /\ Seed \in [Units -> Nat]
    /\ Configs \subseteq [watch : Int, warn : Int]
    /\ MaxAge \in Nat /\ MaxJump \in Nat /\ MaxMishaps \in Nat

TTypeOK ==
    /\ config \in Configs
    /\ marker \in BOOLEAN /\ age \in (-MaxJump)..MaxAge
    /\ due \in [Units -> Nat \cup {Never}]
    /\ stopped \in BOOLEAN
    /\ saving \in {Idle} \cup 0..SaveTime
    /\ watch \in {"inactive", "failed"}
    /\ up \in Nat
    /\ trouble \in Troubles
    /\ mishaps \in 0..MaxMishaps

AtMost(a, b) == IF a < b THEN a ELSE b
AtLeast(a, b) == IF a > b THEN a ELSE b

Outcome == {"kept", "unchanged", "rejected-degenerate", "skipped", "error"}

Good == {"kept", "unchanged"}

(* The outcomes after which RunSave touches the marker.
   Mutant: a save that found no server touches it too. *)
TouchesSkipped == {"kept", "unchanged", "skipped"}
Touches == {"kept", "unchanged"}

(***************************************************************************)
(* The readers of the marker.                                              *)
(***************************************************************************)
StaleLimit == Interval * config.watch

(* `status --check-fresh` exits 1. *)
Stale == ~marker \/ age > StaleLimit

(* warn_stale_factor < 1 means no yellow tier, not a threshold of zero.
   Mutant: zero taken at its word. *)
WarnLimitAsIs == Interval * config.warn
WarnLimit == IF config.warn >= 1 THEN Interval * config.warn ELSE StaleLimit

(* classifyFreshness; "stale" and "noSave" are shown in red. *)
Tier ==
    IF ~marker THEN "noSave"
    ELSE IF age >= StaleLimit THEN "stale"
    ELSE IF age >= WarnLimit THEN "warn" ELSE "fresh"
Red == {"stale", "noSave"}

(***************************************************************************)
(* systemd.  A timer elapses at the earliest of its directives; one whose  *)
(* base is missing does not count.                                         *)
(***************************************************************************)
Earliest(S) == IF S \ {Never} = {} THEN Never ELSE Min(S \ {Never})

(* OnBootSec when a timer is started u after boot.  One that is past fires
   at once, by systemd's manual, or does not fire, by the comment in the
   template: either may happen. *)
OnBoot(t, u) == IF u <= Seed[t] THEN {Seed[t] - u} ELSE {0, Never}

(* Starting timer t with `left` to the run that OnUnitActiveSec asks for.
   Mutant: the templates without OnActiveSec. *)
StartedBootOnly(t, u, left) ==
    UNION {{Earliest({IF b = Never THEN Never ELSE b + late, left})
               : late \in 0..Accuracy} : b \in OnBoot(t, u)}
Started(t, u, left) ==
    UNION {{Earliest({IF b = Never THEN Never ELSE b + late, Seed[t] + late, left})
               : late \in 0..Accuracy} : b \in OnBoot(t, u)}

StartTimers(u, left) ==
    due' \in {d \in [Units -> UNION {Started(t, u, left[t]) : t \in Units}] :
                 \A t \in Units : d[t] \in Started(t, u, left[t])}

NoBase == [t \in Units |-> Never]

(* A timer's service is run when it elapses; while the service is still
   running the timer waits for it. *)
Elapses(t) ==
    /\ due[t] = 0
    /\ t = "save" => saving = Idle /\ ~stopped

SaveStarts ==
    /\ Elapses("save")
    /\ \E late \in 0..Accuracy : due' = [due EXCEPT !["save"] = Interval + late]
    /\ saving' = SaveTime
    /\ UNCHANGED <<world, marker, age, watch, up>>

(* RunSave ends; only in trouble does it end badly, or with a marker that
   cannot be touched. *)
SaveEnds ==
    /\ saving # Idle
    /\ \E o \in Outcome, touchable \in BOOLEAN :
          /\ trouble = "none" => o \in Good /\ touchable
          /\ trouble = "all" => o \notin Good
          /\ IF o \in Touches /\ touchable
             THEN marker' = TRUE /\ age' = 0
             ELSE UNCHANGED <<marker, age>>
    /\ saving' = Idle
    /\ UNCHANGED <<world, due, watch, up>>

(* `status --check-fresh` reads the marker and ends. *)
WatchRuns ==
    /\ Elapses("watch")
    /\ \E late \in 0..Accuracy : due' = [due EXCEPT !["watch"] = WatchEvery + late]
    /\ watch' = IF Stale THEN "failed" ELSE "inactive"
    /\ UNCHANGED <<world, marker, age, saving, up>>

(* Time passes while nothing is due and no save is at its deadline. *)
Tick ==
    /\ \A t \in Units : ~Elapses(t)
    /\ saving # 0
    /\ age' = IF marker THEN AtMost(age + 1, MaxAge) ELSE age
    /\ due' = [t \in Units |-> IF due[t] > 0 THEN due[t] - 1 ELSE due[t]]
    /\ saving' = IF saving = Idle THEN Idle ELSE saving - 1
    /\ up' = AtMost(up + 1, Max({Seed[t] : t \in Units}) + 1)
    /\ UNCHANGED <<world, marker, watch>>

(***************************************************************************)
(* What happens to the machine.                                            *)
(***************************************************************************)
Mishap == mishaps < MaxMishaps /\ mishaps' = mishaps + 1

Passed(k) == age' = IF marker THEN AtMost(age + k, MaxAge) ELSE age

(* The systemd user manager comes back, after a reboot or within a boot: it
   has forgotten when the services ran, and a save in progress is gone. *)
ManagerRestarts ==
    /\ Mishap
    /\ \/ up' = up /\ UNCHANGED age
       \/ up' = 0 /\ \E k \in 0..MaxJump : Passed(k)
    /\ StartTimers(up', NoBase)
    /\ saving' = Idle /\ watch' = "inactive" /\ stopped' = FALSE
    /\ UNCHANGED <<config, marker, trouble>>

(* `setup update` restarts both timers; their services are still known. *)
TimersRestarted ==
    /\ Mishap
    /\ StartTimers(up, due)
    /\ stopped' = FALSE
    /\ UNCHANGED <<config, marker, age, saving, watch, up, trouble>>

Sleeps ==
    /\ Mishap
    /\ \E k \in 1..MaxJump : Passed(k)
    /\ UNCHANGED <<config, marker, due, stopped, saving, watch, up, trouble>>

ClockSetBack ==
    /\ Mishap /\ marker
    /\ \E k \in 1..MaxJump : age' = AtLeast(age - k, -MaxJump)
    /\ UNCHANGED <<config, marker, due, stopped, saving, watch, up, trouble>>

UserStops ==
    /\ Mishap /\ ~stopped
    /\ stopped' = TRUE
    /\ UNCHANGED <<config, marker, age, due, saving, watch, up, trouble>>

TroubleStarts ==
    /\ Mishap /\ trouble = "none"
    /\ trouble' \in {"some", "all"}
    /\ UNCHANGED <<config, marker, age, due, stopped, saving, watch, up>>

TroubleEnds ==
    /\ trouble # "none"
    /\ trouble' = "none"
    /\ UNCHANGED <<config, marker, age, due, stopped, saving, watch, up, mishaps>>

(* `enable --now` on a machine that has been up for some time. *)
TInit ==
    /\ config \in Configs
    /\ marker = FALSE /\ age = 0
    /\ up \in 0..(Max({Seed[t] : t \in Units}) + 1)
    /\ due \in [Units -> UNION {Started(t, up, Never) : t \in Units}]
    /\ \A t \in Units : due[t] \in Started(t, up, Never)
    /\ stopped = FALSE /\ saving = Idle /\ watch = "inactive"
    /\ trouble = "none" /\ mishaps = 0

TNext ==
    \/ SaveStarts \/ SaveEnds \/ WatchRuns \/ Tick
    \/ ManagerRestarts \/ TimersRestarted \/ Sleeps \/ ClockSetBack
    \/ UserStops \/ TroubleStarts \/ TroubleEnds

TSpec == TInit /\ [][TNext]_vars

(* Time goes on, systemd runs what is due, and a save ends by its deadline. *)
TFairness == WF_vars(SaveStarts) /\ WF_vars(SaveEnds) /\ WF_vars(WatchRuns) /\ WF_vars(Tick)
TFairSpec == TSpec /\ TFairness

(***************************************************************************)
(* Properties.                                                             *)
(***************************************************************************)

(* The longest a marker is left alone when nothing goes wrong. *)
LongestGap == Interval + Accuracy + SaveTime

(* Factors whose limits a healthy save does not reach. *)
Sensible ==
    /\ LongestGap < Interval * config.watch
    /\ config.warn >= 1 => LongestGap < Interval * config.warn

(* No alarm while all is well: as long as no save fails, the machine does   *)
(* not sleep and nobody interferes, from the first save on neither reader   *)
(* of the marker ever sees an age beyond its limits, at whatever moments    *)
(* the timers and the saves end within theirs.  And the two agree where     *)
(* their comparisons differ: what the watch calls stale the status line     *)
(* shows in red, whatever the factors, at the limit itself and with a       *)
(* marker in the future, unless it is configured to show nothing.           *)
NoFalseAlarm ==
    /\ (mishaps = 0 /\ Sensible /\ marker) => Tier = "fresh" /\ ~Stale
    /\ Stale => Tier \in Red

(* When saves are no longer started, or none of them goes well any more,    *)
(* both alarms come on and stay on, after restarts and clock changes.       *)
StopIsNoticed ==
    <>[](stopped \/ trouble = "all") => <>[](Tier \in Red /\ watch = "failed")

(* When the trouble is over both alarms go away by themselves.              *)
Recovers ==
    <>[](trouble = "none" /\ ~stopped /\ Sensible) => <>[](Tier = "fresh" /\ watch = "inactive")
=============================================================================
