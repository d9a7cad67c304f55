---------------------------- MODULE TimersProofs ----------------------------
(***************************************************************************)
(* For every interval, seed, accuracy, save time and bound: the variables  *)
(* have their types, and no alarm is given while all is well.  The second  *)
(* needs one inductive invariant, InTime: how old the marker can be when   *)
(* the next save starts, and when the running one ends.                    *)
(***************************************************************************)
EXTENDS Timers, TLAPS

(* The older the marker, the sooner the next save; while a save runs, its   *)
(* deadline and the next elapse are in sight.                               *)
InTime ==
    mishaps = 0 =>
        /\ trouble = "none" /\ ~stopped
        /\ saving # Idle => due["save"] \in 0..(Interval + Accuracy)
        /\ marker /\ saving = Idle =>
              due["save"] # Never /\ age + due["save"] <= Interval + Accuracy
        /\ marker /\ saving # Idle => age + saving <= LongestGap

-----------------------------------------------------------------------------
(* The minimum of up to three numbers is one of them.                       *)
LEMMA MinIsOne ==
  ASSUME NEW S, S \subseteq Int, NEW a \in Int, NEW b \in Int, NEW c \in Int,
         S \subseteq {a, b, c}, S # {}
  PROVE  Min(S) \in S
<1>1. \E x \in S : \A y \in S : x =< y
  <2>1. PICK x \in S : TRUE
    OBVIOUS
  <2>2. CASE \A y \in S : x =< y
    BY <2>2
  <2>3. CASE \E y \in S : y < x
    <3>1. PICK y \in S : y < x
      BY <2>3
    <3>2. CASE \A z \in S : y =< z
      BY <3>2
    <3>3. CASE \E z \in S : z < y
      <4>1. PICK z \in S : z < y
        BY <3>3
      <4>2. \A w \in S : z =< w
        BY <2>1, <3>1, <4>1
      <4> QED BY <4>2
    <3> QED BY <3>1, <3>2, <3>3
  <2> QED BY <2>1, <2>2, <2>3
<1> QED BY <1>1 DEF Min

LEMMA EarliestIsTime ==
  ASSUME NEW a \in Nat \cup {Never}, NEW b \in Nat \cup {Never}, NEW c \in Nat \cup {Never}
  PROVE  Earliest({a, b, c}) \in Nat \cup {Never}
<1> DEFINE S == {a, b, c} \ {Never}
<1>1. CASE S = {}
  BY <1>1 DEF Earliest
<1>2. CASE S # {}
  <2>1. S \subseteq Nat /\ S \subseteq Int /\ a \in Int /\ b \in Int /\ c \in Int
    BY DEF Never
  <2>2. Min(S) \in S
    BY <1>2, <2>1, MinIsOne
  <2> QED BY <1>2, <2>1, <2>2 DEF Earliest
<1> QED BY <1>1, <1>2

(* A timer that is started has a time to its next elapse, or none.          *)
LEMMA StartedIsTime ==
  ASSUME NEW t \in Units, NEW u \in Nat, NEW left \in Nat \cup {Never}
  PROVE  Started(t, u, left) \subseteq Nat \cup {Never}
<1>1. ASSUME NEW d \in Started(t, u, left) PROVE d \in Nat \cup {Never}
  <2>1. PICK b \in OnBoot(t, u), late \in 0..Accuracy :
           d = Earliest({IF b = Never THEN Never ELSE b + late, Seed[t] + late, left})
    BY <1>1 DEF Started
  <2>2. Seed[t] \in Nat /\ late \in Nat
    BY TimersAssumption
  <2>3. b \in Nat \cup {Never}
    BY <2>2 DEF OnBoot, Never
  <2>4. (IF b = Never THEN Never ELSE b + late) \in Nat \cup {Never}
    BY <2>2, <2>3 DEF Never
  <2>5. Seed[t] + late \in Nat \cup {Never}
    BY <2>2
  <2> QED BY <2>1, <2>4, <2>5, EarliestIsTime
<1> QED BY <1>1

LEMMA StartTimersType ==
  ASSUME NEW u \in Nat, NEW left \in [Units -> Nat \cup {Never}], StartTimers(u, left)
  PROVE  due' \in [Units -> Nat \cup {Never}]
<1>1. \A t \in Units : left[t] \in Nat \cup {Never}
  OBVIOUS
<1>2. due' \in [Units -> UNION {Started(t, u, left[t]) : t \in Units}]
  BY DEF StartTimers
<1>3. \A t \in Units : due'[t] \in Started(t, u, left[t])
  BY DEF StartTimers
<1>4. \A t \in Units : Started(t, u, left[t]) \subseteq Nat \cup {Never}
  BY <1>1, StartedIsTime
<1> QED BY <1>2, <1>3, <1>4

LEMMA SeedMax == Max({Seed[t] : t \in Units}) \in Nat
<1> DEFINE S == {Seed[t] : t \in Units}
<1>1. S = {Seed["save"], Seed["watch"]} /\ Seed["save"] \in Nat /\ Seed["watch"] \in Nat
  BY TimersAssumption DEF Units
<1>2. \E x \in S : \A y \in S : x >= y
  BY <1>1
<1>3. Max(S) \in S
  BY <1>2 DEF Max
<1> QED BY <1>1, <1>3

-----------------------------------------------------------------------------
LEMMA InitTypeOK == TInit => TTypeOK
<1> SUFFICES ASSUME TInit PROVE TTypeOK
  OBVIOUS
<1>1. up \in Nat
  BY SeedMax DEF TInit
<1>2. due \in [Units -> Nat \cup {Never}]
  <2>1. \A t \in Units : Started(t, up, Never) \subseteq Nat \cup {Never}
    BY <1>1, StartedIsTime
  <2>2. \A t \in Units : due[t] \in Started(t, up, Never)
    BY DEF TInit
  <2> QED BY <2>1, <2>2 DEF TInit
<1>3. age \in (-MaxJump)..MaxAge /\ mishaps \in 0..MaxMishaps
  BY TimersAssumption DEF TInit
<1> QED
  BY <1>1, <1>2, <1>3 DEF TInit, TTypeOK, Troubles

(* The new age is within its bounds when time passes.                       *)
LEMMA PassedType ==
  ASSUME TTypeOK, NEW k \in Nat, Passed(k) PROVE age' \in (-MaxJump)..MaxAge
BY TimersAssumption DEF TTypeOK, Passed, AtMost

(* A mishap is counted, up to the bound.                                    *)
LEMMA Counted ==
  ASSUME TTypeOK, Mishap PROVE mishaps' \in 0..MaxMishaps /\ mishaps' # 0
BY TimersAssumption DEF TTypeOK, Mishap

LEMMA StepTypeOK == TTypeOK /\ [TNext]_vars => TTypeOK'
<1> SUFFICES ASSUME TTypeOK, [TNext]_vars PROVE TTypeOK'
  OBVIOUS
<1> USE TimersAssumption
<1>1. CASE SaveStarts
  <2>1. \A late \in 0..Accuracy : Interval + late \in Nat
    OBVIOUS
  <2>2. due' \in [Units -> Nat \cup {Never}]
    BY <1>1, <2>1 DEF SaveStarts, TTypeOK
  <2>3. saving' \in 0..SaveTime
    BY <1>1 DEF SaveStarts
  <2> QED BY <1>1, <2>2, <2>3 DEF SaveStarts, TTypeOK, world
<1>2. CASE SaveEnds
  <2>1. age' \in (-MaxJump)..MaxAge /\ marker' \in BOOLEAN
    <3>1. 0 \in (-MaxJump)..MaxAge
      OBVIOUS
    <3>2. (marker' = TRUE /\ age' = 0) \/ UNCHANGED <<marker, age>>
      BY <1>2 DEF SaveEnds
    <3> QED BY <3>1, <3>2 DEF TTypeOK
  <2> QED BY <1>2, <2>1 DEF SaveEnds, TTypeOK, world
<1>3. CASE WatchRuns
  <2>1. \A late \in 0..Accuracy : WatchEvery + late \in Nat
    OBVIOUS
  <2> QED BY <1>3, <2>1 DEF WatchRuns, TTypeOK, world
<1>4. CASE Tick
  <2>1. due' \in [Units -> Nat \cup {Never}]
    BY <1>4 DEF Tick, TTypeOK, Never
  <2>2. saving' \in {Idle} \cup 0..SaveTime
    BY <1>4 DEF Tick, TTypeOK, Idle
  <2>3. up' \in Nat
    BY <1>4, SeedMax DEF Tick, TTypeOK, AtMost
  <2>4. age' \in (-MaxJump)..MaxAge
    BY <1>4 DEF Tick, TTypeOK, AtMost
  <2> QED BY <1>4, <2>1, <2>2, <2>3, <2>4 DEF Tick, TTypeOK, world
<1>5. CASE ManagerRestarts
  <2>1. age' \in (-MaxJump)..MaxAge /\ up' \in Nat
    BY <1>5, PassedType DEF ManagerRestarts, TTypeOK
  <2>2. due' \in [Units -> Nat \cup {Never}]
    <3>1. NoBase \in [Units -> Nat \cup {Never}]
      BY DEF NoBase
    <3> QED BY <1>5, <2>1, <3>1, StartTimersType DEF ManagerRestarts
  <2> QED BY <1>5, <2>1, <2>2, Counted DEF ManagerRestarts, TTypeOK
<1>6. CASE TimersRestarted
  <2>1. due' \in [Units -> Nat \cup {Never}]
    BY <1>6, StartTimersType DEF TimersRestarted, TTypeOK
  <2> QED BY <1>6, <2>1, Counted DEF TimersRestarted, TTypeOK
<1>7. CASE Sleeps
  <2>1. age' \in (-MaxJump)..MaxAge
    BY <1>7, PassedType DEF Sleeps
  <2> QED BY <1>7, <2>1, Counted DEF Sleeps, TTypeOK
<1>8. CASE ClockSetBack
  <2>1. age' \in (-MaxJump)..MaxAge
    BY <1>8 DEF ClockSetBack, AtLeast, TTypeOK
  <2> QED BY <1>8, <2>1, Counted DEF ClockSetBack, TTypeOK
<1>9. CASE UserStops \/ TroubleStarts \/ TroubleEnds
  <2>1. CASE UserStops
    BY <2>1, Counted DEF UserStops, TTypeOK
  <2>2. CASE TroubleStarts
    BY <2>2, Counted DEF TroubleStarts, TTypeOK, Troubles
  <2>3. CASE TroubleEnds
    BY <2>3 DEF TroubleEnds, TTypeOK, Troubles
  <2> QED BY <1>9, <2>1, <2>2, <2>3
<1>10. CASE UNCHANGED vars
  BY <1>10 DEF vars, TTypeOK
<1> QED
  BY <1>1, <1>2, <1>3, <1>4, <1>5, <1>6, <1>7, <1>8, <1>9, <1>10 DEF TNext

(* The variables keep their types, whatever happens to the machine.         *)
THEOREM TimersTypeCorrect == TSpec => []TTypeOK
  BY InitTypeOK, StepTypeOK, PTL DEF TSpec

-----------------------------------------------------------------------------
LEMMA InitInTime == TInit => InTime
  BY DEF TInit, InTime, Idle

LEMMA StepInTime == TTypeOK /\ InTime /\ [TNext]_vars => InTime'
<1> SUFFICES ASSUME TTypeOK, InTime, [TNext]_vars, mishaps' = 0 PROVE InTime'
  BY DEF InTime
<1> USE TimersAssumption
<1>1. CASE SaveStarts
  <2>1. mishaps = 0 /\ due["save"] = 0 /\ saving = Idle
    BY <1>1 DEF SaveStarts, Elapses, world
  <2>2. due'["save"] \in 0..(Interval + Accuracy)
    BY <1>1 DEF SaveStarts, TTypeOK, Units
  <2>3. marker => age + SaveTime <= LongestGap
    BY <2>1 DEF InTime, LongestGap, TTypeOK
  <2> QED BY <1>1, <2>1, <2>2, <2>3 DEF SaveStarts, InTime, LongestGap, world, Idle
<1>2. CASE SaveEnds
  <2>1. mishaps = 0 /\ saving # Idle /\ trouble = "none" /\ saving' = Idle /\ due' = due
    BY <1>2 DEF SaveEnds, world, InTime
  <2>2. age' = 0
    BY <1>2, <2>1 DEF SaveEnds, Good, Touches
  <2> QED BY <1>2, <2>1, <2>2 DEF SaveEnds, InTime, world, Never
<1>3. CASE WatchRuns
  <2>1. due'["save"] = due["save"]
    BY <1>3 DEF WatchRuns, TTypeOK, Units
  <2> QED BY <1>3, <2>1 DEF WatchRuns, InTime, LongestGap, world
<1>4. CASE Tick
  <2>1. mishaps = 0 /\ ~stopped /\ ~Elapses("save")
    BY <1>4 DEF Tick, world, InTime, Units
  <2>2. due["save"] \in Nat \cup {Never}
        /\ due'["save"] = (IF due["save"] > 0 THEN due["save"] - 1 ELSE due["save"])
    BY <1>4 DEF Tick, TTypeOK, Units
  <2>3. marker => age' <= age + 1
    BY <1>4 DEF Tick, AtMost, TTypeOK
  <2>4. age' \in Int /\ age \in Int
    BY <1>4 DEF Tick, AtMost, TTypeOK
  <2>5. CASE saving = Idle
    <3>1. due["save"] # 0
      BY <2>1, <2>5 DEF Elapses
    <3> QED BY <1>4, <2>1, <2>2, <2>3, <2>4, <2>5, <3>1 DEF Tick, InTime, world, Never
  <2>6. CASE saving # Idle
    <3>1. saving \in Nat /\ saving' = saving - 1 /\ saving # 0
      BY <1>4, <2>6 DEF Tick, TTypeOK
    <3>2. saving' # Idle /\ due'["save"] \in 0..(Interval + Accuracy)
      BY <2>1, <2>2, <2>6, <3>1 DEF InTime, Idle
    <3>3. marker' => age' + saving' <= LongestGap
      BY <1>4, <2>1, <2>3, <2>4, <2>6, <3>1 DEF Tick, InTime, LongestGap
    <3> QED BY <1>4, <2>1, <3>2, <3>3 DEF Tick, InTime, LongestGap, world
  <2> QED BY <2>5, <2>6
<1>5. CASE ManagerRestarts \/ TimersRestarted \/ Sleeps \/ ClockSetBack
             \/ UserStops \/ TroubleStarts
  BY <1>5, Counted DEF ManagerRestarts, TimersRestarted, Sleeps, ClockSetBack,
     UserStops, TroubleStarts
<1>6. CASE TroubleEnds
  BY <1>6 DEF TroubleEnds, InTime
<1>7. CASE UNCHANGED vars
  BY <1>7 DEF vars, InTime, LongestGap
<1> QED
  BY <1>1, <1>2, <1>3, <1>4, <1>5, <1>6, <1>7 DEF TNext

(* A marker within its time is fresh to both of its readers, and their      *)
(* comparisons never contradict each other.                                 *)
LEMMA InTimeIsFresh ==
  ASSUME TTypeOK, InTime PROVE NoFalseAlarm
<1> USE TimersAssumption
<1>1. config.watch \in Int /\ config.warn \in Int
  BY DEF TTypeOK
<1>2. StaleLimit \in Int /\ age \in Int
  BY <1>1 DEF StaleLimit, TTypeOK
<1>3. Stale => Tier \in Red
  BY <1>2 DEF Stale, Tier, Red
<1>4. ASSUME mishaps = 0, Sensible, marker PROVE Tier = "fresh" /\ ~Stale
  <2>1. age <= LongestGap /\ LongestGap \in Int
    <3>1. due["save"] \in Nat \cup {Never} /\ saving \in {Idle} \cup 0..SaveTime /\ age \in Int
      BY DEF TTypeOK, Units
    <3>2. CASE saving = Idle
      BY <1>4, <3>1, <3>2 DEF InTime, LongestGap
    <3>3. CASE saving # Idle
      BY <1>4, <3>1, <3>3 DEF InTime, LongestGap
    <3> QED BY <3>2, <3>3
  <2>2. LongestGap < StaleLimit
    BY <1>4 DEF Sensible, StaleLimit
  <2>3. WarnLimit \in Int /\ LongestGap < WarnLimit
    BY <1>1, <1>2, <1>4, <2>2 DEF Sensible, WarnLimit
  <2> QED BY <1>2, <1>4, <2>1, <2>2, <2>3 DEF Tier, Stale
<1> QED BY <1>3, <1>4 DEF NoFalseAlarm

(* No alarm while all is well, for every configuration whose limits a       *)
(* healthy save does not reach.                                             *)
THEOREM NoAlarmWhileWell == TSpec => []NoFalseAlarm
<1>1. TInit => TTypeOK /\ InTime
  BY InitTypeOK, InitInTime
<1>2. (TTypeOK /\ InTime) /\ [TNext]_vars => (TTypeOK /\ InTime)'
  BY StepTypeOK, StepInTime
<1>3. TTypeOK /\ InTime => NoFalseAlarm
  BY InTimeIsFresh
<1> QED BY <1>1, <1>2, <1>3, PTL DEF TSpec
=============================================================================
