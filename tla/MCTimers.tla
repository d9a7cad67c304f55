------------------------------ MODULE MCTimers ------------------------------
(***************************************************************************)
(* A quarter of the default intervals, so that a stale limit is in reach:  *)
(* saves every 3, warning from 6, stale from 9, a watch every 5.           *)
(***************************************************************************)
EXTENDS Timers

MCSeed == [t \in Units |-> IF t = "save" THEN 1 ELSE 4]

Factors(watchFactor, warnFactor) == [watch |-> watchFactor, warn |-> warnFactor]

(* The defaults, no yellow tier, yellow after red, and no limit at all. *)
MCConfigs == {Factors(3, 2), Factors(3, 0), Factors(1, 2), Factors(0, 2)}
=============================================================================
