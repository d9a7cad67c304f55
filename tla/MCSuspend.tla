------------------------------ MODULE MCSuspend ------------------------------
(***************************************************************************)
(* Two panes and two conversations, with a user who acts in both panes.    *)
(* The panes are not symmetric for TLC: one run states a liveness property. *)
(***************************************************************************)
EXTENDS ClaudeSuspend
=============================================================================
