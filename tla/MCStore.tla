------------------------------- MODULE MCStore -------------------------------
(* A small data directory for TLC. *)
EXTENDS StoreProperties, TLC

MCPaneCount == [l \in Layouts |-> IF l = "rich" THEN 6
                                  ELSE IF l = "middling" THEN 3 ELSE 1]

ProcSymmetry == Permutations(Procs)
=============================================================================
