------------------------------ MODULE MCReader ------------------------------
(* One restore beside a writer on a small data directory. *)
EXTENDS StoreReader, StoreProperties

MCPaneCount == [l \in Layouts |-> IF l = "rich" THEN 6 ELSE 3]
=============================================================================
