----------------------------- MODULE MCCollector -----------------------------
(***************************************************************************)
(* A session with a split window, one whose pane keys are those of the     *)
(* first, and a group: with and without the session it is named for.       *)
(***************************************************************************)
EXTENDS Collector, TLC

MCOrder == <<"a b", "a-b", "z", "z-1">>

MCFlat == [s \in Sessions |-> IF s = "a b" THEN "a-b" ELSE s]

MCWindows == [s \in Sessions |-> [i \in Indexes |->
    CASE s = "a b" /\ i = 0 -> <<1, 2>>
      [] s = "a-b" /\ i = 0 -> <<3>>
      [] s = "z" /\ i = 0 -> <<4>>
      [] s = "z" /\ i = 1 -> <<5>>
      [] OTHER -> Gap]]

MCServer(z, z1) ==
    [shows |-> [s \in Sessions |-> CASE s = "z" -> z [] s = "z-1" -> z1 [] OTHER -> s],
     grouped |-> IF z1 = "z" THEN {"z"} ELSE {}, windows |-> MCWindows, lastPane |-> 5]

MCServers == {MCServer("z", "z"), MCServer(None, "z"), MCServer("z", None)}
=============================================================================
