------------------------------ MODULE MCRestore ------------------------------
(***************************************************************************)
(* A seed session "main" and a session "work" to be restored beside it, on *)
(* servers whose user has opened up to two windows.                        *)
(***************************************************************************)
EXTENDS Restore, TLC

Saved(index, name, panes) == [index |-> index, name |-> name, panes |-> panes]

Main(windows) == [name |-> "main", windows |-> windows, active |-> 1]
Work(windows) == [name |-> "work", windows |-> windows, active |-> BaseIndex]

(* Two windows that may have to be relocated, before a session with one of
   three panes that may be missing. *)
MCSnapshots ==
    { <<Main(<<Saved(0, "a", 2), Saved(1, "b", 1)>>), Work(<<Saved(0, "c", 3)>>)>>,
      <<Work(<<Saved(0, "c", 1), Saved(1, "c", 1)>>), Main(<<Saved(0, "h", 1), Saved(2, "a", 1)>>)>>,
      <<[name |-> "a:b", windows |-> <<Saved(0, "a", 1)>>, active |-> 0],
        Main(<<Saved(1, "h", 1)>>)>> }

Server(main, work) ==
    [s \in Sessions |-> [i \in Indexes |->
        IF s = "main" /\ i \in DOMAIN main THEN Opened(main[i])
        ELSE IF s = "work" /\ i \in DOMAIN work THEN Opened(work[i]) ELSE Gap]]

MCServers ==
    { Server(0 :> "h", <<>>),
      Server(0 :> "h" @@ 1 :> "h", <<>>),
      Server(0 :> "b" @@ 2 :> "h", <<>>),
      Server(0 :> "h", 1 :> "h") }

MCSeeded == { Server(0 :> "h", <<>>) }
=============================================================================
