------------------------------ MODULE MCImport ------------------------------
(***************************************************************************)
(* Sessions "a b" and "a-b", whose keys are the same, and "a/c"; panes     *)
(* whose titles have a tab or a newline, one with a tab in its command,    *)
(* and the kinds of lines that are not records.                            *)
(***************************************************************************)
EXTENDS Importer, TLC

Pane(session, window, index, title, active, command) ==
    [session |-> session, window |-> window, index |-> index, title |-> title,
     dir |-> ":/tmp", active |-> active, command |-> command]

MCField == STRING

MCPanes ==
    {Pane("a b", w, i, <<"t">>, i, <<":claude">>) : w, i \in {"0", "1"}}
        \cup {Pane("a b", "0", "0", title, "1", <<":">>) : title \in {<<"t", "u">>, <<"t", "newline", "u">>}}
        \cup {Pane("a-b", "0", "1", <<"t">>, "1", <<":sh">>),
              Pane("a-b", "0", "1", <<"">>, "1", <<":sh", "x">>),
              Pane("a/c", "1", "0", <<"">>, "0", <<":sh">>)}

MCWindows ==
    {[session |-> "a b", window |-> w, name |-> <<":vi">> \o rest, active |-> "1", auto |-> "on"]
        : w \in {"0", "1"}, rest \in {<<>>, <<"x">>}}
        \cup {[session |-> "a-b", window |-> "0", name |-> <<":">>, active |-> "0", auto |-> ":"]}

MCOddities ==
    { <<"">>, <<"state", "a b">>,
      <<"grouped_session", "b", "a b", ":0", ":1">>,
      <<"pane", "a b", "x", "1", ":*", "0", "t", ":/tmp", "1", "sh", ":sh">>,
      <<"pane", "a b", "0", "1", ":*", "0">>, <<"window", "a b", "0">> }

MCNumber == "0" :> 0 @@ "1" :> 1
MCStripped == ":/tmp" :> "/tmp" @@ ":sh" :> "sh" @@ ":claude" :> "claude" @@ ":vi" :> "vi" @@ ":" :> ""
MCKeyName == "a b" :> "a-b" @@ "a-b" :> "a-b" @@ "a/c" :> "a-c"
MCStrangers == { <<"a-b", "1", "1">>, <<"a b", "x", "0">> }
=============================================================================
