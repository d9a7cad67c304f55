------------------------------- MODULE MCClient -------------------------------
(* Two callers on one connection; a reply is one of five bodies of up to two
   lines, which between them hold every kind of line. *)
EXTENDS ControlClient

MCBodies ==
    {<<>>, <<"text">>, <<"terminator", "text">>, <<"notice", "text">>, <<"overlong">>}
=============================================================================
