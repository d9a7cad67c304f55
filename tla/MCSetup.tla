------------------------------ MODULE MCSetup ------------------------------
(* Two unit files, one of them the drop-in, and two renderings. *)
EXTENDS Setup

MCUnitFiles == <<"go-tmux-saver.timer", "50-go-tmux-saver.conf">>
=============================================================================
