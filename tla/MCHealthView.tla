---------------------------- MODULE MCHealthView ----------------------------
(* The shell's banner and the history page; a channel of one.               *)
EXTENDS HealthView

MCListens == [shell |-> Topics, history |-> {"history", "queue"}]
=============================================================================
