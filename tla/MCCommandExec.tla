--------------------------- MODULE MCCommandExec ---------------------------
(* Small instances of CommandExec for TLC. *)
EXTENDS CommandExec
=============================================================================
