------------------------------- MODULE MCGrep -------------------------------
(* Small instances of Grep for TLC. *)
EXTENDS Grep
=============================================================================
