---------------------------- MODULE MCActiveRun ----------------------------
(* Small instances of ActiveRun for TLC. *)
EXTENDS ActiveRun, TLC

=============================================================================
