---------------------------- MODULE MCGeneration ----------------------------
(* Small instances of Generation for TLC. *)
EXTENDS Generation, TLC

=============================================================================
