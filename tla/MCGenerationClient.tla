------------------------ MODULE MCGenerationClient ------------------------
(* Small instances of GenerationClient for TLC. *)
EXTENDS GenerationClient, TLC

CONSTANTS a, b

Symmetry == Permutations(Conversations)

=============================================================================
