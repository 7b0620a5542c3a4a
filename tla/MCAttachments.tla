--------------------------- MODULE MCAttachments ---------------------------
(* Small instances of Attachments for TLC. *)
EXTENDS Attachments, TLC

CONSTANTS u1, u2, f1, f2

OneOwner == (f1 :> u1) @@ (f2 :> u1)
OneFile == (f1 :> u1)

HandlerSymmetry == Permutations(Workers \ {Sweeper})

=============================================================================
