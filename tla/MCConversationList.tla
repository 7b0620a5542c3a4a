------------------------- MODULE MCConversationList -------------------------
(* Small instances of ConversationList for TLC. *)
EXTENDS ConversationList, TLC

CONSTANTS a, b, later, work, t

Row(i, pinned, archived, folder, tags, at) ==
  [id |-> i, pinned |-> pinned, hit |-> FALSE, archived |-> archived,
   folder |-> folder, tags |-> tags, at |-> at]

MCStart == (a :> [Row(a, FALSE, FALSE, work, {t}, 2) EXCEPT !.hit = TRUE]) @@
           (b :> Row(b, FALSE, FALSE, Unfiled, {}, 1))

=============================================================================
