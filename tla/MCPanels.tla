------------------------------- MODULE MCPanels -------------------------------
(* A small instance of Panels for TLC. *)
EXTENDS Panels

CONSTANTS c1, c2, s1, s2

Symmetry == Permutations(Spaces)

Acts ==
  [p \in Panel |-> CASE p = "settings" -> 3 [] p = "knowledge" -> 3 [] p = "providers" -> 5
                     [] p = "accounts" -> 3 [] p = "messages" -> 3]

Turns == [ch \in Chats |-> IF ch = c1 THEN {1, 2, 4} ELSE {3, 5}]

=============================================================================
