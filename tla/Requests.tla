------------------------------- MODULE Requests -------------------------------
(***************************************************************************)
(* The requests of one tab: frontend/src/lib/http and lib/api-client.      *)
(*                                                                         *)
(* A request is sent, taken by the server at some later moment, and        *)
(* answered at a third; on the way it may fail, before or after the server *)
(* took it.  Nothing orders two requests, nor their answers.  The panels   *)
(* built on this module say what each kind of request does.                *)
(***************************************************************************)
EXTENDS Integers, FiniteSets, TLC

CONSTANTS MaxActs     \* bound: what the user does

ASSUME ActsAssumption == MaxActs \in Nat

VARIABLES
  calls,         \* requests whose end the tab has not seen
  acts           \* what the user did

requestVars == <<calls, acts>>

Act == acts < MaxActs /\ acts' = acts + 1

Kind(k) == {c \in calls : c.kind = k}
Answered(k) == {c \in Kind(k) : c.phase = "answered"}
Failed(k) == {c \in Kind(k) : c.phase = "failed"}

(* A record with the fields of f, and those of g beside them: what @@ is,  *)
(* in terms the prover knows.                                              *)
Beside(f, g) ==
  [x \in DOMAIN f \cup DOMAIN g |-> IF x \in DOMAIN f THEN f[x] ELSE g[x]]

(* A request as it leaves.  A number tells it from others like it.         *)
Request(n, body) == Beside([n |-> n, phase |-> "sent", lost |-> FALSE], body)
Unused(cs) == CHOOSE n \in 0 .. Cardinality(cs) : n \notin {c.n : c \in cs}
AsNext(cs, body) == Request(Unused({c \in cs : c.kind = body.kind}), body)

Become(c, new) == calls' = (calls \ {c}) \cup {new}
Done(c) == calls' = calls \ {c}

(* apiRequest returns the body of the answer.                              *)
Reply(c, body) == Beside([phase |-> "answered", reply |-> body], c)

(* apiRequest throws: the server was not reached or refused, or what it    *)
(* answered is lost on the way.                                            *)
Broken(c) == Beside([phase |-> "failed", lost |-> c.phase # "sent"], c)

=============================================================================
