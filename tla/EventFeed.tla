------------------------------ MODULE EventFeed ------------------------------
(***************************************************************************)
(* What a generation run promises to the clients that watch it, without    *)
(* buffers, channels or locks: a numbered stream of events that grows until *)
(* it ends, and readers that each see consecutive events of it.  A reader   *)
(* is told "complete" only when it has the stream's last event.             *)
(***************************************************************************)
EXTENDS Naturals, Sequences

CONSTANTS
  Readers,
  MaxEvents  \* bound: the longest stream

VARIABLES
  length,  \* events published so far: they are 1..length
  ended,   \* nothing will be published any more
  from,    \* the last event each reader says it already has
  status,  \* "idle", "reading", "lost" (falls behind, will not complete),
           \* "complete"
  out      \* what each reader has been given

vars == <<length, ended, from, status, out>>

Init ==
  /\ length = 0
  /\ ended = FALSE
  /\ from = [r \in Readers |-> 0]
  /\ status = [r \in Readers |-> "idle"]
  /\ out = [r \in Readers |-> <<>>]

(* A reader that is not lost leaves the stream lost when it cannot keep up. *)
Append1(slow) ==
  /\ ~ended
  /\ length < MaxEvents
  /\ length' = length + 1
  /\ status' = [r \in Readers |->
                  IF r \in slow /\ status[r] = "reading" THEN "lost" ELSE status[r]]
  /\ UNCHANGED <<ended, from, out>>

End ==
  /\ ~ended
  /\ ended' = TRUE
  /\ UNCHANGED <<length, from, status, out>>

Ask(r) ==
  /\ status[r] = "idle"
  /\ \E n \in 0..MaxEvents : from' = [from EXCEPT ![r] = n]
  /\ UNCHANGED <<length, ended, status, out>>

Open(r) ==
  /\ status[r] = "idle"
  /\ status' = [status EXCEPT ![r] = "reading"]
  /\ UNCHANGED <<length, ended, from, out>>

(* The first event a reader gets is any published one, then each next one. *)
Read(r) ==
  /\ status[r] \in {"reading", "lost"}
  /\ \E n \in 1..length :
       /\ out[r] # <<>> => n = out[r][Len(out[r])] + 1
       /\ out' = [out EXCEPT ![r] = Append(@, n)]
  /\ UNCHANGED <<length, ended, from, status>>

Lose(r) ==
  /\ status[r] = "reading"
  /\ status' = [status EXCEPT ![r] = "lost"]
  /\ UNCHANGED <<length, ended, from, out>>

(* Nothing past what the reader already had is left to give. *)
CaughtUp(r) ==
  IF out[r] = <<>> THEN length <= from[r] ELSE out[r][Len(out[r])] = length

Complete(r) ==
  /\ status[r] = "reading"
  /\ ended
  /\ CaughtUp(r)
  /\ status' = [status EXCEPT ![r] = "complete"]
  /\ UNCHANGED <<length, ended, from, out>>

Next ==
  \/ \E slow \in SUBSET Readers : Append1(slow)
  \/ End
  \/ \E r \in Readers :
       Ask(r) \/ Open(r) \/ Read(r) \/ Lose(r) \/ Complete(r)

Spec == Init /\ [][Next]_vars

=============================================================================
