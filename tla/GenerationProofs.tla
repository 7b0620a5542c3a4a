-------------------------- MODULE GenerationProofs --------------------------
(***************************************************************************)
(* Proofs about Generation, for any number of requests, earlier turns and  *)
(* restarts.                                                               *)
(***************************************************************************)
EXTENDS Generation, Integers, TLAPS

(* Keys are unique and below the autoincrement counter, and so is every id *)
(* a request holds on to.                                                  *)
Keys ==
  /\ \A m, n \in messages : m.id = n.id => m = n
  /\ \A m \in messages : m.id < nextId
  /\ \A r \in Requests : reply[r] < nextId

(* A request is done when it has a run; a cancel request on its way to the  *)
(* run it found holds a run.                                               *)
Places ==
  \A r \in Requests :
    /\ pc[r] # "done" => run[r] = "none"
    /\ pc[r] \in {"found", "marked"} => victim[r] \in Requests

(* OneRun, up to the moment the run leaves the map. *)
Registered ==
  \A r \in Requests : run[r] \in Unfinished \union {"finished"} => activeStream = r

(* What a run has decided, stored and told, by where it is. *)
Closing ==
  \A r \in Requests :
    /\ run[r] \in {"none", "streaming", "continuing", "finalizing"} =>
         saved[r] = "none" /\ terminal[r] = <<>>
    /\ run[r] = "finalizing" => outcome[r] \in {"completed", "failed", "cancelled"}
    /\ run[r] = "reporting" =>
         /\ terminal[r] = <<>>
         /\ \/ outcome[r] \in {"completed", "failed", "cancelled"} /\ saved[r] = outcome[r]
            \/ outcome[r] = "unsaved" /\ saved[r] = "none"
    /\ run[r] \in {"returned", "finished"} => terminal[r] # <<>>
    /\ terminal[r] # <<>> => terminal[r] = <<ClosingEvent(saved[r])>>

(* The reason is on record before the context is cancelled, and a request   *)
(* or callback that is about to cancel has recorded it.                     *)
Reasons ==
  \A r \in Requests :
    /\ cancelled[r] => cancelReason[r] # "none" \/ run[r] \in {"finished", "gone"}
    /\ detaching[r] => cancelReason[r] # "none"
    /\ pc[r] = "marked" => cancelReason[victim[r]] # "none"

(* StopsAreStored, and a run has decided nothing while the model answers. *)
Outcomes ==
  /\ \A r \in Requests :
       run[r] \in {"none", "streaming", "continuing"} => outcome[r] = "none"
  /\ StopsAreStored

IInv ==
  /\ TypeOK
  /\ Keys
  /\ Places
  /\ Registered
  /\ SingleOwner
  /\ OwnedIsStreaming
  /\ Closing
  /\ Reasons
  /\ Outcomes

-----------------------------------------------------------------------------
(* A request starts. *)
LEMMA AskStep ==
  ASSUME IInv, NEW r \in Requests, Ask(r)
  PROVE  IInv'
<1>1. TypeOK'
  BY DEF IInv, TypeOK, RequestStates, Kinds, Replays, Ask, Goto, tableVars,
         runVars, cancelVars, Message
<1>2. Places'
  BY DEF IInv, Places, TypeOK, Ask, Goto, tableVars, runVars, cancelVars,
         Replays, Message
<1>3. SingleOwner'
  BY DEF IInv, SingleOwner, Owns, Writing, Keys, Places, TypeOK, Ask, Goto,
         tableVars, runVars, cancelVars, Replays, Message
<1>4. OwnedIsStreaming'
  BY DEF IInv, OwnedIsStreaming, SingleOwner, Owns, Writing, Keys, Places,
         TypeOK, Message, Ask, Goto, tableVars, runVars, cancelVars, Replays
<1>5. (Keys /\ Registered /\ Closing)'
  BY DEF IInv, Keys, Registered, Closing, Ask, Goto, tableVars, runVars,
         cancelVars, Replays, Message
<1>6. (Reasons /\ Outcomes)'
  BY DEF IInv, Reasons, Outcomes, StopsAreStored, TypeOK, Ask, Replays, Goto,
         tableVars, requestVars, runVars, cancelVars
<1> QED
  BY <1>1, <1>2, <1>3, <1>4, <1>5, <1>6 DEF IInv

(* A request for the latest reply starts. *)
LEMMA AskRegenerateLastStep ==
  ASSUME IInv, NEW r \in Requests, AskRegenerateLast(r)
  PROVE  IInv'
<1>1. TypeOK'
  BY DEF IInv, TypeOK, RequestStates, Kinds, Replays, AskRegenerateLast, Goto,
         tableVars, runVars, cancelVars, Message
<1>2. Places'
  BY DEF IInv, Places, TypeOK, AskRegenerateLast, Goto, tableVars, runVars,
         cancelVars, Message
<1>3. SingleOwner'
  BY DEF IInv, SingleOwner, Owns, Writing, Keys, Places, TypeOK,
         AskRegenerateLast, Goto, tableVars, runVars, cancelVars, Message
<1>4. OwnedIsStreaming'
  BY DEF IInv, OwnedIsStreaming, SingleOwner, Owns, Writing, Keys, Places,
         TypeOK, Message, AskRegenerateLast, Goto, tableVars, runVars,
         cancelVars
<1>5. (Keys /\ Registered /\ Closing)'
  BY DEF IInv, Keys, Registered, Closing, AskRegenerateLast, Goto, tableVars,
         runVars, cancelVars, Message
<1>6. (Reasons /\ Outcomes)'
  BY DEF IInv, Reasons, Outcomes, StopsAreStored, TypeOK, AskRegenerateLast, Goto,
         tableVars, requestVars, runVars, cancelVars
<1> QED
  BY <1>1, <1>2, <1>3, <1>4, <1>5, <1>6 DEF IInv

(* A request fails before it could register a run. *)
LEMMA FailStep ==
  ASSUME IInv, NEW r \in Requests, Fail(r)
  PROVE  IInv'
<1>1. TypeOK'
  BY DEF IInv, TypeOK, RequestStates, Fail, Goto, tableVars, runVars,
         cancelVars
<1>2. Places'
  BY DEF IInv, Places, TypeOK, Fail, Goto, tableVars, runVars, cancelVars
<1>3. SingleOwner'
  BY DEF IInv, SingleOwner, Owns, Writing, Keys, Places, TypeOK, Fail, Goto,
         tableVars, runVars, cancelVars
<1>4. OwnedIsStreaming'
  BY DEF IInv, OwnedIsStreaming, SingleOwner, Owns, Writing, Keys, Places,
         TypeOK, Message, Fail, Goto, tableVars, runVars, cancelVars
<1>5. (Keys /\ Registered /\ Closing)'
  BY DEF IInv, Keys, Registered, Closing, Fail, Goto, tableVars, runVars,
         cancelVars
<1>6. (Reasons /\ Outcomes)'
  BY DEF IInv, Reasons, Outcomes, StopsAreStored, TypeOK, Fail, Goto,
         tableVars, requestVars, runVars, cancelVars
<1> QED
  BY <1>1, <1>2, <1>3, <1>4, <1>5, <1>6 DEF IInv

(* A send stores a turn under fresh keys. *)
LEMMA SendStep ==
  ASSUME IInv, NEW r \in Requests, Send(r)
  PROVE  IInv'
<1>1. TypeOK'
  BY DEF IInv, TypeOK, RequestStates, Message, Statuses, Send, Prepared, Row,
         Goto, runVars, cancelVars
<1>2. Keys'
  BY DEF IInv, Keys, TypeOK, Message, Send, Prepared, Row, Goto, runVars,
         cancelVars
<1>3. Places'
  BY DEF IInv, Places, TypeOK, Send, Prepared, Row, Goto, runVars, cancelVars
<1>4. SingleOwner'
  BY DEF IInv, SingleOwner, Owns, Writing, Keys, Places, TypeOK, Send,
         Prepared, Row, Goto, runVars, cancelVars
<1>5. OwnedIsStreaming'
  BY DEF IInv, OwnedIsStreaming, SingleOwner, Owns, Writing, Keys, Places,
         TypeOK, Message, Send, Prepared, Row, Goto, runVars, cancelVars
<1>6. (Registered /\ Closing)'
  BY DEF IInv, Registered, Closing, Send, Prepared, Row, Goto, runVars,
         cancelVars
<1>7. (Reasons /\ Outcomes)'
  BY DEF IInv, Reasons, Outcomes, StopsAreStored, TypeOK, Send, Prepared, Goto,
         tableVars, requestVars, runVars, cancelVars
<1> QED
  BY <1>1, <1>2, <1>3, <1>4, <1>5, <1>6, <1>7 DEF IInv

(* A replay takes over a settled reply, which therefore nobody owns. *)
LEMMA ReplayStep ==
  ASSUME IInv, NEW r \in Requests, Replay(r)
  PROVE  IInv'
<1>1. TypeOK'
  BY DEF IInv, TypeOK, RequestStates, Message, Statuses, Replay, Prepared,
         Replayable, Replays, Goto, runVars, cancelVars
<1>2. Keys'
  <2>1. PICK m \in messages :
          /\ m.id = target[r]
          /\ messages' = {k \in messages : k.id < m.id}
                 \union {[m EXCEPT !.status = "streaming"]}
    BY DEF Replay
  <2> DEFINE emptied == [m EXCEPT !.status = "streaming"]
  <2>2. emptied.id = m.id
    BY DEF IInv, TypeOK, Message
  <2>3. messages' = {k \in messages : k.id < m.id} \union {emptied}
    BY <2>1
  <2> HIDE DEF emptied
  <2>4. \A k \in messages : k.id \in Nat /\ k.id < nextId
    BY DEF IInv, Keys, TypeOK, Message
  <2>5. \A k \in messages' : k.id < nextId
    BY <2>2, <2>3, <2>4
  <2>6. \A k \in messages' : k.id < m.id \/ k = emptied
    BY <2>3
  <2>7. \A k, n \in messages' : k.id = n.id => k = n
    BY <2>2, <2>3, <2>4, <2>6 DEF IInv, Keys
  <2>8. \A q \in Requests : reply'[q] < nextId
    BY <2>1 DEF IInv, Keys, TypeOK, Message, Replay, Prepared
  <2> QED
    BY <2>5, <2>7, <2>8 DEF Keys, Replay
<1>3. Places'
  BY DEF IInv, Places, TypeOK, Replay, Prepared, Replayable, Replays, Goto,
         runVars, cancelVars
<1>4. SingleOwner'
  <2>1. PICK m \in messages : m.id = target[r] /\ m.status # "streaming"
    BY DEF Replay, Replayable
  <2>2. \A q \in Requests : Owns(q) => reply[q] # target[r]
    BY <2>1 DEF IInv, OwnedIsStreaming
  <2>3. \A q \in Requests \ {r} : Owns(q)' => Owns(q) /\ reply'[q] = reply[q]
    BY DEF IInv, TypeOK, Owns, Replay, Prepared, Goto, runVars
  <2>4. reply'[r] = target[r]
    BY DEF IInv, TypeOK, Replay, Prepared
  <2> QED
    BY <2>2, <2>3, <2>4 DEF IInv, SingleOwner
<1>5. OwnedIsStreaming'
  BY DEF IInv, OwnedIsStreaming, SingleOwner, Owns, Writing, Keys, Places,
         TypeOK, Message, Replay, Prepared, Replayable, Replays, Goto, runVars,
         cancelVars
<1>6. (Registered /\ Closing)'
  BY DEF IInv, Registered, Closing, Replay, Prepared, Replayable, Replays,
         Goto, runVars, cancelVars
<1>7. (Reasons /\ Outcomes)'
  BY DEF IInv, Reasons, Outcomes, StopsAreStored, TypeOK, Replay, Prepared, Goto,
         tableVars, requestVars, runVars, cancelVars
<1> QED
  BY <1>1, <1>2, <1>3, <1>4, <1>5, <1>6, <1>7 DEF IInv

(* An edit adds a reply under a fresh key. *)
LEMMA EditStep ==
  ASSUME IInv, NEW r \in Requests, Edit(r)
  PROVE  IInv'
<1>1. TypeOK'
  BY DEF IInv, TypeOK, RequestStates, Message, Statuses, Edit, UpTo, Prepared, Row,
         Goto, runVars, cancelVars
<1>2. Keys'
  BY DEF IInv, Keys, TypeOK, Message, Edit, UpTo, Prepared, Row, Goto, runVars,
         cancelVars
<1>3. Places'
  BY DEF IInv, Places, TypeOK, Edit, Prepared, Row, Goto, runVars, cancelVars
<1>4. SingleOwner'
  BY DEF IInv, SingleOwner, Owns, Writing, Keys, Places, TypeOK, Edit,
         Prepared, Row, Goto, runVars, cancelVars
<1>5. OwnedIsStreaming'
  BY DEF IInv, OwnedIsStreaming, SingleOwner, Owns, Writing, Keys, Places,
         TypeOK, Message, Edit, UpTo, Prepared, Row, Goto, runVars, cancelVars
<1>6. (Registered /\ Closing)'
  BY DEF IInv, Registered, Closing, Edit, Prepared, Row, Goto, runVars,
         cancelVars
<1>7. (Reasons /\ Outcomes)'
  BY DEF IInv, Reasons, Outcomes, StopsAreStored, TypeOK, Edit, Prepared, Goto,
         tableVars, requestVars, runVars, cancelVars
<1> QED
  BY <1>1, <1>2, <1>3, <1>4, <1>5, <1>6, <1>7 DEF IInv

(* A request has prepared its model call. *)
LEMMA BuildStep ==
  ASSUME IInv, NEW r \in Requests, Build(r)
  PROVE  IInv'
<1>1. TypeOK'
  BY DEF IInv, TypeOK, RequestStates, Build, Goto, tableVars, runVars,
         cancelVars
<1>2. Places'
  BY DEF IInv, Places, TypeOK, Build, Goto, tableVars, runVars, cancelVars
<1>3. SingleOwner'
  BY DEF IInv, SingleOwner, Owns, Writing, Keys, Places, TypeOK, Build, Goto,
         tableVars, runVars, cancelVars
<1>4. OwnedIsStreaming'
  BY DEF IInv, OwnedIsStreaming, SingleOwner, Owns, Writing, Keys, Places,
         TypeOK, Message, Build, Goto, tableVars, runVars, cancelVars
<1>5. (Keys /\ Registered /\ Closing)'
  BY DEF IInv, Keys, Registered, Closing, Build, Goto, tableVars, runVars,
         cancelVars
<1>6. (Reasons /\ Outcomes)'
  BY DEF IInv, Reasons, Outcomes, StopsAreStored, TypeOK, Build, Goto,
         tableVars, requestVars, runVars, cancelVars
<1> QED
  BY <1>1, <1>2, <1>3, <1>4, <1>5, <1>6 DEF IInv

(* A request launches its run, or is refused. *)
LEMMA RegisterStep ==
  ASSUME IInv, NEW r \in Requests, Register(r)
  PROVE  IInv'
<1>1. TypeOK'
  BY DEF IInv, TypeOK, RequestStates, RunStates, Unfinished, Register, Goto,
         tableVars, cancelVars
<1>2. Places'
  BY DEF IInv, Places, TypeOK, Register, Goto, tableVars, cancelVars
<1>3. Registered'
  BY NoRunAssumption DEF IInv, Registered, Places, TypeOK, Unfinished,
          Register, Goto, tableVars, cancelVars
<1>4. SingleOwner'
  BY DEF IInv, SingleOwner, Owns, Writing, Keys, Places, TypeOK, Register,
         Goto, tableVars, cancelVars
<1>5. OwnedIsStreaming'
  BY DEF IInv, OwnedIsStreaming, SingleOwner, Owns, Writing, Keys, Places,
         TypeOK, Message, Register, Goto, tableVars, cancelVars
<1>6. Closing'
  BY DEF IInv, Closing, Places, TypeOK, Unfinished, Register, Goto, tableVars,
         cancelVars
<1>7. Keys'
  BY DEF IInv, Keys, Register, Goto, tableVars, cancelVars
<1>8. (Reasons /\ Outcomes)'
  <2>1. \/ run' = run
        \/ run' = [run EXCEPT ![r] = "streaming"]
    BY DEF Register
  <2>2. run[r] = "none" /\ outcome[r] = "none"
    BY DEF IInv, Places, Outcomes, Register
  <2>3. Outcomes'
    BY <2>1, <2>2 DEF IInv, Outcomes, StopsAreStored, TypeOK, Register
  <2>4. cancelled[r] => cancelReason[r] # "none"
    BY <2>2 DEF IInv, Reasons
  <2>5. pc' = [pc EXCEPT ![r] = "done"]
    BY DEF Register, Goto
  <2>6. Reasons'
    BY <2>1, <2>4, <2>5 DEF IInv, Reasons, TypeOK, Register, cancelVars
  <2> QED
    BY <2>3, <2>6
<1> QED
  BY <1>1, <1>2, <1>3, <1>4, <1>5, <1>6, <1>7, <1>8 DEF IInv

(* The model call of a run returns. *)
LEMMA ModelReturnsStep ==
  ASSUME IInv, NEW r \in Requests, ModelReturns(r)
  PROVE  IInv'
<1>1. TypeOK'
  <2>1. PICK result \in Results :
          \/ outcome' = outcome
          \/ outcome' = [outcome EXCEPT ![r] = StatusOf(r, result)]
    BY DEF ModelReturns
  <2>2. StatusOf(r, result) \in Statuses
    BY DEF StatusOf, Statuses
  <2>3. outcome' \in [Requests -> Statuses \union {"none", "unsaved"}]
    BY <2>1, <2>2 DEF IInv, TypeOK
  <2>4. \/ run' = [run EXCEPT ![r] = "continuing"]
        \/ run' = [run EXCEPT ![r] = "finalizing"]
    BY DEF ModelReturns
  <2>5. run' \in [Requests -> RunStates]
    BY <2>4 DEF IInv, TypeOK, RunStates, Unfinished
  <2> QED
    BY <2>3, <2>5 DEF IInv, TypeOK, ModelReturns, tableVars, requestVars, cancelVars
<1>2. Places'
  BY DEF IInv, Places, TypeOK, ModelReturns, ShouldAutoContinue, StatusOf,
         Results, tableVars, requestVars, cancelVars
<1>3. Registered'
  BY DEF IInv, Registered, Places, TypeOK, Unfinished, ModelReturns,
         ShouldAutoContinue, StatusOf, Results, tableVars, requestVars,
         cancelVars
<1>4. SingleOwner'
  BY DEF IInv, SingleOwner, Owns, Writing, Keys, Places, TypeOK, ModelReturns,
         ShouldAutoContinue, StatusOf, Results, tableVars, requestVars,
         cancelVars
<1>5. OwnedIsStreaming'
  BY DEF IInv, OwnedIsStreaming, SingleOwner, Owns, Writing, Keys, Places,
         TypeOK, Message, ModelReturns, ShouldAutoContinue, StatusOf, Results,
         tableVars, requestVars, cancelVars
<1>6. Closing'
  BY DEF IInv, Closing, Places, TypeOK, Unfinished, ModelReturns,
         ShouldAutoContinue, StatusOf, Results, tableVars, requestVars,
         cancelVars
<1>7. Keys'
  BY DEF IInv, Keys, ModelReturns, ShouldAutoContinue, StatusOf, Results,
         tableVars, requestVars, cancelVars
<1>8. (Reasons /\ Outcomes)'
  <2>1. PICK result \in Results :
          /\ result = "canceled" => cancelled[r]
          /\ \/ /\ run' = [run EXCEPT ![r] = "continuing"]
                /\ outcome' = outcome /\ interrupted' = interrupted
             \/ /\ run' = [run EXCEPT ![r] = "finalizing"]
                /\ outcome' = [outcome EXCEPT ![r] = StatusOf(r, result)]
                /\ interrupted' = [interrupted EXCEPT ![r] = result = "canceled"]
    BY DEF ModelReturns
  <2>2. run[r] \in {"streaming", "continuing"} /\ outcome[r] = "none" /\ saved[r] = "none"
    BY DEF IInv, Outcomes, Closing, ModelReturns
  <2>3. cancelled[r] => cancelReason[r] \in {"user", "detached"}
    BY <2>2 DEF IInv, Reasons, TypeOK
  <2>4. Reasons'
    BY <2>1, <2>2, <2>3 DEF IInv, Reasons, TypeOK, ModelReturns, requestVars, cancelVars
  <2>5. StatusOf(r, result) = "cancelled" <=> result = "canceled"
    BY <2>1, <2>3 DEF StatusOf
  <2>6. saved' = saved
    BY DEF ModelReturns
  <2>7. \A q \in Requests \ {r} :
          run'[q] = run[q] /\ outcome'[q] = outcome[q] /\ (interrupted'[q] <=> interrupted[q])
    BY <2>1 DEF IInv, TypeOK
  <2>8. run'[r] \in {"none", "streaming", "continuing"} => outcome'[r] = "none"
    BY <2>1, <2>2 DEF IInv, TypeOK
  <2>9. outcome'[r] # "none" => (outcome'[r] = "cancelled" <=> interrupted'[r])
    <3>1. CASE outcome' = outcome
      BY <3>1, <2>2
    <3>2. CASE /\ outcome' = [outcome EXCEPT ![r] = StatusOf(r, result)]
               /\ interrupted' = [interrupted EXCEPT ![r] = result = "canceled"]
      <4>1. outcome'[r] = StatusOf(r, result)
        BY <3>2 DEF IInv, TypeOK
      <4>2. interrupted'[r] <=> result = "canceled"
        BY <3>2 DEF IInv, TypeOK
      <4> QED
        BY <4>1, <4>2, <2>5
    <3> QED
      BY <2>1, <3>1, <3>2
  <2>10. Outcomes'
    BY <2>2, <2>6, <2>7, <2>8, <2>9 DEF IInv, Outcomes, StopsAreStored
  <2> QED
    BY <2>4, <2>10
<1> QED
  BY <1>1, <1>2, <1>3, <1>4, <1>5, <1>6, <1>7, <1>8 DEF IInv

(* A run settles its reply, and nobody else owns that row. *)
LEMMA FinalizeStep ==
  ASSUME IInv, NEW r \in Requests, Finalize(r)
  PROVE  IInv'
<1>1. TypeOK'
  <2> DEFINE settled(m) == IF m.id = reply[r] THEN [m EXCEPT !.status = outcome[r]] ELSE m
  <2>1. outcome[r] \in Statuses
    BY DEF IInv, Closing, Finalize, Statuses
  <2>2. \A m \in messages : settled(m) \in Message
    BY <2>1 DEF IInv, TypeOK, Message
  <2>3. messages' \subseteq Message
    BY <2>2 DEF Finalize, Settle
  <2> QED
    BY <2>1, <2>3 DEF IInv, TypeOK, RunStates, Unfinished, Finalize, requestVars,
                      cancelVars
<1>2. Keys'
  <2> DEFINE settled(m) == IF m.id = reply[r] THEN [m EXCEPT !.status = outcome[r]] ELSE m
  <2>1. \A m \in messages : settled(m).id = m.id
    BY DEF IInv, TypeOK, Message
  <2>2. messages' = {settled(m) : m \in messages}
    BY DEF Finalize, Settle
  <2> HIDE DEF settled
  <2>3. \A m, n \in messages' : m.id = n.id => m = n
    BY <2>1, <2>2 DEF IInv, Keys
  <2>4. \A m \in messages' : m.id < nextId
    BY <2>1, <2>2 DEF IInv, Keys
  <2> QED
    BY <2>3, <2>4 DEF IInv, Keys, Finalize, requestVars
<1>3. Places'
  BY DEF IInv, Places, TypeOK, Finalize, requestVars, cancelVars
<1>4. Registered'
  BY DEF IInv, Registered, Places, TypeOK, Unfinished, Finalize, requestVars,
         cancelVars
<1>5. SingleOwner'
  BY DEF IInv, SingleOwner, Owns, Writing, Keys, Places, TypeOK, Finalize,
         requestVars, cancelVars
<1>6. OwnedIsStreaming'
  <2> DEFINE settled(m) == IF m.id = reply[r] THEN [m EXCEPT !.status = outcome[r]] ELSE m
  <2> SUFFICES ASSUME NEW q \in Requests, Owns(q)',
                      NEW n \in messages', n.id = reply'[q]
               PROVE  n.role = "assistant" /\ n.status = "streaming"
    BY DEF OwnedIsStreaming
  <2>1. Owns(r) /\ pc[r] = "done" /\ ~Owns(r)'
    BY DEF IInv, TypeOK, Places, Owns, Writing, Finalize, requestVars, RequestStates
  <2>2. q # r /\ Owns(q) /\ reply'[q] = reply[q]
    BY <2>1 DEF IInv, TypeOK, Owns, Finalize, requestVars
  <2>3. reply[q] # reply[r]
    BY <2>1, <2>2 DEF IInv, SingleOwner
  <2>4. PICK m \in messages : n = settled(m)
    BY DEF Finalize, Settle
  <2>5. m.id = n.id
    BY <2>4 DEF IInv, TypeOK, Message
  <2>6. n = m
    BY <2>2, <2>3, <2>4, <2>5
  <2> QED
    BY <2>2, <2>6 DEF IInv, OwnedIsStreaming
<1>7. Closing'
  BY DEF IInv, Closing, Places, TypeOK, Unfinished, Finalize, requestVars,
         cancelVars
<1>8. (Reasons /\ Outcomes)'
  <2>1. outcome[r] \in {"completed", "failed", "cancelled"} /\ run[r] = "finalizing"
    BY DEF IInv, Closing, Finalize
  <2>2. outcome[r] = "cancelled" <=> interrupted[r]
    BY <2>1 DEF IInv, Outcomes, StopsAreStored
  <2>3. Outcomes'
    BY <2>1, <2>2 DEF IInv, Outcomes, StopsAreStored, TypeOK, Finalize
  <2>4. Reasons'
    BY <2>1 DEF IInv, Reasons, TypeOK, Finalize, requestVars, cancelVars
  <2> QED
    BY <2>3, <2>4
<1> QED
  BY <1>1, <1>2, <1>3, <1>4, <1>5, <1>6, <1>7, <1>8 DEF IInv

(* The final update of a run fails. *)
LEMMA FinalizeFailsStep ==
  ASSUME IInv, NEW r \in Requests, FinalizeFails(r)
  PROVE  IInv'
<1>1. TypeOK'
  BY DEF IInv, TypeOK, RunStates, Unfinished, Statuses, FinalizeFails,
         tableVars, requestVars, cancelVars
<1>2. Places'
  BY DEF IInv, Places, TypeOK, FinalizeFails, tableVars, requestVars,
         cancelVars
<1>3. Registered'
  BY DEF IInv, Registered, Places, TypeOK, Unfinished, FinalizeFails,
         tableVars, requestVars, cancelVars
<1>4. SingleOwner'
  BY DEF IInv, SingleOwner, Owns, Writing, Keys, Places, TypeOK, FinalizeFails,
         tableVars, requestVars, cancelVars
<1>5. OwnedIsStreaming'
  BY DEF IInv, OwnedIsStreaming, SingleOwner, Owns, Writing, Keys, Places,
         TypeOK, Message, FinalizeFails, tableVars, requestVars, cancelVars
<1>6. Closing'
  BY DEF IInv, Closing, Places, TypeOK, Unfinished, FinalizeFails, tableVars,
         requestVars, cancelVars
<1>7. Keys'
  BY DEF IInv, Keys, FinalizeFails, tableVars, requestVars, cancelVars
<1>8. (Reasons /\ Outcomes)'
  BY DEF IInv, Reasons, Outcomes, StopsAreStored, TypeOK, FinalizeFails,
         tableVars, requestVars, runVars, cancelVars
<1> QED
  BY <1>1, <1>2, <1>3, <1>4, <1>5, <1>6, <1>7, <1>8 DEF IInv

(* A run publishes its closing event. *)
LEMMA ReportStep ==
  ASSUME IInv, NEW r \in Requests, Report(r)
  PROVE  IInv'
<1>1. TypeOK'
  BY DEF IInv, TypeOK, RunStates, Unfinished, Report, ClosingEvent, tableVars,
         requestVars, cancelVars
<1>2. Places'
  BY DEF IInv, Places, TypeOK, Report, ClosingEvent, tableVars, requestVars,
         cancelVars
<1>3. Registered'
  BY DEF IInv, Registered, Places, TypeOK, Unfinished, Report, ClosingEvent,
         tableVars, requestVars, cancelVars
<1>4. SingleOwner'
  BY DEF IInv, SingleOwner, Owns, Writing, Keys, Places, TypeOK, Report,
         ClosingEvent, tableVars, requestVars, cancelVars
<1>5. OwnedIsStreaming'
  BY DEF IInv, OwnedIsStreaming, SingleOwner, Owns, Writing, Keys, Places,
         TypeOK, Message, Report, ClosingEvent, tableVars, requestVars,
         cancelVars
<1>6. Closing'
  <2>1. run[r] = "reporting" /\ terminal[r] = <<>>
    BY DEF IInv, Closing, Report
  <2>2. terminal'[r] = <<ClosingEvent(outcome[r])>>
    BY <2>1 DEF IInv, TypeOK, Report
  <2>3. ClosingEvent(outcome[r]) = ClosingEvent(saved[r])
    BY <2>1 DEF IInv, Closing, ClosingEvent
  <2>4. \A q \in Requests \ {r} : terminal'[q] = terminal[q] /\ run'[q] = run[q]
    BY DEF IInv, TypeOK, Report
  <2>5. run'[r] = "returned"
    BY DEF IInv, TypeOK, Report
  <2>6. \A q \in Requests : outcome'[q] = outcome[q] /\ saved'[q] = saved[q]
                             /\ cancelReason'[q] = cancelReason[q]
    BY DEF Report, cancelVars
  <2>7. \A q \in Requests : ClosingEvent(saved[q])' = ClosingEvent(saved[q])
    BY <2>6 DEF ClosingEvent
  <2> QED
    BY <2>2, <2>3, <2>4, <2>5, <2>6, <2>7 DEF IInv, Closing
<1>7. Keys'
  BY DEF IInv, Keys, Report, ClosingEvent, tableVars, requestVars, cancelVars
<1>8. (Reasons /\ Outcomes)'
  BY DEF IInv, Reasons, Outcomes, StopsAreStored, TypeOK, Report,
         tableVars, requestVars, runVars, cancelVars
<1> QED
  BY <1>1, <1>2, <1>3, <1>4, <1>5, <1>6, <1>7, <1>8 DEF IInv

(* A run finishes. *)
LEMMA FinishRunStep ==
  ASSUME IInv, NEW r \in Requests, FinishRun(r)
  PROVE  IInv'
<1>1. TypeOK'
  BY DEF IInv, TypeOK, RunStates, Unfinished, FinishRun, tableVars, requestVars
<1>2. Places'
  BY DEF IInv, Places, TypeOK, FinishRun, tableVars, requestVars
<1>3. Registered'
  BY DEF IInv, Registered, Places, TypeOK, Unfinished, FinishRun, tableVars,
         requestVars
<1>4. SingleOwner'
  BY DEF IInv, SingleOwner, Owns, Writing, Keys, Places, TypeOK, FinishRun,
         tableVars, requestVars
<1>5. OwnedIsStreaming'
  BY DEF IInv, OwnedIsStreaming, SingleOwner, Owns, Writing, Keys, Places,
         TypeOK, Message, FinishRun, tableVars, requestVars
<1>6. Closing'
  BY DEF IInv, Closing, Places, TypeOK, Unfinished, FinishRun, tableVars,
         requestVars
<1>7. Keys'
  BY DEF IInv, Keys, FinishRun, tableVars, requestVars
<1>8. (Reasons /\ Outcomes)'
  BY DEF IInv, Reasons, Outcomes, StopsAreStored, TypeOK, FinishRun,
         tableVars, requestVars, runVars, cancelVars
<1> QED
  BY <1>1, <1>2, <1>3, <1>4, <1>5, <1>6, <1>7, <1>8 DEF IInv

(* A run leaves the map. *)
LEMMA UnregisterStep ==
  ASSUME IInv, NEW r \in Requests, Unregister(r)
  PROVE  IInv'
<1>1. TypeOK'
  BY DEF IInv, TypeOK, RunStates, Unfinished, Unregister, tableVars,
         requestVars, cancelVars
<1>2. Places'
  BY DEF IInv, Places, TypeOK, Unregister, tableVars, requestVars, cancelVars
<1>3. Registered'
  BY NoRunAssumption DEF IInv, Registered, Places, TypeOK, Unfinished,
          Unregister, tableVars, requestVars, cancelVars
<1>4. SingleOwner'
  BY DEF IInv, SingleOwner, Owns, Writing, Keys, Places, TypeOK, Unregister,
         tableVars, requestVars, cancelVars
<1>5. OwnedIsStreaming'
  BY DEF IInv, OwnedIsStreaming, SingleOwner, Owns, Writing, Keys, Places,
         TypeOK, Message, Unregister, tableVars, requestVars, cancelVars
<1>6. Closing'
  BY DEF IInv, Closing, Places, TypeOK, Unfinished, Unregister, tableVars,
         requestVars, cancelVars
<1>7. Keys'
  BY DEF IInv, Keys, Unregister, tableVars, requestVars, cancelVars
<1>8. (Reasons /\ Outcomes)'
  BY DEF IInv, Reasons, Outcomes, StopsAreStored, TypeOK, Unregister,
         tableVars, requestVars, runVars, cancelVars
<1> QED
  BY <1>1, <1>2, <1>3, <1>4, <1>5, <1>6, <1>7, <1>8 DEF IInv

(* The detach callback records its reason. *)
LEMMA DetachSetsReasonStep ==
  ASSUME IInv, NEW r \in Requests, DetachSetsReason(r)
  PROVE  IInv'
<1>1. TypeOK'
  BY DEF IInv, TypeOK, DetachSetsReason, SetCancelReason, tableVars,
         requestVars, runVars
<1>2. Closing'
  BY DEF IInv, Closing, Places, TypeOK, DetachSetsReason, SetCancelReason,
         tableVars, requestVars, runVars
<1>3. (Keys /\ Places /\ Registered /\ SingleOwner /\ OwnedIsStreaming)'
  BY DEF IInv, Keys, Places, Registered, SingleOwner, OwnedIsStreaming, Owns,
         DetachSetsReason, SetCancelReason, tableVars, requestVars, runVars
<1>4. (Reasons /\ Outcomes)'
  BY DEF IInv, Reasons, Outcomes, StopsAreStored, TypeOK, DetachSetsReason, SetCancelReason, Unfinished,
         tableVars, requestVars, runVars, cancelVars
<1> QED
  BY <1>1, <1>2, <1>3, <1>4 DEF IInv

(* The detach callback cancels the run. *)
LEMMA DetachCancelsStep ==
  ASSUME IInv, NEW r \in Requests, DetachCancels(r)
  PROVE  IInv'
<1>1. TypeOK'
  BY DEF IInv, TypeOK, DetachCancels, tableVars, requestVars, runVars
<1>2. (Keys /\ Places /\ Registered /\ SingleOwner /\ OwnedIsStreaming /\ Closing)'
  BY DEF IInv, Keys, Places, Registered, SingleOwner, OwnedIsStreaming,
         Closing, Owns, DetachCancels, tableVars, requestVars, runVars
<1>3. (Reasons /\ Outcomes)'
  BY DEF IInv, Reasons, Outcomes, StopsAreStored, TypeOK, DetachCancels,
         tableVars, requestVars, runVars, cancelVars
<1> QED
  BY <1>1, <1>2, <1>3 DEF IInv

(* A cancel request looks for the run. *)
LEMMA CancelLookupStep ==
  ASSUME IInv, NEW r \in Requests, CancelLookup(r)
  PROVE  IInv'
<1>1. TypeOK'
  BY DEF IInv, TypeOK, RequestStates, CancelLookup, Goto, tableVars, runVars,
         cancelVars
<1>2. Places'
  BY DEF IInv, Places, TypeOK, CancelLookup, Goto, tableVars, runVars,
         cancelVars
<1>3. SingleOwner'
  BY DEF IInv, SingleOwner, Owns, Writing, Keys, Places, TypeOK, CancelLookup,
         Goto, tableVars, runVars, cancelVars
<1>4. OwnedIsStreaming'
  BY DEF IInv, OwnedIsStreaming, SingleOwner, Owns, Writing, Keys, Places,
         TypeOK, Message, CancelLookup, Goto, tableVars, runVars, cancelVars
<1>5. (Keys /\ Registered /\ Closing)'
  BY DEF IInv, Keys, Registered, Closing, CancelLookup, Goto, tableVars,
         runVars, cancelVars
<1>6. (Reasons /\ Outcomes)'
  BY DEF IInv, Reasons, Outcomes, StopsAreStored, TypeOK, Places, CancelLookup, Goto,
         tableVars, requestVars, runVars, cancelVars
<1> QED
  BY <1>1, <1>2, <1>3, <1>4, <1>5, <1>6 DEF IInv

(* A cancel request records its reason. *)
LEMMA CancelSetsReasonStep ==
  ASSUME IInv, NEW r \in Requests, CancelSetsReason(r)
  PROVE  IInv'
<1>1. TypeOK'
  BY DEF IInv, TypeOK, RequestStates, CancelSetsReason, Goto, SetCancelReason,
         tableVars, runVars
<1>2. Places'
  BY DEF IInv, Places, TypeOK, CancelSetsReason, Goto, SetCancelReason,
         tableVars, runVars
<1>3. SingleOwner'
  BY DEF IInv, SingleOwner, Owns, Writing, Keys, Places, TypeOK,
         CancelSetsReason, Goto, SetCancelReason, tableVars, runVars
<1>4. OwnedIsStreaming'
  BY DEF IInv, OwnedIsStreaming, SingleOwner, Owns, Writing, Keys, Places,
         TypeOK, Message, CancelSetsReason, Goto, SetCancelReason, tableVars,
         runVars
<1>5. Closing'
  BY DEF IInv, Closing, Places, TypeOK, CancelSetsReason, Goto,
         SetCancelReason, tableVars, runVars
<1>6. (Keys /\ Registered)'
  BY DEF IInv, Keys, Registered, CancelSetsReason, Goto, SetCancelReason,
         tableVars, runVars
<1>7. (Reasons /\ Outcomes)'
  BY DEF IInv, Reasons, Outcomes, StopsAreStored, TypeOK, Places, CancelSetsReason, SetCancelReason, Goto,
         tableVars, requestVars, runVars, cancelVars
<1> QED
  BY <1>1, <1>2, <1>3, <1>4, <1>5, <1>6, <1>7 DEF IInv

(* A cancel request cancels the run it found. *)
LEMMA CancelCancelsStep ==
  ASSUME IInv, NEW r \in Requests, CancelCancels(r)
  PROVE  IInv'
<1>1. TypeOK'
  BY DEF IInv, TypeOK, RequestStates, CancelCancels, Goto, tableVars, runVars
<1>2. Places'
  BY DEF IInv, Places, TypeOK, CancelCancels, Goto, tableVars, runVars
<1>3. SingleOwner'
  BY DEF IInv, SingleOwner, Owns, Writing, Keys, Places, TypeOK, CancelCancels,
         Goto, tableVars, runVars
<1>4. OwnedIsStreaming'
  BY DEF IInv, OwnedIsStreaming, SingleOwner, Owns, Writing, Keys, Places,
         TypeOK, Message, CancelCancels, Goto, tableVars, runVars
<1>5. (Keys /\ Registered /\ Closing)'
  BY DEF IInv, Keys, Registered, Closing, CancelCancels, Goto, tableVars,
         runVars
<1>6. (Reasons /\ Outcomes)'
  BY DEF IInv, Reasons, Outcomes, StopsAreStored, TypeOK, Places, CancelCancels, Goto,
         tableVars, requestVars, runVars, cancelVars
<1> QED
  BY <1>1, <1>2, <1>3, <1>4, <1>5, <1>6 DEF IInv

(* The conversation is deleted. *)
LEMMA DeleteStep ==
  ASSUME IInv, NEW r \in Requests, Delete(r)
  PROVE  IInv'
<1>1. TypeOK'
  BY DEF IInv, TypeOK, RequestStates, Message, Statuses, Delete, Goto, runVars,
         cancelVars
<1>2. Keys'
  BY DEF IInv, Keys, TypeOK, Message, Delete, Goto, runVars, cancelVars
<1>3. Places'
  BY DEF IInv, Places, TypeOK, Delete, Goto, runVars, cancelVars
<1>4. SingleOwner'
  BY DEF IInv, SingleOwner, Owns, Writing, Keys, Places, TypeOK, Delete, Goto,
         runVars, cancelVars
<1>5. OwnedIsStreaming'
  BY DEF IInv, OwnedIsStreaming, SingleOwner, Owns, Writing, Keys, Places,
         TypeOK, Message, Delete, Goto, runVars, cancelVars
<1>6. (Registered /\ Closing)'
  BY DEF IInv, Registered, Closing, Delete, Goto, runVars, cancelVars
<1>7. (Reasons /\ Outcomes)'
  BY DEF IInv, Reasons, Outcomes, StopsAreStored, TypeOK, Delete, Goto,
         tableVars, requestVars, runVars, cancelVars
<1> QED
  BY <1>1, <1>2, <1>3, <1>4, <1>5, <1>6, <1>7 DEF IInv

(* Requests not yet done, and runs not yet ended, are swept by a restart. *)
LEMMA RestartStep ==
  ASSUME IInv, Restart
  PROVE  IInv'
<1>1. TypeOK'
  BY RestartsAssumption DEF IInv, TypeOK, RequestStates, RunStates, Unfinished,
     Restart, tableVars, cancelVars
<1>2. \A r \in Requests : ~Owns(r)'
  BY DEF IInv, Owns, Writing, Restart
<1>3. (SingleOwner /\ OwnedIsStreaming)'
  BY <1>2 DEF SingleOwner, OwnedIsStreaming
<1>4. (Keys /\ Places /\ Registered)'
  BY DEF IInv, TypeOK, Keys, Places, Registered, Unfinished, Restart, tableVars
<1>5. Closing'
  BY DEF IInv, TypeOK, Closing, Restart, cancelVars
<1>6. (Reasons /\ Outcomes)'
  BY DEF IInv, Reasons, Outcomes, StopsAreStored, TypeOK, Restart,
         tableVars, requestVars, runVars, cancelVars
<1> QED
  BY <1>1, <1>3, <1>4, <1>5, <1>6 DEF IInv

-----------------------------------------------------------------------------
(* The stored conversation and the idle requests satisfy the invariant. *)
LEMMA InitIInv == Init => IInv
<1> SUFFICES ASSUME Init PROVE IInv
  OBVIOUS
<1>1. TypeOK
  <2>1. messages \subseteq Message
    BY TurnsAssumption DEF Init, Message, Row, Statuses
  <2>2. nextId \in Nat
    BY TurnsAssumption DEF Init
  <2> QED
    BY <2>1, <2>2, RestartsAssumption DEF Init, TypeOK, RequestStates, RunStates,
       Unfinished, Statuses, Kinds, Replays
<1>2. Keys
  <2>1. \A m, n \in messages : m.id = n.id => m = n
    BY TurnsAssumption DEF Init, Row
  <2>2. \A m \in messages : m.id < nextId
    BY TurnsAssumption DEF Init, Row
  <2>3. \A r \in Requests : reply[r] < nextId
    <3>1. 0 < 2 * EarlierTurns + 1
      BY TurnsAssumption
    <3> QED
      BY <3>1 DEF Init
  <2> QED
    BY <2>1, <2>2, <2>3 DEF Keys
<1>3. Places /\ Registered /\ Closing /\ Reasons /\ Outcomes
  BY DEF Init, Places, Registered, Closing, Unfinished, Reasons, Outcomes,
     StopsAreStored
<1>4. \A r \in Requests : ~Owns(r)
  BY DEF Init, Owns, Writing
<1>5. SingleOwner /\ OwnedIsStreaming
  BY <1>4 DEF SingleOwner, OwnedIsStreaming
<1> QED
  BY <1>1, <1>2, <1>3, <1>5 DEF IInv

(* Every step of a request, a run or a restart keeps the invariant. *)
LEMMA NextIInv == IInv /\ [Next]_vars => IInv'
<1> SUFFICES ASSUME IInv, [Next]_vars PROVE IInv'
  OBVIOUS
<1>1. ASSUME NEW r \in Requests, RequestStep(r) PROVE IInv'
  BY <1>1, AskStep, AskRegenerateLastStep, FailStep, SendStep, ReplayStep,
     EditStep, BuildStep, RegisterStep, CancelLookupStep, CancelSetsReasonStep,
     CancelCancelsStep, DeleteStep DEF RequestStep
<1>2. ASSUME NEW r \in Requests, RunStep(r) PROVE IInv'
  BY <1>2, ModelReturnsStep, FinalizeStep, FinalizeFailsStep, ReportStep,
     FinishRunStep, UnregisterStep, DetachSetsReasonStep, DetachCancelsStep
     DEF RunStep, RunProgress
<1>3. CASE Restart
  BY <1>3, RestartStep
<1>4. CASE UNCHANGED vars
  BY <1>4 DEF vars, tableVars, requestVars, runVars, cancelVars, IInv, TypeOK,
     Keys, Places, Registered, SingleOwner, OwnedIsStreaming, Owns, Closing,
     ClosingEvent, Reasons, Outcomes, StopsAreStored
<1> QED
  BY <1>1, <1>2, <1>3, <1>4 DEF Next

(* IInv is the inductive invariant of the chat service. *)
THEOREM Invariance == Spec => []IInv
  BY InitIInv, NextIInv, PTL DEF Spec

(* Every variable keeps its type, for any number of requests. *)
THEOREM TypeCorrect == Spec => []TypeOK
<1>1. IInv => TypeOK
  BY DEF IInv
<1> QED
  BY <1>1, Invariance, PTL

(* At most one run of a conversation generates at any time, and the service *)
(* can find it: activeStreams is checked and set under activeMu, and a run  *)
(* leaves it only after it finished (registerActiveStream,                  *)
(* finishActiveStream).                                                     *)
THEOREM AtMostOneRun == Spec => []OneRun
<1>1. IInv => OneRun
  BY DEF IInv, Registered, OneRun
<1> QED
  BY <1>1, Invariance, PTL

(* No two requests or runs write the same reply, although requests learn    *)
(* only after their transaction whether a run is active.                    *)
THEOREM RepliesHaveOneOwner == Spec => []SingleOwner
<1>1. IInv => SingleOwner
  BY DEF IInv
<1> QED
  BY <1>1, Invariance, PTL

(* The row of a reply that is being prepared or generated is gone or still  *)
(* streaming: no concurrent request settles it.                             *)
THEOREM OwnedRepliesStream == Spec => []OwnedIsStreaming
<1>1. IInv => OwnedIsStreaming
  BY DEF IInv
<1> QED
  BY <1>1, Invariance, PTL

(* Every reply that is being written has one writer and an open row.        *)
THEOREM RepliesAreOwned == Spec => []RepliesOwned
<1>1. SingleOwner /\ OwnedIsStreaming => RepliesOwned
  BY DEF RepliesOwned
<1> QED
  BY <1>1, RepliesHaveOneOwner, OwnedRepliesStream, PTL

(* Each run closes its stream with exactly one event, which tells what was  *)
(* stored.                                                                  *)
THEOREM RunsCloseTruthfully == Spec => []ClosedTruthfully
<1>1. IInv => ClosedTruthfully
  BY DEF IInv, Closing, ClosedTruthfully
<1> QED
  BY <1>1, Invariance, PTL

(* A run stores a cancelled reply exactly when its model call came back     *)
(* interrupted: no stop becomes a failure, whichever of stop requests, the  *)
(* detach timer and the provider's errors comes first, and no failure is    *)
(* stored as a stop.                                                        *)
THEOREM StopsAreStoredAsSuch == Spec => []StopsAreStored
<1>1. IInv => StopsAreStored
  BY DEF IInv, Outcomes
<1> QED
  BY <1>1, Invariance, PTL

-----------------------------------------------------------------------------
(* Alternation of turns: only five actions touch the messages. *)

(* Numbers given to messages are naturals.                                 *)
LEMMA KeysAreNat ==
  ASSUME IInv
  PROVE  /\ nextId \in Nat
         /\ \A m \in messages :
              m.id \in Nat /\ m.id < nextId /\ m.role \in {"user", "assistant"}
  BY DEF IInv, TypeOK, Message, Keys

(* A send appends a whole turn. *)
LEMMA SendAlternates ==
  ASSUME IInv, TurnsAlternate, NEW r \in Requests, Send(r)
  PROVE  TurnsAlternate'
<1>1. PICK u0 : u0 = Row(nextId, "user", "completed")
  OBVIOUS
<1>2. PICK a0 : a0 = Row(nextId + 1, "assistant", "streaming")
  OBVIOUS
<1>3. /\ messages' = messages \union {u0, a0}
      /\ u0.id = nextId /\ u0.role = "user"
      /\ a0.id = nextId + 1 /\ a0.role = "assistant"
  BY <1>1, <1>2 DEF Send, Row
<1>4. Answers(a0, u0)'
  BY <1>3, KeysAreNat DEF Answers
<1>5. \A a, u \in messages : Answers(a, u) => Answers(a, u)'
  BY <1>3, KeysAreNat DEF Answers
<1> QED
  BY <1>3, <1>4, <1>5 DEF TurnsAlternate

(* A replay keeps a prefix that ends with the emptied reply. *)
LEMMA ReplayAlternates ==
  ASSUME IInv, TurnsAlternate, NEW r \in Requests, Replay(r)
  PROVE  TurnsAlternate'
<1>1. PICK m \in messages :
        /\ m.role = "assistant"
        /\ messages' = {k \in messages : k.id < m.id}
               \union {[m EXCEPT !.status = "streaming"]}
  BY DEF Replay
<1> DEFINE m0 == [m EXCEPT !.status = "streaming"]
<1>2. m0.id = m.id /\ m0.role = "assistant"
  BY <1>1 DEF IInv, TypeOK, Message
<1>3. messages' = {k \in messages : k.id < m.id} \union {m0}
  BY <1>1
<1> HIDE DEF m0
<1>4. ASSUME NEW u \in messages', u.role = "user"
      PROVE  \E a \in messages' : Answers(a, u)'
  <2>1. u \in messages /\ u.id < m.id
    BY <1>2, <1>3, <1>4
  <2>2. PICK a \in messages : Answers(a, u)
    BY <2>1, <1>4 DEF TurnsAlternate
  <2>3. a.id <= m.id
    BY <2>1, <2>2, KeysAreNat DEF Answers
  <2>4. CASE a.id < m.id
    BY <1>2, <1>3, <2>1, <2>2, <2>4, KeysAreNat DEF Answers
  <2>5. CASE a.id = m.id
    <3>1. Answers(m0, u)'
      BY <1>2, <1>3, <2>1, <2>2, <2>5, KeysAreNat DEF Answers
    <3> QED
      BY <1>3, <3>1
  <2> QED
    BY <2>3, <2>4, <2>5, KeysAreNat
<1>5. ASSUME NEW a \in messages', a.role = "assistant"
      PROVE  \E u \in messages' : Answers(a, u)'
  <2>1. PICK b \in messages : b.id = a.id /\ b.role = "assistant" /\ b.id <= m.id
    BY <1>1, <1>2, <1>3, <1>5, KeysAreNat
  <2>2. PICK u \in messages : Answers(b, u)
    BY <2>1 DEF TurnsAlternate
  <2>3. u \in messages' /\ Answers(a, u)'
    BY <1>2, <1>3, <1>5, <2>1, <2>2, KeysAreNat DEF Answers
  <2> QED
    BY <2>3
<1> QED
  BY <1>4, <1>5 DEF TurnsAlternate

(* An edit keeps a prefix that ends with a user message, and answers it. *)
LEMMA EditAlternates ==
  ASSUME IInv, TurnsAlternate, NEW r \in Requests, Edit(r)
  PROVE  TurnsAlternate'
<1>1. PICK m \in messages :
        /\ m.role = "user"
        /\ messages' = {k \in messages : k.id <= m.id}
               \union {Row(nextId, "assistant", "streaming")}
  BY DEF Edit, UpTo
<1>2. PICK a0 : a0 = Row(nextId, "assistant", "streaming")
  OBVIOUS
<1>3. /\ messages' = {k \in messages : k.id <= m.id} \union {a0}
      /\ a0.id = nextId /\ a0.role = "assistant"
  BY <1>1, <1>2 DEF Row
<1>4. m \in messages' /\ Answers(a0, m)'
  BY <1>1, <1>2, <1>3, KeysAreNat DEF Answers
<1>5. \A a, u \in messages :
        a.id <= m.id /\ Answers(a, u) => u \in messages' /\ a \in messages' /\ Answers(a, u)'
  BY <1>2, <1>3, KeysAreNat DEF Answers
<1>6. ASSUME NEW u \in messages', u.role = "user"
      PROVE  \E a \in messages' : Answers(a, u)'
  <2>1. u \in messages /\ u.id <= m.id
    BY <1>2, <1>3, <1>6
  <2>2. CASE u.id = m.id
    <3>1. u = m
      BY <2>1, <2>2 DEF IInv, Keys
    <3> QED
      BY <3>1, <1>3, <1>4
  <2>3. CASE u.id < m.id
    <3>1. PICK a \in messages : Answers(a, u)
      BY <2>1, <1>6 DEF TurnsAlternate
    <3>2. a.id <= m.id
      BY <2>3, <3>1, KeysAreNat DEF Answers
    <3> QED
      BY <1>5, <2>1, <3>1, <3>2
  <2> QED
    BY <2>1, <2>2, <2>3, KeysAreNat
<1>7. ASSUME NEW a \in messages', a.role = "assistant"
      PROVE  \E u \in messages' : Answers(a, u)'
  <2>1. CASE a = a0
    BY <1>4, <2>1
  <2>2. CASE a # a0
    <3>1. a \in messages /\ a.id <= m.id
      BY <1>3, <1>7, <2>2
    <3>2. PICK u \in messages : Answers(a, u)
      BY <3>1, <1>7 DEF TurnsAlternate
    <3> QED
      BY <1>5, <3>1, <3>2
  <2> QED
    BY <2>1, <2>2
<1> QED
  BY <1>6, <1>7 DEF TurnsAlternate

(* Settling a reply changes neither keys nor roles. *)
LEMMA FinalizeAlternates ==
  ASSUME IInv, TurnsAlternate, NEW r \in Requests, Finalize(r)
  PROVE  TurnsAlternate'
<1> DEFINE settled(m) == IF m.id = reply[r] THEN [m EXCEPT !.status = outcome[r]] ELSE m
<1>1. messages' = {settled(m) : m \in messages}
  BY DEF Finalize, Settle
<1>2. \A m \in messages : settled(m).id = m.id /\ settled(m).role = m.role
  BY DEF IInv, TypeOK, Message
<1> HIDE DEF settled
<1>3. \A m \in messages : settled(m) \in messages'
  BY <1>1
<1>4. \A k \in messages' : \E m \in messages : k = settled(m)
  BY <1>1
<1>5. ASSUME NEW a \in messages, NEW u \in messages, Answers(a, u),
             NEW b, b = settled(a), NEW v, v = settled(u)
      PROVE  Answers(b, v)'
  <2>1. \A k \in messages' : \E m \in messages : k.id = m.id
    BY <1>2, <1>4
  <2>2. v.role = "user" /\ b.role = "assistant" /\ v.id = u.id /\ b.id = a.id
    BY <1>2, <1>5 DEF Answers
  <2>3. u.id < a.id /\ \A k \in messages' : ~(u.id < k.id /\ k.id < a.id)
    BY <1>5, <2>1 DEF Answers
  <2> QED
    BY <2>2, <2>3 DEF Answers
<1>6. ASSUME NEW u \in messages', u.role = "user"
      PROVE  \E a \in messages' : Answers(a, u)'
  <2>1. PICK k \in messages : u = settled(k) /\ k.role = "user"
    BY <1>2, <1>4, <1>6
  <2>2. PICK a \in messages : Answers(a, k)
    BY <2>1 DEF TurnsAlternate
  <2> QED
    BY <1>3, <1>5, <2>1, <2>2
<1>7. ASSUME NEW a \in messages', a.role = "assistant"
      PROVE  \E u \in messages' : Answers(a, u)'
  <2>1. PICK k \in messages : a = settled(k) /\ k.role = "assistant"
    BY <1>2, <1>4, <1>7
  <2>2. PICK u \in messages : Answers(k, u)
    BY <2>1 DEF TurnsAlternate
  <2> QED
    BY <1>3, <1>5, <2>1, <2>2
<1> QED
  BY <1>6, <1>7 DEF TurnsAlternate

(* Every step leaves the stored turns alternating. *)
LEMMA NextAlternates == IInv /\ TurnsAlternate /\ [Next]_vars => TurnsAlternate'
<1> SUFFICES ASSUME IInv, TurnsAlternate, [Next]_vars PROVE TurnsAlternate'
  OBVIOUS
<1>1. ASSUME NEW r \in Requests, Delete(r) PROVE TurnsAlternate'
  BY <1>1 DEF Delete, TurnsAlternate
<1>2. ASSUME messages' = messages PROVE TurnsAlternate'
  BY <1>2 DEF TurnsAlternate, Answers
<1>3. ASSUME NEW r \in Requests, RequestStep(r) PROVE TurnsAlternate'
  <2>1. \/ Send(r) \/ Replay(r) \/ Edit(r) \/ Delete(r) \/ messages' = messages
    BY <1>3 DEF RequestStep, Ask, AskRegenerateLast, Fail, Build, Register,
       CancelLookup, CancelSetsReason, CancelCancels, tableVars
  <2> QED
    BY <2>1, <1>1, <1>2, SendAlternates, ReplayAlternates, EditAlternates
<1>4. ASSUME NEW r \in Requests, RunStep(r) PROVE TurnsAlternate'
  <2>1. Finalize(r) \/ messages' = messages
    BY <1>4 DEF RunStep, RunProgress, ModelReturns, FinalizeFails, Report,
       FinishRun, Unregister, DetachSetsReason, DetachCancels, tableVars
  <2> QED
    BY <2>1, <1>2, FinalizeAlternates
<1>5. CASE Restart
  BY <1>5, <1>2 DEF Restart, tableVars
<1>6. CASE UNCHANGED vars
  BY <1>6, <1>2 DEF vars, tableVars
<1> QED
  BY <1>3, <1>4, <1>5, <1>6 DEF Next

(* There are no messages at the start.                                     *)
LEMMA InitAlternates == Init => TurnsAlternate
<1> SUFFICES ASSUME Init PROVE TurnsAlternate
  OBVIOUS
<1>1. ASSUME NEW i \in 1..EarlierTurns
      PROVE  Answers(Row(2 * i, "assistant", "completed"),
                     Row(2 * i - 1, "user", "completed"))
  <2>1. \A m \in messages : m.id \in Int
    BY TurnsAssumption DEF Init, Row
  <2>2. 2 * i - 1 < 2 * i /\ \A k \in Int : ~(2 * i - 1 < k /\ k < 2 * i)
    BY TurnsAssumption
  <2> QED
    BY <2>1, <2>2 DEF Answers, Row
<1>2. \A m \in messages : m.role \in {"user", "assistant"}
  BY DEF Init, Row
<1>3. \A m \in messages : m.role = "user" =>
        \E i \in 1..EarlierTurns : m = Row(2 * i - 1, "user", "completed")
  BY DEF Init, Row
<1>4. \A m \in messages : m.role = "assistant" =>
        \E i \in 1..EarlierTurns : m = Row(2 * i, "assistant", "completed")
  BY DEF Init, Row
<1>5. \A i \in 1..EarlierTurns :
        /\ Row(2 * i - 1, "user", "completed") \in messages
        /\ Row(2 * i, "assistant", "completed") \in messages
  BY DEF Init
<1> QED
  BY <1>1, <1>3, <1>4, <1>5 DEF TurnsAlternate

(* User messages and replies alternate in the stored conversation, however  *)
(* the requests of several clients, their failures and restarts interleave. *)
THEOREM TurnsAlwaysAlternate == Spec => []TurnsAlternate
<1>1. IInv /\ TurnsAlternate /\ [Next]_vars => TurnsAlternate'
  BY NextAlternates
<1> QED
  BY <1>1, InitAlternates, Invariance, PTL DEF Spec

=============================================================================
