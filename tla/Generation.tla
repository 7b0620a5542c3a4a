----------------------------- MODULE Generation -----------------------------
(***************************************************************************)
(* The chat service around one conversation: the requests that ask for a   *)
(* reply (send, retry, regenerate, edit), that stop one (cancel) or delete *)
(* the conversation, the runs they launch, and the messages table.         *)
(* internal/chat: generation_service.go, generation_persistence.go,        *)
(* generation_streaming.go, generation_active_run.go and the cancel and    *)
(* delete operations of conversation_queries.go, conversation_mutations.go.*)
(*                                                                         *)
(* Nothing serialises the requests of a conversation: each one reads the   *)
(* conversation, commits one transaction, prepares the model call, and     *)
(* only then learns from activeStreams whether a reply is already being    *)
(* generated.  Every action is one of these steps; a transaction is atomic *)
(* and may also fail and leave no trace.  A run is named by the request    *)
(* that launched it; what its clients see is the subject of ActiveRun.     *)
(***************************************************************************)
EXTENDS Naturals, Sequences

CONSTANTS
  Requests,     \* HTTP requests, each one makes a single call
  NoRun,        \* activeStreams has no entry
  EarlierTurns, \* user message and completed reply pairs stored at the start
  MaxRestarts   \* bound: how often the process is restarted

ASSUME NoRunAssumption == NoRun \notin Requests
ASSUME TurnsAssumption == EarlierTurns \in Nat
ASSUME RestartsAssumption == MaxRestarts \in Nat

VARIABLES
  exists,       \* the conversation's row is stored
  messages,     \* its rows in the messages table
  nextId,       \* the next value of the table's autoincrement key
  activeStream, \* Service.activeStreams[conversation]: the run, or NoRun
  pc,           \* where each request is
  kind,         \* which operation it calls
  target,       \* the message it names
  reply,        \* the assistant message it has prepared, 0 before
  victim,       \* the run a cancel request found
  run,          \* where each request's run is
  outcome,      \* the status the run has decided to save
  cancelReason, \* activeRun.cancelReason
  detaching,    \* the run's detach callback has set its reason, not cancelled
  cancelled,    \* activeRun.ctx is cancelled
  saved,        \* history: the status the run stored
  terminal,     \* history: the closing events the run published
  interrupted,  \* history: the call that ended the run returned context.Canceled
  restarts      \* how often the process was restarted

tableVars == <<exists, messages, nextId>>
requestVars == <<pc, kind, target, reply, victim>>
cancelVars == <<cancelReason, detaching, cancelled>>
runVars == <<run, outcome, saved, terminal, interrupted>>
vars == <<tableVars, activeStream, requestVars, runVars, cancelVars, restarts>>

Replays == {"retry", "regenerate"}
Kinds == Replays \union {"send", "edit", "cancel", "delete"}
Statuses == {"streaming", "completed", "failed", "cancelled"}
RequestStates == {"idle", "checked", "prepared", "built", "found", "marked", "done"}
Unfinished == {"streaming", "continuing", "finalizing", "reporting", "returned"}
RunStates == Unfinished \union {"none", "finished", "gone"}

Row(id, role, status) == [id |-> id, role |-> role, status |-> status]

Init ==
  /\ exists = TRUE
  /\ messages = {Row(2 * i - 1, "user", "completed") : i \in 1..EarlierTurns}
         \union {Row(2 * i, "assistant", "completed") : i \in 1..EarlierTurns}
  /\ nextId = 2 * EarlierTurns + 1
  /\ activeStream = NoRun
  /\ pc = [r \in Requests |-> "idle"]
  /\ kind = [r \in Requests |-> "send"]
  /\ target = [r \in Requests |-> 0]
  /\ reply = [r \in Requests |-> 0]
  /\ victim = [r \in Requests |-> NoRun]
  /\ run = [r \in Requests |-> "none"]
  /\ outcome = [r \in Requests |-> "none"]
  /\ cancelReason = [r \in Requests |-> "none"]
  /\ detaching = [r \in Requests |-> FALSE]
  /\ cancelled = [r \in Requests |-> FALSE]
  /\ saved = [r \in Requests |-> "none"]
  /\ terminal = [r \in Requests |-> <<>>]
  /\ interrupted = [r \in Requests |-> FALSE]
  /\ restarts = 0

-----------------------------------------------------------------------------
(* Requests that generate a reply *)

Goto(r, place) == pc' = [pc EXCEPT ![r] = place]

(* GetConversation, after the checks of the input that change nothing.     *)
(* The message a request names is one its client has seen.                 *)
Ask(r) ==
  /\ pc[r] = "idle"
  /\ Goto(r, IF exists THEN "checked" ELSE "done")
  /\ \E k \in Kinds :
       /\ kind' = [kind EXCEPT ![r] = k]
       /\ \E id \in IF k \in Replays \union {"edit"}
                     THEN {m.id : m \in messages} ELSE {0} :
            target' = [target EXCEPT ![r] = id]
  /\ UNCHANGED <<tableVars, activeStream, reply, victim, runVars, cancelVars,
                 restarts>>

(* RegenerateLastAssistantReply names the latest message, read separately. *)
AskRegenerateLast(r) ==
  /\ pc[r] = "idle"
  /\ exists
  /\ Goto(r, "checked")
  /\ kind' = [kind EXCEPT ![r] = "regenerate"]
  /\ \E last \in messages :
       /\ \A m \in messages : m.id <= last.id
       /\ target' = [target EXCEPT ![r] = last.id]
  /\ UNCHANGED <<tableVars, activeStream, reply, victim, runVars, cancelVars,
                 restarts>>

(* The request ends with an error; whatever it stored stays. *)
Fail(r) ==
  /\ pc[r] \in {"checked", "prepared"}
  /\ Goto(r, "done")
  /\ UNCHANGED <<tableVars, activeStream, kind, target, reply, victim, runVars,
                 cancelVars, restarts>>

Prepared(r, id) ==
  /\ Goto(r, "prepared")
  /\ reply' = [reply EXCEPT ![r] = id]
  /\ UNCHANGED <<exists, activeStream, kind, target, victim, runVars,
                 cancelVars, restarts>>

(* createAssistantReply: the user's message and an empty reply. *)
Send(r) ==
  /\ pc[r] = "checked"
  /\ kind[r] = "send"
  /\ messages' = messages \union {Row(nextId, "user", "completed"),
                                  Row(nextId + 1, "assistant", "streaming")}
  /\ nextId' = nextId + 2
  /\ Prepared(r, nextId + 1)

(* Slip to catch: a reply that is still being written may be retried. *)
ReplayableAnyTime(k) ==
  IF k = "retry" THEN {"failed", "cancelled", "streaming"} ELSE {"completed"}

Replayable(k) == IF k = "retry" THEN {"failed", "cancelled"} ELSE {"completed"}

(* prepareAssistantReplay: empty the reply and drop what follows it. *)
Replay(r) ==
  /\ pc[r] = "checked"
  /\ kind[r] \in Replays
  /\ \E m \in messages :
       /\ m.id = target[r]
       /\ m.role = "assistant"
       /\ m.status \in Replayable(kind[r])
       /\ \E u \in messages : u.role = "user" /\ u.id < m.id
       /\ messages' = {k \in messages : k.id < m.id}
              \union {[m EXCEPT !.status = "streaming"]}
  /\ nextId' = nextId
  /\ Prepared(r, target[r])

(* Slip to catch: the messages after the edited one stay. *)
AllMessages(id) == messages

(* What deleteTrailingMessages leaves of the conversation. *)
UpTo(id) == {k \in messages : k.id <= id}

(* editUserMessageForRegeneration: rewrite the latest user message, drop    *)
(* what follows it, add an empty reply.                                    *)
Edit(r) ==
  /\ pc[r] = "checked"
  /\ kind[r] = "edit"
  /\ \E m \in messages :
       /\ m.id = target[r]
       /\ m.role = "user"
       /\ \A u \in messages : u.role = "user" => u.id <= m.id
       /\ messages' = UpTo(m.id) \union {Row(nextId, "assistant", "streaming")}
  /\ nextId' = nextId + 1
  /\ Prepared(r, nextId)

(* cleanupAttachments and buildGenerationRequest succeed; they read only.  *)
Build(r) ==
  /\ pc[r] = "prepared"
  /\ Goto(r, "built")
  /\ UNCHANGED <<tableVars, activeStream, kind, target, reply, victim, runVars,
                 cancelVars, restarts>>

(* Slip to catch: the run that is registered already is not looked for. *)
RegisterOverwrites(r) ==
  /\ pc[r] = "built"
  /\ Goto(r, "done")
  /\ activeStream' = r
  /\ run' = [run EXCEPT ![r] = "streaming"]
  /\ UNCHANGED <<tableVars, kind, target, reply, victim, outcome, saved,
                 terminal, interrupted, cancelVars, restarts>>

(* registerActiveStream: ErrConversationBusy, or a run of its own. *)
Register(r) ==
  /\ pc[r] = "built"
  /\ Goto(r, "done")
  /\ IF activeStream = NoRun
       THEN /\ activeStream' = r
            /\ run' = [run EXCEPT ![r] = "streaming"]
       ELSE UNCHANGED <<activeStream, run>>
  /\ UNCHANGED <<tableVars, kind, target, reply, victim, outcome, saved,
                 terminal, interrupted, cancelVars, restarts>>

-----------------------------------------------------------------------------
(* The goroutine of a run: streamIntoAssistantMessage *)

(* What a call of the model comes back with: an error that is retried once *)
(* because part of the reply arrived, or one that is not.                  *)
Results == {"stop", "length", "recoverable", "fatal", "canceled"}

ShouldAutoContinue(result) == result \in {"length", "recoverable"}

StatusOf(r, result) ==
  IF result \in {"stop", "length"} THEN "completed"
  ELSE IF result = "canceled" /\ cancelReason[r] \in {"user", "detached"}
         THEN "cancelled" ELSE "failed"

(* The model answers; its context being cancelled is one way to end. *)
ModelReturns(r) ==
  /\ run[r] \in {"streaming", "continuing"}
  /\ \E result \in Results :
       /\ result = "canceled" => cancelled[r]
       /\ IF run[r] = "streaming" /\ ShouldAutoContinue(result)
            THEN /\ run' = [run EXCEPT ![r] = "continuing"]
                 /\ UNCHANGED <<outcome, interrupted>>
            ELSE /\ run' = [run EXCEPT ![r] = "finalizing"]
                 /\ outcome' = [outcome EXCEPT ![r] = StatusOf(r, result)]
                 /\ interrupted' = [interrupted EXCEPT ![r] = result = "canceled"]
  /\ UNCHANGED <<tableVars, activeStream, requestVars, saved, terminal,
                 cancelVars, restarts>>

(* Slip to catch: the update runs under the run's own context. *)
SettleUnlessCancelled(r) ==
  messages' = {IF m.id = reply[r] /\ ~cancelled[r]
                 THEN [m EXCEPT !.status = outcome[r]] ELSE m : m \in messages}

(* The UPDATE of finalizeAssistantMessage: by key, of no row if it is gone. *)
Settle(r) ==
  messages' = {IF m.id = reply[r] THEN [m EXCEPT !.status = outcome[r]] ELSE m :
                 m \in messages}

Finalize(r) ==
  /\ run[r] = "finalizing"
  /\ run' = [run EXCEPT ![r] = "reporting"]
  /\ Settle(r)
  /\ saved' = [saved EXCEPT ![r] = outcome[r]]
  /\ UNCHANGED <<exists, nextId, activeStream, requestVars, outcome, terminal,
                 interrupted, cancelVars, restarts>>

(* Slip to catch: the error of the update is dropped. *)
FailureIgnored(r) ==
  /\ run[r] = "finalizing"
  /\ run' = [run EXCEPT ![r] = "reporting"]
  /\ UNCHANGED <<tableVars, activeStream, requestVars, outcome, saved, terminal,
                 interrupted, cancelVars, restarts>>

(* The UPDATE fails: execute returns the error and the message stays as is. *)
FinalizeFails(r) ==
  /\ run[r] = "finalizing"
  /\ run' = [run EXCEPT ![r] = "reporting"]
  /\ outcome' = [outcome EXCEPT ![r] = "unsaved"]
  /\ UNCHANGED <<tableVars, activeStream, requestVars, saved, terminal,
                 interrupted, cancelVars, restarts>>

ClosingEvent(status) ==
  CASE status = "completed" -> "done"
    [] status = "cancelled" -> "cancelled"
    [] OTHER -> "error"

(* The closing event: from the stream itself, or publishActiveRunError. *)
Report(r) ==
  /\ run[r] = "reporting"
  /\ run' = [run EXCEPT ![r] = "returned"]
  /\ terminal' = [terminal EXCEPT ![r] = Append(@, ClosingEvent(outcome[r]))]
  /\ UNCHANGED <<tableVars, activeStream, requestVars, outcome, saved,
                 interrupted, cancelVars, restarts>>

(* finishActiveStream: finish and cancel, *)
FinishRun(r) ==
  /\ run[r] = "returned"
  /\ run' = [run EXCEPT ![r] = "finished"]
  /\ cancelled' = [cancelled EXCEPT ![r] = TRUE]
  /\ UNCHANGED <<tableVars, activeStream, requestVars, outcome, saved, terminal,
                 interrupted, cancelReason, detaching, restarts>>

(* then leave the map, if the entry is still this run's. *)
Unregister(r) ==
  /\ run[r] = "finished"
  /\ run' = [run EXCEPT ![r] = "gone"]
  /\ activeStream' = IF activeStream = r THEN NoRun ELSE activeStream
  /\ UNCHANGED <<tableVars, requestVars, outcome, saved, terminal,
                 interrupted, cancelVars, restarts>>

-----------------------------------------------------------------------------
(* Cancellation and deletion *)

SetCancelReason(r, reason) ==
  cancelReason' = [cancelReason EXCEPT ![r] = IF @ = "none" THEN reason ELSE @]

(* The detach callback of a run nobody watches (see ActiveRun). *)
DetachSetsReason(r) ==
  /\ run[r] \in Unfinished
  /\ ~detaching[r]
  /\ SetCancelReason(r, "detached")
  /\ detaching' = [detaching EXCEPT ![r] = TRUE]
  /\ UNCHANGED <<tableVars, activeStream, requestVars, runVars, cancelled,
                 restarts>>

DetachCancels(r) ==
  /\ detaching[r]
  /\ ~cancelled[r]
  /\ cancelled' = [cancelled EXCEPT ![r] = TRUE]
  /\ UNCHANGED <<tableVars, activeStream, requestVars, runVars, cancelReason,
                 detaching, restarts>>

(* CancelGeneration: no run is not an error. *)
CancelLookup(r) ==
  /\ pc[r] = "checked"
  /\ kind[r] = "cancel"
  /\ Goto(r, IF activeStream = NoRun THEN "done" ELSE "found")
  /\ victim' = [victim EXCEPT ![r] = activeStream]
  /\ UNCHANGED <<tableVars, activeStream, kind, target, reply, runVars,
                 cancelVars, restarts>>

(* Slip to catch: the context is cancelled before the reason is recorded. *)
CancelsAtOnce(r) ==
  /\ pc[r] = "found"
  /\ Goto(r, "marked")
  /\ cancelled' = [cancelled EXCEPT ![victim[r]] = TRUE]
  /\ UNCHANGED <<tableVars, activeStream, kind, target, reply, victim, runVars,
                 cancelReason, detaching, restarts>>

CancelSetsReason(r) ==
  /\ pc[r] = "found"
  /\ Goto(r, "marked")
  /\ SetCancelReason(victim[r], "user")
  /\ UNCHANGED <<tableVars, activeStream, kind, target, reply, victim, runVars,
                 detaching, cancelled, restarts>>

CancelCancels(r) ==
  /\ pc[r] = "marked"
  /\ Goto(r, "done")
  /\ cancelled' = [cancelled EXCEPT ![victim[r]] = TRUE]
  /\ UNCHANGED <<tableVars, activeStream, kind, target, reply, victim, runVars,
                 cancelReason, detaching, restarts>>

(* DeleteConversation does not look at the active run. *)
Delete(r) ==
  /\ pc[r] = "checked"
  /\ kind[r] = "delete"
  /\ Goto(r, "done")
  /\ exists' = FALSE
  /\ messages' = {}
  /\ UNCHANGED <<nextId, activeStream, kind, target, reply, victim, runVars,
                 cancelVars, restarts>>

(* The process dies and starts again: only the tables survive. *)
Restart ==
  /\ restarts < MaxRestarts
  /\ restarts' = restarts + 1
  /\ activeStream' = NoRun
  /\ pc' = [r \in Requests |-> IF pc[r] = "idle" THEN "idle" ELSE "done"]
  /\ run' = [r \in Requests |-> IF run[r] = "none" THEN "none" ELSE "gone"]
  /\ UNCHANGED <<tableVars, kind, target, reply, victim, outcome, saved,
                 terminal, interrupted, cancelVars>>

-----------------------------------------------------------------------------
RequestStep(r) ==
  \/ Ask(r) \/ AskRegenerateLast(r) \/ Fail(r)
  \/ Send(r) \/ Replay(r) \/ Edit(r) \/ Build(r) \/ Register(r)
  \/ CancelLookup(r) \/ CancelSetsReason(r) \/ CancelCancels(r) \/ Delete(r)

RunProgress(r) ==
  \/ Finalize(r) \/ FinalizeFails(r) \/ Report(r) \/ FinishRun(r) \/ Unregister(r)

RunStep(r) ==
  ModelReturns(r) \/ RunProgress(r) \/ DetachSetsReason(r) \/ DetachCancels(r)

Next == (\E r \in Requests : RequestStep(r) \/ RunStep(r)) \/ Restart

Spec == Init /\ [][Next]_vars

(***************************************************************************)
(* Goroutines are scheduled.  A call of the model is only sure to return   *)
(* once its context is cancelled; requests need not arrive.                *)
(***************************************************************************)
Fairness ==
  \A r \in Requests :
    /\ WF_vars(cancelled[r] /\ ModelReturns(r))
    /\ WF_vars(RunProgress(r))
    /\ WF_vars(DetachCancels(r))
    /\ WF_vars(CancelSetsReason(r) \/ CancelCancels(r))

FairSpec == Spec /\ Fairness

-----------------------------------------------------------------------------
(* Properties *)

Message == [id : Nat, role : {"user", "assistant"}, status : Statuses]

(* Types; in particular only the four known statuses are ever stored. *)
TypeOK ==
  /\ exists \in BOOLEAN
  /\ messages \subseteq Message
  /\ nextId \in Nat
  /\ activeStream \in Requests \union {NoRun}
  /\ pc \in [Requests -> RequestStates]
  /\ kind \in [Requests -> Kinds]
  /\ target \in [Requests -> Nat]
  /\ reply \in [Requests -> Nat]
  /\ victim \in [Requests -> Requests \union {NoRun}]
  /\ run \in [Requests -> RunStates]
  /\ outcome \in [Requests -> Statuses \union {"none", "unsaved"}]
  /\ cancelReason \in [Requests -> {"none", "user", "detached"}]
  /\ detaching \in [Requests -> BOOLEAN]
  /\ cancelled \in [Requests -> BOOLEAN]
  /\ saved \in [Requests -> Statuses \union {"none"}]
  /\ terminal \in [Requests -> Seq({"done", "cancelled", "error"})]
  /\ interrupted \in [Requests -> BOOLEAN]
  /\ restarts \in 0..MaxRestarts

(* At most one run of the conversation generates, and it is the one the     *)
(* service can find, resume and cancel.                                     *)
OneRun ==
  \A r \in Requests : run[r] \in Unfinished => activeStream = r

(* The request has prepared its reply, or its run has yet to store it. *)
Writing == {"streaming", "continuing", "finalizing"}
Owns(r) == pc[r] \in {"prepared", "built"} \/ run[r] \in Writing

(* No two requests, however they interleave, write the same reply; without  *)
(* it a run could overwrite the answer of another one.                      *)
SingleOwner ==
  \A r, q \in Requests : Owns(r) /\ Owns(q) /\ reply[r] = reply[q] => r = q

(* While a request or run owns a reply, its row is either gone or an        *)
(* assistant message still marked streaming: nobody else settles it.        *)
OwnedIsStreaming ==
  \A r \in Requests : Owns(r) =>
    \A m \in messages : m.id = reply[r] =>
      m.role = "assistant" /\ m.status = "streaming"

(* Each reply that is being written has one writer and is still open.       *)
RepliesOwned == SingleOwner /\ OwnedIsStreaming

(* Reply a answers user message u: no stored message lies between them. *)
Answers(a, u) ==
  /\ u.role = "user" /\ a.role = "assistant" /\ u.id < a.id
  /\ \A m \in messages : ~(u.id < m.id /\ m.id < a.id)

(* User messages and replies alternate in the stored conversation, also     *)
(* when sends, edits and retries of several tabs and deletions interleave;   *)
(* retry, regenerate and the model's history rely on it.                    *)
TurnsAlternate ==
  /\ \A u \in messages : u.role = "user" => \E a \in messages : Answers(a, u)
  /\ \A a \in messages : a.role = "assistant" => \E u \in messages : Answers(a, u)

(* A run publishes exactly one closing event before it finishes, and that   *)
(* event tells what the run stored: "done" and "cancelled" only after the   *)
(* status was saved, "error" for a failure or a failed save.                *)
ClosedTruthfully ==
  \A r \in Requests :
    /\ terminal[r] # <<>> => terminal[r] = <<ClosingEvent(saved[r])>>
    /\ run[r] \in {"returned", "finished"} => terminal[r] # <<>>

(* A run that a stop or the detach timer interrupted stores its reply as    *)
(* cancelled, and no other run does: the reason is on record before the     *)
(* context is cancelled, in whatever order two stop requests, the timer and *)
(* the run's own end come, so a stop never turns into a failure; and a      *)
(* failure of the provider stays one although a stop was asked for by then. *)
StopsAreStored ==
  \A r \in Requests :
    /\ outcome[r] \notin {"none", "unsaved"} =>
         (outcome[r] = "cancelled" <=> interrupted[r])
    /\ saved[r] # "none" => (saved[r] = "cancelled" <=> interrupted[r])

(* A cancelled run ends and frees its conversation. *)
CancelledRunEnds ==
  \A r \in Requests : cancelled[r] ~> activeStream # r

StillStreaming(r) ==
  \E m \in messages : m.id = reply[r] /\ m.status = "streaming"

(* A cancelled run does not leave its reply marked streaming, unless the     *)
(* database refused the final update or the process died.                   *)
CancelSettlesReply ==
  \A r \in Requests :
    cancelled[r] /\ run[r] \in Writing ~>
      ~StillStreaming(r) \/ outcome[r] = "unsaved" \/ restarts > 0

(* Cancelling a run comes to its end: the conversation is free again and    *)
(* the reply is settled.                                                    *)
CancelTakesEffect == CancelledRunEnds /\ CancelSettlesReply

=============================================================================
