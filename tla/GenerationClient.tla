-------------------------- MODULE GenerationClient --------------------------
(***************************************************************************)
(* One browser tab that sends, edits, repeats, resumes and stops replies   *)
(* while its user moves between conversations.                             *)
(* frontend/src/pages/chat-page/hooks: chat-generation/*,                  *)
(* chat-generation-lifecycle, chat-generation-stream/helpers,              *)
(* use-chat-generation-stream-state, chat-history/operations,              *)
(* use-chat-history, use-chat-session; lib/sse; stream-seq-storage.        *)
(*                                                                         *)
(* Every asynchronous function is a flow whose steps are the pieces of     *)
(* code between two awaits; the answer to a fetch is taken on the server   *)
(* at one moment and applied at a later one.  The server is reduced to the *)
(* rows of replies and its runs, as Generation and ActiveRun model them:   *)
(* event 1 is message_start, the last one carries the stored reply, those  *)
(* between are deltas.  Messages of users, settings and the conversation   *)
(* list are left out, and so is the creation of a conversation.            *)
(***************************************************************************)
EXTENDS Integers, SequencesExt

CONSTANTS
  Conversations,
  Home,               \* no conversation: the start page
  MaxEvents,          \* bound: events of a run
  MaxOthers,          \* bound: the other tab sends among the first runs only
  MaxFlows,           \* bound: generations of the tab
  MaxFaults,          \* bound: requests that fail
  MaxMoves,           \* bound: how often the user navigates, archives or stops
  ReconcileAttempts   \* STOP_RECONCILE_ATTEMPTS

ASSUME HomeAssumption == Home \notin Conversations
ASSUME BoundsAssumption ==
  /\ MaxEvents \in Nat /\ MaxEvents >= 2
  /\ {MaxOthers, MaxFlows, MaxFaults, MaxMoves} \subseteq Nat
ASSUME ReconcileAttemptsAssumption == ReconcileAttempts \in Nat \ {0}

VARIABLES
  stored,     \* server: the replies of each conversation, oldest first
  runs,       \* server: the runs so far
  nextKey,    \* server: the next key of messages
  active,     \* activeConversationId and its ref
  messages,   \* the replies on the screen, in their order
  sending,    \* isSending
  current,    \* activeGenerationRef: the number of a flow, or 0
  flows,      \* the generations of this tab, in order
  seqs,       \* sessionStorage: the last sequence number of each conversation
  buffer,     \* bufferedDeltaRef: at most one
  syncing,    \* the history effect's fetch that is not cancelled: at most one
  archiving,  \* requests after which the screen is reset
  faults,     \* how many requests failed
  moves,      \* how often the user navigated, archived or stopped
  loaded,     \* history: rows of the active conversation arrived since it is
  reset       \* history: the screen was reset under an active generation

serverVars == <<stored, runs, nextKey>>
moveVars == <<archiving, moves>>
historyVars == <<loaded, reset>>
vars == <<serverVars, active, messages, sending, current, flows, seqs, buffer,
          syncing, moveVars, faults, historyVars>>

Reply(c, k, status, text) ==
  [conv |-> c, id |-> k, status |-> status, text |-> text]

(* Slip to catch: the event after the last delta is taken for one. *)
DeltasAndOne(n) == [i \in 1..n |-> i + 1]

(* The deltas among the first n events.                                    *)
Deltas(n) == [i \in 1..(n - 1) |-> i + 1]

Init ==
  /\ stored = [c \in Conversations |-> <<>>]
  /\ runs = <<>> /\ nextKey = 1
  /\ active = Home /\ messages = <<>> /\ sending = FALSE /\ current = 0
  /\ flows = <<>> /\ seqs = [c \in Conversations |-> 0] /\ buffer = {}
  /\ syncing = {} /\ archiving = {}
  /\ faults = 0 /\ moves = 0 /\ loaded = FALSE /\ reset = FALSE

-----------------------------------------------------------------------------
(* The server.                                                             *)

Occupied(c) ==
  \E r \in DOMAIN runs : runs[r].conv = c /\ runs[r].phase \in {"live", "stored"}

NewRun(c, k, phase) ==
  runs' = Append(runs, [conv |-> c, key |-> k, phase |-> phase, seq |-> 0])

(* Another tab of the user sends a message.                                *)
OtherTab(c) ==
  /\ Len(runs) < MaxOthers /\ ~Occupied(c)
  /\ NewRun(c, nextKey, "live")
  /\ stored' = [stored EXCEPT ![c] = Append(@, Reply(c, nextKey, "streaming", <<>>))]
  /\ nextKey' = nextKey + 1
  /\ UNCHANGED <<active, messages, sending, current, flows, seqs, buffer,
                 syncing, moveVars, faults, historyVars>>

Publish(r) ==
  /\ runs[r].phase = "live" /\ runs[r].seq < MaxEvents - 1
  /\ runs' = [runs EXCEPT ![r].seq = @ + 1]
  /\ UNCHANGED <<stored, nextKey>>

(* A run may end after any of its events: that covers its cancellation.    *)
SettleReply(r) ==
  LET run == runs[r] IN
  /\ run.phase = "live" /\ run.seq > 0
  /\ stored' = [stored EXCEPT ![run.conv] =
                  [i \in DOMAIN @ |->
                     IF @[i].id = run.key
                     THEN Reply(run.conv, run.key, "settled", Deltas(run.seq)) ELSE @[i]]]
  /\ runs' = [runs EXCEPT ![r].phase = "stored"]
  /\ UNCHANGED nextKey

CloseRun(r) ==
  /\ runs[r].phase = "stored"
  /\ runs' = [runs EXCEPT ![r].phase = "closed", ![r].seq = @ + 1]
  /\ UNCHANGED <<stored, nextKey>>

Serve(r) ==
  /\ Publish(r) \/ SettleReply(r) \/ CloseRun(r)
  /\ UNCHANGED <<active, messages, sending, current, flows, seqs, buffer,
                 syncing, moveVars, faults, historyVars>>

-----------------------------------------------------------------------------
(* The screen.                                                             *)

(* isSameMessage: a message is the target by its placeholder or by its key *)
(* if that is known.                                                       *)
Same(m, c, place, real) == m.conv = c /\ m.id \in {place} \cup real

(* The n-th smallest of a set of numbers.                                  *)
Nth(S, n) == CHOOSE k \in S : Cardinality({h \in S : h < k}) = n - 1

(* dedupeMessages: one message for each id; placeholders come first.       *)
ById(ms) ==
  LET ids == {m.id : m \in ms}
  IN [n \in 1..Cardinality(ids) |-> CHOOSE m \in ms : m.id = Nth(ids, n)]

(* The messages of ms before the one with id k, by their ids.              *)
Before(ms, k) ==
  LET kept == {i \in DOMAIN ms : ms[i].id < k}
  IN [n \in 1..Cardinality(kept) |-> ms[Nth(kept, n)]]

(* upsertMessage.                                                          *)
Upsert(ms, new, place, real) ==
  ById({m \in ToSet(ms) : m.id # new.id /\ ~Same(m, new.conv, place, real)}
       \cup {new})

(* buildMessageTarget: the key that the active generation learnt, if it is *)
(* of the same conversation.                                               *)
Real(c) == IF current # 0 /\ flows[current].conv = c THEN flows[current].real ELSE {}

(* appendToStreamingMessage on the last of the messages that match.        *)
AppendDelta(ms, b) ==
  LET hits == {i \in DOMAIN ms : /\ ms[i].status = "streaming"
                                 /\ Same(ms[i], b.conv, b.place, Real(b.conv))}
  IN IF hits = {} THEN ms ELSE [ms EXCEPT ![Max(hits)].text = @ \o b.text]

(* Slip to catch: the buffer is dropped. *)
Unflushed == messages

(* flushBufferedMessageDelta.                                              *)
Flushed == IF buffer = {} THEN messages
                          ELSE AppendDelta(messages, CHOOSE b \in buffer : TRUE)

(* Slip to catch: what was appended stays buffered. *)
FlushAndKeep ==
  /\ buffer # {}
  /\ messages' = Flushed
  /\ UNCHANGED <<serverVars, active, sending, current, flows, seqs, buffer,
                 syncing, moveVars, faults, historyVars>>

FlushFrame ==
  /\ buffer # {}
  /\ messages' = Flushed
  /\ buffer' = {}
  /\ UNCHANGED <<serverVars, active, sending, current, flows, seqs, syncing,
                 moveVars, faults, historyVars>>

(* The condition of the effect that resumes, which runs before the next    *)
(* input of the user.                                                      *)
ResumeDue ==
  /\ active # Home /\ ~sending
  /\ messages # <<>>
  /\ Last(messages).conv = active /\ Last(messages).status = "streaming"
  /\ ~(current # 0 /\ flows[current].conv = active)

Navigate(c) ==
  /\ c # active /\ ~ResumeDue
  /\ moves < MaxMoves /\ moves' = moves + 1
  /\ active' = c
  /\ messages' = IF c = Home THEN <<>> ELSE messages
  /\ buffer' = {}
  /\ syncing' = IF c = Home \/ (current # 0 /\ flows[current].conv = c)
                THEN {} ELSE {[conv |-> c, pc |-> "fetch", got |-> <<>>]}
  /\ flows' = [g \in DOMAIN flows |-> [flows[g] EXCEPT !.away = TRUE]]
  /\ loaded' = FALSE
  /\ UNCHANGED <<serverVars, sending, current, seqs, archiving, faults, reset>>

SyncAnswer ==
  \E s \in syncing :
    /\ s.pc = "fetch"
    /\ syncing' = {[s EXCEPT !.pc = "answered", !.got = stored[s.conv]]}
    /\ UNCHANGED <<serverVars, active, messages, sending, current, flows, seqs,
                   buffer, moveVars, faults, historyVars>>

SyncApply ==
  \E s \in syncing :
    /\ s.pc = "answered"
    /\ messages' = s.got
    /\ syncing' = {} /\ loaded' = TRUE
    /\ UNCHANGED <<serverVars, active, sending, current, flows, seqs, buffer,
                   moveVars, faults, reset>>

SyncFails ==
  /\ faults < MaxFaults
  /\ syncing # {} /\ syncing' = {}
  /\ messages' = <<>>
  /\ faults' = faults + 1
  /\ UNCHANGED <<serverVars, active, sending, current, flows, seqs, buffer,
                 moveVars, historyVars>>

(* handleToggleArchived and handleDeleteConversation on the conversation   *)
(* that was active when the user clicked: the screen is reset afterwards,  *)
(* whatever it shows by then (resetForNewChat, resetHistoryState).         *)
Archive ==
  /\ active # Home /\ ~sending /\ ~ResumeDue
  /\ moves < MaxMoves /\ moves' = moves + 1
  /\ archiving' = archiving \cup {active}
  /\ UNCHANGED <<serverVars, active, messages, sending, current, flows, seqs,
                 buffer, syncing, faults, historyVars>>

Archived(c) ==
  /\ c \in archiving
  /\ archiving' = archiving \ {c}
  /\ active' = Home /\ messages' = <<>> /\ sending' = FALSE
  /\ buffer' = {} /\ syncing' = {}
  /\ flows' = [g \in DOMAIN flows |-> [flows[g] EXCEPT !.away = TRUE]]
  /\ loaded' = FALSE /\ reset' = (reset \/ current # 0)
  /\ UNCHANGED <<serverVars, current, seqs, moves, faults>>

ArchiveFails(c) ==
  /\ c \in archiving
  /\ archiving' = archiving \ {c}
  /\ faults < MaxFaults /\ faults' = faults + 1
  /\ UNCHANGED <<serverVars, active, messages, sending, current, flows, seqs,
                 buffer, syncing, moves, historyVars>>

-----------------------------------------------------------------------------
(* A generation stops being the active one before its handler or its stop  *)
(* is through.                                                             *)
Overtaken(g) ==
  [flows[g] EXCEPT !.orphan = \/ @ \/ flows[g].pc \notin {"finish", "done"}
                              \/ flows[g].stop \in {"cancel", "fetch", "answered"}]

(* Generations: beginGeneration and what each handler does before its      *)
(* first await.                                                            *)

(* The messages of a conversation that was left are still on the screen.   *)
ForeignScreen == \E m \in ToSet(messages) : m.conv # active

(* A reply that was read in part still streams on the screen.              *)
CutShort == \E m \in ToSet(messages) : m.status = "streaming" /\ m.text # <<>>

Begin(kind, c, place, target, kept, pos) ==
  /\ Len(flows) < MaxFlows
  /\ flows' = Append(
       [g \in DOMAIN flows |-> IF g = current THEN Overtaken(g) ELSE flows[g]],
       [kind |-> kind, conv |-> c, place |-> place, target |-> target,
        real |-> {}, pc |-> "ask", run |-> 0, pos |-> pos, got |-> <<>>,
        kept |-> kept, error |-> FALSE, stop |-> "none", tries |-> 0,
        answer |-> <<>>, over |-> syncing # {} \/ ForeignScreen,
        cut |-> kind # "resume" /\ CutShort, lost |-> FALSE, away |-> FALSE,
        orphan |-> FALSE])
  /\ current' = Len(flows) + 1
  /\ sending' = TRUE
  /\ UNCHANGED <<serverVars, active, buffer, syncing, moveVars, faults,
                 historyVars>>

MayAsk == active # Home /\ ~sending /\ current = 0 /\ ~ResumeDue

(* markAssistantMessageAsFailed.                                           *)
MarkFailed(ms, k) ==
  [i \in DOMAIN ms |-> IF ms[i].id = k THEN [ms[i] EXCEPT !.status = "failed"]
                                       ELSE ms[i]]

(* handleSendSubmit.                                                       *)
Send ==
  LET k == -(Len(flows) + 1)
      shown == Append(messages, Reply(active, k, "streaming", <<>>))
  IN /\ MayAsk
     /\ Begin("send", active, k, 0, MarkFailed(shown, k), 0)
     /\ messages' = shown
     /\ seqs' = [seqs EXCEPT ![active] = 0]

(* handleEditSubmit on the latest message, whose reply is dropped; editing *)
(* a message that the server never stored is left out.                     *)
Edit ==
  LET k == -(Len(flows) + 1)
      m == Last(messages)
      shown == Append(Before(messages, m.id), Reply(active, k, "streaming", <<>>))
  IN /\ MayAsk /\ syncing = {}
     /\ messages # <<>> /\ m.id > 0
     /\ Begin("edit", active, k, m.id, MarkFailed(shown, k), 0)
     /\ messages' = shown
     /\ seqs' = [seqs EXCEPT ![active] = 0]

(* executeAssistantReplayWorkflow: retry of a failed reply and             *)
(* regeneration of a complete one, of any conversation on the screen.      *)
Repeat(m) ==
  LET shown == Append(Before(messages, m.id),
                      [m EXCEPT !.status = "streaming", !.text = <<>>])
  IN /\ MayAsk /\ syncing = {}
     /\ m.status # "streaming"
     /\ Begin("repeat", m.conv, m.id, m.id, MarkFailed(shown, m.id), 0)
     /\ messages' = shown
     /\ seqs' = [seqs EXCEPT ![m.conv] = 0]

(* handleResumeConversation.                                               *)
Resume ==
  /\ ResumeDue
  /\ Begin("resume", active, 0, 0, <<>>, seqs[active])
  /\ UNCHANGED <<messages, seqs>>

-----------------------------------------------------------------------------
(* The requests of generations.                                            *)

Step(g, pc) == flows' = [flows EXCEPT ![g].pc = pc]

(* A request fails: what the catch blocks do before they fetch.            *)
Failed(g) ==
  /\ messages' = MarkFailed(messages, flows[g].place)
  /\ flows' = [flows EXCEPT ![g].pc = "fetch", ![g].error = TRUE]

(* What the transaction of send, edit or replay insists on.                *)
Accepts(g) ==
  LET f == flows[g]
      rows == stored[f.conv]
  IN CASE f.kind = "send" -> TRUE
       [] f.kind = "edit" -> rows # <<>> /\ Last(rows).id = f.target
       [] f.kind = "repeat" ->
            \E m \in ToSet(rows) : m.id = f.target /\ m.status = "settled"

Asking(g) == flows[g].pc = "ask" /\ flows[g].kind # "resume" /\ flows[g].run = 0

Prepare(g) ==
  LET f == flows[g]
      rows == stored[f.conv]
      kept == IF f.kind = "send" THEN rows ELSE Before(rows, f.target)
      key == IF f.kind = "repeat" THEN f.target ELSE nextKey
  IN /\ Asking(g) /\ Accepts(g)
     /\ stored' = [stored EXCEPT ![f.conv] =
                     Append(kept, Reply(f.conv, key, "streaming", <<>>))]
     /\ NewRun(f.conv, key, "prepared")
     /\ nextKey' = IF f.kind = "repeat" THEN nextKey ELSE nextKey + 1
     /\ flows' = [flows EXCEPT ![g].run = Len(runs) + 1]
     /\ UNCHANGED <<active, messages, sending, current, seqs, buffer, syncing,
                    moveVars, faults, historyVars>>

Refuse(g) ==
  /\ Asking(g) /\ ~Accepts(g)
  /\ Failed(g)
  /\ UNCHANGED <<serverVars, active, sending, current, seqs, buffer, syncing,
                 moveVars, faults, historyVars>>

(* The run is registered, or the conversation is busy.                     *)
Register(g) ==
  LET r == flows[g].run IN
  /\ flows[g].pc = "ask" /\ r # 0
  /\ IF Occupied(flows[g].conv)
     THEN /\ runs' = [runs EXCEPT ![r].phase = "refused"]
          /\ Failed(g)
     ELSE /\ runs' = [runs EXCEPT ![r].phase = "live"]
          /\ Step(g, "stream")
          /\ UNCHANGED messages
  /\ UNCHANGED <<stored, nextKey, active, sending, current, seqs, buffer,
                 syncing, moveVars, faults, historyVars>>

(* resumeStream finds the run of the conversation, or none (409).          *)
Attach(g) ==
  LET f == flows[g]
      open == {r \in DOMAIN runs : /\ runs[r].conv = f.conv
                                   /\ runs[r].phase \in {"live", "stored"}}
  IN /\ f.pc = "ask" /\ f.kind = "resume"
     /\ IF open = {} THEN Step(g, "fetch")
        ELSE \E r \in open :
               flows' = [flows EXCEPT ![g].pc = "stream", ![g].run = r]
     /\ UNCHANGED <<serverVars, active, messages, sending, current, seqs,
                    buffer, syncing, moveVars, faults, historyVars>>

(* The connection breaks, or the request never reaches the server.         *)
Break(g) ==
  LET f == flows[g] IN
  /\ f.pc = "stream" \/ (f.pc = "ask" /\ f.run = 0)
  /\ faults < MaxFaults /\ faults' = faults + 1
  /\ IF f.kind = "resume"
     THEN Step(g, "finish") /\ UNCHANGED messages
     ELSE Failed(g)
  /\ UNCHANGED <<serverVars, active, sending, current, seqs, buffer, syncing,
                 moveVars, historyVars>>

(* The stream ends behind its last event, or earlier because the server    *)
(* dropped a slow subscriber.                                              *)
StreamEnds(g) ==
  LET f == flows[g] IN
  /\ f.pc = "stream"
  /\ \/ /\ runs[f.run].phase = "closed" /\ f.pos >= runs[f.run].seq
        /\ UNCHANGED faults
     \/ faults < MaxFaults /\ faults' = faults + 1
  /\ Step(g, IF f.kind # "resume" /\ f.stop # "none" THEN "finish" ELSE "fetch")
  /\ UNCHANGED <<serverVars, active, messages, sending, current, seqs, buffer,
                 syncing, moveVars, historyVars>>

-----------------------------------------------------------------------------
(* handleStreamEventForConversation.                                       *)

Upcoming(g) == flows[g].pos + 1

(* Slip to catch: events go to whatever is on the screen. *)
AnyView(c) == TRUE

InView(c) == active = c

HasEvent(g) == flows[g].pc = "stream" /\ flows[g].pos < runs[flows[g].run].seq

IsClosing(g) ==
  LET run == runs[flows[g].run] IN run.phase = "closed" /\ Upcoming(g) = run.seq

(* syncGenerationMessageId: the active generation learns the key from an   *)
(* event with a message.                                                   *)
Learnt(g) ==
  LET f == flows[g]
      key == runs[f.run].key
      moved == [flows EXCEPT ![g].pos = @ + 1]
      it == flows[current]
  IN IF /\ current # 0 /\ it.conv = f.conv
        /\ it.place = f.place \/ {f.place, key} \cap it.real # {}
     THEN [moved EXCEPT ![current].real = {key}]
     ELSE moved

(* syncStreamEventSequence.                                                *)
Remember(g) == seqs' = [seqs EXCEPT ![flows[g].conv] = Upcoming(g)]

ShowReply(g, ms, status, text) ==
  LET f == flows[g] IN
  messages' = IF InView(f.conv)
              THEN Upsert(ms, Reply(f.conv, runs[f.run].key, status, text), f.place,
                          IF current # 0 /\ flows[current].conv = f.conv
                          THEN flows'[current].real ELSE {})
              ELSE messages

ReceiveStart(g) ==
  /\ HasEvent(g) /\ Upcoming(g) = 1
  /\ flows' = Learnt(g)
  /\ Remember(g)
  /\ ShowReply(g, messages, "streaming", <<>>)
  /\ UNCHANGED <<serverVars, active, sending, current, buffer, syncing,
                 moveVars, faults, historyVars>>

ReceiveDelta(g) ==
  LET f == flows[g]
      mine == {b \in buffer : b.conv = f.conv /\ b.place = f.place}
      text == IF mine = {} THEN <<>> ELSE (CHOOSE b \in mine : TRUE).text
  IN /\ HasEvent(g) /\ Upcoming(g) # 1 /\ ~IsClosing(g)
     /\ flows' = [flows EXCEPT ![g].pos = @ + 1]
     /\ Remember(g)
     /\ IF InView(f.conv)
        THEN /\ buffer' = {[conv |-> f.conv, place |-> f.place,
                            text |-> Append(text, Upcoming(g))]}
             /\ messages' = IF mine = {} THEN Flushed ELSE messages
        ELSE UNCHANGED <<buffer, messages>>
     /\ UNCHANGED <<serverVars, active, sending, current, syncing, moveVars,
                    faults, historyVars>>

ReceiveClosing(g) ==
  LET f == flows[g] IN
  /\ HasEvent(g) /\ IsClosing(g)
  /\ flows' = Learnt(g)
  /\ Remember(g)
  /\ ShowReply(g, Flushed, "settled", Deltas(f.pos))
  /\ buffer' = IF InView(f.conv) THEN {} ELSE buffer
  /\ UNCHANGED <<serverVars, active, sending, current, syncing, moveVars,
                 faults, historyVars>>

-----------------------------------------------------------------------------
(* reconcileConversationState, for a generation and for a stop.            *)

(* Slip to catch: what the server has replaces the failed messages. *)
RowsOnly(rows, kept) == rows

(* mergePreservedMessages.                                                 *)
Merge(rows, kept) ==
  ById(ToSet(kept) \cup {m \in ToSet(rows) : \A k \in ToSet(kept) : k.id # m.id})

(* Slip to catch: rows replace whatever is on the screen. *)
ShowAlways(c, rows) == messages' = rows /\ loaded' = loaded

ShowRows(c, rows) ==
  IF InView(c) THEN messages' = rows /\ loaded' = TRUE
               ELSE UNCHANGED <<messages, loaded>>

Answer(g) ==
  /\ flows[g].pc = "fetch"
  /\ flows' = [flows EXCEPT ![g].pc = "answered", ![g].got = stored[flows[g].conv]]
  /\ UNCHANGED <<serverVars, active, messages, sending, current, seqs, buffer,
                 syncing, moveVars, faults, historyVars>>

Apply(g) ==
  LET f == flows[g] IN
  /\ f.pc = "answered"
  /\ ShowRows(f.conv, IF f.error THEN Merge(f.got, f.kept) ELSE f.got)
  /\ flows' = [flows EXCEPT ![g].pc = "finish", ![g].got = <<>>, ![g].kept = <<>>]
  /\ UNCHANGED <<serverVars, active, sending, current, seqs, buffer, syncing,
                 moveVars, faults, reset>>

FetchFails(g) ==
  /\ flows[g].pc = "fetch"
  /\ faults < MaxFaults /\ faults' = faults + 1
  /\ Step(g, "finish")
  /\ UNCHANGED <<serverVars, active, messages, sending, current, seqs, buffer,
                 syncing, moveVars, historyVars>>

(* Slips to catch: whoever finishes takes the stop button away; the        *)
(* reference to the active generation is kept.                             *)
FinalizeAny(g) ==
  /\ messages' = Flushed /\ buffer' = {}
  /\ current' = (IF current = g THEN 0 ELSE current) /\ sending' = FALSE
KeepReference(g) ==
  IF current = g THEN messages' = Flushed /\ buffer' = {} /\ sending' = FALSE
                      /\ UNCHANGED current
  ELSE UNCHANGED <<messages, buffer, current, sending>>

(* finalizeGeneration: only the active generation.                         *)
Finalize(g) ==
  IF current = g
  THEN /\ messages' = Flushed /\ buffer' = {}
       /\ current' = 0 /\ sending' = FALSE
  ELSE UNCHANGED <<messages, buffer, current, sending>>

(* The list is loaded again and the generation settled: a stop that was    *)
(* requested is waited for and finalizes (settleGenerationCleanup).        *)
Finish(g) ==
  LET f == flows[g] IN
  /\ f.pc = "finish"
  /\ IF f.kind # "resume" /\ f.stop # "none"
     THEN f.stop = "done" /\ UNCHANGED <<messages, buffer, current, sending>>
     ELSE Finalize(g)
  /\ flows' = [flows EXCEPT ![g] = [Overtaken(g) EXCEPT !.pc = "done"]]
  /\ UNCHANGED <<serverVars, active, seqs, syncing, moveVars, faults,
                 historyVars>>

-----------------------------------------------------------------------------
(* handleStopGeneration, settleStoppedGeneration and                       *)
(* waitForConversationToSettle.                                            *)

Stop ==
  /\ sending /\ current # 0 /\ flows[current].stop = "none"
  /\ moves < MaxMoves /\ moves' = moves + 1
  /\ flows' = [flows EXCEPT ![current].stop = "cancel"]
  /\ messages' = Flushed /\ buffer' = {}
  /\ UNCHANGED <<serverVars, active, sending, current, seqs, syncing, archiving,
                 faults, historyVars>>

(* The cancel request reaches a run, which may be settled from its first   *)
(* event on anyway, or finds none, or fails: all three are waited out.     *)
StopCancel(g) ==
  /\ flows[g].stop = "cancel"
  /\ flows' = [flows EXCEPT ![g].stop = "fetch",
                            ![g].lost = flows[g].pc = "ask"]
  /\ UNCHANGED <<serverVars, active, messages, sending, current, seqs,
                 buffer, syncing, moveVars, faults, historyVars>>

StopAnswer(g) ==
  /\ flows[g].stop = "fetch"
  /\ flows' = [flows EXCEPT ![g].stop = "answered", ![g].answer = stored[flows[g].conv]]
  /\ UNCHANGED <<serverVars, active, messages, sending, current, seqs, buffer,
                 syncing, moveVars, faults, historyVars>>

StopApply(g) ==
  LET f == flows[g]
      unsettled == \E m \in ToSet(f.answer) : m.status = "streaming"
      again == unsettled /\ f.tries + 1 < ReconcileAttempts
  IN /\ f.stop = "answered"
     /\ ShowRows(f.conv, f.answer)
     /\ flows' = [flows EXCEPT ![g].stop = IF again THEN "fetch" ELSE "finish",
                               ![g].tries = IF again THEN @ + 1 ELSE @,
                               ![g].lost = @ \/ (unsettled /\ ~again),
                               ![g].answer = <<>>]
     /\ UNCHANGED <<serverVars, active, sending, current, seqs, buffer, syncing,
                    moveVars, faults, reset>>

StopFetchFails(g) ==
  /\ flows[g].stop = "fetch"
  /\ faults < MaxFaults /\ faults' = faults + 1
  /\ flows' = [flows EXCEPT ![g].stop = "finish"]
  /\ UNCHANGED <<serverVars, active, messages, sending, current, seqs, buffer,
                 syncing, moveVars, historyVars>>

StopFinish(g) ==
  /\ flows[g].stop = "finish"
  /\ flows' = [flows EXCEPT ![g] = [Overtaken(g) EXCEPT !.stop = "done"]]
  /\ Finalize(g)
  /\ UNCHANGED <<serverVars, active, seqs, syncing, moveVars, faults,
                 historyVars>>

-----------------------------------------------------------------------------
User ==
  \/ \E c \in Conversations \cup {Home} : Navigate(c)
  \/ Archive
  \/ Send \/ Edit
  \/ \E m \in ToSet(messages) : Repeat(m)
  \/ Stop

Request(g) == Prepare(g) \/ Refuse(g) \/ Register(g) \/ Attach(g)

Receive(g) == ReceiveStart(g) \/ ReceiveDelta(g) \/ ReceiveClosing(g)

Proceed(g) ==
  \/ Request(g) \/ Receive(g) \/ StreamEnds(g)
  \/ Answer(g) \/ Apply(g) \/ Finish(g)

Stopping(g) == StopCancel(g) \/ StopAnswer(g) \/ StopApply(g) \/ StopFinish(g)

Sync == SyncAnswer \/ SyncApply

Next ==
  \/ User \/ Resume \/ FlushFrame \/ Sync \/ SyncFails
  \/ \E c \in Conversations : OtherTab(c) \/ Archived(c) \/ ArchiveFails(c)
  \/ \E r \in DOMAIN runs : Serve(r)
  \/ \E g \in DOMAIN flows :
       Proceed(g) \/ Stopping(g) \/ Break(g) \/ FetchFails(g) \/ StopFetchFails(g)

(* Requests are answered, the server ends its runs, and what the browser   *)
(* has scheduled runs; users and other tabs need not do anything.          *)
Fairness ==
  /\ WF_vars(Resume) /\ WF_vars(FlushFrame) /\ WF_vars(Sync)
  /\ \A r \in 1..(MaxFlows + MaxOthers) :
       WF_vars(r \in DOMAIN runs /\ Serve(r))
  /\ \A g \in 1..MaxFlows :
       /\ WF_vars(g \in DOMAIN flows /\ Proceed(g))
       /\ WF_vars(g \in DOMAIN flows /\ Stopping(g))

Spec == Init /\ [][Next]_vars
FairSpec == Spec /\ Fairness

-----------------------------------------------------------------------------
(* Properties.                                                             *)

Statuses == {"streaming", "settled", "failed"}

(* Types of the state; a text consists of deltas only, and at most one     *)
(* fetch of the history and one buffered delta are open.                   *)
TypeOK ==
  LET Texts == Seq(2..(MaxEvents - 1))
      IsReply(m) == /\ m.conv \in Conversations /\ m.id \in Int \ {0}
                    /\ m.status \in Statuses /\ m.text \in Texts
  IN /\ \A c \in Conversations :
          \A m \in ToSet(stored[c]) : IsReply(m) /\ m.conv = c
     /\ \A m \in ToSet(messages) : IsReply(m)
     /\ active \in Conversations \cup {Home}
     /\ sending \in BOOLEAN /\ loaded \in BOOLEAN /\ reset \in BOOLEAN
     /\ current \in 0..Len(flows) /\ Len(flows) <= MaxFlows
     /\ seqs \in [Conversations -> 0..MaxEvents]
     /\ \A r \in DOMAIN runs :
          /\ runs[r].phase \in {"prepared", "live", "stored", "closed", "refused"}
          /\ runs[r].seq \in 0..MaxEvents
     /\ \A x, y \in syncing : x = y
     /\ \A x, y \in buffer : x = y
     /\ archiving \subseteq Conversations
     /\ faults \in 0..MaxFaults /\ moves \in 0..MaxMoves

Ascending(s) == \A i \in 1..(Len(s) - 1) : s[i] < s[i + 1]

(* A stream of a conversation is open behind the back of the active        *)
(* generation.                                                             *)
ReadTwice(c) == \E g \in DOMAIN flows : flows[g].orphan /\ flows[g].conv = c

(* No generation began over an open fetch of the history or on the screen  *)
(* of a conversation that was left (the one a return did not load again),  *)
(* no stop came before the server knew the run or gave up before it was    *)
(* settled, and none was succeeded before it was through.                  *)
Clean == \A g \in DOMAIN flows : ~flows[g].over /\ ~flows[g].lost /\ ~flows[g].orphan

(* A generation was begun, and the sequence number of its conversation     *)
(* forgotten, while a reply that was read in part streamed on the screen.  *)
Forgotten == \E g \in DOMAIN flows : flows[g].cut

(* The text of a reply on the screen holds no delta twice and none before  *)
(* an earlier one, however often its stream is left, resumed by its        *)
(* sequence number, stopped or read over (unless the stream of a           *)
(* generation that is no longer the active one is still open, or the       *)
(* sequence number was forgotten).                                         *)
InOrder ==
  Forgotten \/ \A m \in ToSet(messages) : Ascending(m.text) \/ ReadTwice(m.conv)

(* Once the rows of the active conversation have arrived, no message of    *)
(* another one is on the screen: not of the conversation that is left,     *)
(* whose reply still streams, is reconciled or stopped (unless a           *)
(* generation began over an open fetch or on the screen of another one).   *)
OnlyActive ==
  loaded /\ (\A g \in DOMAIN flows : ~flows[g].over)
  => \A m \in ToSet(messages) : m.conv = active

(* While a generation is the active one the user is offered to stop it:    *)
(* an earlier one that ends late takes nothing away from it.               *)
StopOffered == current # 0 /\ ~reset => sending

Pending == IF buffer = {} THEN <<>> ELSE (CHOOSE b \in buffer : TRUE).text

(* While a reply streams before the eyes of the user, what is shown of it  *)
(* and what is buffered for the next frame are together what was received. *)
LiveTextComplete ==
  current # 0 =>
    LET f == flows[current] IN
    /\ f.kind # "resume" /\ f.stop = "none" /\ f.pc = "stream" /\ f.pos > 0
    /\ ~f.away /\ Clean
    => \E m \in ToSet(messages) :
         /\ m.id = runs[f.run].key
         /\ m.text \o Pending = Deltas(f.pos) \/ m.status = "settled"

(* A request that failed leaves its reply on the screen, marked as failed, *)
(* when the rows of the server have been merged into it.                   *)
FailureKept ==
  \A g \in DOMAIN flows :
    LET f == flows[g] IN
    /\ current = g /\ f.error /\ f.pc = "finish" /\ f.kept = <<>>
    /\ ~f.away /\ f.stop = "none" /\ Clean
    => \E m \in ToSet(messages) : m.id = f.place /\ m.status = "failed"

(* Everything the tab began is through and nothing failed.                 *)
AtRest ==
  /\ active # Home /\ ~sending /\ current = 0 /\ syncing = {} /\ ~ResumeDue
  /\ \A g \in DOMAIN flows :
       /\ flows[g].pc = "done" /\ flows[g].stop \in {"none", "done"}
       /\ ~flows[g].error
  /\ faults = 0

(* Replies that this tab asked for.                                        *)
Own(k) ==
  \E g \in DOMAIN flows :
    flows[g].kind # "resume" /\ flows[g].run # 0 /\ runs[flows[g].run].key = k

ShowsStored ==
  {m \in ToSet(messages) : Own(m.id) \/ m.id < 0 \/ m.conv # active}
    = {m \in ToSet(stored[active]) : Own(m.id)}

(* When everything is through, the screen shows the replies the tab asked  *)
(* for as the server stored them, no placeholder and nothing of another    *)
(* conversation: the answers of overlapping fetches end in the last word.  *)
ViewMatchesStored == AtRest /\ loaded /\ Clean => ShowsStored

(* A generation does not stay the active one for ever: its stream, its     *)
(* reconciliation and its stop end, whatever fails on the way.             *)
GenerationEnds ==
  \A g \in 1..MaxFlows : current = g ~> current # g

(* chat-page.test.tsx:892: a user who returns to a conversation sees the   *)
(* reply it got meanwhile, also when he returns before the generation is   *)
(* finalized.                                                              *)
ReturnShowsReply == AtRest /\ ~reset /\ Clean => ShowsStored

=============================================================================
