------------------------------ MODULE ActiveRun ------------------------------
(***************************************************************************)
(* One generation run of a conversation and the HTTP handlers that watch   *)
(* it: internal/chat/active_run.go and generation_active_run.go.           *)
(*                                                                         *)
(* The worker goroutine publishes numbered events.  The run keeps the last *)
(* BufferLimit of them and copies each one into the bounded channel of     *)
(* every subscriber; a subscriber whose channel is full is dropped.  A     *)
(* handler (the request that launched the run, or one that resumes it)     *)
(* first replays what the buffer holds past its own sequence number, then  *)
(* forwards its channel until the channel is closed or the client leaves.  *)
(* When nobody watches, a timer cancels the run.                           *)
(*                                                                         *)
(* An event is its sequence number: the run never looks at anything else.  *)
(* Every action is one critical section of run.mu or Service.activeMu, or  *)
(* one step of a goroutine between two of them.                            *)
(***************************************************************************)
EXTENDS Naturals, Sequences

CONSTANTS
  Handlers,     \* requests that watch the run
  Launcher,     \* the one among them that launched it
  BufferLimit,  \* activeRunBufferLimit
  ChannelSize,  \* activeRunChannelSize
  MaxEvents     \* bound: how many events the worker publishes

ASSUME LauncherAssumption == Launcher \in Handlers
ASSUME BufferAssumption == BufferLimit \in Nat \ {0}
ASSUME ChannelAssumption == ChannelSize \in Nat \ {0}
ASSUME EventsAssumption == MaxEvents \in Nat

VARIABLES
  nextSeq,      \* run.nextSeq: sequence number of the latest event
  events,       \* run.events: the retained events, oldest first
  subscribers,  \* run.subscribers: handlers whose channel receives events
  finished,     \* run.finished, and whether run.done is closed
  cancelReason, \* run.cancelReason
  detachTimer,  \* run.detachTimer: "nil", "armed", or "expired" once it fired
  detaching,    \* steps that callbacks of expired timers have still to take
  cancelled,    \* run.ctx is cancelled
  cancelling,   \* CancelGeneration has set its reason, not yet called cancel
  worker,       \* where the goroutine of launchActiveRun is
  registered,   \* Service.activeStreams still maps the conversation to the run
  pc,           \* where each handler is
  after,        \* the sequence number each handler resumes after
  replay,       \* what is left of the snapshot subscribe returned
  channel,      \* content of each handler's channel
  open,         \* handlers whose channel exists and is not closed
  delivered,    \* history: what each handler has emitted to its client
  lost          \* history: handlers dropped for being slow, or whose client left

runVars == <<nextSeq, events, subscribers, finished, cancelReason, detachTimer>>
cancelVars == <<detaching, cancelled, cancelling>>
serviceVars == <<worker, registered>>
handlerVars == <<pc, after, replay, channel, open, delivered, lost>>
vars == <<runVars, cancelVars, serviceVars, handlerVars>>

Reasons == {"none", "user", "detached"}
WorkerStates == {"waiting", "executing", "returned", "released", "gone"}
HandlerStates == {"idle", "found", "serving", "leaving", "unsubscribed", "done",
                  "rejected"}

(***************************************************************************)
(* The run as registerActiveStream leaves it: in the map, nothing          *)
(* published, its launcher about to subscribe.                             *)
(***************************************************************************)
Init ==
  /\ nextSeq = 0
  /\ events = <<>>
  /\ subscribers = {}
  /\ finished = FALSE
  /\ cancelReason = "none"
  /\ detachTimer = "nil"
  /\ detaching = {}
  /\ cancelled = FALSE
  /\ cancelling = FALSE
  /\ worker = "waiting"
  /\ registered = TRUE
  /\ pc = [h \in Handlers |-> IF h = Launcher THEN "found" ELSE "idle"]
  /\ after = [h \in Handlers |-> 0]
  /\ replay = [h \in Handlers |-> <<>>]
  /\ channel = [h \in Handlers |-> <<>>]
  /\ open = {}
  /\ delivered = [h \in Handlers |-> <<>>]
  /\ lost = {}

-----------------------------------------------------------------------------
(* Handlers *)

(* withActiveStream: the map is read under activeMu, the run is used after. *)
Lookup(h) ==
  /\ pc[h] = "idle"
  /\ pc' = [pc EXCEPT ![h] = IF registered THEN "found" ELSE "rejected"]
  /\ \E n \in 0..MaxEvents : after' = [after EXCEPT ![h] = n]
  /\ UNCHANGED <<runVars, cancelVars, serviceVars, replay, channel, open,
                 delivered, lost>>

(* The index of the first retained event past n: everything before it is   *)
(* filtered out by subscribe, everything from it on is kept.               *)
FirstAfter(n) ==
  CHOOSE i \in 1..Len(events) + 1 :
    /\ \A j \in 1..i - 1 : events[j] <= n
    /\ \A j \in i..Len(events) : events[j] > n

(* Slip to catch: a finished run returns before the snapshot is made.       *)
RetainedIfLive(n) ==
  IF finished THEN <<>> ELSE SubSeq(events, FirstAfter(n), Len(events))

(* The snapshot subscribe(n) returns. *)
Retained(n) == SubSeq(events, FirstAfter(n), Len(events))

(* Slips to catch: the timer is not stopped; it is, but not set to nil. *)
TimerLeft == UNCHANGED detachTimer
TimerNotCleared ==
  detachTimer' = IF detachTimer = "armed" THEN "expired" ELSE detachTimer

(* Both subscribe and finish stop the timer. *)
StopTimer == detachTimer' = "nil"

Subscribe(h) ==
  /\ pc[h] = "found"
  /\ pc' = [pc EXCEPT ![h] = "serving"]
  /\ StopTimer
  /\ replay' = [replay EXCEPT ![h] = Retained(after[h])]
  /\ IF finished
       THEN UNCHANGED <<subscribers, open>>
       ELSE /\ subscribers' = subscribers \union {h}
            /\ open' = open \union {h}
  /\ worker' = IF h = Launcher THEN "executing" ELSE worker
  /\ UNCHANGED <<nextSeq, events, finished, cancelReason, cancelVars,
                 registered, after, channel, delivered, lost>>

(* emit succeeds on the next event: of the snapshot first, then of the     *)
(* channel.                                                                *)
Emit(h) ==
  /\ pc[h] = "serving"
  /\ \/ /\ replay[h] # <<>>
        /\ delivered' = [delivered EXCEPT ![h] = Append(@, Head(replay[h]))]
        /\ replay' = [replay EXCEPT ![h] = Tail(@)]
        /\ UNCHANGED channel
     \/ /\ replay[h] = <<>>
        /\ channel[h] # <<>>
        /\ delivered' = [delivered EXCEPT ![h] = Append(@, Head(channel[h]))]
        /\ channel' = [channel EXCEPT ![h] = Tail(@)]
        /\ UNCHANGED replay
  /\ UNCHANGED <<runVars, cancelVars, serviceVars, pc, after, open, lost>>

(* The receive finds the channel closed and drained. *)
StreamClosed(h) ==
  /\ pc[h] = "serving"
  /\ replay[h] = <<>>
  /\ channel[h] = <<>>
  /\ h \notin open
  /\ pc' = [pc EXCEPT ![h] = "leaving"]
  /\ UNCHANGED <<runVars, cancelVars, serviceVars, after, replay, channel,
                 open, delivered, lost>>

(* The client goes away: the request context ends, or emit fails on an     *)
(* event that was already taken from the channel.  The launcher then waits *)
(* up to subscriberDisconnectGracePeriod in "leaving".                     *)
Disconnect(h) ==
  /\ pc[h] = "serving"
  /\ pc' = [pc EXCEPT ![h] = "leaving"]
  /\ \/ UNCHANGED channel
     \/ /\ replay[h] = <<>>
        /\ channel[h] # <<>>
        /\ channel' = [channel EXCEPT ![h] = Tail(@)]
  /\ lost' = lost \union {h}
  /\ UNCHANGED <<runVars, cancelVars, serviceVars, after, replay, open,
                 delivered>>

(* The deferred cleanup, first half; the handler lets go of what it held. *)
Unsubscribe(h) ==
  /\ pc[h] = "leaving"
  /\ pc' = [pc EXCEPT ![h] = "unsubscribed"]
  /\ subscribers' = subscribers \ {h}
  /\ open' = IF h \in subscribers THEN open \ {h} ELSE open
  /\ replay' = [replay EXCEPT ![h] = <<>>]
  /\ channel' = [channel EXCEPT ![h] = <<>>]
  /\ UNCHANGED <<nextSeq, events, finished, cancelReason, detachTimer,
                 cancelVars, serviceVars, after, delivered, lost>>

NoTimerNeeded == finished \/ subscribers # {} \/ detachTimer # "nil"

(* The deferred cleanup, second half. *)
ScheduleDetachCancellation(h) ==
  /\ pc[h] = "unsubscribed"
  /\ pc' = [pc EXCEPT ![h] = "done"]
  /\ detachTimer' = IF NoTimerNeeded THEN detachTimer ELSE "armed"
  /\ UNCHANGED <<nextSeq, events, subscribers, finished, cancelReason,
                 cancelVars, serviceVars, after, replay, channel, open,
                 delivered, lost>>

-----------------------------------------------------------------------------
(* Cancellation *)

(* setCancelReason: the first reason stays. *)
SetCancelReason(reason) ==
  cancelReason' = IF cancelReason = "none" THEN reason ELSE cancelReason

(* Slip to catch: the callback may cancel before it has set the reason. *)
TimerFiresUnordered ==
  /\ detachTimer = "armed"
  /\ detachTimer' = "expired"
  /\ detaching' = detaching \union {"setReason", "cancel"}
  /\ UNCHANGED <<nextSeq, events, subscribers, finished, cancelReason,
                 cancelled, cancelling, serviceVars, handlerVars>>

(* The runtime starts the callback; Stop comes too late from here on. *)
TimerFires ==
  /\ detachTimer = "armed"
  /\ detachTimer' = "expired"
  /\ detaching' = detaching \union {"setReason"}
  /\ UNCHANGED <<nextSeq, events, subscribers, finished, cancelReason,
                 cancelled, cancelling, serviceVars, handlerVars>>

DetachSetsReason ==
  /\ "setReason" \in detaching
  /\ SetCancelReason("detached")
  /\ detaching' = (detaching \ {"setReason"}) \union {"cancel"}
  /\ UNCHANGED <<nextSeq, events, subscribers, finished, detachTimer,
                 cancelled, cancelling, serviceVars, handlerVars>>

(* run.cancel(); the callback then only waits for run.done. *)
DetachCancels ==
  /\ "cancel" \in detaching
  /\ detaching' = detaching \ {"cancel"}
  /\ cancelled' = TRUE
  /\ UNCHANGED <<runVars, cancelling, serviceVars, handlerVars>>

(* CancelGeneration found the run in the map, maybe long ago. *)
UserSetsReason ==
  /\ SetCancelReason("user")
  /\ cancelling' = TRUE
  /\ UNCHANGED <<nextSeq, events, subscribers, finished, detachTimer,
                 detaching, cancelled, serviceVars, handlerVars>>

UserCancels ==
  /\ cancelling
  /\ cancelling' = FALSE
  /\ cancelled' = TRUE
  /\ UNCHANGED <<runVars, detaching, serviceVars, handlerVars>>

-----------------------------------------------------------------------------
(* The worker goroutine *)

(* The last BufferLimit elements of s. *)
Trim(s) ==
  IF Len(s) > BufferLimit THEN SubSeq(s, Len(s) - BufferLimit + 1, Len(s)) ELSE s

(* Slip to catch: a full channel misses the event and stays subscribed. *)
PublishSkipsSlow ==
  /\ worker = "executing"
  /\ ~finished
  /\ nextSeq < MaxEvents
  /\ channel' = [h \in Handlers |->
                   IF h \in subscribers /\ Len(channel[h]) < ChannelSize
                     THEN Append(channel[h], nextSeq + 1)
                     ELSE channel[h]]
  /\ nextSeq' = nextSeq + 1
  /\ events' = Trim(Append(events, nextSeq + 1))
  /\ UNCHANGED <<subscribers, finished, cancelReason, detachTimer, cancelVars,
                 serviceVars, pc, after, replay, open, delivered, lost>>

(* publish: number the event, retain it, offer it to every subscriber. *)
Publish ==
  /\ worker = "executing"
  /\ ~finished
  /\ nextSeq < MaxEvents
  /\ LET slow == {h \in subscribers : Len(channel[h]) >= ChannelSize}
     IN  /\ channel' = [h \in Handlers |->
                          IF h \in subscribers \ slow
                            THEN Append(channel[h], nextSeq + 1)
                            ELSE channel[h]]
         /\ subscribers' = subscribers \ slow
         /\ open' = open \ slow
         /\ lost' = lost \union slow
  /\ nextSeq' = nextSeq + 1
  /\ events' = Trim(Append(events, nextSeq + 1))
  /\ UNCHANGED <<finished, cancelReason, detachTimer, cancelVars, serviceVars,
                 pc, after, replay, delivered>>

(* execute and publishActiveRunError return. *)
ExecuteReturns ==
  /\ worker = "executing"
  /\ worker' = "returned"
  /\ UNCHANGED <<runVars, cancelVars, registered, handlerVars>>

(* Slip to catch: channels are closed but stay in the map, to be closed     *)
(* again.                                                                   *)
CloseOnly == open' = open \ subscribers /\ UNCHANGED subscribers

CloseAll == open' = open \ subscribers /\ subscribers' = {}

(* finishActiveStream: run.finish(), *)
Finish ==
  /\ worker = "returned"
  /\ ~finished
  /\ finished' = TRUE
  /\ StopTimer
  /\ CloseAll
  /\ UNCHANGED <<nextSeq, events, cancelReason, cancelVars, serviceVars, pc,
                 after, replay, channel, delivered, lost>>

(* then run.cancel(), *)
Release ==
  /\ worker = "returned"
  /\ finished
  /\ worker' = "released"
  /\ cancelled' = TRUE
  /\ UNCHANGED <<runVars, detaching, cancelling, registered, handlerVars>>

(* then the removal from activeStreams under activeMu. *)
Unregister ==
  /\ worker = "released"
  /\ worker' = "gone"
  /\ registered' = FALSE
  /\ UNCHANGED <<runVars, cancelVars, handlerVars>>

-----------------------------------------------------------------------------
HandlerStep(h) ==
  \/ Lookup(h) \/ Subscribe(h) \/ Emit(h) \/ StreamClosed(h) \/ Disconnect(h)
  \/ Unsubscribe(h) \/ ScheduleDetachCancellation(h)

CancelStep ==
  \/ TimerFires \/ DetachSetsReason \/ DetachCancels
  \/ UserSetsReason \/ UserCancels

WorkerStep ==
  \/ Publish \/ ExecuteReturns \/ Finish \/ Release \/ Unregister

Next == (\E h \in Handlers : HandlerStep(h)) \/ CancelStep \/ WorkerStep

Spec == Init /\ [][Next]_vars

(***************************************************************************)
(* Go schedules every runnable goroutine and timers expire.  A handler     *)
(* that was started keeps forwarding and cleans up, but nothing makes a    *)
(* client arrive, leave, or ask for a cancellation.  The model call is     *)
(* only sure to return once its context is cancelled.                      *)
(***************************************************************************)
HandlerProgress(h) ==
  \/ Subscribe(h) \/ Emit(h) \/ StreamClosed(h)
  \/ Unsubscribe(h) \/ ScheduleDetachCancellation(h)

Fairness ==
  /\ \A h \in Handlers : WF_vars(HandlerProgress(h))
  /\ WF_vars(TimerFires)
  /\ WF_vars(DetachSetsReason)
  /\ WF_vars(DetachCancels)
  /\ WF_vars(UserCancels)
  /\ WF_vars(cancelled /\ ExecuteReturns)
  /\ WF_vars(Finish \/ Release \/ Unregister)

FairSpec == Spec /\ Fairness

-----------------------------------------------------------------------------
(* Properties *)

Event == 1..MaxEvents

(* Types; the buffer and every channel stay within their limits. *)
TypeOK ==
  /\ nextSeq \in 0..MaxEvents
  /\ events \in Seq(Event) /\ Len(events) <= BufferLimit
  /\ subscribers \subseteq Handlers
  /\ finished \in BOOLEAN
  /\ cancelReason \in Reasons
  /\ detachTimer \in {"nil", "armed", "expired"}
  /\ detaching \subseteq {"setReason", "cancel"}
  /\ cancelled \in BOOLEAN
  /\ cancelling \in BOOLEAN
  /\ worker \in WorkerStates
  /\ registered \in BOOLEAN
  /\ pc \in [Handlers -> HandlerStates]
  /\ after \in [Handlers -> 0..MaxEvents]
  /\ replay \in [Handlers -> Seq(Event)]
  /\ channel \in [Handlers -> Seq(Event)]
  /\ \A h \in Handlers : Len(channel[h]) <= ChannelSize
  /\ open \subseteq Handlers
  /\ delivered \in [Handlers -> Seq(Event)]
  /\ lost \subseteq Handlers

(* What a handler has emitted and still holds, in order. *)
Pipeline(h) == delivered[h] \o replay[h] \o channel[h]

Consecutive(s) == \A i \in 1..Len(s) : s[i] = s[1] + i - 1

(* No event is lost, repeated or reordered inside what one client receives: *)
(* the snapshot of subscribe joins the live channel without a seam, however *)
(* publishing, slow clients and reconnects interleave.                      *)
GapFree == \A h \in Handlers : Consecutive(delivered[h])

(* A client that resumes after n may miss an event past n only because the  *)
(* run's buffer had already let go of it.                                   *)
OnlyTrimmedSkipped ==
  \A h \in Handlers : delivered[h] # <<>> =>
    \A n \in after[h] + 1..delivered[h][1] - 1 : n <= nextSeq - Len(events)

(* A handler that was neither dropped nor left by its client holds or has   *)
(* emitted everything up to the latest event; in particular when it finds   *)
(* its channel closed by finish its client has the whole stream.            *)
UpToDate ==
  \A h \in Handlers : pc[h] = "serving" /\ h \notin lost =>
    IF Pipeline(h) = <<>> THEN nextSeq <= after[h]
    ELSE Pipeline(h)[Len(Pipeline(h))] = nextSeq

(* What a client receives: nothing repeated or out of order, nothing missing *)
(* but what the buffer had dropped, and nothing left behind.                *)
Delivery == GapFree /\ OnlyTrimmedSkipped /\ UpToDate

(* The run never sends on or closes a closed channel (either panics), and   *)
(* no handler waits on an open channel that nobody feeds or will close.     *)
ChannelsOwned == open = subscribers /\ (finished => subscribers = {})

(* The detach timer counts down only while nobody is subscribed to an       *)
(* unfinished run: any subscription and the end of the run both stop it.    *)
TimerOnlyUnwatched ==
  detachTimer = "armed" => subscribers = {} /\ ~finished

(* The run's context is cancelled only after the reason was recorded, so    *)
(* the worker that sees the cancellation can tell who asked; the exception  *)
(* is the release of the context once the run is finished.                  *)
CancelHasReason == cancelled => cancelReason # "none" \/ finished

(* Nobody watches the run or is about to. *)
Unattended == \A h \in Handlers : pc[h] \in {"idle", "done", "rejected"}

(* A run that every client has left ends: by itself, or because the detach  *)
(* timer cancels it.                                                        *)
AbandonedRunEnds == Unattended ~> (finished \/ ~Unattended)

(* Once the run is finished every request that watches it comes to an end.  *)
StreamsEnd == finished ~> Unattended

(* A cancelled run frees its conversation for the next one.                 *)
CancelledRunEnds == cancelled ~> ~registered

(* Nothing of a run is left behind for ever: abandoned and cancelled runs   *)
(* end, and with a run the requests that watch it.                          *)
RunEnds == AbandonedRunEnds /\ StreamsEnd /\ CancelledRunEnds

(***************************************************************************)
(* What a run promises its clients: each of them reads a feed of events.   *)
(***************************************************************************)
ReaderStatus ==
  [h \in Handlers |->
     IF pc[h] \in {"idle", "found", "rejected"} THEN "idle"
     ELSE IF h \in lost THEN "lost"
     ELSE IF pc[h] = "serving" THEN "reading"
     ELSE "complete"]

Feed == INSTANCE EventFeed WITH
  Readers <- Handlers, length <- nextSeq, ended <- finished, from <- after,
  status <- ReaderStatus, out <- delivered

(* Buffers, channels, locks and the timer together implement that feed: a    *)
(* handler that ends without having been dropped gave its client every event. *)
ImplementsFeed == Feed!Spec

=============================================================================
