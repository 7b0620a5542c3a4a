--------------------------- MODULE ActiveRunProofs ---------------------------
(***************************************************************************)
(* Proofs about ActiveRun, for any number of handlers, any buffer and      *)
(* channel sizes and any number of events.  The invariant is built in four *)
(* layers, each proved with the help of the ones before it: types, who is  *)
(* subscribed when, why a run is cancelled, and what is in the buffers.    *)
(* The last section proves that the run implements EventFeed.              *)
(***************************************************************************)
EXTENDS ActiveRun, Integers, SequenceTheorems, TLAPS

(* Who is subscribed, and what the end of the run and the timer rely on. *)
Watching ==
  /\ pc[Launcher] # "idle" /\ (pc[Launcher] = "found" => worker = "waiting")
  /\ ChannelsOwned
  /\ TimerOnlyUnwatched
  /\ finished => worker \in {"returned", "released", "gone"}
  /\ worker \in {"released", "gone"} => finished
  /\ \A h \in subscribers : pc[h] \in {"serving", "leaving"}
  /\ \A h \in Handlers :
       pc[h] = "serving" /\ h \notin lost /\ ~finished => h \in subscribers
  /\ \A h \in subscribers : pc[h] = "serving" => h \notin lost
  /\ \A h \in lost : pc[h] \notin {"idle", "found"}

(* A reason is recorded before anybody is about to cancel. *)
Reasoned ==
  /\ "cancel" \in detaching => cancelReason # "none"
  /\ cancelling => cancelReason # "none"
  /\ CancelHasReason

(* The buffer holds the latest events, the newest one last. *)
Buffered ==
  /\ Len(events) <= nextSeq
  /\ nextSeq > 0 => Len(events) > 0
  /\ \A i \in 1..Len(events) : events[i] = nextSeq - Len(events) + i

(* s is the run of consecutive events that ends with n. *)
EndsWith(s, n) == \A i \in 1..Len(s) : s[i] = n - Len(s) + i

(* s is exactly the events m + 1 to n. *)
Covers(s, m, n) == Len(s) = n - m /\ \A i \in 1..Len(s) : s[i] = m + i

(* Every event past its resume point that h misses, up to n, was trimmed. *)
NothingSkipped(h, n) == n <= after[h] \/ n <= nextSeq - Len(events)

(* Output, snapshot and channel follow each other without a seam. *)
Aligned(h, a, d, r, e) ==
  /\ Covers(delivered[h], a, d)
  /\ Covers(replay[h], d, r)
  /\ Covers(channel[h], r, e)
  /\ NothingSkipped(h, a)
  /\ h \notin lost => e = nextSeq

Settled(h) == \E a, d \in Int : Covers(delivered[h], a, d) /\ NothingSkipped(h, a)

Stream(h) ==
  /\ pc[h] \in {"idle", "found", "rejected"} => delivered[h] = <<>>
  /\ pc[h] \in {"idle", "found", "rejected"} => channel[h] = <<>>
  /\ pc[h] = "serving" => \E a, d, r, e \in Int : Aligned(h, a, d, r, e)
  /\ pc[h] \in {"leaving", "unsubscribed", "done"} => Settled(h)

Streams == \A h \in Handlers : Stream(h)

RInv == TypeOK /\ Watching /\ Reasoned /\ Buffered /\ Streams

-----------------------------------------------------------------------------
(* What the operators return. *)

(* Trimming returns events, at most BufferLimit of them. *)
LEMMA TrimType ==
  ASSUME NEW s \in Seq(Event)
  PROVE  Trim(s) \in Seq(Event) /\ Len(Trim(s)) <= BufferLimit
<1>1. Len(s) \in Nat /\ \A i \in 1..Len(s) : s[i] \in Event
  BY LenProperties, ElementOfSeq
<1>2. CASE Len(s) > BufferLimit
  <2> DEFINE m == Len(s) - BufferLimit + 1
  <2>1. m \in Int /\ m >= 1 /\ m <= Len(s)
    BY <1>1, <1>2, BufferAssumption
  <2>2. /\ SubSeq(s, m, Len(s)) \in Seq(Event)
        /\ Len(SubSeq(s, m, Len(s))) = IF m <= Len(s) THEN Len(s) - m + 1 ELSE 0
    BY <1>1, <2>1, SubSeqProperties
  <2>3. Len(s) - m + 1 = BufferLimit
    BY <1>1, BufferAssumption
  <2>4. Trim(s) = SubSeq(s, m, Len(s))
    BY <1>2 DEF Trim
  <2> QED
    BY <2>1, <2>2, <2>3, <2>4, BufferAssumption
<1>3. CASE ~(Len(s) > BufferLimit)
  BY <1>1, <1>3, BufferAssumption DEF Trim
<1> QED
  BY <1>2, <1>3

(* Trimming keeps the end of a run of consecutive events. *)
LEMMA TrimEnds ==
  ASSUME NEW s \in Seq(Event), NEW n \in Int, EndsWith(s, n)
  PROVE  /\ EndsWith(Trim(s), n)
         /\ Len(Trim(s)) <= Len(s)
         /\ s # <<>> => Len(Trim(s)) > 0
<1>1. Len(s) \in Nat /\ \A i \in 1..Len(s) : s[i] \in Event
  BY LenProperties, ElementOfSeq
<1>2. CASE Len(s) > BufferLimit
  <2> DEFINE m == Len(s) - BufferLimit + 1
  <2>1. m \in Int /\ m >= 1 /\ m <= Len(s) /\ Len(s) - m + 1 = BufferLimit
    BY <1>1, <1>2, BufferAssumption
  <2>2. Trim(s) = SubSeq(s, m, Len(s))
    BY <1>2 DEF Trim
  <2> HIDE DEF m
  <2>3. /\ Len(Trim(s)) = Len(s) - m + 1
        /\ \A i \in 1..Len(s) - m + 1 : Trim(s)[i] = s[m + i - 1]
    <3>1. \A i \in m..Len(s) : s[i] \in Event
      BY <1>1, <2>1
    <3>2. /\ Len(SubSeq(s, m, Len(s))) = IF m <= Len(s) THEN Len(s) - m + 1 ELSE 0
          /\ \A i \in 1..Len(s) - m + 1 : SubSeq(s, m, Len(s))[i] = s[m + i - 1]
      BY <1>1, <2>1, <3>1, SubSeqProperties
    <3> QED
      BY <2>1, <2>2, <3>2
  <2>4. Len(Trim(s)) = BufferLimit
    BY <2>1, <2>3
  <2>5. \A i \in 1..BufferLimit :
          /\ m + i - 1 \in 1..Len(s)
          /\ n - Len(s) + (m + i - 1) = n - BufferLimit + i
    BY <1>1, <2>1, BufferAssumption
  <2>6. \A i \in 1..BufferLimit : Trim(s)[i] = n - BufferLimit + i
    BY <2>1, <2>3, <2>5 DEF EndsWith
  <2> QED
    BY <1>1, <1>2, <2>4, <2>6, BufferAssumption DEF EndsWith
<1>3. CASE ~(Len(s) > BufferLimit)
  <2>1. s # <<>> => Len(s) > 0
    BY <1>1, EmptySeq
  <2> QED
    BY <1>1, <1>3, <2>1 DEF Trim
<1> QED
  BY <1>2, <1>3

(* subscribe's snapshot: the events past n, up to the newest. *)
LEMMA RetainedEnds ==
  ASSUME TypeOK, Buffered, NEW n \in Nat
  PROVE  /\ Retained(n) \in Seq(Event)
         /\ EndsWith(Retained(n), nextSeq)
         /\ \/ nextSeq - Len(Retained(n)) <= n
            \/ nextSeq - Len(Retained(n)) = nextSeq - Len(events)
<1> DEFINE L == Len(events)
           first == FirstAfter(n)
           Cut(i) == /\ \A j \in 1..i - 1 : events[j] <= n
                     /\ \A j \in i..L : events[j] > n
<1>1. /\ L \in Nat /\ nextSeq \in Nat
      /\ \A i \in 1..L : events[i] \in Event /\ events[i] = nextSeq - L + i
  BY LenProperties, ElementOfSeq DEF TypeOK, Buffered
<1>2. \E i \in 1..L + 1 : Cut(i)
  <2>1. CASE n < nextSeq - L
    <3>1. 1 \in 1..L + 1 /\ Cut(1)
      BY <1>1, <2>1
    <3> QED
      BY <3>1
  <2>2. CASE n >= nextSeq
    <3>1. L + 1 \in 1..L + 1 /\ Cut(L + 1)
      BY <1>1, <2>2
    <3> QED
      BY <3>1
  <2>3. CASE nextSeq - L <= n /\ n < nextSeq
    <3>1. n - nextSeq + L + 1 \in 1..L + 1
      BY <1>1, <2>3
    <3> DEFINE c == n - nextSeq + L + 1
    <3>2. \A j \in 1..c - 1 : j \in 1..L /\ nextSeq - L + j <= n
      BY <1>1, <2>3
    <3>3. \A j \in c..L : j \in 1..L /\ nextSeq - L + j > n
      BY <1>1, <2>3
    <3>4. Cut(c)
      BY <1>1, <3>2, <3>3
    <3> QED
      BY <3>1, <3>4
  <2> QED
    BY <1>1, <2>1, <2>2, <2>3
<1>3. first \in 1..L + 1 /\ Cut(first)
  BY <1>2 DEF FirstAfter
<1> HIDE DEF first
<1>4. Retained(n) = SubSeq(events, first, L)
  BY DEF Retained, first
<1>5. /\ Retained(n) \in Seq(Event)
      /\ Len(Retained(n)) = L - first + 1
      /\ \A i \in 1..L - first + 1 : Retained(n)[i] = events[first + i - 1]
  BY <1>1, <1>3, <1>4, SubSeqProperties
<1>6. EndsWith(Retained(n), nextSeq)
  <2>1. \A i \in 1..L - first + 1 :
          /\ first + i - 1 \in 1..L
          /\ nextSeq - L + (first + i - 1) = nextSeq - (L - first + 1) + i
    BY <1>1, <1>3
  <2> QED
    BY <1>1, <1>5, <2>1 DEF EndsWith
<1>7. CASE first = 1
  <2>1. Len(Retained(n)) = L
    BY <1>1, <1>5, <1>7
  <2> QED
    BY <1>5, <1>6, <2>1
<1>8. CASE first > 1
  <2>1. first - 1 \in 1..L /\ first - 1 \in 1..first - 1
    BY <1>1, <1>3, <1>8
  <2>2. events[first - 1] <= n /\ events[first - 1] = nextSeq - L + (first - 1)
    BY <1>1, <1>3, <2>1
  <2>3. nextSeq - Len(Retained(n)) <= n
    BY <1>1, <1>3, <1>5, <2>2
  <2> QED
    BY <1>5, <1>6, <2>3
<1> QED
  BY <1>1, <1>3, <1>7, <1>8

(* Appending the successor of the last event. *)
LEMMA AppendEnds ==
  ASSUME NEW s \in Seq(Event), NEW n \in Int, n + 1 \in Event, EndsWith(s, n)
  PROVE  /\ Append(s, n + 1) \in Seq(Event)
         /\ Len(Append(s, n + 1)) = Len(s) + 1
         /\ Append(s, n + 1) # <<>>
         /\ EndsWith(Append(s, n + 1), n + 1)
<1>1. /\ Len(s) \in Nat
      /\ Append(s, n + 1) \in Seq(Event)
      /\ Len(Append(s, n + 1)) = Len(s) + 1
      /\ \A i \in 1..Len(s) : Append(s, n + 1)[i] = s[i]
      /\ Append(s, n + 1)[Len(s) + 1] = n + 1
  BY AppendProperties, LenProperties
<1>2. Append(s, n + 1) # <<>>
  BY <1>1, EmptySeq
<1>3. ASSUME NEW i \in 1..Len(s) + 1
      PROVE  Append(s, n + 1)[i] = n + 1 - (Len(s) + 1) + i
  <2>1. CASE i \in 1..Len(s)
    BY <1>1, <2>1 DEF EndsWith
  <2>2. CASE i = Len(s) + 1
    BY <1>1, <2>2
  <2> QED
    BY <1>1, <2>1, <2>2
<1> QED
  BY <1>1, <1>2, <1>3 DEF EndsWith

(* The same, told from where the sequence starts. *)
LEMMA AppendCovers ==
  ASSUME NEW s \in Seq(Event), NEW m \in Int, NEW n \in Int, n + 1 \in Event,
         Covers(s, m, n)
  PROVE  Append(s, n + 1) \in Seq(Event) /\ Covers(Append(s, n + 1), m, n + 1)
<1>1. Len(s) \in Nat
  BY LenProperties
<1>2. EndsWith(s, n)
  BY <1>1 DEF Covers, EndsWith
<1>3. /\ Append(s, n + 1) \in Seq(Event)
      /\ Len(Append(s, n + 1)) = Len(s) + 1
      /\ EndsWith(Append(s, n + 1), n + 1)
  BY <1>2, AppendEnds
<1>4. Len(s) + 1 = n + 1 - m
  BY <1>1 DEF Covers
<1>5. \A i \in 1..Len(s) + 1 : n + 1 - (Len(s) + 1) + i = m + i
  BY <1>1, <1>4
<1> QED
  BY <1>3, <1>4, <1>5 DEF Covers, EndsWith

(* Taking the first event away. *)
LEMMA TailCovers ==
  ASSUME NEW s \in Seq(Event), NEW m \in Int, NEW n \in Int, s # <<>>,
         Covers(s, m, n)
  PROVE  /\ Tail(s) \in Seq(Event)
         /\ Head(s) \in Event
         /\ Head(s) = m + 1
         /\ Covers(Tail(s), m + 1, n)
<1>1. /\ Len(s) \in Nat \ {0}
      /\ Head(s) \in Event /\ Tail(s) \in Seq(Event)
      /\ Len(Tail(s)) = Len(s) - 1
      /\ \A i \in 1..Len(Tail(s)) : Tail(s)[i] = s[i + 1]
  BY EmptySeq, HeadTailProperties
<1>2. Head(s) = m + 1
  <2>1. Head(s) = s[1]
    OBVIOUS
  <2> QED
    BY <1>1, <2>1 DEF Covers
<1>3. ASSUME NEW i \in 1..Len(s) - 1
      PROVE  Tail(s)[i] = m + 1 + i
  <2>1. i + 1 \in 1..Len(s)
    BY <1>1
  <2>2. s[i + 1] = m + (i + 1)
    BY <2>1 DEF Covers
  <2> QED
    BY <1>1, <2>2
<1>4. Len(s) - 1 = n - (m + 1)
  BY <1>1 DEF Covers
<1> QED
  BY <1>1, <1>2, <1>3, <1>4 DEF Covers

(* Two sequences that meet make one. *)
LEMMA ConcatCovers ==
  ASSUME NEW s \in Seq(Event), NEW t \in Seq(Event),
         NEW m \in Int, NEW n \in Int, NEW k \in Int,
         Covers(s, m, n), Covers(t, n, k)
  PROVE  s \o t \in Seq(Event) /\ Covers(s \o t, m, k)
<1>1. /\ Len(s) \in Nat /\ Len(t) \in Nat
      /\ Len(s) = n - m /\ Len(t) = k - n
  BY LenProperties DEF Covers
<1>2. /\ s \o t \in Seq(Event) /\ Len(s \o t) = Len(s) + Len(t)
      /\ \A i \in 1..Len(s) + Len(t) :
           (s \o t)[i] = IF i <= Len(s) THEN s[i] ELSE t[i - Len(s)]
  BY ConcatProperties
<1>3. ASSUME NEW i \in 1..Len(s) + Len(t)
      PROVE  (s \o t)[i] = m + i
  <2>1. CASE i <= Len(s)
    BY <1>1, <1>2, <2>1 DEF Covers
  <2>2. CASE i > Len(s)
    <3>1. i - Len(s) \in 1..Len(t) /\ n + (i - Len(s)) = m + i
      BY <1>1, <2>2
    <3>2. t[i - Len(s)] = n + (i - Len(s))
      BY <3>1 DEF Covers
    <3> QED
      BY <1>1, <1>2, <2>2, <3>1, <3>2
  <2> QED
    BY <1>1, <2>1, <2>2
<1> QED
  BY <1>1, <1>2, <1>3 DEF Covers

(* An empty sequence covers nothing, wherever it stands. *)
LEMMA EmptyCovers ==
  ASSUME NEW m \in Int, NEW n \in Int
  PROVE  Covers(<<>>, m, n) <=> m = n
BY EmptySeq DEF Covers

-----------------------------------------------------------------------------
(* Types and the buffer.  What subscribe copies is well defined only because *)
(* the buffer is sorted, so the two are proved together.                     *)

(* The initial run is well typed. *)
LEMMA InitType == Init => TypeOK /\ Buffered
<1> SUFFICES ASSUME Init PROVE TypeOK /\ Buffered
  OBVIOUS
<1>1. <<>> \in Seq(Event) /\ Len(<<>>) = 0
  BY EmptySeq
<1>2. /\ replay \in [Handlers -> Seq(Event)]
      /\ channel \in [Handlers -> Seq(Event)]
      /\ delivered \in [Handlers -> Seq(Event)]
      /\ \A h \in Handlers : Len(channel[h]) <= ChannelSize
      /\ events \in Seq(Event) /\ Len(events) <= BufferLimit
  BY <1>1, BufferAssumption, ChannelAssumption DEF Init
<1>3. pc \in [Handlers -> HandlerStates]
  BY DEF Init, HandlerStates
<1>4. nextSeq \in 0..MaxEvents /\ after \in [Handlers -> 0..MaxEvents]
  BY EventsAssumption DEF Init
<1>5. Buffered
  BY <1>1 DEF Init, Buffered
<1> QED
  BY <1>2, <1>3, <1>4, <1>5 DEF Init, TypeOK, Reasons, WorkerStates

(* publish keeps the buffer short, sorted and ending with the latest event. *)
LEMMA PublishType ==
  ASSUME TypeOK, Buffered, Publish
  PROVE  TypeOK' /\ Buffered'
<1>1. /\ nextSeq \in Nat /\ nextSeq + 1 \in Event
      /\ events \in Seq(Event) /\ EndsWith(events, nextSeq)
  BY EventsAssumption DEF TypeOK, Buffered, Publish, Event, EndsWith
<1> DEFINE longer == Append(events, nextSeq + 1)
<1>2. /\ longer \in Seq(Event) /\ longer # <<>>
      /\ Len(longer) = Len(events) + 1
      /\ EndsWith(longer, nextSeq + 1)
  BY <1>1, AppendEnds
<1> HIDE DEF longer
<1>3. /\ Trim(longer) \in Seq(Event)
      /\ Len(Trim(longer)) <= BufferLimit
      /\ Len(Trim(longer)) <= Len(longer)
      /\ Len(Trim(longer)) > 0
      /\ EndsWith(Trim(longer), nextSeq + 1)
  BY <1>1, <1>2, TrimType, TrimEnds
<1>4. events' = Trim(longer) /\ nextSeq' = nextSeq + 1
  BY DEF Publish, longer
<1>5. Buffered'
  <2>1. Len(events') \in Nat /\ Len(events) \in Nat
    BY <1>1, <1>3, <1>4, LenProperties
  <2>2. Len(events') <= nextSeq' /\ Len(events') > 0
    BY <1>1, <1>2, <1>3, <1>4, <2>1 DEF Buffered
  <2>3. \A i \in 1..Len(events') : events'[i] = nextSeq' - Len(events') + i
    BY <1>3, <1>4 DEF EndsWith
  <2> QED
    BY <2>2, <2>3 DEF Buffered
<1>6. /\ channel' \in [Handlers -> Seq(Event)]
      /\ \A h \in Handlers : Len(channel'[h]) <= ChannelSize
  <2>1. ASSUME NEW h \in Handlers
        PROVE  channel'[h] \in Seq(Event) /\ Len(channel'[h]) <= ChannelSize
    <3>1. /\ channel[h] \in Seq(Event) /\ Len(channel[h]) <= ChannelSize
          /\ Len(channel[h]) \in Nat
      BY LenProperties DEF TypeOK
    <3>2. CASE h \in subscribers /\ Len(channel[h]) < ChannelSize
      <4>1. channel'[h] = Append(channel[h], nextSeq + 1)
        BY <3>1, <3>2, ChannelAssumption DEF Publish, TypeOK
      <4>2. /\ Append(channel[h], nextSeq + 1) \in Seq(Event)
            /\ Len(Append(channel[h], nextSeq + 1)) = Len(channel[h]) + 1
        BY <1>1, <3>1, AppendProperties
      <4> QED
        BY <3>1, <3>2, <4>1, <4>2, ChannelAssumption
    <3>3. CASE ~(h \in subscribers /\ Len(channel[h]) < ChannelSize)
      <4>1. channel'[h] = channel[h]
        BY <3>1, <3>3, ChannelAssumption DEF Publish, TypeOK
      <4> QED
        BY <3>1, <4>1
    <3> QED
      BY <3>2, <3>3
  <2>2. channel' = [h \in Handlers |-> channel'[h]]
    BY DEF Publish
  <2> QED
    BY <2>1, <2>2
<1>7. /\ nextSeq' \in 0..MaxEvents
      /\ subscribers' \subseteq Handlers
      /\ open' \subseteq Handlers
      /\ lost' \subseteq Handlers
  BY EventsAssumption DEF TypeOK, Publish
<1> QED
  BY <1>3, <1>4, <1>5, <1>6, <1>7
  DEF TypeOK, Publish, cancelVars, serviceVars

(* subscribe hands out well typed snapshots. *)
LEMMA SubscribeType ==
  ASSUME TypeOK, Buffered, NEW h \in Handlers, Subscribe(h)
  PROVE  TypeOK' /\ Buffered'
<1>1. after[h] \in Nat
  BY EventsAssumption DEF TypeOK
<1>2. Retained(after[h]) \in Seq(Event)
  BY <1>1, RetainedEnds
<1>3. replay' \in [Handlers -> Seq(Event)]
  BY <1>2 DEF TypeOK, Subscribe
<1>4. pc' \in [Handlers -> HandlerStates]
  BY DEF TypeOK, Subscribe, HandlerStates
<1>5. subscribers' \subseteq Handlers /\ open' \subseteq Handlers
  BY DEF TypeOK, Subscribe
<1>6. worker' \in WorkerStates /\ detachTimer' \in {"nil", "armed", "expired"}
  BY DEF TypeOK, Subscribe, WorkerStates, StopTimer
<1> QED
  BY <1>3, <1>4, <1>5, <1>6 DEF TypeOK, Buffered, Subscribe, cancelVars

(* emit moves the head of a well typed sequence. *)
LEMMA EmitType ==
  ASSUME TypeOK, Buffered, NEW h \in Handlers, Emit(h)
  PROVE  TypeOK' /\ Buffered'
<1>1. /\ replay[h] \in Seq(Event) /\ channel[h] \in Seq(Event)
      /\ delivered[h] \in Seq(Event)
      /\ Len(channel[h]) \in Nat /\ Len(channel[h]) <= ChannelSize
  BY LenProperties DEF TypeOK
<1>2. CASE /\ replay[h] # <<>>
           /\ delivered' = [delivered EXCEPT ![h] = Append(@, Head(replay[h]))]
           /\ replay' = [replay EXCEPT ![h] = Tail(@)]
           /\ UNCHANGED channel
  <2>1. Head(replay[h]) \in Event /\ Tail(replay[h]) \in Seq(Event)
    BY <1>1, <1>2, HeadTailProperties
  <2>2. Append(delivered[h], Head(replay[h])) \in Seq(Event)
    BY <1>1, <2>1, AppendProperties
  <2>3. /\ replay' \in [Handlers -> Seq(Event)]
        /\ delivered' \in [Handlers -> Seq(Event)]
    BY <1>2, <2>1, <2>2 DEF TypeOK
  <2> QED
    BY <1>2, <2>3
    DEF TypeOK, Buffered, Emit, runVars, cancelVars, serviceVars
<1>3. CASE /\ channel[h] # <<>>
           /\ delivered' = [delivered EXCEPT ![h] = Append(@, Head(channel[h]))]
           /\ channel' = [channel EXCEPT ![h] = Tail(@)]
           /\ UNCHANGED replay
  <2>1. /\ Head(channel[h]) \in Event /\ Tail(channel[h]) \in Seq(Event)
        /\ Len(Tail(channel[h])) = Len(channel[h]) - 1
    BY <1>1, <1>3, HeadTailProperties
  <2>2. Append(delivered[h], Head(channel[h])) \in Seq(Event)
    BY <1>1, <2>1, AppendProperties
  <2>3. Len(Tail(channel[h])) <= ChannelSize
    BY <1>1, <2>1, ChannelAssumption
  <2>4. /\ channel' \in [Handlers -> Seq(Event)]
        /\ delivered' \in [Handlers -> Seq(Event)]
        /\ \A k \in Handlers : Len(channel'[k]) <= ChannelSize
    BY <1>3, <2>1, <2>2, <2>3 DEF TypeOK
  <2> QED
    BY <1>3, <2>4
    DEF TypeOK, Buffered, Emit, runVars, cancelVars, serviceVars
<1> QED
  BY <1>2, <1>3 DEF Emit

(* A client that leaves loses at most the event already taken for it. *)
LEMMA DisconnectType ==
  ASSUME TypeOK, Buffered, NEW h \in Handlers, Disconnect(h)
  PROVE  TypeOK' /\ Buffered'
<1>1. /\ channel[h] \in Seq(Event)
      /\ Len(channel[h]) \in Nat /\ Len(channel[h]) <= ChannelSize
  BY LenProperties DEF TypeOK
<1>2. /\ channel' \in [Handlers -> Seq(Event)]
      /\ \A k \in Handlers : Len(channel'[k]) <= ChannelSize
  <2>1. CASE UNCHANGED channel
    BY <2>1 DEF TypeOK
  <2>2. CASE channel[h] # <<>> /\ channel' = [channel EXCEPT ![h] = Tail(@)]
    <3>1. /\ Tail(channel[h]) \in Seq(Event)
          /\ Len(Tail(channel[h])) = Len(channel[h]) - 1
      BY <1>1, <2>2, HeadTailProperties
    <3>2. Len(Tail(channel[h])) <= ChannelSize
      BY <1>1, <3>1, ChannelAssumption
    <3> QED
      BY <2>2, <3>1, <3>2 DEF TypeOK
  <2> QED
    BY <2>1, <2>2 DEF Disconnect
<1> QED
  BY <1>2 DEF TypeOK, Buffered, Disconnect, HandlerStates, runVars, cancelVars,
              serviceVars

(* The cleanup of a handler leaves its sequences empty. *)
LEMMA UnsubscribeType ==
  ASSUME TypeOK, Buffered, NEW h \in Handlers, Unsubscribe(h)
  PROVE  TypeOK' /\ Buffered'
<1>1. <<>> \in Seq(Event) /\ Len(<<>>) = 0
  BY EmptySeq
<1>2. /\ replay' \in [Handlers -> Seq(Event)]
      /\ channel' \in [Handlers -> Seq(Event)]
      /\ \A k \in Handlers : Len(channel'[k]) <= ChannelSize
  BY <1>1, ChannelAssumption DEF TypeOK, Unsubscribe
<1>3. /\ subscribers' \subseteq Handlers /\ open' \subseteq Handlers
      /\ pc' \in [Handlers -> HandlerStates]
  BY DEF TypeOK, Unsubscribe, HandlerStates
<1> QED
  BY <1>2, <1>3 DEF TypeOK, Buffered, Unsubscribe, cancelVars, serviceVars

(* Every step keeps the types and the buffer. *)
LEMMA NextType == TypeOK /\ Buffered /\ [Next]_vars => TypeOK' /\ Buffered'
<1> SUFFICES ASSUME TypeOK, Buffered, [Next]_vars
             PROVE  TypeOK' /\ Buffered'
  OBVIOUS
<1>1. CASE Publish
  BY <1>1, PublishType
<1>2. ASSUME NEW h \in Handlers, HandlerStep(h)
      PROVE  TypeOK' /\ Buffered'
  <2>1. CASE Lookup(h)
    BY <2>1 DEF TypeOK, Buffered, Lookup, HandlerStates, runVars, cancelVars,
                serviceVars
  <2>2. CASE Subscribe(h)
    BY <2>2, SubscribeType
  <2>3. CASE Emit(h)
    BY <2>3, EmitType
  <2>4. CASE StreamClosed(h)
    BY <2>4 DEF TypeOK, Buffered, StreamClosed, HandlerStates, runVars,
                cancelVars, serviceVars
  <2>5. CASE Disconnect(h)
    BY <2>5, DisconnectType
  <2>6. CASE Unsubscribe(h)
    BY <2>6, UnsubscribeType
  <2>7. CASE ScheduleDetachCancellation(h)
    BY <2>7 DEF TypeOK, Buffered, ScheduleDetachCancellation, HandlerStates,
                cancelVars, serviceVars
  <2> QED
    BY <1>2, <2>1, <2>2, <2>3, <2>4, <2>5, <2>6, <2>7 DEF HandlerStep
<1>3. CASE CancelStep
  BY <1>3 DEF TypeOK, Buffered, CancelStep, TimerFires, DetachSetsReason,
              DetachCancels, UserSetsReason, UserCancels, SetCancelReason,
              Reasons, runVars, serviceVars, handlerVars
<1>4. CASE ExecuteReturns \/ Finish \/ Release \/ Unregister
  BY <1>4 DEF TypeOK, Buffered, ExecuteReturns, Finish, Release, Unregister,
              WorkerStates, runVars, cancelVars, serviceVars, handlerVars, StopTimer, CloseAll
<1>5. CASE UNCHANGED vars
  BY <1>5 DEF TypeOK, Buffered, vars, runVars, cancelVars, serviceVars,
              handlerVars
<1> QED
  BY <1>1, <1>2, <1>3, <1>4, <1>5 DEF Next, WorkerStep

(* Types and buffer hold of every run: the retained events are the latest   *)
(* ones, consecutive, at most BufferLimit.                                  *)
THEOREM BufferIsTail == Spec => [](TypeOK /\ Buffered)
<1> QED
  BY InitType, NextType, PTL DEF Spec

(* Every variable keeps its type, and no channel outgrows its capacity. *)
THEOREM TypeCorrect == Spec => []TypeOK
<1> QED
  BY BufferIsTail, PTL

-----------------------------------------------------------------------------
(* Who is subscribed. *)

(* The launched run has no subscriber, no timer and is not finished. *)
LEMMA InitWatching == Init => Watching
<1> QED
  BY LauncherAssumption
  DEF Init, Watching, ChannelsOwned, TimerOnlyUnwatched

(* Every step keeps subscriptions, channels, the timer and the end of the   *)
(* run consistent with each other.                                          *)
LEMMA NextWatching == TypeOK /\ Watching /\ [Next]_vars => Watching'
<1> SUFFICES ASSUME TypeOK, Watching, [Next]_vars
             PROVE  Watching'
  OBVIOUS
<1> USE LauncherAssumption DEF Watching, ChannelsOwned, TimerOnlyUnwatched
<1>1. ASSUME NEW h \in Handlers, HandlerStep(h)
      PROVE  Watching'
  <2>1. CASE Lookup(h)
    BY <2>1 DEF TypeOK, Lookup, runVars, cancelVars, serviceVars
  <2>2. CASE Subscribe(h)
    <3>1. /\ detachTimer' = "nil" /\ finished' = finished /\ lost' = lost
          /\ pc[h] = "found" /\ pc' = [pc EXCEPT ![h] = "serving"]
          /\ worker' = IF h = Launcher THEN "executing" ELSE worker
      BY <2>2 DEF Subscribe, StopTimer
    <3>2. \A k \in Handlers : pc'[k] = IF k = h THEN "serving" ELSE pc[k]
      BY <3>1 DEF TypeOK
    <3>3. CASE finished
      <4>1. subscribers' = subscribers /\ open' = open
        BY <2>2, <3>3 DEF Subscribe
      <4>2. h # Launcher
        BY <3>1, <3>3
      <4> QED
        BY <3>1, <3>2, <3>3, <4>1, <4>2
    <3>4. CASE ~finished
      <4>1. subscribers' = subscribers \union {h} /\ open' = open \union {h}
        BY <2>2, <3>4 DEF Subscribe
      <4>2. subscribers \subseteq Handlers /\ h \notin lost
        BY <3>1 DEF TypeOK
      <4> QED
        BY <3>1, <3>2, <3>4, <4>1, <4>2
    <3> QED
      BY <3>3, <3>4
  <2>3. CASE Emit(h)
    BY <2>3 DEF TypeOK, Emit, runVars, cancelVars, serviceVars
  <2>4. CASE StreamClosed(h)
    BY <2>4 DEF TypeOK, StreamClosed, runVars, cancelVars, serviceVars
  <2>5. CASE Disconnect(h)
    BY <2>5 DEF TypeOK, Disconnect, runVars, cancelVars, serviceVars
  <2>6. CASE Unsubscribe(h)
    BY <2>6 DEF TypeOK, Unsubscribe, cancelVars, serviceVars
  <2>7. CASE ScheduleDetachCancellation(h)
    BY <2>7 DEF TypeOK, ScheduleDetachCancellation, cancelVars, serviceVars, NoTimerNeeded
  <2> QED
    BY <1>1, <2>1, <2>2, <2>3, <2>4, <2>5, <2>6, <2>7 DEF HandlerStep
<1>2. CASE CancelStep
  BY <1>2 DEF TypeOK, CancelStep, TimerFires, DetachSetsReason, DetachCancels,
              UserSetsReason, UserCancels, runVars, serviceVars, handlerVars
<1>3. CASE Publish
  BY <1>3 DEF TypeOK, Publish, cancelVars, serviceVars
<1>4. CASE ExecuteReturns
  BY <1>4 DEF TypeOK, ExecuteReturns, runVars, cancelVars, handlerVars
<1>5. CASE Finish
  BY <1>5 DEF TypeOK, Finish, cancelVars, serviceVars, StopTimer, CloseAll
<1>6. CASE Release \/ Unregister
  BY <1>6 DEF TypeOK, Release, Unregister, runVars, cancelVars, handlerVars
<1>7. CASE UNCHANGED vars
  BY <1>7 DEF vars, runVars, cancelVars, serviceVars, handlerVars
<1> QED
  BY <1>1, <1>2, <1>3, <1>4, <1>5, <1>6, <1>7 DEF Next, WorkerStep

(* Nothing sends on, closes or waits for a channel it should not. *)
THEOREM ChannelsAreOwned == Spec => []ChannelsOwned
<1>1. Watching => ChannelsOwned
  BY DEF Watching
<1> QED
  BY <1>1, TypeCorrect, InitWatching, NextWatching, PTL DEF Spec

(* The detach timer never counts down on a run that somebody watches. *)
THEOREM TimerRunsUnwatched == Spec => []TimerOnlyUnwatched
<1>1. Watching => TimerOnlyUnwatched
  BY DEF Watching
<1> QED
  BY <1>1, TypeCorrect, InitWatching, NextWatching, PTL DEF Spec

-----------------------------------------------------------------------------
(* Why a run is cancelled. *)

(* Every step that is about to cancel has recorded a reason before. *)
LEMMA NextReasoned == Reasoned /\ [Next]_vars => Reasoned'
<1> SUFFICES ASSUME Reasoned, [Next]_vars
             PROVE  Reasoned'
  OBVIOUS
<1> USE DEF Reasoned, CancelHasReason
<1>1. ASSUME NEW h \in Handlers, HandlerStep(h)
      PROVE  Reasoned'
  BY <1>1 DEF HandlerStep, Lookup, Subscribe, Emit, StreamClosed, Disconnect,
              Unsubscribe, ScheduleDetachCancellation, runVars, cancelVars,
              serviceVars
<1>2. CASE CancelStep
  BY <1>2 DEF CancelStep, TimerFires, DetachSetsReason, DetachCancels,
              UserSetsReason, UserCancels, SetCancelReason, runVars
<1>3. CASE WorkerStep
  BY <1>3 DEF WorkerStep, Publish, ExecuteReturns, Finish, Release, Unregister,
              runVars, cancelVars, serviceVars
<1>4. CASE UNCHANGED vars
  BY <1>4 DEF vars, runVars, cancelVars
<1> QED
  BY <1>1, <1>2, <1>3, <1>4 DEF Next

(* The worker that sees its context cancelled finds the reason recorded. *)
THEOREM CancellationsHaveReasons == Spec => []CancelHasReason
<1>1. Init => Reasoned
  BY DEF Init, Reasoned, CancelHasReason
<1>2. Reasoned => CancelHasReason
  BY DEF Reasoned
<1> QED
  BY <1>1, <1>2, NextReasoned, PTL DEF Spec

-----------------------------------------------------------------------------
(* What a handler holds and has emitted. *)

(* Arithmetic facts that the steps below use again and again. *)
LEMMA Sizes ==
  ASSUME TypeOK, NEW h \in Handlers
  PROVE  /\ nextSeq \in Nat /\ Len(events) \in Nat /\ after[h] \in Nat
         /\ replay[h] \in Seq(Event) /\ Len(replay[h]) \in Nat
         /\ channel[h] \in Seq(Event) /\ Len(channel[h]) \in Nat
         /\ delivered[h] \in Seq(Event) /\ Len(delivered[h]) \in Nat
BY EventsAssumption, LenProperties DEF TypeOK

(* A step that touches neither the buffer nor what h holds keeps its stream. *)
LEMMA StreamFrame ==
  ASSUME TypeOK, NEW h \in Handlers, Stream(h),
         pc'[h] = pc[h], after'[h] = after[h], replay'[h] = replay[h],
         channel'[h] = channel[h], delivered'[h] = delivered[h],
         h \in lost' <=> h \in lost, nextSeq' = nextSeq, events' = events
  PROVE  Stream(h)'
<1>1. ASSUME NEW a \in Int, NEW d \in Int, NEW r \in Int, NEW e \in Int,
             Aligned(h, a, d, r, e)
      PROVE  Aligned(h, a, d, r, e)'
  BY <1>1 DEF Aligned, Covers, NothingSkipped
<1>2. ASSUME Settled(h) PROVE Settled(h)'
  BY <1>2 DEF Settled, Covers, NothingSkipped
<1> QED
  BY <1>1, <1>2 DEF Stream

(* subscribe starts a stream that reaches up to the latest event. *)
LEMMA SubscribeStream ==
  ASSUME TypeOK, Buffered, NEW h \in Handlers, Stream(h), Subscribe(h)
  PROVE  Stream(h)'
<1>1. /\ delivered[h] = <<>> /\ channel[h] = <<>>
      /\ nextSeq \in Nat /\ after[h] \in Nat /\ Len(events) \in Nat
  BY Sizes DEF Stream, Subscribe
<1>2. /\ pc'[h] = "serving" /\ replay'[h] = Retained(after[h])
      /\ delivered'[h] = <<>> /\ channel'[h] = <<>> /\ after'[h] = after[h]
      /\ nextSeq' = nextSeq /\ events' = events /\ lost' = lost
  BY <1>1 DEF Subscribe, TypeOK
<1>3. PICK s \in Seq(Event) :
        /\ s = Retained(after[h])
        /\ EndsWith(s, nextSeq)
        /\ \/ nextSeq - Len(s) <= after[h]
           \/ nextSeq - Len(s) = nextSeq - Len(events)
  BY <1>1, RetainedEnds
<1>4. PICK n \in Int : n = nextSeq
  BY <1>1
<1>5. PICK a \in Int : a = n - Len(s)
  BY <1>4, LenProperties
<1>6. /\ Covers(s, a, n) /\ Covers(<<>>, a, a) /\ Covers(<<>>, n, n)
  <2>1. Len(s) \in Nat
    BY LenProperties
  <2>2. Covers(s, a, n)
    BY <1>3, <1>4, <1>5, <2>1 DEF Covers, EndsWith
  <2> QED
    BY <2>2, EmptyCovers
<1>7. NothingSkipped(h, a)'
  BY <1>1, <1>2, <1>3, <1>4, <1>5, LenProperties DEF NothingSkipped
<1>8. Aligned(h, a, a, n, n)'
  BY <1>2, <1>3, <1>4, <1>6, <1>7 DEF Aligned, Covers, NothingSkipped
<1> QED
  BY <1>2, <1>8 DEF Stream

(* emit moves one event from what the handler holds to what it has sent. *)
LEMMA EmitStream ==
  ASSUME TypeOK, NEW h \in Handlers, Stream(h), Emit(h)
  PROVE  Stream(h)'
<1>1. PICK a \in Int, d \in Int, r \in Int, e \in Int : Aligned(h, a, d, r, e)
  BY DEF Stream, Emit
<1>2. /\ pc'[h] = "serving" /\ after'[h] = after[h] /\ lost' = lost
      /\ nextSeq' = nextSeq /\ events' = events
  BY DEF Emit, TypeOK, runVars
<1>3. /\ replay[h] \in Seq(Event) /\ channel[h] \in Seq(Event)
      /\ delivered[h] \in Seq(Event)
  BY Sizes
<1>4. /\ Covers(delivered[h], a, d) /\ Covers(replay[h], d, r)
      /\ Covers(channel[h], r, e) /\ NothingSkipped(h, a)
      /\ (h \notin lost => e = nextSeq)
  BY <1>1 DEF Aligned
<1>5. NothingSkipped(h, a)'
  BY <1>2, <1>4 DEF NothingSkipped
<1>6. CASE /\ replay[h] # <<>>
           /\ delivered' = [delivered EXCEPT ![h] = Append(@, Head(replay[h]))]
           /\ replay' = [replay EXCEPT ![h] = Tail(@)]
           /\ UNCHANGED channel
  <2>1. /\ Head(replay[h]) \in Event /\ Head(replay[h]) = d + 1
        /\ Covers(Tail(replay[h]), d + 1, r)
    BY <1>3, <1>4, <1>6, TailCovers
  <2>2. Covers(Append(delivered[h], d + 1), a, d + 1)
    BY <1>3, <1>4, <2>1, AppendCovers
  <2>3. /\ replay'[h] = Tail(replay[h]) /\ channel'[h] = channel[h]
        /\ delivered'[h] = Append(delivered[h], d + 1)
    BY <1>6, <2>1 DEF TypeOK
  <2>4. Aligned(h, a, d + 1, r, e)'
    BY <1>2, <1>4, <1>5, <2>1, <2>2, <2>3 DEF Aligned, Covers, NothingSkipped
  <2> QED
    BY <1>2, <2>4 DEF Stream
<1>7. CASE /\ replay[h] = <<>>
           /\ channel[h] # <<>>
           /\ delivered' = [delivered EXCEPT ![h] = Append(@, Head(channel[h]))]
           /\ channel' = [channel EXCEPT ![h] = Tail(@)]
           /\ UNCHANGED replay
  <2>1. d = r
    BY <1>4, <1>7, EmptyCovers
  <2>2. /\ Head(channel[h]) \in Event /\ Head(channel[h]) = d + 1
        /\ Covers(Tail(channel[h]), d + 1, e)
    BY <1>3, <1>4, <1>7, <2>1, TailCovers
  <2>3. Covers(Append(delivered[h], d + 1), a, d + 1)
    BY <1>3, <1>4, <2>2, AppendCovers
  <2>4. /\ replay'[h] = <<>> /\ channel'[h] = Tail(channel[h])
        /\ delivered'[h] = Append(delivered[h], d + 1)
    BY <1>7, <2>2 DEF TypeOK
  <2>5. Covers(<<>>, d + 1, d + 1)
    BY EmptyCovers
  <2>6. Aligned(h, a, d + 1, d + 1, e)'
    BY <1>2, <1>4, <1>5, <2>2, <2>3, <2>4, <2>5
    DEF Aligned, Covers, NothingSkipped
  <2> QED
    BY <1>2, <2>6 DEF Stream
<1> QED
  BY <1>6, <1>7 DEF Emit

(* publish lets go of the oldest retained event at most. *)
LEMMA TrimmedGrows ==
  ASSUME TypeOK, Buffered, TypeOK', Publish
  PROVE  nextSeq - Len(events) <= nextSeq' - Len(events')
<1>1. /\ nextSeq \in Nat /\ nextSeq + 1 \in Event /\ nextSeq' = nextSeq + 1
      /\ events \in Seq(Event) /\ EndsWith(events, nextSeq)
  BY EventsAssumption DEF TypeOK, Buffered, Publish, Event, EndsWith
<1> DEFINE longer == Append(events, nextSeq + 1)
<1>2. /\ longer \in Seq(Event)
      /\ Len(longer) = Len(events) + 1
      /\ EndsWith(longer, nextSeq + 1)
  BY <1>1, AppendEnds
<1>3. events' = Trim(longer)
  BY DEF Publish
<1> HIDE DEF longer
<1>4. Len(Trim(longer)) <= Len(longer)
  BY <1>1, <1>2, TrimEnds
<1>5. Len(events') <= Len(events) + 1
  BY <1>2, <1>3, <1>4
<1>6. Len(events') \in Nat /\ Len(events) \in Nat
  BY LenProperties DEF TypeOK
<1> QED
  BY <1>1, <1>5, <1>6

(* publish extends the streams it can and marks the others lost. *)
LEMMA PublishStream ==
  ASSUME TypeOK, Buffered, Watching, TypeOK', NEW h \in Handlers, Stream(h),
         Publish
  PROVE  Stream(h)'
<1>1. /\ pc' = pc /\ after' = after /\ replay' = replay
      /\ delivered' = delivered /\ nextSeq' = nextSeq + 1
      /\ lost \subseteq lost'
  BY DEF Publish
<1>2. /\ nextSeq \in Nat /\ Len(events) \in Nat /\ nextSeq + 1 \in Event
      /\ Len(events') \in Nat /\ channel[h] \in Seq(Event)
      /\ Len(channel[h]) \in Nat
  BY EventsAssumption, LenProperties DEF Publish, Event, TypeOK
<1>3. nextSeq - Len(events) <= nextSeq' - Len(events')
  BY TrimmedGrows
<1>4. ASSUME NEW n \in Int, NothingSkipped(h, n)
      PROVE  NothingSkipped(h, n)'
  BY <1>1, <1>2, <1>3, <1>4 DEF NothingSkipped
<1>5. CASE pc[h] \in {"idle", "found", "rejected"}
  <2>1. h \notin subscribers
    BY <1>5 DEF Watching
  <2>2. channel'[h] = channel[h]
    BY <2>1 DEF Publish
  <2> QED
    BY <1>1, <1>5, <2>2 DEF Stream
<1>6. CASE pc[h] \in {"leaving", "unsubscribed", "done"}
  <2>1. PICK a \in Int, d \in Int :
          Covers(delivered[h], a, d) /\ NothingSkipped(h, a)
    BY <1>6 DEF Stream, Settled
  <2>2. NothingSkipped(h, a)'
    BY <1>4, <2>1
  <2>3. Settled(h)'
    BY <1>1, <2>1, <2>2 DEF Settled, Covers, NothingSkipped
  <2> QED
    BY <1>1, <1>6, <2>3 DEF Stream
<1>7. CASE pc[h] = "serving"
  <2>1. PICK a \in Int, d \in Int, r \in Int, e \in Int : Aligned(h, a, d, r, e)
    BY <1>7 DEF Stream
  <2>2. /\ Covers(delivered[h], a, d) /\ Covers(replay[h], d, r)
        /\ Covers(channel[h], r, e) /\ NothingSkipped(h, a)
        /\ (h \notin lost => e = nextSeq)
    BY <2>1 DEF Aligned
  <2>3. NothingSkipped(h, a)'
    BY <1>4, <2>2
  <2>4. CASE h \in subscribers /\ Len(channel[h]) < ChannelSize
    <3>1. h \notin lost /\ e = nextSeq
      BY <1>7, <2>2, <2>4 DEF Watching
    <3>2. channel'[h] = Append(channel[h], nextSeq + 1)
      BY <1>2, <2>4, ChannelAssumption DEF Publish
    <3>3. Covers(Append(channel[h], e + 1), r, e + 1)
      BY <1>2, <2>2, <3>1, AppendCovers
    <3>4. Aligned(h, a, d, r, e + 1)'
      BY <1>1, <2>2, <2>3, <3>1, <3>2, <3>3 DEF Aligned, Covers, NothingSkipped
    <3> QED
      BY <1>1, <1>7, <3>4 DEF Stream
  <2>5. CASE ~(h \in subscribers /\ Len(channel[h]) < ChannelSize)
    <3>1. channel'[h] = channel[h]
      BY <1>2, <2>5, ChannelAssumption DEF Publish
    <3>2. h \in lost'
      BY <1>2, <1>7, <2>5, ChannelAssumption DEF Publish, Watching
    <3>3. Aligned(h, a, d, r, e)'
      BY <1>1, <2>2, <2>3, <3>1, <3>2 DEF Aligned, Covers, NothingSkipped
    <3> QED
      BY <1>1, <1>7, <3>3 DEF Stream
  <2> QED
    BY <2>4, <2>5
<1> QED
  BY <1>5, <1>6, <1>7 DEF TypeOK, HandlerStates

(* A handler that stops reading keeps what its client was sent. *)
LEMMA LeavingStream ==
  ASSUME TypeOK, NEW h \in Handlers, Stream(h), pc[h] = "serving",
         pc'[h] = "leaving", after' = after, delivered' = delivered,
         nextSeq' = nextSeq, events' = events
  PROVE  Stream(h)'
<1>1. PICK a \in Int, d \in Int, r \in Int, e \in Int : Aligned(h, a, d, r, e)
  BY DEF Stream
<1>2. Settled(h)'
  BY <1>1 DEF Aligned, Settled, Covers, NothingSkipped
<1> QED
  BY <1>2 DEF Stream

(* The initial handlers have sent nothing and hold nothing. *)
LEMMA InitStreams == Init => Streams
BY DEF Init, Streams, Stream

(* Every step keeps every stream without a seam. *)
LEMMA NextStreams ==
  ASSUME TypeOK, Buffered, Watching, TypeOK', Streams, [Next]_vars
  PROVE  Streams'
<1>1. CASE Publish
  <2>1. ASSUME NEW k \in Handlers PROVE Stream(k)'
    BY <1>1, <2>1, PublishStream DEF Streams
  <2> QED
    BY <2>1 DEF Streams
<1>2. ASSUME NEW h \in Handlers, HandlerStep(h), NEW k \in Handlers
      PROVE  Stream(k)'
  <2>1. Stream(k) /\ Stream(h)
    BY DEF Streams
  <2>2. nextSeq' = nextSeq /\ events' = events
    BY <1>2 DEF HandlerStep, Lookup, Subscribe, Emit, StreamClosed, Disconnect,
                Unsubscribe, ScheduleDetachCancellation, runVars
  <2>3. CASE k # h
    <3>1. /\ pc'[k] = pc[k] /\ after'[k] = after[k] /\ replay'[k] = replay[k]
          /\ channel'[k] = channel[k] /\ delivered'[k] = delivered[k]
      BY <1>2, <2>3
      DEF TypeOK, HandlerStep, Lookup, Subscribe, Emit, StreamClosed,
          Disconnect, Unsubscribe, ScheduleDetachCancellation
    <3>2. k \in lost' <=> k \in lost
      BY <1>2, <2>3
      DEF HandlerStep, Lookup, Subscribe, Emit, StreamClosed, Disconnect,
          Unsubscribe, ScheduleDetachCancellation
    <3> QED
      BY <2>1, <2>2, <3>1, <3>2, StreamFrame
  <2>4. CASE k = h
    <3>1. CASE Lookup(h)
      BY <2>1, <2>4, <3>1 DEF Stream, Lookup, TypeOK
    <3>2. CASE Subscribe(h)
      BY <2>1, <2>4, <3>2, SubscribeStream
    <3>3. CASE Emit(h)
      BY <2>1, <2>4, <3>3, EmitStream
    <3>4. CASE StreamClosed(h) \/ Disconnect(h)
      <4>1. /\ pc[h] = "serving" /\ pc'[h] = "leaving"
            /\ after' = after /\ delivered' = delivered
        BY <3>4 DEF StreamClosed, Disconnect, TypeOK
      <4> QED
        BY <2>1, <2>2, <2>4, <4>1, LeavingStream
    <3>5. CASE Unsubscribe(h) \/ ScheduleDetachCancellation(h)
      <4>1. /\ pc[h] \in {"leaving", "unsubscribed"}
            /\ pc'[h] \in {"unsubscribed", "done"}
            /\ after' = after /\ delivered' = delivered
        BY <3>5 DEF Unsubscribe, ScheduleDetachCancellation, TypeOK
      <4>2. Settled(h)
        BY <2>1, <4>1 DEF Stream
      <4>3. Settled(h)'
        BY <2>2, <4>1, <4>2 DEF Settled, NothingSkipped
      <4> QED
        BY <2>4, <4>1, <4>3 DEF Stream
    <3> QED
      BY <1>2, <3>1, <3>2, <3>3, <3>4, <3>5 DEF HandlerStep
  <2> QED
    BY <2>3, <2>4
<1>3. CASE CancelStep \/ ExecuteReturns \/ Finish \/ Release \/ Unregister
           \/ UNCHANGED vars
  <2>1. /\ UNCHANGED <<nextSeq, events>>
        /\ UNCHANGED <<pc, after, replay, channel, delivered, lost>>
    BY <1>3
    DEF CancelStep, TimerFires, DetachSetsReason, DetachCancels, UserSetsReason,
        UserCancels, ExecuteReturns, Finish, Release, Unregister, vars, runVars,
        handlerVars
  <2>2. ASSUME NEW k \in Handlers PROVE Stream(k)'
    BY <2>1, <2>2, StreamFrame DEF Streams
  <2> QED
    BY <2>2 DEF Streams
<1> QED
  BY <1>1, <1>2, <1>3 DEF Next, WorkerStep, Streams

(* RInv is the inductive invariant of the run. *)
THEOREM Invariance == Spec => []RInv
<1>1. Init => RInv
  BY InitType, InitWatching, InitStreams
  DEF RInv, Init, Reasoned, CancelHasReason
<1>2. RInv /\ [Next]_vars => RInv'
  BY NextType, NextWatching, NextReasoned, NextStreams DEF RInv
<1> QED
  BY <1>1, <1>2, PTL DEF Spec

(* What the client of h was sent is some interval of events. *)
LEMMA DeliveredCovers ==
  ASSUME RInv, NEW h \in Handlers, delivered[h] # <<>>
  PROVE  \E a, d \in Int : Covers(delivered[h], a, d) /\ NothingSkipped(h, a)
BY DEF RInv, TypeOK, HandlerStates, Streams, Stream, Aligned, Settled

(* No client ever sees a gap, a repetition or a swap. *)
THEOREM StreamsAreGapFree == Spec => []GapFree
<1>1. ASSUME RInv, NEW h \in Handlers
      PROVE  Consecutive(delivered[h])
  <2>1. CASE delivered[h] = <<>>
    BY <2>1, EmptySeq DEF Consecutive
  <2>2. CASE delivered[h] # <<>>
    <3>1. PICK a \in Int, d \in Int : Covers(delivered[h], a, d)
      BY <1>1, <2>2, DeliveredCovers
    <3>2. Len(delivered[h]) \in Nat
      BY <1>1, LenProperties DEF RInv, TypeOK
    <3> QED
      BY <3>1, <3>2 DEF Covers, Consecutive
  <2> QED
    BY <2>1, <2>2
<1>2. RInv => GapFree
  BY <1>1 DEF GapFree
<1> QED
  BY <1>2, Invariance, PTL

(* A resuming client misses only events that the buffer no longer held. *)
THEOREM OnlyTrimmedEventsSkipped == Spec => []OnlyTrimmedSkipped
<1>1. ASSUME RInv, NEW h \in Handlers, delivered[h] # <<>>,
             NEW n \in after[h] + 1..delivered[h][1] - 1
      PROVE  n <= nextSeq - Len(events)
  <2>1. PICK a \in Int, d \in Int :
          Covers(delivered[h], a, d) /\ NothingSkipped(h, a)
    BY <1>1, DeliveredCovers
  <2>2. /\ delivered[h] \in Seq(Event) /\ Len(delivered[h]) \in Nat \ {0}
        /\ nextSeq \in Nat /\ Len(events) \in Nat /\ after[h] \in Nat
    BY <1>1, Sizes, EmptySeq DEF RInv
  <2>3. delivered[h][1] = a + 1
    BY <2>1, <2>2 DEF Covers
  <2> QED
    BY <2>1, <2>2, <2>3 DEF NothingSkipped
<1>2. RInv => OnlyTrimmedSkipped
  BY <1>1 DEF OnlyTrimmedSkipped
<1> QED
  BY <1>2, Invariance, PTL

(* What a handler that still serves has sent and holds reaches the end.     *)
LEMMA ReachesTheEnd == RInv => UpToDate
<1>1. ASSUME RInv, NEW h \in Handlers, pc[h] = "serving", h \notin lost
      PROVE  IF Pipeline(h) = <<>> THEN nextSeq <= after[h]
             ELSE Pipeline(h)[Len(Pipeline(h))] = nextSeq
  <2>1. PICK a \in Int, d \in Int, r \in Int, e \in Int : Aligned(h, a, d, r, e)
    BY <1>1 DEF RInv, Streams, Stream
  <2>2. /\ delivered[h] \in Seq(Event) /\ replay[h] \in Seq(Event)
        /\ channel[h] \in Seq(Event)
        /\ nextSeq \in Nat /\ Len(events) \in Nat /\ after[h] \in Nat
    BY <1>1, Sizes DEF RInv
  <2>3. /\ Covers(delivered[h], a, d) /\ Covers(replay[h], d, r)
        /\ Covers(channel[h], r, e) /\ NothingSkipped(h, a) /\ e = nextSeq
    BY <1>1, <2>1 DEF Aligned
  <2>4. Pipeline(h) \in Seq(Event) /\ Covers(Pipeline(h), a, e)
    <3>1. /\ delivered[h] \o replay[h] \in Seq(Event)
          /\ Covers(delivered[h] \o replay[h], a, r)
      BY <2>2, <2>3, ConcatCovers
    <3> QED
      BY <2>2, <2>3, <3>1, ConcatCovers DEF Pipeline
  <2>5. CASE Pipeline(h) = <<>>
    <3>1. a = nextSeq
      BY <2>3, <2>4, <2>5, EmptyCovers
    <3>2. Len(events) = 0 => nextSeq = 0
      BY <1>1, <2>2 DEF RInv, Buffered
    <3>3. nextSeq <= after[h] \/ nextSeq <= nextSeq - Len(events)
      BY <2>3, <3>1 DEF NothingSkipped
    <3>4. nextSeq <= after[h]
      BY <2>2, <3>2, <3>3
    <3> QED
      BY <2>5, <3>4
  <2>6. CASE Pipeline(h) # <<>>
    <3>1. Len(Pipeline(h)) \in Nat \ {0}
      BY <2>4, <2>6, EmptySeq
    <3> QED
      BY <2>3, <2>4, <2>6, <3>1 DEF Covers
  <2> QED
    BY <2>5, <2>6
<1> QED
  BY <1>1 DEF UpToDate

(* A handler that was neither dropped nor left has everything that was      *)
(* published, so the end of its stream is the end of the run.               *)
THEOREM HandlersAreUpToDate == Spec => []UpToDate
<1> QED
  BY ReachesTheEnd, Invariance, PTL

(* What a client receives is exactly the part of the stream that begins     *)
(* behind what it asked for or what the buffer still holds.                 *)
THEOREM DeliveryIsExact == Spec => []Delivery
<1>1. GapFree /\ OnlyTrimmedSkipped /\ UpToDate => Delivery
  BY DEF Delivery
<1> QED
  BY <1>1, StreamsAreGapFree, OnlyTrimmedEventsSkipped, HandlersAreUpToDate, PTL

-----------------------------------------------------------------------------
(* ActiveRun implements EventFeed: every step of the run, its buffer, its   *)
(* channels and its timer is a step of the feed or none.                    *)

(* What a handler holds was published. *)
Published ==
  \A h \in Handlers :
    /\ \A i \in 1..Len(replay[h]) : replay[h][i] <= nextSeq
    /\ \A i \in 1..Len(channel[h]) : channel[h][i] <= nextSeq

(* A handler leaves while it is subscribed only because its client did.    *)
LeftAreLost == \A h \in subscribers : pc[h] = "leaving" => h \in lost

FInv == RInv /\ Published /\ LeftAreLost

-----------------------------------------------------------------------------
(* A snapshot ends with the latest event.                                   *)
LEMMA SubscribePublished ==
  ASSUME RInv, Published, NEW h \in Handlers, Subscribe(h)
  PROVE  Published'
<1>1. nextSeq \in Nat /\ after[h] \in Nat
  BY Sizes DEF RInv
<1>2. PICK s \in Seq(Event) : s = Retained(after[h]) /\ EndsWith(s, nextSeq)
  BY <1>1, RetainedEnds DEF RInv
<1>3. \A i \in 1..Len(s) : s[i] <= nextSeq
  BY <1>1, <1>2, LenProperties DEF EndsWith
<1> QED
  BY <1>2, <1>3 DEF Subscribe, Published, RInv, TypeOK

(* Sending takes the head of what the handler holds.                        *)
LEMMA EmitPublished ==
  ASSUME RInv, Published, NEW h \in Handlers, Emit(h)
  PROVE  Published'
<1>1. ASSUME NEW s \in Seq(Event), s # <<>>, \A i \in 1..Len(s) : s[i] <= nextSeq
      PROVE  \A i \in 1..Len(Tail(s)) : Tail(s)[i] <= nextSeq
  BY <1>1
<1>2. replay[h] \in Seq(Event) /\ channel[h] \in Seq(Event)
  BY Sizes DEF RInv
<1> QED
  BY <1>1, <1>2 DEF Emit, Published, RInv, TypeOK, runVars

(* A client that leaves loses at most one event of its channel.             *)
LEMMA DisconnectPublished ==
  ASSUME RInv, Published, NEW h \in Handlers, Disconnect(h)
  PROVE  Published'
<1>1. ASSUME NEW s \in Seq(Event), s # <<>>, \A i \in 1..Len(s) : s[i] <= nextSeq
      PROVE  \A i \in 1..Len(Tail(s)) : Tail(s)[i] <= nextSeq
  BY <1>1
<1>2. channel[h] \in Seq(Event)
  BY Sizes DEF RInv
<1> QED
  BY <1>1, <1>2 DEF Disconnect, Published, RInv, TypeOK, runVars

(* Publishing offers exactly the new event.                                 *)
LEMMA PublishPublished ==
  ASSUME RInv, Published, Publish
  PROVE  Published'
<1>1. /\ nextSeq \in Nat /\ nextSeq' = nextSeq + 1 /\ replay' = replay
      /\ nextSeq + 1 \in Event
  BY EventsAssumption DEF RInv, TypeOK, Publish, Event
<1>2. Event \subseteq Int
  BY DEF Event
<1>3. ASSUME NEW s \in Seq(Event), \A i \in 1..Len(s) : s[i] <= nextSeq
      PROVE  \A i \in 1..Len(s) : s[i] <= nextSeq + 1
  <2>1. \A i \in 1..Len(s) : s[i] \in Int
    BY <1>2, <1>3, ElementOfSeq
  <2> QED
    BY <1>1, <1>3, <2>1
<1>4. ASSUME NEW s \in Seq(Event), \A i \in 1..Len(s) : s[i] <= nextSeq
      PROVE  \A i \in 1..Len(Append(s, nextSeq + 1)) :
               Append(s, nextSeq + 1)[i] <= nextSeq + 1
  <2>1. /\ Len(s) \in Nat /\ Len(Append(s, nextSeq + 1)) = Len(s) + 1
        /\ \A i \in 1..Len(s) : Append(s, nextSeq + 1)[i] = s[i]
        /\ Append(s, nextSeq + 1)[Len(s) + 1] = nextSeq + 1
    BY <1>1, AppendProperties, LenProperties
  <2>2. \A i \in 1..Len(s) : s[i] <= nextSeq + 1
    BY <1>3, <1>4
  <2>3. ASSUME NEW i \in 1..Len(s) + 1
        PROVE  Append(s, nextSeq + 1)[i] <= nextSeq + 1
    <3>1. CASE i \in 1..Len(s)
      BY <2>1, <2>2, <3>1
    <3>2. CASE i = Len(s) + 1
      BY <1>1, <2>1, <3>2
    <3> QED
      BY <2>1, <3>1, <3>2
  <2> QED
    BY <2>1, <2>3
<1>5. ASSUME NEW h \in Handlers
      PROVE  \A i \in 1..Len(channel'[h]) : channel'[h][i] <= nextSeq + 1
  <2>1. /\ channel[h] \in Seq(Event)
        /\ \A i \in 1..Len(channel[h]) : channel[h][i] <= nextSeq
    BY Sizes DEF RInv, Published
  <2>2. channel'[h] = channel[h] \/ channel'[h] = Append(channel[h], nextSeq + 1)
    BY DEF Publish
  <2>3. CASE channel'[h] = channel[h]
    BY <1>3, <2>1, <2>3
  <2>4. CASE channel'[h] = Append(channel[h], nextSeq + 1)
    BY <1>4, <2>1, <2>4
  <2> QED
    BY <2>2, <2>3, <2>4
<1>6. ASSUME NEW h \in Handlers
      PROVE  \A i \in 1..Len(replay[h]) : replay[h][i] <= nextSeq + 1
  <2>1. /\ replay[h] \in Seq(Event)
        /\ \A i \in 1..Len(replay[h]) : replay[h][i] <= nextSeq
    BY Sizes DEF RInv, Published
  <2> QED
    BY <1>3, <2>1
<1> QED
  BY <1>1, <1>5, <1>6 DEF Published

(* Every step leaves handlers with published events only.                   *)
LEMMA NextPublished == RInv /\ Published /\ [Next]_vars => Published'
<1> SUFFICES ASSUME RInv, Published, [Next]_vars PROVE Published'
  OBVIOUS
<1>1. ASSUME UNCHANGED <<nextSeq, replay, channel>> PROVE Published'
  BY <1>1 DEF Published
<1>2. ASSUME NEW h \in Handlers, Unsubscribe(h) PROVE Published'
  BY <1>2 DEF Unsubscribe, Published, RInv, TypeOK
<1>3. ASSUME NEW h \in Handlers, HandlerStep(h) PROVE Published'
  <2>1. CASE Lookup(h) \/ StreamClosed(h) \/ ScheduleDetachCancellation(h)
    BY <2>1, <1>1 DEF Lookup, StreamClosed, ScheduleDetachCancellation, runVars
  <2> QED
    BY <1>2, <1>3, <2>1, SubscribePublished, EmitPublished, DisconnectPublished
    DEF HandlerStep
<1>4. CASE CancelStep
  BY <1>1, <1>4 DEF CancelStep, TimerFires, DetachSetsReason, DetachCancels,
     UserSetsReason, UserCancels, runVars, handlerVars
<1>5. CASE WorkerStep
  <2>1. CASE ExecuteReturns \/ Finish \/ Release \/ Unregister
    BY <2>1, <1>1 DEF ExecuteReturns, Finish, Release, Unregister, runVars, handlerVars
  <2> QED
    BY <1>5, <2>1, PublishPublished DEF WorkerStep
<1>6. CASE UNCHANGED vars
  BY <1>1, <1>6 DEF vars, runVars, handlerVars
<1> QED
  BY <1>3, <1>4, <1>5, <1>6 DEF Next

(* Nobody but the client, or a slow channel, makes a subscribed handler leave. *)
LEMMA NextLeft == RInv /\ LeftAreLost /\ [Next]_vars => LeftAreLost'
<1> SUFFICES ASSUME RInv, LeftAreLost, [Next]_vars PROVE LeftAreLost'
  OBVIOUS
<1> USE DEF LeftAreLost, RInv, TypeOK, Watching, ChannelsOwned
<1>1. ASSUME UNCHANGED <<pc, subscribers, lost>> PROVE LeftAreLost'
  BY <1>1
<1>2. ASSUME NEW h \in Handlers, HandlerStep(h) PROVE LeftAreLost'
  <2>1. CASE Lookup(h)
    BY <2>1 DEF Lookup, runVars
  <2>2. CASE Subscribe(h)
    BY <2>2 DEF Subscribe
  <2>3. CASE Emit(h)
    BY <2>3 DEF Emit, runVars
  <2>4. CASE StreamClosed(h) \/ Disconnect(h)
    BY <2>4 DEF StreamClosed, Disconnect, runVars
  <2>5. CASE Unsubscribe(h) \/ ScheduleDetachCancellation(h)
    BY <2>5 DEF Unsubscribe, ScheduleDetachCancellation
  <2> QED
    BY <1>2, <2>1, <2>2, <2>3, <2>4, <2>5 DEF HandlerStep
<1>3. CASE CancelStep
  BY <1>1, <1>3 DEF CancelStep, TimerFires, DetachSetsReason, DetachCancels,
     UserSetsReason, UserCancels, runVars, handlerVars
<1>4. CASE WorkerStep
  BY <1>4 DEF WorkerStep, Publish, ExecuteReturns, Finish, CloseAll, Release,
     Unregister, runVars, handlerVars
<1>5. CASE UNCHANGED vars
  BY <1>1, <1>5 DEF vars, runVars, handlerVars
<1> QED
  BY <1>2, <1>3, <1>4, <1>5 DEF Next

(* FInv holds of every run.                                                 *)
LEMMA FeedInvariance == Spec => []FInv
<1>1. Init => FInv
  <2>1. Init => RInv
    BY InitType, InitWatching, InitStreams DEF RInv, Init, Reasoned, CancelHasReason
  <2>2. Init => Published /\ LeftAreLost
    BY DEF Init, Published, LeftAreLost
  <2> QED
    BY <2>1, <2>2 DEF FInv
<1>2. FInv /\ [Next]_vars => FInv'
  BY NextType, NextWatching, NextReasoned, NextStreams, NextPublished, NextLeft
  DEF FInv, RInv
<1> QED
  BY <1>1, <1>2, PTL DEF Spec

-----------------------------------------------------------------------------
(* Each step of the run is a step of the feed, or none. *)

(* What a handler sends next is published, and follows what it sent last.  *)
LEMMA NextToSend ==
  ASSUME FInv, NEW h \in Handlers, pc[h] = "serving",
         NEW n, \/ replay[h] # <<>> /\ n = Head(replay[h])
                \/ replay[h] = <<>> /\ channel[h] # <<>> /\ n = Head(channel[h])
  PROVE  /\ n \in 1..nextSeq
         /\ delivered[h] # <<>> => n = delivered[h][Len(delivered[h])] + 1
<1>1. PICK a \in Int, d \in Int, r \in Int, e \in Int : Aligned(h, a, d, r, e)
  BY DEF FInv, RInv, Streams, Stream
<1>2. /\ delivered[h] \in Seq(Event) /\ Len(delivered[h]) \in Nat
      /\ replay[h] \in Seq(Event) /\ Len(replay[h]) \in Nat
      /\ channel[h] \in Seq(Event) /\ Len(channel[h]) \in Nat
      /\ nextSeq \in Nat
  BY Sizes, LenProperties DEF FInv, RInv
<1>3. /\ Covers(delivered[h], a, d) /\ Covers(replay[h], d, r)
      /\ Covers(channel[h], r, e)
  BY <1>1 DEF Aligned
<1>4. n \in Event /\ n = d + 1 /\ n <= nextSeq
  <2>1. CASE replay[h] # <<>> /\ n = Head(replay[h])
    <3>1. n \in Event /\ n = d + 1
      BY <1>2, <1>3, <2>1, TailCovers
    <3>2. n = replay[h][1] /\ 1 \in 1..Len(replay[h])
      BY <1>2, <2>1, EmptySeq
    <3> QED
      BY <3>1, <3>2 DEF FInv, Published
  <2>2. CASE replay[h] = <<>> /\ channel[h] # <<>> /\ n = Head(channel[h])
    <3>1. d = r
      BY <1>3, <2>2, EmptyCovers
    <3>2. n \in Event /\ n = r + 1
      BY <1>2, <1>3, <2>2, TailCovers
    <3>3. n = channel[h][1] /\ 1 \in 1..Len(channel[h])
      BY <1>2, <2>2, EmptySeq
    <3> QED
      BY <3>1, <3>2, <3>3 DEF FInv, Published
  <2> QED
    BY <2>1, <2>2
<1>5. n \in 1..nextSeq
  BY <1>2, <1>4 DEF Event
<1>6. ASSUME delivered[h] # <<>> PROVE delivered[h][Len(delivered[h])] = d
  <2>1. Len(delivered[h]) \in 1..Len(delivered[h]) /\ Len(delivered[h]) = d - a
    BY <1>2, <1>3, <1>6, EmptySeq DEF Covers
  <2>2. delivered[h][Len(delivered[h])] = a + Len(delivered[h])
    BY <1>3, <2>1 DEF Covers
  <2> QED
    BY <1>2, <2>1, <2>2
<1> QED
  BY <1>4, <1>5, <1>6

(* A handler that finds its channel closed has sent the last event.        *)
LEMMA ClosedIsComplete ==
  ASSUME FInv, NEW h \in Handlers, StreamClosed(h), h \notin lost
  PROVE  finished /\ Feed!CaughtUp(h)
<1>1. finished
  BY DEF FInv, RInv, Watching, ChannelsOwned, StreamClosed
<1>2. /\ pc[h] = "serving" /\ replay[h] = <<>> /\ channel[h] = <<>>
      /\ delivered[h] \in Seq(Event)
  BY Sizes DEF FInv, RInv, StreamClosed
<1>3. Pipeline(h) = delivered[h]
  BY <1>2, ConcatEmptySeq DEF Pipeline
<1>4. IF Pipeline(h) = <<>> THEN nextSeq <= after[h]
      ELSE Pipeline(h)[Len(Pipeline(h))] = nextSeq
  BY <1>2, ReachesTheEnd DEF FInv, UpToDate
<1> QED
  BY <1>1, <1>3, <1>4 DEF Feed!CaughtUp

(* The status of a handler, told apart from those of the others.           *)
LEMMA StatusFrame ==
  ASSUME UNCHANGED <<pc, lost>>
  PROVE  ReaderStatus' = ReaderStatus
BY DEF ReaderStatus

(* A request says what it already has.                                      *)
LEMMA LookupRefines ==
  ASSUME FInv, NEW h \in Handlers, Lookup(h)
  PROVE  Feed!Ask(h)
<1>1. pc \in [Handlers -> HandlerStates] /\ lost \subseteq Handlers
  BY DEF FInv, RInv, TypeOK
<1>2. ReaderStatus[h] = "idle"
  BY DEF Lookup, ReaderStatus
<1>3. ReaderStatus' = ReaderStatus
  BY <1>1 DEF Lookup, ReaderStatus
<1> QED
  BY <1>2, <1>3 DEF Lookup, Feed!Ask, runVars

(* A handler that subscribes was not lost before.                           *)
LEMMA SubscribeRefines ==
  ASSUME FInv, NEW h \in Handlers, Subscribe(h)
  PROVE  Feed!Open(h)
<1>1. pc \in [Handlers -> HandlerStates] /\ lost \subseteq Handlers
  BY DEF FInv, RInv, TypeOK
<1>2. pc[h] = "found" /\ h \notin lost
  BY DEF Subscribe, FInv, RInv, Watching
<1>3. ReaderStatus[h] = "idle"
  BY <1>2 DEF ReaderStatus
<1>4. ReaderStatus' = [ReaderStatus EXCEPT ![h] = "reading"]
  BY <1>1, <1>2 DEF Subscribe, ReaderStatus
<1> QED
  BY <1>3, <1>4 DEF Subscribe, Feed!Open

(* Sending is reading: a published event, the successor of the last.        *)
LEMMA EmitRefines ==
  ASSUME FInv, NEW h \in Handlers, Emit(h)
  PROVE  Feed!Read(h)
<1>1. ReaderStatus[h] \in {"reading", "lost"}
  BY DEF Emit, ReaderStatus
<1>2. ReaderStatus' = ReaderStatus /\ UNCHANGED <<nextSeq, finished, after>>
  BY StatusFrame DEF Emit, runVars
<1>3. PICK n : /\ delivered' = [delivered EXCEPT ![h] = Append(@, n)]
               /\ \/ replay[h] # <<>> /\ n = Head(replay[h])
                  \/ replay[h] = <<>> /\ channel[h] # <<>> /\ n = Head(channel[h])
  BY DEF Emit
<1>4. /\ n \in 1..nextSeq
      /\ delivered[h] # <<>> => n = delivered[h][Len(delivered[h])] + 1
  BY <1>3, NextToSend DEF Emit
<1> QED
  BY <1>1, <1>2, <1>3, <1>4 DEF Feed!Read

(* The end of a stream is told to those who have all of it.                 *)
LEMMA StreamClosedRefines ==
  ASSUME FInv, NEW h \in Handlers, StreamClosed(h)
  PROVE  Feed!Complete(h) \/ UNCHANGED Feed!vars
<1>1. pc \in [Handlers -> HandlerStates] /\ lost \subseteq Handlers
  BY DEF FInv, RInv, TypeOK
<1>2. CASE h \in lost
  <2>1. ReaderStatus' = ReaderStatus
    BY <1>1, <1>2 DEF StreamClosed, ReaderStatus
  <2> QED
    BY <2>1 DEF StreamClosed, Feed!vars, runVars
<1>3. CASE h \notin lost
  <2>1. ReaderStatus[h] = "reading"
    BY <1>3 DEF StreamClosed, ReaderStatus
  <2>2. ReaderStatus' = [ReaderStatus EXCEPT ![h] = "complete"]
    BY <1>1, <1>3 DEF StreamClosed, ReaderStatus
  <2>3. finished /\ Feed!CaughtUp(h)
    BY <1>3, ClosedIsComplete
  <2> QED
    BY <2>1, <2>2, <2>3 DEF StreamClosed, Feed!Complete, runVars
<1> QED
  BY <1>2, <1>3

(* A client that leaves is lost, unless it already was.                     *)
LEMMA DisconnectRefines ==
  ASSUME FInv, NEW h \in Handlers, Disconnect(h)
  PROVE  Feed!Lose(h) \/ UNCHANGED Feed!vars
<1>1. pc \in [Handlers -> HandlerStates] /\ lost \subseteq Handlers
  BY DEF FInv, RInv, TypeOK
<1>2. CASE h \in lost
  <2>1. ReaderStatus' = ReaderStatus
    BY <1>1, <1>2 DEF Disconnect, ReaderStatus
  <2> QED
    BY <2>1 DEF Disconnect, Feed!vars, runVars
<1>3. CASE h \notin lost
  <2>1. ReaderStatus[h] = "reading"
    BY <1>3 DEF Disconnect, ReaderStatus
  <2>2. ReaderStatus' = [ReaderStatus EXCEPT ![h] = "lost"]
    BY <1>1, <1>3 DEF Disconnect, ReaderStatus
  <2> QED
    BY <2>1, <2>2 DEF Disconnect, Feed!Lose, runVars
<1> QED
  BY <1>2, <1>3

(* The cleanup of a handler is nothing its client sees.                    *)
LEMMA CleanupRefines ==
  ASSUME FInv, NEW h \in Handlers,
         Unsubscribe(h) \/ ScheduleDetachCancellation(h)
  PROVE  UNCHANGED Feed!vars
<1>1. pc \in [Handlers -> HandlerStates]
  BY DEF FInv, RInv, TypeOK
<1>2. ReaderStatus' = ReaderStatus
  BY <1>1 DEF Unsubscribe, ScheduleDetachCancellation, ReaderStatus
<1> QED
  BY <1>2 DEF Unsubscribe, ScheduleDetachCancellation, Feed!vars

(* Only readers that are still reading can be too slow.                    *)
LEMMA PublishRefines ==
  ASSUME FInv, Publish
  PROVE  \E slow \in SUBSET Handlers : Feed!Append1(slow)
<1> DEFINE slow == {h \in subscribers : Len(channel[h]) >= ChannelSize}
<1>1. /\ pc \in [Handlers -> HandlerStates] /\ lost \subseteq Handlers
      /\ subscribers \subseteq Handlers
  BY DEF FInv, RInv, TypeOK
<1>2. lost' = lost \union slow /\ pc' = pc /\ slow \in SUBSET Handlers
  BY <1>1 DEF Publish
<1>3. \A h \in slow : pc[h] \in {"serving", "leaving"} /\ (pc[h] = "leaving" => h \in lost)
  BY DEF FInv, RInv, Watching, LeftAreLost
<1> HIDE DEF slow
<1>4. ReaderStatus' = [h \in Handlers |->
                         IF h \in slow /\ ReaderStatus[h] = "reading" THEN "lost"
                         ELSE ReaderStatus[h]]
  <2>1. ASSUME NEW h \in Handlers
        PROVE  ReaderStatus'[h] =
                 IF h \in slow /\ ReaderStatus[h] = "reading" THEN "lost"
                 ELSE ReaderStatus[h]
    BY <1>1, <1>2, <1>3 DEF ReaderStatus
  <2> QED
    BY <2>1 DEF ReaderStatus
<1>5. Feed!Append1(slow)
  BY <1>4 DEF Publish, Feed!Append1
<1> QED
  BY <1>2, <1>5

(* The run begins as an empty feed nobody reads.                            *)
LEMMA InitRefines == Init => Feed!Init
<1> SUFFICES ASSUME Init PROVE Feed!Init
  OBVIOUS
<1>1. ReaderStatus = [h \in Handlers |-> "idle"]
  BY DEF Init, ReaderStatus
<1> QED
  BY <1>1 DEF Init, Feed!Init

(* Every step of the run is a step of the feed or changes nothing of it.   *)
LEMMA StepRefines == FInv /\ [Next]_vars => [Feed!Next]_Feed!vars
<1> SUFFICES ASSUME FInv, [Next]_vars PROVE [Feed!Next]_Feed!vars
  OBVIOUS
<1>1. ASSUME UNCHANGED <<nextSeq, finished, after, pc, lost, delivered>>
      PROVE  UNCHANGED Feed!vars
  BY <1>1, StatusFrame DEF Feed!vars
<1>2. ASSUME NEW h \in Handlers, HandlerStep(h)
      PROVE  [Feed!Next]_Feed!vars
  <2>1. CASE Lookup(h) \/ Subscribe(h) \/ Emit(h)
    BY <2>1, LookupRefines, SubscribeRefines, EmitRefines DEF Feed!Next
  <2>2. CASE StreamClosed(h) \/ Disconnect(h)
    BY <2>2, StreamClosedRefines, DisconnectRefines DEF Feed!Next
  <2>3. CASE Unsubscribe(h) \/ ScheduleDetachCancellation(h)
    BY <2>3, CleanupRefines
  <2> QED
    BY <1>2, <2>1, <2>2, <2>3 DEF HandlerStep
<1>3. CASE Publish
  BY <1>3, PublishRefines DEF Feed!Next
<1>4. CASE Finish
  <2>1. ReaderStatus' = ReaderStatus
    BY <1>4, StatusFrame DEF Finish
  <2>2. Feed!End
    BY <1>4, <2>1 DEF Finish, Feed!End
  <2> QED
    BY <2>2 DEF Feed!Next
<1>5. CASE CancelStep \/ ExecuteReturns \/ Release \/ Unregister \/ UNCHANGED vars
  <2>1. UNCHANGED <<nextSeq, finished, after, pc, lost, delivered>>
    BY <1>5 DEF CancelStep, TimerFires, DetachSetsReason, DetachCancels,
       UserSetsReason, UserCancels, ExecuteReturns, Release, Unregister, vars,
       runVars, handlerVars
  <2> QED
    BY <1>1, <2>1
<1> QED
  BY <1>2, <1>3, <1>4, <1>5 DEF Next, WorkerStep

(* The run implements the feed: whatever the buffer has dropped, however    *)
(* slow the channels are and whoever leaves, each reader gets consecutive   *)
(* published events, and one that completes has the last of them.           *)
THEOREM RunImplementsFeed == Spec => ImplementsFeed
<1> QED
  BY InitRefines, StepRefines, FeedInvariance, PTL
  DEF Spec, ImplementsFeed, Feed!Spec

=============================================================================
