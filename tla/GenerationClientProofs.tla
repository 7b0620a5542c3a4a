----------------------- MODULE GenerationClientProofs -----------------------
(***************************************************************************)
(* Proofs about GenerationClient, for any number of conversations, events, *)
(* generations, faults and moves of the user.                              *)
(***************************************************************************)
EXTENDS GenerationClient, FiniteSetTheorems, SequenceTheorems,
        WellFoundedInduction, TLAPS

-----------------------------------------------------------------------------
(* What the operators return. *)

Below(S, k) == {h \in S : h < k}

(* The numbers of a finite set are its first, its second and so on.        *)
LEMMA NthRank ==
  ASSUME NEW S \in SUBSET Int, IsFiniteSet(S)
  PROVE  /\ Cardinality(S) \in Nat
         /\ \A n \in 1..Cardinality(S) :
              Nth(S, n) \in S /\ Cardinality(Below(S, Nth(S, n))) = n - 1
         /\ \A k \in S : \E n \in 1..Cardinality(S) : Nth(S, n) = k
<1> DEFINE N == Cardinality(S)
           rank == [k \in S |-> 1 + Cardinality(Below(S, k))]
<1>1. N \in Nat
  BY FS_CardinalityType
<1>2. ASSUME NEW k \in S
      PROVE  /\ IsFiniteSet(Below(S, k)) /\ Cardinality(Below(S, k)) \in Nat
             /\ Cardinality(Below(S, k)) < N
  <2>1. Below(S, k) \in SUBSET S /\ k \notin Below(S, k)
    BY DEF Below
  <2>2. /\ IsFiniteSet(Below(S, k)) /\ Cardinality(Below(S, k)) <= N
        /\ N # Cardinality(Below(S, k))
    BY <2>1, <1>2, FS_Subset
  <2> QED
    BY <1>1, <2>2, FS_CardinalityType
<1>3. ASSUME NEW j \in S, NEW k \in S, j < k
      PROVE  Cardinality(Below(S, j)) < Cardinality(Below(S, k))
  <2>1. /\ Below(S, j) \in SUBSET Below(S, k)
        /\ j \in Below(S, k) /\ j \notin Below(S, j)
    <3>1. j \in Int /\ k \in Int /\ ~(j < j)
      OBVIOUS
    <3>2. \A h \in S : h < j => h < k
      BY <1>3, <3>1
    <3> QED
      BY <1>3, <3>1, <3>2 DEF Below
  <2>2. /\ Cardinality(Below(S, j)) <= Cardinality(Below(S, k))
        /\ Cardinality(Below(S, j)) # Cardinality(Below(S, k))
    BY <1>2, <2>1, FS_Subset
  <2> QED
    BY <1>2, <2>2
<1>4. ASSUME NEW j \in S, NEW k \in S,
             Cardinality(Below(S, j)) = Cardinality(Below(S, k))
      PROVE  j = k
  <2>1. j \in Int /\ k \in Int
    OBVIOUS
  <2>2. ~(j < k) /\ ~(k < j)
    BY <1>2, <1>3, <1>4
  <2> QED
    BY <2>1, <2>2
<1>5. rank \in [S -> 1..N]
  BY <1>1, <1>2
<1>6. rank \in Injection(S, 1..N)
  <2>1. \A j, k \in S : rank[j] = rank[k] => j = k
    BY <1>2, <1>4
  <2> QED
    BY <1>5, <2>1 DEF Injection, IsInjective
<1>7. rank \in Surjection(S, 1..N)
  <2>1. IsFiniteSet(1..N) /\ Cardinality(1..N) = N
    BY <1>1, FS_Interval
  <2> QED
    BY <1>6, <2>1, FS_Injection
<1>8. ASSUME NEW n \in 1..N
      PROVE  Nth(S, n) \in S /\ Cardinality(Below(S, Nth(S, n))) = n - 1
  <2>1. \E k \in S : rank[k] = n
    BY <1>7 DEF Surjection
  <2>2. \E k \in S : Cardinality(Below(S, k)) = n - 1
    BY <1>2, <2>1
  <2> QED
    BY <2>2 DEF Nth, Below
<1>9. ASSUME NEW k \in S
      PROVE  \E n \in 1..N : Nth(S, n) = k
  <2>1. rank[k] \in 1..N /\ Cardinality(Below(S, k)) = rank[k] - 1
    BY <1>2, <1>5
  <2>2. Nth(S, rank[k]) \in S /\ Cardinality(Below(S, Nth(S, rank[k]))) = rank[k] - 1
    BY <1>8, <2>1
  <2>3. Nth(S, rank[k]) = k
    BY <1>4, <2>1, <2>2
  <2> QED
    BY <2>1, <2>3
<1> QED
  BY <1>1, <1>8, <1>9

(* The elements of a sequence are a finite set.                            *)
LEMMA ToSetFinite ==
  ASSUME NEW S, NEW s \in Seq(S)
  PROVE  ToSet(s) \in SUBSET S /\ IsFiniteSet(ToSet(s))
<1>1. Len(s) \in Nat /\ DOMAIN s = 1..Len(s) /\ s \in [1..Len(s) -> S]
  BY LenProperties
<1>2. s \in Surjection(1..Len(s), ToSet(s))
  BY <1>1 DEF Surjection, ToSet
<1>3. IsFiniteSet(1..Len(s))
  BY <1>1, FS_Interval
<1> QED
  BY <1>1, <1>2, <1>3, FS_Surjection DEF ToSet

(* Sorting a set of messages keeps one message for each id.                *)
LEMMA ByIdIs ==
  ASSUME NEW R, NEW ms \in SUBSET R, IsFiniteSet(ms), \A m \in ms : m.id \in Int
  PROVE  /\ ById(ms) \in Seq(R)
         /\ \A i \in DOMAIN ById(ms) : ById(ms)[i] \in ms
         /\ \A i, j \in DOMAIN ById(ms) : ById(ms)[i].id = ById(ms)[j].id => i = j
         /\ \A m \in ms : \E i \in DOMAIN ById(ms) : ById(ms)[i].id = m.id
<1> DEFINE ids == {m.id : m \in ms}
           get == [m \in ms |-> m.id]
           s == ById(ms)
<1>1. ids \in SUBSET Int
  OBVIOUS
<1>2. IsFiniteSet(ids)
  <2>1. get \in Surjection(ms, ids)
    BY DEF Surjection
  <2> QED
    BY <2>1, FS_Surjection
<1> HIDE DEF ids, get
<1>3. /\ Cardinality(ids) \in Nat
      /\ \A n \in 1..Cardinality(ids) :
           Nth(ids, n) \in ids /\ Cardinality(Below(ids, Nth(ids, n))) = n - 1
      /\ \A k \in ids : \E n \in 1..Cardinality(ids) : Nth(ids, n) = k
  BY <1>1, <1>2, NthRank
<1>4. s = [n \in 1..Cardinality(ids) |-> CHOOSE m \in ms : m.id = Nth(ids, n)]
  BY DEF ById, ids
<1>5. ASSUME NEW n \in 1..Cardinality(ids)
      PROVE  s[n] \in ms /\ s[n].id = Nth(ids, n)
  <2>1. \E m \in ms : m.id = Nth(ids, n)
    BY <1>3 DEF ids
  <2> QED
    BY <1>4, <2>1
<1>6. s \in Seq(R) /\ DOMAIN s = 1..Cardinality(ids)
  <2>1. \A n \in 1..Cardinality(ids) : s[n] \in R
    BY <1>5
  <2>2. DOMAIN s = 1..Cardinality(ids) /\ s = [n \in 1..Cardinality(ids) |-> s[n]]
    BY <1>4
  <2> HIDE DEF s
  <2>3. s \in [1..Cardinality(ids) -> R]
    BY <2>1, <2>2
  <2> QED
    BY <1>3, <2>2, <2>3
<1>7. ASSUME NEW i \in DOMAIN s, NEW j \in DOMAIN s, s[i].id = s[j].id
      PROVE  i = j
  <2>1. Nth(ids, i) = Nth(ids, j) /\ i \in Nat /\ j \in Nat
    BY <1>3, <1>5, <1>6, <1>7
  <2>2. i - 1 = j - 1
    BY <1>3, <1>6, <2>1
  <2> QED
    BY <2>1, <2>2
<1>8. ASSUME NEW m \in ms
      PROVE  \E i \in DOMAIN s : s[i].id = m.id
  <2>1. m.id \in ids
    BY DEF ids
  <2> QED
    BY <1>3, <1>5, <1>6, <2>1
<1> QED
  BY <1>5, <1>6, <1>7, <1>8

(* What is before an id in a sequence of messages is part of it.           *)
LEMMA BeforeIs ==
  ASSUME NEW R, NEW ms \in Seq(R), NEW k
  PROVE  /\ Before(ms, k) \in Seq(R)
         /\ \A i \in DOMAIN Before(ms, k) :
              \E j \in DOMAIN ms : Before(ms, k)[i] = ms[j] /\ ms[j].id < k
<1> DEFINE kept == {i \in DOMAIN ms : ms[i].id < k}
<1>1. Len(ms) \in Nat /\ DOMAIN ms = 1..Len(ms) /\ \A i \in 1..Len(ms) : ms[i] \in R
  BY LenProperties, ElementOfSeq
<1>2. kept \in SUBSET Int /\ IsFiniteSet(kept)
  <2>1. kept \in SUBSET (1..Len(ms)) /\ IsFiniteSet(1..Len(ms))
    BY <1>1, FS_Interval
  <2> QED
    BY <2>1, FS_Subset
<1>3. \A i \in kept : i \in DOMAIN ms /\ ms[i] \in R /\ ms[i].id < k
  BY <1>1
<1>4. Before(ms, k) = [n \in 1..Cardinality(kept) |-> ms[Nth(kept, n)]]
  BY DEF Before
<1> HIDE DEF kept
<1>5. /\ Cardinality(kept) \in Nat
      /\ \A n \in 1..Cardinality(kept) : Nth(kept, n) \in kept
  BY <1>2, NthRank
<1>6. \A n \in 1..Cardinality(kept) : ms[Nth(kept, n)] \in R
  BY <1>3, <1>5
<1> QED
  BY <1>3, <1>4, <1>5, <1>6

-----------------------------------------------------------------------------
(* Types. *)

Texts == Seq(2..(MaxEvents - 1))
Replies == [conv : Conversations, id : Int \ {0}, status : Statuses, text : Texts]
Rows == Seq(Replies)

Runs ==
  [conv : Conversations, key : Int \ {0}, seq : 0..MaxEvents,
   phase : {"prepared", "live", "stored", "closed", "refused"}]

Flows ==
  [kind : {"send", "edit", "repeat", "resume"}, conv : Conversations,
   place : Int, target : Int, real : SUBSET Int,
   pc : {"ask", "stream", "fetch", "answered", "finish", "done"}, run : Nat,
   pos : 0..MaxEvents, got : Rows, kept : Rows, error : BOOLEAN,
   stop : {"none", "cancel", "fetch", "answered", "finish", "done"}, tries : Nat,
   answer : Rows, over : BOOLEAN, cut : BOOLEAN, lost : BOOLEAN, away : BOOLEAN,
   orphan : BOOLEAN]

Buffers == [conv : Conversations, place : Int, text : Texts]
Fetches == [conv : Conversations, pc : {"fetch", "answered"}, got : Rows]

ServerTypes ==
  /\ stored \in [Conversations -> Rows]
  /\ runs \in Seq(Runs)
  /\ nextKey \in Nat \ {0}

ScreenTypes ==
  /\ active \in Conversations \cup {Home}
  /\ messages \in Rows
  /\ sending \in BOOLEAN
  /\ seqs \in [Conversations -> 0..MaxEvents]
  /\ buffer \in SUBSET Buffers /\ (\A x, y \in buffer : x = y)
  /\ syncing \in SUBSET Fetches /\ (\A x, y \in syncing : x = y)
  /\ archiving \in SUBSET Conversations
  /\ faults \in 0..MaxFaults /\ moves \in 0..MaxMoves
  /\ loaded \in BOOLEAN /\ reset \in BOOLEAN

FlowTypes ==
  /\ flows \in Seq(Flows) /\ Len(flows) <= MaxFlows
  /\ current \in 0..Len(flows)

(* The last event of a run is the one it publishes when it is closed.      *)
RunsCounted ==
  \A r \in DOMAIN runs :
    /\ runs[r].phase \in {"prepared", "refused"} => runs[r].seq = 0
    /\ runs[r].phase \in {"live", "stored"} => runs[r].seq < MaxEvents
    /\ runs[r].phase = "stored" => runs[r].seq > 0
    /\ runs[r].phase = "closed" => runs[r].seq > 1

(* A flow has a run before it streams; resumed ones take theirs later.     *)
FlowsRun ==
  \A g \in DOMAIN flows :
    /\ flows[g].run \in 0..Len(runs)
    /\ flows[g].pc = "stream" => flows[g].run # 0
    /\ flows[g].pc = "ask" /\ flows[g].run # 0 => flows[g].kind # "resume"

Types == ServerTypes /\ ScreenTypes /\ FlowTypes /\ RunsCounted /\ FlowsRun

(* The deltas of a run are a text.                                         *)
LEMMA DeltasText ==
  ASSUME NEW n \in 1..MaxEvents
  PROVE  Deltas(n) \in Seq(2..n) /\ (n < MaxEvents => Deltas(n) \in Texts)
<1>1. n \in Nat /\ n - 1 \in Nat /\ MaxEvents \in Nat
  BY BoundsAssumption
<1>2. \A i \in 1..(n - 1) : i + 1 \in 2..n
  BY <1>1
<1>3. Deltas(n) \in [1..(n - 1) -> 2..n]
  BY <1>2 DEF Deltas
<1>4. Deltas(n) \in Seq(2..n)
  BY <1>1, <1>3
<1>5. ASSUME n < MaxEvents PROVE 2..n \subseteq 2..(MaxEvents - 1)
  BY <1>1, <1>5
<1> QED
  BY <1>4, <1>5, SeqMonotonic DEF Texts

(* A reply is one.                                                         *)
LEMMA ReplyType ==
  ASSUME NEW c \in Conversations, NEW k \in Int \ {0}, NEW s \in Statuses,
         NEW t \in Texts
  PROVE  Reply(c, k, s, t) \in Replies
BY DEF Reply, Replies

(* Replacing the status of some messages.                                  *)
LEMMA MarkFailedIs ==
  ASSUME NEW ms \in Rows, NEW k
  PROVE  /\ MarkFailed(ms, k) \in Rows
         /\ DOMAIN MarkFailed(ms, k) = DOMAIN ms
         /\ \A i \in DOMAIN ms :
              MarkFailed(ms, k)[i] =
                IF ms[i].id = k THEN [ms[i] EXCEPT !.status = "failed"] ELSE ms[i]
<1>1. Len(ms) \in Nat /\ DOMAIN ms = 1..Len(ms) /\ \A i \in 1..Len(ms) : ms[i] \in Replies
  BY LenProperties, ElementOfSeq DEF Rows
<1>2. \A m \in Replies : [m EXCEPT !.status = "failed"] \in Replies
  BY DEF Replies, Statuses
<1>3. MarkFailed(ms, k) \in [1..Len(ms) -> Replies]
  BY <1>1, <1>2 DEF MarkFailed
<1> QED
  BY <1>1, <1>3 DEF MarkFailed, Rows

(* A buffered delta goes to one message, or to none.                       *)
LEMMA AppendDeltaIs ==
  ASSUME NEW ms \in Rows, NEW b \in Buffers
  PROVE  /\ AppendDelta(ms, b) \in Rows
         /\ DOMAIN AppendDelta(ms, b) = DOMAIN ms
         /\ \A i \in DOMAIN ms :
              /\ AppendDelta(ms, b)[i].conv = ms[i].conv
              /\ AppendDelta(ms, b)[i].id = ms[i].id
              /\ AppendDelta(ms, b)[i].status = ms[i].status
<1>1. Len(ms) \in Nat /\ DOMAIN ms = 1..Len(ms) /\ \A i \in 1..Len(ms) : ms[i] \in Replies
  BY LenProperties, ElementOfSeq DEF Rows
<1>2. ASSUME NEW j, NEW i \in DOMAIN ms
      PROVE  /\ [ms EXCEPT ![j].text = @ \o b.text][i] \in Replies
             /\ [ms EXCEPT ![j].text = @ \o b.text][i].conv = ms[i].conv
             /\ [ms EXCEPT ![j].text = @ \o b.text][i].id = ms[i].id
             /\ [ms EXCEPT ![j].text = @ \o b.text][i].status = ms[i].status
  <2>1. ms[i].text \o b.text \in Texts
    BY <1>1, ConcatProperties DEF Replies, Buffers, Texts
  <2>2. [ms[i] EXCEPT !.text = @ \o b.text] \in Replies
    BY <1>1, <2>1 DEF Replies
  <2> QED
    BY <1>1, <2>2 DEF Replies
<1>3. ASSUME NEW j
      PROVE  [ms EXCEPT ![j].text = @ \o b.text] \in Rows
  <2> DEFINE s == [ms EXCEPT ![j].text = @ \o b.text]
  <2>1. DOMAIN s = 1..Len(ms) /\ \A i \in 1..Len(ms) : s[i] \in Replies
    BY <1>1, <1>2
  <2>2. s = [i \in 1..Len(ms) |-> s[i]]
    BY <1>1
  <2> HIDE DEF s
  <2>3. s \in [1..Len(ms) -> Replies]
    BY <2>1, <2>2
  <2> QED
    BY <1>1, <2>3 DEF Rows, s
<1> QED
  BY <1>2, <1>3 DEF AppendDelta

(* The screen with the buffer flushed into it.                             *)
LEMMA FlushedIs ==
  ASSUME ScreenTypes
  PROVE  /\ Flushed \in Rows /\ DOMAIN Flushed = DOMAIN messages
         /\ \A i \in DOMAIN messages :
              /\ Flushed[i].conv = messages[i].conv
              /\ Flushed[i].id = messages[i].id
              /\ Flushed[i].status = messages[i].status
<1>1. CASE buffer = {}
  BY <1>1 DEF Flushed, ScreenTypes
<1>2. CASE buffer # {}
  <2>1. (CHOOSE b \in buffer : TRUE) \in Buffers
    BY <1>2 DEF ScreenTypes
  <2> QED
    BY <1>2, <2>1, AppendDeltaIs DEF Flushed, ScreenTypes
<1> QED
  BY <1>1, <1>2

(* A new message takes the place of those it stands for.                   *)
LEMMA UpsertIs ==
  ASSUME NEW ms \in Rows, NEW new \in Replies, NEW place, NEW real
  PROVE  LET s == Upsert(ms, new, place, real) IN
         /\ s \in Rows
         /\ \A i \in DOMAIN s :
              \/ s[i] = new
              \/ s[i] \in ToSet(ms) /\ s[i].id # new.id
                 /\ ~Same(s[i], new.conv, place, real)
         /\ \A i, j \in DOMAIN s : s[i].id = s[j].id => i = j
         /\ \E i \in DOMAIN s : s[i] = new
<1> DEFINE kept == {m \in ToSet(ms) : m.id # new.id /\ ~Same(m, new.conv, place, real)}
           all == kept \cup {new}
           s == Upsert(ms, new, place, real)
<1>1. ToSet(ms) \in SUBSET Replies /\ IsFiniteSet(ToSet(ms))
  BY ToSetFinite DEF Rows
<1>2. kept \in SUBSET ToSet(ms) /\ \A m \in kept : m.id # new.id /\ ~Same(m, new.conv, place, real)
  OBVIOUS
<1>3. s = ById(all)
  BY DEF Upsert
<1> HIDE DEF kept, s
<1>4. IsFiniteSet(all) /\ all \in SUBSET Replies
  BY <1>1, <1>2, FS_Subset, FS_AddElement
<1>5. \A m \in all : m.id \in Int
  BY <1>4 DEF Replies
<1> HIDE DEF all
<1>6. /\ s \in Seq(Replies)
      /\ \A i \in DOMAIN s : s[i] \in all
      /\ \A i, j \in DOMAIN s : s[i].id = s[j].id => i = j
      /\ \A m \in all : \E i \in DOMAIN s : s[i].id = m.id
  BY <1>3, <1>4, <1>5, ByIdIs
<1>7. \A i \in DOMAIN s : s[i].id = new.id => s[i] = new
  BY <1>2, <1>6 DEF all
<1>8. \E i \in DOMAIN s : s[i] = new
  BY <1>6, <1>7 DEF all
<1>9. \A i \in DOMAIN s :
        \/ s[i] = new
        \/ s[i] \in ToSet(ms) /\ s[i].id # new.id
           /\ ~Same(s[i], new.conv, place, real)
  BY <1>2, <1>6 DEF all
<1> QED
  BY <1>6, <1>8, <1>9 DEF Rows, s

(* What failed stays beside the rows of the server.                        *)
LEMMA MergeIs ==
  ASSUME NEW rows \in Rows, NEW kept \in Rows
  PROVE  LET s == Merge(rows, kept) IN
         /\ s \in Rows
         /\ \A i \in DOMAIN s : s[i] \in ToSet(kept) \cup ToSet(rows)
         /\ \A m \in ToSet(kept) :
              \E i \in DOMAIN s : s[i].id = m.id /\ s[i] \in ToSet(kept)
<1> DEFINE other == {m \in ToSet(rows) : \A k \in ToSet(kept) : k.id # m.id}
           all == ToSet(kept) \cup other
           s == Merge(rows, kept)
<1>1. /\ ToSet(rows) \in SUBSET Replies /\ IsFiniteSet(ToSet(rows))
      /\ ToSet(kept) \in SUBSET Replies /\ IsFiniteSet(ToSet(kept))
  BY ToSetFinite DEF Rows
<1>2. other \in SUBSET ToSet(rows) /\ \A m \in other : \A k \in ToSet(kept) : k.id # m.id
  OBVIOUS
<1>3. s = ById(all)
  BY DEF Merge
<1> HIDE DEF other, s
<1>4. IsFiniteSet(all) /\ all \in SUBSET Replies
  BY <1>1, <1>2, FS_Subset, FS_Union
<1>5. \A m \in all : m.id \in Int
  BY <1>4 DEF Replies
<1> HIDE DEF all
<1>6. /\ s \in Seq(Replies)
      /\ \A i \in DOMAIN s : s[i] \in all
      /\ \A m \in all : \E i \in DOMAIN s : s[i].id = m.id
  BY <1>3, <1>4, <1>5, ByIdIs
<1>7. ASSUME NEW m \in ToSet(kept)
      PROVE  \E i \in DOMAIN s : s[i].id = m.id /\ s[i] \in ToSet(kept)
  BY <1>2, <1>6 DEF all
<1>8. \A i \in DOMAIN s : s[i] \in ToSet(kept) \cup ToSet(rows)
  BY <1>2, <1>6 DEF all
<1> QED
  BY <1>6, <1>7, <1>8 DEF Rows, s

(* Replacing an element of a sequence.                                     *)
LEMMA SeqUpdate ==
  ASSUME NEW R, NEW s \in Seq(R), NEW i, NEW x \in R
  PROVE  /\ [s EXCEPT ![i] = x] \in Seq(R)
         /\ Len([s EXCEPT ![i] = x]) = Len(s)
         /\ DOMAIN [s EXCEPT ![i] = x] = DOMAIN s
<1>1. Len(s) \in Nat /\ DOMAIN s = 1..Len(s) /\ s \in [1..Len(s) -> R]
  BY LenProperties
<1>2. [s EXCEPT ![i] = x] \in [1..Len(s) -> R]
  BY <1>1
<1> QED
  BY <1>1, <1>2

(* What the sequences of the state are made of.                            *)
LEMMA Elements ==
  ASSUME Types
  PROVE  /\ Len(flows) \in Nat /\ DOMAIN flows = 1..Len(flows)
         /\ \A g \in DOMAIN flows : flows[g] \in Flows
         /\ Len(runs) \in Nat /\ DOMAIN runs = 1..Len(runs)
         /\ \A r \in DOMAIN runs : runs[r] \in Runs
         /\ current # 0 => current \in DOMAIN flows
         /\ \A m \in ToSet(messages) : m \in Replies
BY LenProperties, ElementOfSeq, ToSetFinite
DEF Types, FlowTypes, ServerTypes, ScreenTypes, Rows

(* A step of one flow.                                                     *)
LEMMA FlowStepTypes ==
  ASSUME Types, NEW g \in DOMAIN flows, NEW f \in Flows,
         flows' = [flows EXCEPT ![g] = f], current' \in {0, current},
         Len(runs') \in Nat, Len(runs) <= Len(runs'), f.run \in 0..Len(runs'),
         f.pc = "stream" => f.run # 0,
         f.pc = "ask" /\ f.run # 0 => f.kind # "resume"
  PROVE  FlowTypes' /\ FlowsRun'
<1>1. /\ flows' \in Seq(Flows) /\ Len(flows') = Len(flows)
      /\ DOMAIN flows' = DOMAIN flows
  BY SeqUpdate DEF Types, FlowTypes
<1>2. FlowTypes'
  BY <1>1, Elements DEF Types, FlowTypes
<1>3. ASSUME NEW h \in DOMAIN flows
      PROVE  /\ flows'[h].run \in 0..Len(runs')
             /\ flows'[h].pc = "stream" => flows'[h].run # 0
             /\ flows'[h].pc = "ask" /\ flows'[h].run # 0 => flows'[h].kind # "resume"
  <2>1. /\ flows[h].run \in 0..Len(runs)
        /\ flows[h].pc = "stream" => flows[h].run # 0
        /\ flows[h].pc = "ask" /\ flows[h].run # 0 => flows[h].kind # "resume"
    BY DEF Types, FlowsRun
  <2>2. CASE h = g
    BY <2>2
  <2>3. CASE h # g
    <3>1. flows'[h] = flows[h]
      BY <2>3
    <3> QED
      BY <2>1, <3>1, Elements
  <2> QED
    BY <2>2, <2>3
<1> QED
  BY <1>1, <1>2, <1>3 DEF FlowsRun

(* The screen has the rest of its state as it was.                         *)
LEMMA ScreenFrame ==
  ASSUME Types, UNCHANGED <<active, seqs, syncing, archiving, moves, reset>>,
         messages' \in Rows, buffer' \in SUBSET buffer, sending' \in BOOLEAN,
         faults' \in 0..MaxFaults, loaded' \in BOOLEAN
  PROVE  ScreenTypes'
BY DEF Types, ScreenTypes

(* A step that leaves the server alone.                                    *)
LEMMA ServerFrame ==
  ASSUME Types, UNCHANGED serverVars
  PROVE  ServerTypes' /\ RunsCounted' /\ Len(runs') = Len(runs)
BY DEF Types, ServerTypes, RunsCounted, serverVars

(* A step that leaves the flows alone, and no run disappears.              *)
LEMMA FlowFrame ==
  ASSUME Types, UNCHANGED <<flows, current>>, Len(runs') \in Nat,
         Len(runs) <= Len(runs')
  PROVE  FlowTypes' /\ FlowsRun'
<1>1. \A g \in DOMAIN flows : flows[g].run \in 0..Len(runs')
  BY Elements DEF Types, FlowsRun
<1> QED
  BY <1>1 DEF Types, FlowTypes, FlowsRun

(* Every action keeps the types.                                           *)

(* The start.                                                              *)
LEMMA InitTypes == Init => Types
<1> SUFFICES ASSUME Init PROVE Types
  OBVIOUS
<1>1. <<>> \in Rows /\ <<>> \in Seq(Runs) /\ <<>> \in Seq(Flows) /\ Len(<<>>) = 0
  BY EmptySeq DEF Rows
<1>2. MaxFlows \in Nat /\ MaxFaults \in Nat /\ MaxMoves \in Nat /\ MaxEvents \in Nat
  BY BoundsAssumption
<1>3. ServerTypes
  BY <1>1 DEF Init, ServerTypes
<1>4. ScreenTypes
  <2>1. /\ seqs \in [Conversations -> 0..MaxEvents]
        /\ faults \in 0..MaxFaults /\ moves \in 0..MaxMoves
    BY <1>2 DEF Init
  <2>2. /\ buffer \in SUBSET Buffers /\ (\A x, y \in buffer : x = y)
        /\ syncing \in SUBSET Fetches /\ (\A x, y \in syncing : x = y)
        /\ archiving \in SUBSET Conversations
    BY DEF Init
  <2> QED
    BY <1>1, <2>1, <2>2 DEF Init, ScreenTypes
<1>5. FlowTypes /\ RunsCounted /\ FlowsRun
  BY <1>1, <1>2 DEF Init, FlowTypes, RunsCounted, FlowsRun
<1> QED
  BY <1>3, <1>4, <1>5 DEF Types

(* A run is added in one of its first two phases.                          *)
LEMMA NewRunTypes ==
  ASSUME Types, NEW c \in Conversations, NEW k \in Int \ {0},
         NEW phase \in {"prepared", "live"}, NewRun(c, k, phase)
  PROVE  /\ runs' \in Seq(Runs) /\ RunsCounted'
         /\ Len(runs') = Len(runs) + 1 /\ Len(runs) \in Nat
         /\ runs'[Len(runs) + 1] = [conv |-> c, key |-> k, phase |-> phase, seq |-> 0]
         /\ \A r \in DOMAIN runs : runs'[r] = runs[r]
<1> DEFINE new == [conv |-> c, key |-> k, phase |-> phase, seq |-> 0]
<1>1. MaxEvents \in Nat /\ MaxEvents >= 2
  BY BoundsAssumption
<1>2. new \in Runs
  BY <1>1 DEF Runs
<1>3. /\ runs \in Seq(Runs) /\ Len(runs) \in Nat /\ DOMAIN runs = 1..Len(runs)
      /\ runs' = Append(runs, new)
  BY Elements DEF Types, ServerTypes, NewRun
<1>4. new.phase = phase /\ new.seq = 0
  OBVIOUS
<1> HIDE DEF new
<1>5. /\ runs' \in Seq(Runs) /\ Len(runs') = Len(runs) + 1
      /\ DOMAIN runs' = 1..Len(runs) + 1
      /\ \A r \in 1..Len(runs) : runs'[r] = runs[r]
      /\ runs'[Len(runs) + 1] = new
  BY <1>2, <1>3, AppendProperties, LenProperties
<1>6. ASSUME NEW r \in DOMAIN runs'
      PROVE  /\ runs'[r].phase \in {"prepared", "refused"} => runs'[r].seq = 0
             /\ runs'[r].phase \in {"live", "stored"} => runs'[r].seq < MaxEvents
             /\ runs'[r].phase = "stored" => runs'[r].seq > 0
             /\ runs'[r].phase = "closed" => runs'[r].seq > 1
  <2>1. CASE r \in 1..Len(runs)
    BY <1>3, <1>5, <2>1 DEF Types, RunsCounted
  <2>2. CASE r = Len(runs) + 1
    BY <1>1, <1>4, <1>5, <2>2
  <2> QED
    BY <1>3, <1>5, <2>1, <2>2
<1> QED
  BY <1>3, <1>5, <1>6 DEF RunsCounted, new

(* A reply is added to a conversation.                                     *)
LEMMA AppendReplyTypes ==
  ASSUME NEW s \in Rows, NEW c \in Conversations, NEW k \in Int \ {0}
  PROVE  /\ Append(s, Reply(c, k, "streaming", <<>>)) \in Rows
         /\ \A m \in ToSet(Append(s, Reply(c, k, "streaming", <<>>))) :
              m \in ToSet(s) \/ m = Reply(c, k, "streaming", <<>>)
<1> DEFINE new == Reply(c, k, "streaming", <<>>)
<1>1. new \in Replies
  BY ReplyType, EmptySeq DEF Statuses, Texts
<1> HIDE DEF new
<1>2. /\ Append(s, new) \in Seq(Replies) /\ Len(Append(s, new)) = Len(s) + 1
      /\ Len(s) \in Nat /\ DOMAIN s = 1..Len(s)
      /\ DOMAIN Append(s, new) = 1..Len(s) + 1
      /\ \A i \in 1..Len(s) : Append(s, new)[i] = s[i]
      /\ Append(s, new)[Len(s) + 1] = new
  BY <1>1, AppendProperties, LenProperties DEF Rows
<1>3. \A i \in 1..Len(s) + 1 : i \in 1..Len(s) \/ i = Len(s) + 1
  BY <1>2
<1>4. \A m \in ToSet(Append(s, new)) : m \in ToSet(s) \/ m = new
  BY <1>2, <1>3 DEF ToSet
<1> QED
  BY <1>2, <1>4 DEF Rows, new

(* What another tab does to the conversation.                              *)
LEMMA OtherTabTypes ==
  ASSUME Types, NEW c \in Conversations, OtherTab(c)
  PROVE  Types'
<1>1. nextKey \in Nat \ {0} /\ nextKey \in Int \ {0} /\ stored \in [Conversations -> Rows]
  BY DEF Types, ServerTypes
<1>2. /\ runs' \in Seq(Runs) /\ RunsCounted'
      /\ Len(runs') = Len(runs) + 1 /\ Len(runs) \in Nat
  BY <1>1, NewRunTypes DEF OtherTab
<1>3. Append(stored[c], Reply(c, nextKey, "streaming", <<>>)) \in Rows
  BY <1>1, AppendReplyTypes
<1>4. ServerTypes'
  BY <1>1, <1>2, <1>3 DEF ServerTypes, OtherTab
<1>5. ScreenTypes'
  BY DEF OtherTab, Types, ScreenTypes, moveVars, historyVars
<1>6. FlowTypes' /\ FlowsRun'
  BY <1>2, FlowFrame DEF OtherTab
<1> QED
  BY <1>2, <1>4, <1>5, <1>6 DEF Types

(* A step of one run.                                                      *)
LEMMA RunStepTypes ==
  ASSUME Types, NEW r \in DOMAIN runs, NEW x \in Runs,
         runs' = [runs EXCEPT ![r] = x],
         x.phase \in {"prepared", "refused"} => x.seq = 0,
         x.phase \in {"live", "stored"} => x.seq < MaxEvents,
         x.phase = "stored" => x.seq > 0,
         x.phase = "closed" => x.seq > 1
  PROVE  runs' \in Seq(Runs) /\ RunsCounted' /\ Len(runs') = Len(runs)
<1>1. /\ runs' \in Seq(Runs) /\ Len(runs') = Len(runs)
      /\ DOMAIN runs' = DOMAIN runs
  BY SeqUpdate DEF Types, ServerTypes
<1>2. \A q \in DOMAIN runs : runs'[q] = IF q = r THEN x ELSE runs[q]
  OBVIOUS
<1> QED
  BY <1>1, <1>2 DEF Types, RunsCounted

(* The server answers or ends a generation.                                *)
LEMMA ServeTypes ==
  ASSUME Types, NEW r \in DOMAIN runs, Serve(r)
  PROVE  Types'
<1> DEFINE run == runs[r]
<1>1. MaxEvents \in Nat /\ MaxEvents >= 2
  BY BoundsAssumption
<1>2. /\ run \in Runs
      /\ run.phase \in {"prepared", "refused"} => run.seq = 0
      /\ run.phase \in {"live", "stored"} => run.seq < MaxEvents
      /\ run.phase = "stored" => run.seq > 0
  BY Elements DEF Types, RunsCounted
<1>3. run.seq \in 0..MaxEvents /\ run.conv \in Conversations /\ run.key \in Int \ {0}
  BY <1>2 DEF Runs
<1>4. runs' \in Seq(Runs) /\ RunsCounted' /\ Len(runs') = Len(runs)
  <2>1. CASE Publish(r)
    <3> DEFINE x == [run EXCEPT !.seq = @ + 1]
    <3>1. x \in Runs /\ x.phase = "live" /\ x.seq < MaxEvents
      BY <1>1, <1>2, <1>3, <2>1 DEF Publish, Runs
    <3>2. runs' = [runs EXCEPT ![r] = x]
      BY <2>1 DEF Publish
    <3> HIDE DEF x
    <3> QED
      BY <3>1, <3>2, RunStepTypes
  <2>2. CASE SettleReply(r)
    <3> DEFINE x == [run EXCEPT !.phase = "stored"]
    <3>1. x \in Runs /\ x.phase = "stored" /\ x.seq < MaxEvents /\ x.seq > 0
      BY <1>1, <1>2, <1>3, <2>2 DEF SettleReply, Runs
    <3>2. runs' = [runs EXCEPT ![r] = x]
      BY <2>2 DEF SettleReply
    <3> HIDE DEF x
    <3> QED
      BY <3>1, <3>2, RunStepTypes
  <2>3. CASE CloseRun(r)
    <3> DEFINE x == [run EXCEPT !.phase = "closed", !.seq = @ + 1]
    <3>1. x \in Runs /\ x.phase = "closed" /\ x.seq > 1
      BY <1>1, <1>2, <1>3, <2>3 DEF CloseRun, Runs
    <3>2. runs' = [runs EXCEPT ![r] = x]
      BY <2>3 DEF CloseRun
    <3> HIDE DEF x
    <3> QED
      BY <3>1, <3>2, RunStepTypes
  <2> QED
    BY <2>1, <2>2, <2>3 DEF Serve
<1>5. stored' \in [Conversations -> Rows]
  <2>1. CASE SettleReply(r)
    <3> DEFINE c == run.conv
               reply == Reply(c, run.key, "settled", Deltas(run.seq))
               rows == [i \in DOMAIN stored[c] |->
                          IF stored[c][i].id = run.key THEN reply ELSE stored[c][i]]
    <3>1. run.seq \in 1..MaxEvents /\ run.seq < MaxEvents
      BY <1>1, <1>2, <1>3, <2>1 DEF SettleReply
    <3>2. reply \in Replies
      BY <1>3, <3>1, DeltasText, ReplyType DEF Statuses
    <3>3. /\ stored[c] \in Rows /\ Len(stored[c]) \in Nat
          /\ DOMAIN stored[c] = 1..Len(stored[c])
          /\ \A i \in 1..Len(stored[c]) : stored[c][i] \in Replies
      BY <1>3, LenProperties, ElementOfSeq DEF Types, ServerTypes, Rows
    <3> HIDE DEF reply
    <3>4. rows \in Rows
      BY <3>2, <3>3 DEF Rows
    <3>5. stored' = [stored EXCEPT ![c] = rows]
      BY <2>1 DEF SettleReply, reply
    <3> QED
      BY <3>4, <3>5 DEF Types, ServerTypes
  <2>2. CASE Publish(r) \/ CloseRun(r)
    BY <2>2 DEF Types, ServerTypes, Publish, CloseRun
  <2> QED
    BY <2>1, <2>2 DEF Serve
<1>6. ServerTypes'
  BY <1>4, <1>5 DEF ServerTypes, Types, Serve, Publish, SettleReply, CloseRun
<1>7. ScreenTypes'
  BY DEF Serve, Types, ScreenTypes, moveVars, historyVars
<1>8. FlowTypes' /\ FlowsRun'
  BY <1>4, FlowFrame, Elements DEF Serve
<1> QED
  BY <1>4, <1>6, <1>7, <1>8 DEF Types

(* The user leaves the generations that run.                               *)
LEMMA AwayTypes ==
  ASSUME Types, UNCHANGED <<runs, current>>,
         flows' = [g \in DOMAIN flows |-> [flows[g] EXCEPT !.away = TRUE]]
  PROVE  FlowTypes' /\ FlowsRun'
<1>1. /\ Len(flows) \in Nat /\ DOMAIN flows = 1..Len(flows)
      /\ \A g \in DOMAIN flows : flows[g] \in Flows
  BY Elements
<1>2. \A f \in Flows : /\ [f EXCEPT !.away = TRUE] \in Flows
                       /\ [f EXCEPT !.away = TRUE].run = f.run
                       /\ [f EXCEPT !.away = TRUE].pc = f.pc
                       /\ [f EXCEPT !.away = TRUE].kind = f.kind
  BY DEF Flows
<1>3. \A g \in DOMAIN flows : /\ flows'[g] \in Flows
                              /\ flows'[g].run = flows[g].run
                              /\ flows'[g].pc = flows[g].pc
                              /\ flows'[g].kind = flows[g].kind
  BY <1>1, <1>2
<1>4. flows' \in Seq(Flows) /\ Len(flows') = Len(flows) /\ DOMAIN flows' = DOMAIN flows
  BY <1>1, <1>3
<1> QED
  BY <1>3, <1>4 DEF Types, FlowTypes, FlowsRun

(* The user opens another conversation.                                    *)
LEMMA NavigateTypes ==
  ASSUME Types, NEW c \in Conversations \cup {Home}, Navigate(c)
  PROVE  Types'
<1>1. ServerTypes' /\ RunsCounted'
  BY ServerFrame DEF Navigate
<1>2. FlowTypes' /\ FlowsRun'
  BY AwayTypes DEF Navigate, serverVars
<1>3. moves' \in 0..MaxMoves
  BY BoundsAssumption DEF Types, ScreenTypes, Navigate
<1>4. <<>> \in Rows
  BY EmptySeq DEF Rows
<1>5. messages' \in Rows
  BY <1>4 DEF Types, ScreenTypes, Navigate
<1>6. syncing' \in SUBSET Fetches /\ \A x, y \in syncing' : x = y
  <2>1. c # Home => [conv |-> c, pc |-> "fetch", got |-> <<>>] \in Fetches
    BY <1>4 DEF Fetches
  <2> QED
    BY <2>1 DEF Navigate
<1>7. buffer' \in SUBSET Buffers /\ \A x, y \in buffer' : x = y
  BY DEF Navigate
<1>8. ScreenTypes'
  BY <1>3, <1>5, <1>6, <1>7 DEF Types, ScreenTypes, Navigate
<1> QED
  BY <1>1, <1>2, <1>8 DEF Types

(* The open conversation is archived.                                      *)
LEMMA ArchivedTypes ==
  ASSUME Types, NEW c \in Conversations, Archived(c)
  PROVE  Types'
<1>1. ServerTypes' /\ RunsCounted'
  BY ServerFrame DEF Archived
<1>2. FlowTypes' /\ FlowsRun'
  BY AwayTypes DEF Archived, serverVars
<1>3. <<>> \in Rows
  BY EmptySeq DEF Rows
<1>4. /\ syncing' \in SUBSET Fetches /\ (\A x, y \in syncing' : x = y)
      /\ buffer' \in SUBSET Buffers /\ (\A x, y \in buffer' : x = y)
      /\ archiving' \in SUBSET Conversations /\ reset' \in BOOLEAN
  BY DEF Archived, Types, ScreenTypes
<1>5. ScreenTypes'
  BY <1>3, <1>4 DEF Types, ScreenTypes, Archived
<1> QED
  BY <1>1, <1>2, <1>5 DEF Types

(* The screen and its history, without a generation taking part.           *)
LEMMA ViewTypes ==
  ASSUME Types,
         \/ FlushFrame \/ Sync \/ SyncFails \/ Archive
         \/ \E c \in Conversations : ArchiveFails(c)
  PROVE  Types'
<1>1. UNCHANGED serverVars /\ UNCHANGED <<flows, current>>
  BY DEF FlushFrame, Sync, SyncAnswer, SyncApply, SyncFails, Archive, ArchiveFails
<1>2. ServerTypes' /\ RunsCounted' /\ FlowTypes' /\ FlowsRun'
  BY <1>1, ServerFrame, FlowFrame, Elements DEF serverVars
<1>3. <<>> \in Rows
  BY EmptySeq DEF Rows
<1>4. faults < MaxFaults => faults + 1 \in 0..MaxFaults
  BY BoundsAssumption DEF Types, ScreenTypes
<1>5. ASSUME FlushFrame PROVE ScreenTypes'
  BY <1>5, FlushedIs DEF Types, ScreenTypes, FlushFrame, moveVars, historyVars
<1>6. ASSUME SyncAnswer PROVE ScreenTypes'
  <2>1. PICK s \in syncing : SyncAnswer!(s)
    BY <1>6 DEF SyncAnswer
  <2>2. [s EXCEPT !.pc = "answered", !.got = stored[s.conv]] \in Fetches
    BY DEF Types, ScreenTypes, ServerTypes, Fetches
  <2> QED
    BY <2>1, <2>2 DEF Types, ScreenTypes, moveVars, historyVars
<1>7. ASSUME SyncApply PROVE ScreenTypes'
  <2>1. PICK s \in syncing : SyncApply!(s)
    BY <1>7 DEF SyncApply
  <2>2. s.got \in Rows
    BY DEF Types, ScreenTypes, Fetches
  <2> QED
    BY <2>1, <2>2 DEF Types, ScreenTypes, moveVars
<1>8. ASSUME SyncFails PROVE ScreenTypes'
  BY <1>3, <1>4, <1>8 DEF Types, ScreenTypes, SyncFails, moveVars, historyVars
<1>9. ASSUME Archive PROVE ScreenTypes'
  <2>1. moves' \in 0..MaxMoves
    BY <1>9, BoundsAssumption DEF Archive, Types, ScreenTypes
  <2>2. archiving' \in SUBSET Conversations
    BY <1>9 DEF Archive, Types, ScreenTypes
  <2> QED
    BY <1>9, <2>1, <2>2 DEF Types, ScreenTypes, Archive, historyVars
<1>10. ASSUME NEW c \in Conversations, ArchiveFails(c) PROVE ScreenTypes'
  BY <1>4, <1>10 DEF Types, ScreenTypes, ArchiveFails, historyVars
<1>11. ScreenTypes'
  BY <1>5, <1>6, <1>7, <1>8, <1>9, <1>10 DEF Sync
<1> QED
  BY <1>2, <1>11 DEF Types

(* What is left of a generation that is not the active one any more.       *)
Orphaned(g) ==
  \/ flows[g].orphan \/ flows[g].pc \notin {"finish", "done"}
  \/ flows[g].stop \in {"cancel", "fetch", "answered"}

(* An overtaken generation is the one it was.                              *)
LEMMA OvertakenIs ==
  ASSUME Types, NEW g \in DOMAIN flows
  PROVE  /\ Orphaned(g) \in BOOLEAN
         /\ Overtaken(g) = [flows[g] EXCEPT !.orphan = Orphaned(g)]
         /\ Overtaken(g) \in Flows /\ Overtaken(g).orphan = Orphaned(g)
         /\ Overtaken(g).pc = flows[g].pc /\ Overtaken(g).stop = flows[g].stop
         /\ Overtaken(g).run = flows[g].run /\ Overtaken(g).kind = flows[g].kind
<1>1. flows[g] \in Flows
  BY Elements
<1>2. Overtaken(g) = [flows[g] EXCEPT !.orphan = Orphaned(g)]
  BY DEF Overtaken, Orphaned
<1>3. Orphaned(g) \in BOOLEAN
  BY <1>1 DEF Flows, Orphaned
<1> QED
  BY <1>1, <1>2, <1>3 DEF Flows

(* A generation begins.                                                    *)
LEMMA BeginTypes ==
  ASSUME Types, NEW kind \in {"send", "edit", "repeat", "resume"},
         NEW c \in Conversations, NEW place \in Int, NEW target \in Int,
         NEW kept \in Rows, NEW pos \in 0..MaxEvents,
         Begin(kind, c, place, target, kept, pos),
         messages' \in Rows, seqs' \in [Conversations -> 0..MaxEvents]
  PROVE  Types'
<1> DEFINE old == [g \in DOMAIN flows |-> IF g = current THEN Overtaken(g) ELSE flows[g]]
           new == [kind |-> kind, conv |-> c, place |-> place, target |-> target,
                   real |-> {}, pc |-> "ask", run |-> 0, pos |-> pos, got |-> <<>>,
                   kept |-> kept, error |-> FALSE, stop |-> "none", tries |-> 0,
                   answer |-> <<>>, over |-> syncing # {} \/ ForeignScreen,
                   cut |-> kind # "resume" /\ CutShort, lost |-> FALSE,
                   away |-> FALSE, orphan |-> FALSE]
<1>1. /\ Len(flows) \in Nat /\ DOMAIN flows = 1..Len(flows)
      /\ \A g \in DOMAIN flows : flows[g] \in Flows
  BY Elements
<1>2. <<>> \in Rows
  BY EmptySeq DEF Rows
<1>3. new \in Flows /\ new.run = 0 /\ new.pc = "ask"
  <2>1. /\ (syncing # {} \/ ForeignScreen) \in BOOLEAN
        /\ (kind # "resume" /\ CutShort) \in BOOLEAN
    OBVIOUS
  <2> QED
    BY <1>2, <2>1 DEF Flows
<1>4. flows' = Append(old, new) /\ current' = Len(flows) + 1 /\ Len(flows) < MaxFlows
  BY DEF Begin
<1> HIDE DEF new
<1>5. \A g \in DOMAIN flows : /\ old[g] \in Flows /\ old[g].run = flows[g].run
                              /\ old[g].pc = flows[g].pc
                              /\ old[g].kind = flows[g].kind
  BY <1>1, OvertakenIs
<1>6. old \in Seq(Flows) /\ Len(old) = Len(flows) /\ DOMAIN old = DOMAIN flows
  BY <1>1, <1>5
<1> HIDE DEF old
<1>7. /\ flows' \in Seq(Flows) /\ Len(flows') = Len(flows) + 1
      /\ DOMAIN flows' = 1..Len(flows) + 1
      /\ \A g \in DOMAIN flows : flows'[g] = old[g]
      /\ flows'[Len(flows) + 1] = new
  BY <1>1, <1>3, <1>4, <1>6, AppendProperties, LenProperties
<1>8. FlowTypes'
  BY <1>1, <1>4, <1>7, BoundsAssumption DEF FlowTypes
<1>9. runs' = runs /\ Len(runs) \in Nat
  BY Elements DEF Begin, serverVars
<1>10. ASSUME NEW g \in 1..Len(flows) + 1
       PROVE  /\ flows'[g].run \in 0..Len(runs)
              /\ flows'[g].pc = "stream" => flows'[g].run # 0
              /\ flows'[g].pc = "ask" /\ flows'[g].run # 0 => flows'[g].kind # "resume"
  <2>1. CASE g \in DOMAIN flows
    BY <1>5, <1>7, <2>1 DEF Types, FlowsRun
  <2>2. CASE g = Len(flows) + 1
    BY <1>3, <1>7, <1>9, <2>2
  <2> QED
    BY <1>1, <2>1, <2>2
<1>11. FlowsRun'
  BY <1>7, <1>9, <1>10 DEF FlowsRun
<1>12. ServerTypes' /\ RunsCounted'
  BY ServerFrame DEF Begin
<1>13. ScreenTypes'
  BY DEF Types, ScreenTypes, Begin, moveVars, historyVars
<1> QED
  BY <1>8, <1>11, <1>12, <1>13 DEF Types

(* What the screen shows while a request is made.                          *)
LEMMA ShownTypes ==
  ASSUME NEW s \in Rows, NEW m \in Replies, m.status = "streaming", NEW k
  PROVE  Append(s, m) \in Rows /\ MarkFailed(Append(s, m), k) \in Rows
<1>1. Append(s, m) \in Rows
  BY AppendProperties DEF Rows
<1> QED
  BY <1>1, MarkFailedIs

(* A message is sent.                                                      *)
LEMMA SendTypes ==
  ASSUME Types, Send
  PROVE  Types'
<1> DEFINE k == -(Len(flows) + 1)
           m == Reply(active, k, "streaming", <<>>)
<1>1. active \in Conversations /\ messages \in Rows /\ MaxEvents \in Nat
  BY BoundsAssumption DEF Types, ScreenTypes, Send, MayAsk
<1>2. k \in Int \ {0}
  BY Elements
<1>3. m \in Replies /\ m.status = "streaming"
  BY <1>1, <1>2, ReplyType, EmptySeq DEF Statuses, Texts, Reply
<1>4. Append(messages, m) \in Rows /\ MarkFailed(Append(messages, m), k) \in Rows
  BY <1>1, <1>3, ShownTypes
<1>5. /\ Begin("send", active, k, 0, MarkFailed(Append(messages, m), k), 0)
      /\ messages' = Append(messages, m)
      /\ seqs' = [seqs EXCEPT ![active] = 0]
  BY DEF Send
<1>6. seqs' \in [Conversations -> 0..MaxEvents] /\ 0 \in 0..MaxEvents
  BY <1>1, <1>5 DEF Types, ScreenTypes
<1> HIDE DEF k, m
<1> QED
  BY <1>1, <1>2, <1>4, <1>5, <1>6, BeginTypes

(* One is edited.                                                          *)
LEMMA EditTypes ==
  ASSUME Types, Edit
  PROVE  Types'
<1> DEFINE k == -(Len(flows) + 1)
           last == Last(messages)
           m == Reply(active, k, "streaming", <<>>)
           shown == Append(Before(messages, last.id), m)
<1>1. /\ active \in Conversations /\ messages \in Rows /\ MaxEvents \in Nat
      /\ messages # <<>>
  BY BoundsAssumption DEF Types, ScreenTypes, Edit, MayAsk
<1>2. k \in Int \ {0}
  BY Elements
<1>3. m \in Replies /\ m.status = "streaming"
  BY <1>1, <1>2, ReplyType, EmptySeq DEF Statuses, Texts, Reply
<1>4. Before(messages, last.id) \in Rows
  BY <1>1, BeforeIs DEF Rows
<1>5. last.id \in Int
  <2>1. Len(messages) \in 1..Len(messages)
    BY <1>1, EmptySeq, LenProperties DEF Rows
  <2>2. last \in Replies
    BY <1>1, <2>1, ElementOfSeq DEF Rows, Last
  <2> QED
    BY <2>2 DEF Replies
<1>6. /\ Begin("edit", active, k, last.id, MarkFailed(shown, k), 0)
      /\ messages' = shown
      /\ seqs' = [seqs EXCEPT ![active] = 0]
  BY DEF Edit
<1>7. seqs' \in [Conversations -> 0..MaxEvents] /\ 0 \in 0..MaxEvents
  BY <1>1, <1>6 DEF Types, ScreenTypes
<1> HIDE DEF k, m, last
<1>8. shown \in Rows /\ MarkFailed(shown, k) \in Rows
  BY <1>3, <1>4, ShownTypes
<1> HIDE DEF shown
<1> QED
  BY <1>1, <1>2, <1>5, <1>6, <1>7, <1>8, BeginTypes

(* One is sent again, or its reply asked for again.                        *)
LEMMA RepeatTypes ==
  ASSUME Types, NEW m \in ToSet(messages), Repeat(m)
  PROVE  Types'
<1> DEFINE again == [m EXCEPT !.status = "streaming", !.text = <<>>]
           shown == Append(Before(messages, m.id), again)
<1>1. messages \in Rows /\ m \in Replies /\ MaxEvents \in Nat
  BY Elements, BoundsAssumption DEF Types, ScreenTypes
<1>2. m.id \in Int /\ m.conv \in Conversations
  BY <1>1 DEF Replies
<1>3. again \in Replies /\ again.status = "streaming"
  BY <1>1, EmptySeq DEF Replies, Statuses, Texts
<1>4. Before(messages, m.id) \in Rows
  BY <1>1, BeforeIs DEF Rows
<1>5. /\ Begin("repeat", m.conv, m.id, m.id, MarkFailed(shown, m.id), 0)
      /\ messages' = shown
      /\ seqs' = [seqs EXCEPT ![m.conv] = 0]
  BY DEF Repeat
<1>6. seqs' \in [Conversations -> 0..MaxEvents] /\ 0 \in 0..MaxEvents
  BY <1>1, <1>2, <1>5 DEF Types, ScreenTypes
<1> HIDE DEF again
<1>7. shown \in Rows /\ MarkFailed(shown, m.id) \in Rows
  BY <1>3, <1>4, ShownTypes
<1> HIDE DEF shown
<1> QED
  BY <1>1, <1>2, <1>5, <1>6, <1>7, BeginTypes

(* A generation that was under way is watched again.                       *)
LEMMA ResumeTypes ==
  ASSUME Types, Resume
  PROVE  Types'
<1>1. active \in Conversations /\ <<>> \in Rows
  BY EmptySeq DEF Types, ScreenTypes, Resume, ResumeDue, Rows
<1>2. /\ Begin("resume", active, 0, 0, <<>>, seqs[active])
      /\ seqs[active] \in 0..MaxEvents /\ UNCHANGED <<messages, seqs>>
  BY <1>1 DEF Resume, Types, ScreenTypes
<1> QED
  BY <1>1, <1>2, BeginTypes DEF Types, ScreenTypes

(* A step of one flow that leaves the server alone; FlowStepTypes without  *)
(* a run to check.                                                         *)
LEMMA QuietStepTypes ==
  ASSUME Types, UNCHANGED serverVars, NEW g \in DOMAIN flows, NEW f \in Flows,
         flows' = [flows EXCEPT ![g] = f], current' \in {0, current},
         f.run = flows[g].run, f.kind = flows[g].kind,
         f.pc \in {flows[g].pc, "fetch", "answered", "finish", "done"},
         ScreenTypes'
  PROVE  Types'
<1>1. ServerTypes' /\ RunsCounted' /\ Len(runs') = Len(runs) /\ Len(runs) \in Nat
  BY ServerFrame, Elements
<1>2. /\ f.run \in 0..Len(runs)
      /\ f.pc = "stream" => f.run # 0
      /\ f.pc = "ask" /\ f.run # 0 => f.kind # "resume"
  BY DEF Types, FlowsRun
<1>3. Len(runs') \in Nat /\ Len(runs) <= Len(runs') /\ f.run \in 0..Len(runs')
  BY <1>1, <1>2
<1>4. FlowTypes' /\ FlowsRun'
  BY <1>2, <1>3, FlowStepTypes
<1> QED
  BY <1>1, <1>4 DEF Types

(* A request or a stream fails.                                            *)
LEMMA FailedTypes ==
  ASSUME Types, NEW g \in DOMAIN flows, Failed(g)
  PROVE  LET f == [flows[g] EXCEPT !.pc = "fetch", !.error = TRUE] IN
         /\ messages' \in Rows
         /\ flows' = [flows EXCEPT ![g] = f]
         /\ f \in Flows /\ f.run = flows[g].run /\ f.kind = flows[g].kind
         /\ f.pc = "fetch"
<1>1. flows[g] \in Flows /\ messages \in Rows
  BY Elements DEF Types, ScreenTypes
<1>2. messages' \in Rows
  BY <1>1, MarkFailedIs DEF Failed
<1> QED
  BY <1>1, <1>2 DEF Failed, Flows

(* A flow moves on.                                                        *)
LEMMA StepIs ==
  ASSUME Types, NEW g \in DOMAIN flows,
         NEW pc \in {"stream", "fetch", "answered", "finish", "done"}, Step(g, pc)
  PROVE  LET f == [flows[g] EXCEPT !.pc = pc] IN
         /\ flows' = [flows EXCEPT ![g] = f]
         /\ f \in Flows /\ f.run = flows[g].run /\ f.kind = flows[g].kind
         /\ f.pc = pc
<1>1. flows[g] \in Flows
  BY Elements
<1>2. [flows[g] EXCEPT !.pc = pc] \in Flows
  BY <1>1 DEF Flows
<1> QED
  BY <1>1, <1>2 DEF Step, Flows

(* A request reaches the server.                                           *)
LEMMA PrepareTypes ==
  ASSUME Types, NEW g \in DOMAIN flows, Prepare(g)
  PROVE  Types'
<1> DEFINE f == flows[g]
           c == f.conv
           kept == IF f.kind = "send" THEN stored[c] ELSE Before(stored[c], f.target)
           key == IF f.kind = "repeat" THEN f.target ELSE nextKey
           x == [f EXCEPT !.run = Len(runs) + 1]
<1>1. f \in Flows /\ c \in Conversations /\ Len(runs) \in Nat /\ Len(flows) \in Nat
  BY Elements DEF Flows
<1>2. stored[c] \in Rows /\ nextKey \in Nat \ {0}
  BY <1>1 DEF Types, ServerTypes
<1>3. f.kind # "resume" /\ f.pc = "ask" /\ f.run = 0
  BY DEF Prepare, Asking
<1>4. key \in Int \ {0}
  <2>1. CASE f.kind = "repeat"
    <3>1. \E m \in ToSet(stored[c]) : m.id = f.target
      BY <2>1 DEF Prepare, Accepts
    <3>2. ToSet(stored[c]) \subseteq Replies
      BY <1>2, ToSetFinite DEF Rows
    <3> QED
      BY <2>1, <3>1, <3>2 DEF Replies
  <2>2. CASE f.kind # "repeat"
    BY <1>2, <2>2
  <2> QED
    BY <2>1, <2>2
<1>5. kept \in Rows
  BY <1>2, BeforeIs DEF Rows
<1>6. /\ stored' = [stored EXCEPT ![c] = Append(kept, Reply(c, key, "streaming", <<>>))]
      /\ NewRun(c, key, "prepared")
      /\ nextKey' = IF f.kind = "repeat" THEN nextKey ELSE nextKey + 1
      /\ flows' = [flows EXCEPT ![g] = x]
      /\ UNCHANGED current
  BY DEF Prepare
<1>7. x \in Flows /\ x.run = Len(runs) + 1 /\ x.pc = "ask" /\ x.kind # "resume"
  BY <1>1, <1>3 DEF Flows
<1> HIDE DEF key, kept, x
<1>8. Append(kept, Reply(c, key, "streaming", <<>>)) \in Rows
  BY <1>1, <1>4, <1>5, AppendReplyTypes
<1>9. /\ runs' \in Seq(Runs) /\ RunsCounted' /\ Len(runs') = Len(runs) + 1
  BY <1>1, <1>4, <1>6, NewRunTypes
<1>10. ServerTypes'
  BY <1>1, <1>2, <1>6, <1>8, <1>9 DEF Types, ServerTypes
<1>11. FlowTypes' /\ FlowsRun'
  <2>1. /\ Len(runs') \in Nat /\ Len(runs) <= Len(runs') /\ x.run \in 0..Len(runs')
        /\ x.pc = "stream" => x.run # 0
        /\ x.pc = "ask" /\ x.run # 0 => x.kind # "resume"
    BY <1>1, <1>7, <1>9
  <2> QED
    BY <1>6, <1>7, <2>1, FlowStepTypes
<1>12. ScreenTypes'
  BY DEF Types, ScreenTypes, Prepare, moveVars, historyVars
<1> QED
  BY <1>9, <1>10, <1>11, <1>12 DEF Types

(* It is refused.                                                          *)
LEMMA RefuseTypes ==
  ASSUME Types, NEW g \in DOMAIN flows, Refuse(g)
  PROVE  Types'
<1> DEFINE f == [flows[g] EXCEPT !.pc = "fetch", !.error = TRUE]
<1>1. /\ messages' \in Rows /\ flows' = [flows EXCEPT ![g] = f]
      /\ f \in Flows /\ f.run = flows[g].run /\ f.kind = flows[g].kind
      /\ f.pc = "fetch"
  BY FailedTypes DEF Refuse
<1> HIDE DEF f
<1>2. ScreenTypes'
  BY <1>1 DEF Types, ScreenTypes, Refuse, moveVars, historyVars
<1>3. UNCHANGED serverVars /\ UNCHANGED current
  BY DEF Refuse
<1> QED
  BY <1>1, <1>2, <1>3, QuietStepTypes

(* A run that is not registered yet belongs to one flow, which asks for it. *)
Preparing ==
  \A g \in DOMAIN flows : flows[g].pc = "ask" /\ flows[g].run # 0 =>
    /\ runs[flows[g].run].phase = "prepared"
    /\ \A h \in DOMAIN flows :
         flows[h].pc = "ask" /\ flows[h].run = flows[g].run => h = g

(* It becomes the active generation.                                       *)
LEMMA RegisterTypes ==
  ASSUME Types, Preparing, NEW g \in DOMAIN flows, Register(g)
  PROVE  Types'
<1> DEFINE r == flows[g].run
           phase == IF Occupied(flows[g].conv) THEN "refused" ELSE "live"
           x == [runs[r] EXCEPT !.phase = phase]
<1>1. /\ r \in DOMAIN runs /\ runs[r] \in Runs /\ Len(runs) \in Nat /\ r # 0
      /\ r \in 0..Len(runs) /\ flows[g] \in Flows /\ runs[r].seq = 0
  <2>1. r \in 0..Len(runs) /\ r # 0 /\ runs[r].phase = "prepared"
    BY DEF Types, FlowsRun, Register, Preparing
  <2> QED
    BY <2>1, Elements DEF Types, RunsCounted
<1>2. runs' = [runs EXCEPT ![r] = x]
  BY DEF Register
<1>3. x \in Runs /\ x.phase \in {"refused", "live"} /\ x.seq = 0 /\ x.seq < MaxEvents
  BY <1>1, BoundsAssumption DEF Runs
<1> HIDE DEF x
<1>4. runs' \in Seq(Runs) /\ RunsCounted' /\ Len(runs') = Len(runs)
  BY <1>1, <1>2, <1>3, RunStepTypes
<1>5. ServerTypes'
  BY <1>4 DEF Types, ServerTypes, Register
<1>6. UNCHANGED current
  BY DEF Register
<1>7. FlowTypes' /\ FlowsRun' /\ messages' \in Rows
  <2>1. CASE Occupied(flows[g].conv)
    <3> DEFINE f == [flows[g] EXCEPT !.pc = "fetch", !.error = TRUE]
    <3>1. /\ messages' \in Rows /\ flows' = [flows EXCEPT ![g] = f]
          /\ f \in Flows /\ f.run = r /\ f.pc = "fetch"
      BY <2>1, FailedTypes DEF Register
    <3> HIDE DEF f
    <3>2. Len(runs') \in Nat /\ Len(runs) <= Len(runs') /\ f.run \in 0..Len(runs')
      BY <1>1, <1>4, <3>1
    <3> QED
      BY <1>6, <3>1, <3>2, FlowStepTypes
  <2>2. CASE ~Occupied(flows[g].conv)
    <3> DEFINE f == [flows[g] EXCEPT !.pc = "stream"]
    <3>1. /\ flows' = [flows EXCEPT ![g] = f]
          /\ f \in Flows /\ f.run = r /\ f.pc = "stream"
      BY <2>2, StepIs DEF Register
    <3> HIDE DEF f
    <3>2. Len(runs') \in Nat /\ Len(runs) <= Len(runs') /\ f.run \in 0..Len(runs')
      BY <1>1, <1>4, <3>1
    <3>3. FlowTypes' /\ FlowsRun'
      BY <1>1, <1>6, <3>1, <3>2, FlowStepTypes
    <3> QED
      BY <2>2, <3>3 DEF Register, Types, ScreenTypes
  <2> QED
    BY <2>1, <2>2
<1>8. ScreenTypes'
  BY <1>7 DEF Types, ScreenTypes, Register, moveVars, historyVars
<1> QED
  BY <1>4, <1>5, <1>7, <1>8 DEF Types

(* A stream is attached to it.                                             *)
LEMMA AttachTypes ==
  ASSUME Types, NEW g \in DOMAIN flows, Attach(g)
  PROVE  Types'
<1>1. /\ UNCHANGED serverVars /\ UNCHANGED current /\ flows[g] \in Flows
      /\ Len(runs) \in Nat /\ DOMAIN runs = 1..Len(runs)
  BY Elements DEF Attach
<1>2. ScreenTypes'
  BY DEF Types, ScreenTypes, Attach, moveVars, historyVars
<1>3. CASE Step(g, "fetch")
  <2> DEFINE f == [flows[g] EXCEPT !.pc = "fetch"]
  <2>1. /\ flows' = [flows EXCEPT ![g] = f]
        /\ f \in Flows /\ f.run = flows[g].run /\ f.kind = flows[g].kind
        /\ f.pc = "fetch"
    BY <1>3, StepIs
  <2> HIDE DEF f
  <2> QED
    BY <1>1, <1>2, <2>1, QuietStepTypes
<1>4. CASE ~Step(g, "fetch")
  <2>1. PICK r \in DOMAIN runs :
          flows' = [flows EXCEPT ![g].pc = "stream", ![g].run = r]
    BY <1>4 DEF Attach
  <2> DEFINE f == [flows[g] EXCEPT !.pc = "stream", !.run = r]
  <2>2. /\ flows' = [flows EXCEPT ![g] = f]
        /\ f \in Flows /\ f.run = r /\ f.pc = "stream"
    <3>1. r \in Nat
      BY <1>1
    <3>2. f \in Flows /\ f.run = r /\ f.pc = "stream"
      BY <1>1, <3>1 DEF Flows
    <3> QED
      BY <2>1, <3>2
  <2> HIDE DEF f
  <2>3. /\ ServerTypes' /\ RunsCounted'
        /\ Len(runs') \in Nat /\ Len(runs) <= Len(runs')
        /\ f.run \in 0..Len(runs') /\ f.run # 0
    BY <1>1, <2>2, ServerFrame
  <2>4. FlowTypes' /\ FlowsRun'
    BY <1>1, <2>2, <2>3, FlowStepTypes
  <2> QED
    BY <1>2, <2>3, <2>4 DEF Types
<1> QED
  BY <1>3, <1>4

(* A stream breaks.                                                        *)
LEMMA BreakTypes ==
  ASSUME Types, NEW g \in DOMAIN flows, Break(g)
  PROVE  Types'
<1>1. UNCHANGED serverVars /\ UNCHANGED current /\ messages \in Rows
  BY DEF Break, Types, ScreenTypes
<1>2. faults' \in 0..MaxFaults
  BY BoundsAssumption DEF Types, ScreenTypes, Break
<1>3. PICK f \in Flows :
        /\ flows' = [flows EXCEPT ![g] = f] /\ f.run = flows[g].run
        /\ f.kind = flows[g].kind /\ f.pc \in {"fetch", "finish"}
        /\ messages' \in Rows
  <2>1. CASE flows[g].kind = "resume"
    <3>1. Step(g, "finish") /\ UNCHANGED messages
      BY <2>1 DEF Break
    <3> QED
      BY <1>1, <3>1, StepIs
  <2>2. CASE flows[g].kind # "resume"
    <3>1. Failed(g)
      BY <2>2 DEF Break
    <3> QED
      BY <3>1, FailedTypes
  <2> QED
    BY <2>1, <2>2
<1>4. ScreenTypes'
  BY <1>2, <1>3 DEF Types, ScreenTypes, Break, moveVars, historyVars
<1> QED
  BY <1>1, <1>3, <1>4, QuietStepTypes

(* A stream ends.                                                          *)
LEMMA StreamEndsTypes ==
  ASSUME Types, NEW g \in DOMAIN flows, StreamEnds(g)
  PROVE  Types'
<1>1. UNCHANGED serverVars /\ UNCHANGED current
  BY DEF StreamEnds
<1>2. faults' \in 0..MaxFaults
  BY BoundsAssumption DEF Types, ScreenTypes, StreamEnds
<1>3. PICK f \in Flows :
        /\ flows' = [flows EXCEPT ![g] = f] /\ f.run = flows[g].run
        /\ f.kind = flows[g].kind /\ f.pc \in {"fetch", "finish"}
  BY StepIs DEF StreamEnds
<1>4. ScreenTypes'
  BY <1>2 DEF Types, ScreenTypes, StreamEnds, moveVars, historyVars
<1> QED
  BY <1>1, <1>3, <1>4, QuietStepTypes

(* A request is answered.                                                  *)
LEMMA AnswerTypes ==
  ASSUME Types, NEW g \in DOMAIN flows,
         Answer(g) \/ Apply(g) \/ FetchFails(g)
  PROVE  Types'
<1>1. UNCHANGED serverVars /\ UNCHANGED current /\ flows[g] \in Flows
  BY Elements DEF Answer, Apply, FetchFails
<1>2. <<>> \in Rows /\ stored[flows[g].conv] \in Rows
  BY <1>1, EmptySeq DEF Rows, Flows, Types, ServerTypes
<1>3. faults' \in 0..MaxFaults
  BY BoundsAssumption DEF Types, ScreenTypes, Answer, Apply, FetchFails
<1>4. /\ messages' \in Rows
      /\ loaded' \in BOOLEAN
  <2>1. flows[g].got \in Rows /\ flows[g].kept \in Rows
    BY <1>1 DEF Flows
  <2>2. Merge(flows[g].got, flows[g].kept) \in Rows
    BY <2>1, MergeIs
  <2> QED
    BY <2>1, <2>2 DEF Answer, Apply, FetchFails, ShowRows, Types, ScreenTypes,
                      historyVars
<1>5. ScreenTypes'
  BY <1>3, <1>4 DEF Types, ScreenTypes, Answer, Apply, FetchFails, moveVars,
                    historyVars
<1>6. PICK f \in Flows :
        /\ flows' = [flows EXCEPT ![g] = f] /\ f.run = flows[g].run
        /\ f.kind = flows[g].kind /\ f.pc \in {"answered", "finish"}
  <2>1. CASE Answer(g)
    <3> DEFINE f == [flows[g] EXCEPT !.pc = "answered", !.got = stored[flows[g].conv]]
    <3>1. flows' = [flows EXCEPT ![g] = f]
      BY <2>1 DEF Answer
    <3>2. /\ f \in Flows /\ f.run = flows[g].run
          /\ f.kind = flows[g].kind /\ f.pc \in {"answered", "finish"}
      BY <1>1, <1>2 DEF Flows
    <3> QED
      BY <3>1, <3>2
  <2>2. CASE Apply(g)
    <3> DEFINE f == [flows[g] EXCEPT !.pc = "finish", !.got = <<>>, !.kept = <<>>]
    <3>1. flows' = [flows EXCEPT ![g] = f]
      BY <2>2 DEF Apply
    <3>2. /\ f \in Flows /\ f.run = flows[g].run
          /\ f.kind = flows[g].kind /\ f.pc \in {"answered", "finish"}
      BY <1>1, <1>2 DEF Flows
    <3> QED
      BY <3>1, <3>2
  <2>3. CASE FetchFails(g)
    BY <2>3, StepIs DEF FetchFails
  <2> QED
    BY <2>1, <2>2, <2>3
<1> QED
  BY <1>1, <1>5, <1>6, QuietStepTypes

(* The generation ends; the rest of the screen is as it was.               *)
LEMMA FinalizeTypes ==
  ASSUME Types, NEW g \in DOMAIN flows,
         \/ Finalize(g)
         \/ UNCHANGED <<messages, buffer, current, sending>>
  PROVE  /\ messages' \in Rows /\ buffer' \in SUBSET buffer
         /\ sending' \in BOOLEAN /\ current' \in {0, current}
BY FlushedIs DEF Finalize, Types, ScreenTypes

(* The flow of a generation ends at the tab.                               *)
LEMMA FinishTypes ==
  ASSUME Types, NEW g \in DOMAIN flows, Finish(g) \/ StopFinish(g)
  PROVE  Types'
<1>1. UNCHANGED serverVars /\ Overtaken(g) \in Flows
  BY OvertakenIs DEF Finish, StopFinish
<1>2. /\ messages' \in Rows /\ buffer' \in SUBSET buffer
      /\ sending' \in BOOLEAN /\ current' \in {0, current}
  BY FinalizeTypes DEF Finish, StopFinish
<1>3. ScreenTypes'
  BY <1>2, ScreenFrame DEF Finish, StopFinish, moveVars, historyVars, Types, ScreenTypes
<1>4. PICK f \in Flows :
        /\ flows' = [flows EXCEPT ![g] = f] /\ f.run = flows[g].run
        /\ f.kind = flows[g].kind /\ f.pc \in {flows[g].pc, "done"}
  <2>1. CASE Finish(g)
    <3> DEFINE f == [Overtaken(g) EXCEPT !.pc = "done"]
    <3>1. flows' = [flows EXCEPT ![g] = f]
      BY <2>1 DEF Finish
    <3>2. /\ f \in Flows /\ f.run = flows[g].run /\ f.kind = flows[g].kind
          /\ f.pc = "done"
      BY <1>1, OvertakenIs DEF Flows
    <3> QED
      BY <3>1, <3>2
  <2>2. CASE StopFinish(g)
    <3> DEFINE f == [Overtaken(g) EXCEPT !.stop = "done"]
    <3>1. flows' = [flows EXCEPT ![g] = f]
      BY <2>2 DEF StopFinish
    <3>2. /\ f \in Flows /\ f.run = flows[g].run /\ f.kind = flows[g].kind
          /\ f.pc = flows[g].pc
      BY <1>1, OvertakenIs DEF Flows
    <3> QED
      BY <3>1, <3>2
  <2> QED
    BY <2>1, <2>2
<1> QED
  BY <1>1, <1>2, <1>3, <1>4, QuietStepTypes

(* A generation that begins to be stopped, or its stop, takes a step.      *)
LEMMA StoppingTypes ==
  ASSUME Types, NEW g \in DOMAIN flows,
         StopCancel(g) \/ StopAnswer(g) \/ StopApply(g) \/ StopFetchFails(g)
  PROVE  Types'
<1>1. UNCHANGED serverVars /\ UNCHANGED current /\ flows[g] \in Flows
  BY Elements DEF StopCancel, StopAnswer, StopApply, StopFetchFails
<1>2. /\ <<>> \in Rows /\ stored[flows[g].conv] \in Rows /\ flows[g].answer \in Rows
      /\ flows[g].tries \in Nat /\ flows[g].tries + 1 \in Nat
  BY <1>1, EmptySeq DEF Rows, Flows, Types, ServerTypes
<1>3. ScreenTypes'
  <2>1. faults' \in 0..MaxFaults
    BY BoundsAssumption
    DEF Types, ScreenTypes, StopCancel, StopAnswer, StopApply, StopFetchFails
  <2>2. messages' \in Rows /\ loaded' \in BOOLEAN
    BY <1>2 DEF Types, ScreenTypes, StopCancel, StopAnswer, StopApply,
                StopFetchFails, ShowRows, historyVars
  <2> QED
    BY <2>1, <2>2 DEF Types, ScreenTypes, StopCancel, StopAnswer, StopApply,
                      StopFetchFails, moveVars, historyVars
<1>4. PICK f \in Flows :
        /\ flows' = [flows EXCEPT ![g] = f] /\ f.run = flows[g].run
        /\ f.kind = flows[g].kind /\ f.pc = flows[g].pc
  <2>1. CASE StopCancel(g)
    <3> DEFINE f == [flows[g] EXCEPT !.stop = "fetch", !.lost = flows[g].pc = "ask"]
    <3>1. flows' = [flows EXCEPT ![g] = f]
      BY <2>1 DEF StopCancel
    <3>2. /\ f \in Flows /\ f.run = flows[g].run /\ f.kind = flows[g].kind
          /\ f.pc = flows[g].pc
      BY <1>1 DEF Flows
    <3> QED
      BY <3>1, <3>2
  <2>2. CASE StopAnswer(g)
    <3> DEFINE f == [flows[g] EXCEPT !.stop = "answered",
                                     !.answer = stored[flows[g].conv]]
    <3>1. flows' = [flows EXCEPT ![g] = f]
      BY <2>2 DEF StopAnswer
    <3>2. /\ f \in Flows /\ f.run = flows[g].run /\ f.kind = flows[g].kind
          /\ f.pc = flows[g].pc
      BY <1>1, <1>2 DEF Flows
    <3> QED
      BY <3>1, <3>2
  <2>3. CASE StopApply(g)
    <3> DEFINE unsettled == \E m \in ToSet(flows[g].answer) : m.status = "streaming"
               again == unsettled /\ flows[g].tries + 1 < ReconcileAttempts
               f == [flows[g] EXCEPT !.stop = IF again THEN "fetch" ELSE "finish",
                                     !.tries = IF again THEN @ + 1 ELSE @,
                                     !.lost = @ \/ (unsettled /\ ~again),
                                     !.answer = <<>>]
    <3>1. flows' = [flows EXCEPT ![g] = f]
      BY <2>3 DEF StopApply
    <3>2. (flows[g].lost \/ (unsettled /\ ~again)) \in BOOLEAN
      BY <1>1 DEF Flows
    <3> HIDE DEF unsettled, again
    <3>3. /\ f \in Flows /\ f.run = flows[g].run /\ f.kind = flows[g].kind
          /\ f.pc = flows[g].pc
      BY <1>1, <1>2, <3>2 DEF Flows
    <3> QED
      BY <3>1, <3>3
  <2>4. CASE StopFetchFails(g)
    <3> DEFINE f == [flows[g] EXCEPT !.stop = "finish"]
    <3>1. flows' = [flows EXCEPT ![g] = f]
      BY <2>4 DEF StopFetchFails
    <3>2. /\ f \in Flows /\ f.run = flows[g].run /\ f.kind = flows[g].kind
          /\ f.pc = flows[g].pc
      BY <1>1 DEF Flows
    <3> QED
      BY <3>1, <3>2
  <2> QED
    BY <2>1, <2>2, <2>3, <2>4
<1> QED
  BY <1>1, <1>3, <1>4, QuietStepTypes

(* The user stops it.                                                      *)
LEMMA StopTypes ==
  ASSUME Types, Stop
  PROVE  Types'
<1> DEFINE f == [flows[current] EXCEPT !.stop = "cancel"]
<1>1. /\ UNCHANGED serverVars /\ UNCHANGED current
      /\ current \in DOMAIN flows /\ flows[current] \in Flows
  BY Elements DEF Stop
<1>2. /\ flows' = [flows EXCEPT ![current] = f] /\ f \in Flows
      /\ f.run = flows[current].run /\ f.kind = flows[current].kind
      /\ f.pc = flows[current].pc
  BY <1>1 DEF Stop, Flows
<1>3. ScreenTypes'
  <2>1. moves' \in 0..MaxMoves
    BY BoundsAssumption DEF Stop, Types, ScreenTypes
  <2>2. messages' \in Rows
    BY FlushedIs DEF Stop, Types
  <2> QED
    BY <2>1, <2>2 DEF Types, ScreenTypes, Stop, historyVars
<1> HIDE DEF f
<1> QED
  BY <1>1, <1>2, <1>3, QuietStepTypes

(* What a flow that has an event to receive knows of its run.              *)
LEMMA EventIs ==
  ASSUME Types, NEW g \in DOMAIN flows, HasEvent(g)
  PROVE  LET run == runs[flows[g].run] IN
         /\ flows[g] \in Flows /\ run \in Runs /\ flows[g].conv \in Conversations
         /\ flows[g].run \in DOMAIN runs
         /\ flows[g].pos \in Nat /\ run.seq \in Nat /\ run.seq <= MaxEvents
         /\ Upcoming(g) \in 1..run.seq /\ Upcoming(g) \in 1..MaxEvents
         /\ flows[g].pos < MaxEvents
         /\ ~IsClosing(g) => Upcoming(g) < MaxEvents
         /\ IsClosing(g) => flows[g].pos > 0
<1>1. /\ flows[g] \in Flows /\ flows[g].run \in DOMAIN runs
      /\ runs[flows[g].run] \in Runs
  <2>1. flows[g].run \in 0..Len(runs) /\ flows[g].run # 0
    BY DEF Types, FlowsRun, HasEvent
  <2> QED
    BY <2>1, Elements
<1>2. /\ flows[g].pos \in 0..MaxEvents /\ runs[flows[g].run].seq \in 0..MaxEvents
      /\ MaxEvents \in Nat /\ flows[g].conv \in Conversations
      /\ runs[flows[g].run].phase \in {"prepared", "live", "stored", "closed", "refused"}
  BY <1>1, BoundsAssumption DEF Flows, Runs
<1>3. flows[g].pos < runs[flows[g].run].seq
  BY DEF HasEvent
<1>4. /\ runs[flows[g].run].phase \in {"prepared", "refused"} => runs[flows[g].run].seq = 0
      /\ runs[flows[g].run].phase \in {"live", "stored"} => runs[flows[g].run].seq < MaxEvents
      /\ runs[flows[g].run].phase = "closed" => runs[flows[g].run].seq > 1
  BY <1>1 DEF Types, RunsCounted
<1> QED
  BY <1>1, <1>2, <1>3, <1>4 DEF Upcoming, IsClosing

(* A flow received an event, or learnt a key: all else of it is the same.  *)
Knows(f, e) ==
  /\ f.kind = e.kind /\ f.conv = e.conv /\ f.place = e.place /\ f.target = e.target
  /\ f.pc = e.pc /\ f.run = e.run /\ f.got = e.got /\ f.kept = e.kept
  /\ f.error = e.error /\ f.stop = e.stop /\ f.tries = e.tries
  /\ f.answer = e.answer /\ f.over = e.over /\ f.cut = e.cut /\ f.lost = e.lost
  /\ f.away = e.away /\ f.orphan = e.orphan

(* The key of an event is learnt by the active generation only.            *)
LEMMA LearntIs ==
  ASSUME Types, NEW g \in DOMAIN flows, HasEvent(g)
  PROVE  /\ Learnt(g) \in Seq(Flows) /\ Len(Learnt(g)) = Len(flows)
         /\ DOMAIN Learnt(g) = DOMAIN flows
         /\ \A h \in DOMAIN flows :
              /\ Knows(Learnt(g)[h], flows[h])
              /\ Learnt(g)[h].pos = IF h = g THEN Upcoming(g) ELSE flows[h].pos
<1> DEFINE key == runs[flows[g].run].key
           it == flows[current]
           mine == /\ current # 0 /\ it.conv = flows[g].conv
                   /\ it.place = flows[g].place \/ {flows[g].place, key} \cap it.real # {}
           moved == [flows EXCEPT ![g].pos = @ + 1]
           taught == [moved EXCEPT ![current].real = {key}]
<1>1. /\ \A h \in DOMAIN flows : flows[h] \in Flows
      /\ Len(flows) \in Nat /\ DOMAIN flows = 1..Len(flows)
      /\ key \in Int /\ Upcoming(g) \in 0..MaxEvents
  BY Elements, EventIs DEF Runs
<1>2. Learnt(g) = IF mine THEN taught ELSE moved
  BY DEF Learnt
<1>3. ASSUME NEW f \in Flows, NEW p \in 0..MaxEvents
      PROVE  /\ [f EXCEPT !.pos = p] \in Flows /\ [f EXCEPT !.pos = p].pos = p
             /\ Knows([f EXCEPT !.pos = p], f)
  BY DEF Flows, Knows
<1>4. ASSUME NEW f \in Flows, NEW r \in SUBSET Int
      PROVE  /\ [f EXCEPT !.real = r] \in Flows /\ [f EXCEPT !.real = r].pos = f.pos
             /\ Knows([f EXCEPT !.real = r], f)
  BY DEF Flows, Knows
<1>5. ASSUME NEW h \in DOMAIN flows
      PROVE  /\ moved[h] \in Flows
             /\ Knows(moved[h], flows[h])
             /\ moved[h].pos = IF h = g THEN Upcoming(g) ELSE flows[h].pos
  <2>1. CASE h = g
    <3>1. moved[h] = [flows[h] EXCEPT !.pos = Upcoming(g)]
      BY <2>1 DEF Upcoming
    <3> QED
      BY <1>1, <1>3, <2>1, <3>1
  <2>2. CASE h # g
    <3>1. moved[h] = flows[h]
      BY <2>2
    <3> QED
      BY <1>1, <2>2, <3>1 DEF Knows
  <2> QED
    BY <2>1, <2>2
<1>6. DOMAIN moved = DOMAIN flows /\ DOMAIN taught = DOMAIN flows
  OBVIOUS
<1>7. taught = [h \in DOMAIN flows |->
                  IF h = current THEN [moved[h] EXCEPT !.real = {key}] ELSE moved[h]]
  OBVIOUS
<1>8. moved = [h \in DOMAIN flows |-> moved[h]]
  OBVIOUS
<1> HIDE DEF moved, taught, key
<1>9. ASSUME NEW h \in DOMAIN flows
      PROVE  /\ taught[h] \in Flows
             /\ Knows(taught[h], flows[h])
             /\ taught[h].pos = IF h = g THEN Upcoming(g) ELSE flows[h].pos
  <2>1. CASE h = current
    <3>1. taught[h] = [moved[h] EXCEPT !.real = {key}] /\ {key} \in SUBSET Int
      BY <1>1, <1>7, <2>1
    <3>2. /\ [moved[h] EXCEPT !.real = {key}] \in Flows
          /\ [moved[h] EXCEPT !.real = {key}].pos = moved[h].pos
          /\ Knows([moved[h] EXCEPT !.real = {key}], moved[h])
      <4>1. moved[h] \in Flows /\ {key} \in SUBSET Int
        BY <1>5, <3>1
      <4> QED
        BY <1>4, <4>1
    <3>3. Knows([moved[h] EXCEPT !.real = {key}], flows[h])
      BY <1>5, <3>2 DEF Knows
    <3> QED
      BY <1>5, <3>1, <3>2, <3>3
  <2>2. CASE h # current
    <3>1. taught[h] = moved[h]
      BY <1>7, <2>2
    <3> QED
      BY <1>5, <3>1
  <2> QED
    BY <2>1, <2>2
<1> HIDE DEF mine
<1>10. moved \in Seq(Flows) /\ Len(moved) = Len(flows)
  BY <1>1, <1>5, <1>6, <1>8
<1>11. taught \in Seq(Flows) /\ Len(taught) = Len(flows)
  BY <1>1, <1>6, <1>7, <1>9
<1> QED
  BY <1>2, <1>5, <1>6, <1>9, <1>10, <1>11

(* What is shown of a reply that an event carries.                         *)
LEMMA ShowReplyTypes ==
  ASSUME Types, NEW g \in DOMAIN flows, HasEvent(g), NEW ms \in Rows,
         NEW status \in Statuses, NEW text \in Texts,
         ShowReply(g, ms, status, text)
  PROVE  messages' \in Rows
<1> DEFINE m == Reply(flows[g].conv, runs[flows[g].run].key, status, text)
<1>1. m \in Replies
  BY EventIs, ReplyType DEF Runs
<1> HIDE DEF m
<1>2. \A place, real : Upsert(ms, m, place, real) \in Rows
  BY <1>1, UpsertIs
<1> QED
  BY <1>2 DEF ShowReply, m, Types, ScreenTypes

(* An event is read from a stream.                                         *)
LEMMA ReceiveTypes ==
  ASSUME Types, NEW g \in DOMAIN flows, Receive(g)
  PROVE  Types'
<1> DEFINE f == flows[g]
           run == runs[f.run]
           heard == [f EXCEPT !.pos = @ + 1]
<1>1. HasEvent(g) /\ UNCHANGED serverVars /\ UNCHANGED current
  BY DEF Receive, ReceiveStart, ReceiveDelta, ReceiveClosing
<1>2. /\ f \in Flows /\ f.conv \in Conversations
      /\ Upcoming(g) \in 1..MaxEvents /\ MaxEvents \in Nat
      /\ ~IsClosing(g) => Upcoming(g) < MaxEvents
      /\ IsClosing(g) => f.pos > 0
      /\ f.pos < MaxEvents /\ f.pos \in Nat
  BY <1>1, EventIs, BoundsAssumption
<1>3. flows' \in Seq(Flows) /\ Len(flows') = Len(flows) /\ DOMAIN flows' = DOMAIN flows
  <2>1. CASE flows' = Learnt(g)
    BY <1>1, <2>1, LearntIs
  <2>2. CASE flows' = [flows EXCEPT ![g].pos = @ + 1]
    <3>1. heard \in Flows
      BY <1>2 DEF Flows, Upcoming
    <3>2. flows' = [flows EXCEPT ![g] = heard]
      BY <2>2
    <3> HIDE DEF heard
    <3> QED
      BY <3>1, <3>2, SeqUpdate DEF Types, FlowTypes
  <2> QED
    BY <2>1, <2>2 DEF Receive, ReceiveStart, ReceiveDelta, ReceiveClosing
<1>4. \A h \in DOMAIN flows : /\ flows'[h].run = flows[h].run
                              /\ flows'[h].pc = flows[h].pc
                              /\ flows'[h].kind = flows[h].kind
  <2>1. CASE flows' = Learnt(g)
    BY <1>1, <2>1, LearntIs DEF Knows
  <2>2. CASE flows' = [flows EXCEPT ![g].pos = @ + 1]
    BY <2>2, Elements DEF Flows
  <2> QED
    BY <2>1, <2>2 DEF Receive, ReceiveStart, ReceiveDelta, ReceiveClosing
<1>5. FlowTypes' /\ FlowsRun'
  BY <1>1, <1>3, <1>4 DEF Types, FlowTypes, FlowsRun, serverVars
<1>6. seqs' \in [Conversations -> 0..MaxEvents]
  BY <1>2 DEF Receive, ReceiveStart, ReceiveDelta, ReceiveClosing, Remember,
     Types, ScreenTypes
<1>7. messages \in Rows /\ Flushed \in Rows /\ <<>> \in Texts
  BY FlushedIs, EmptySeq DEF Types, ScreenTypes, Texts
<1>8. /\ messages' \in Rows
      /\ buffer' \in SUBSET Buffers /\ (\A x, y \in buffer' : x = y)
  <2>1. CASE ReceiveStart(g)
    <3>1. ShowReply(g, messages, "streaming", <<>>) /\ buffer' = buffer
      BY <2>1 DEF ReceiveStart
    <3>2. messages' \in Rows
      BY <1>1, <1>7, <3>1, ShowReplyTypes DEF Statuses
    <3> QED
      BY <3>1, <3>2 DEF Types, ScreenTypes
  <2>2. CASE ReceiveDelta(g)
    <3> DEFINE mine == {b \in buffer : b.conv = f.conv /\ b.place = f.place}
               text == IF mine = {} THEN <<>> ELSE (CHOOSE b \in mine : TRUE).text
               new == [conv |-> f.conv, place |-> f.place,
                       text |-> Append(text, Upcoming(g))]
    <3>1. Upcoming(g) # 1 /\ ~IsClosing(g)
      BY <2>2 DEF ReceiveDelta
    <3>2. Upcoming(g) \in 2..(MaxEvents - 1)
      BY <1>2, <3>1
    <3>3. text \in Texts
      <4>1. mine # {} => (CHOOSE b \in mine : TRUE) \in Buffers
        BY DEF Types, ScreenTypes
      <4> QED
        BY <1>7, <4>1 DEF Buffers
    <3>4. /\ IF InView(f.conv) THEN buffer' = {new} ELSE buffer' = buffer
          /\ messages' \in {messages, Flushed}
      BY <2>2 DEF ReceiveDelta
    <3> HIDE DEF text
    <3>5. Append(text, Upcoming(g)) \in Texts
      BY <3>2, <3>3, AppendProperties DEF Texts
    <3>6. new \in Buffers
      BY <1>2, <3>5 DEF Buffers, Flows
    <3> HIDE DEF new
    <3> QED
      BY <1>7, <3>4, <3>6 DEF Types, ScreenTypes
  <2>3. CASE ReceiveClosing(g)
    <3>1. Deltas(f.pos) \in Texts
      BY <1>2, <2>3, DeltasText DEF ReceiveClosing
    <3>2. ShowReply(g, Flushed, "settled", Deltas(f.pos)) /\ buffer' \in {{}, buffer}
      BY <2>3 DEF ReceiveClosing
    <3>3. messages' \in Rows
      BY <1>1, <1>7, <3>1, <3>2, ShowReplyTypes DEF Statuses
    <3> QED
      BY <3>2, <3>3 DEF Types, ScreenTypes
  <2> QED
    BY <2>1, <2>2, <2>3 DEF Receive
<1>9. ScreenTypes'
  BY <1>6, <1>8 DEF Types, ScreenTypes, Receive, ReceiveStart, ReceiveDelta,
                    ReceiveClosing, moveVars, historyVars
<1>10. ServerTypes' /\ RunsCounted'
  BY <1>1, ServerFrame
<1> QED
  BY <1>5, <1>9, <1>10 DEF Types

(* A run asked for keeps its phase and its flow.                           *)
LEMMA PreparingFrame ==
  ASSUME Types, Preparing,
         \A g \in DOMAIN flows' : flows'[g].pc = "ask" /\ flows'[g].run # 0 =>
           /\ g \in DOMAIN flows /\ flows[g].pc = "ask"
           /\ flows'[g].run = flows[g].run
           /\ runs'[flows[g].run].phase = runs[flows[g].run].phase
  PROVE  Preparing'
BY DEF Preparing

(* Every step keeps the types, and runs to their flows.                    *)
LEMMA NextTypes == Types /\ Preparing /\ [Next]_vars => Types'
<1> SUFFICES ASSUME Types, Preparing, [Next]_vars PROVE Types'
  OBVIOUS
<1>1. CASE User
  BY <1>1, NavigateTypes, ViewTypes, SendTypes, EditTypes, RepeatTypes, StopTypes
  DEF User
<1>2. CASE Resume
  BY <1>2, ResumeTypes
<1>3. CASE FlushFrame \/ Sync \/ SyncFails
  BY <1>3, ViewTypes
<1>4. ASSUME NEW c \in Conversations, OtherTab(c) \/ Archived(c) \/ ArchiveFails(c)
      PROVE  Types'
  BY <1>4, OtherTabTypes, ArchivedTypes, ViewTypes
<1>5. ASSUME NEW r \in DOMAIN runs, Serve(r) PROVE Types'
  BY <1>5, ServeTypes
<1>6. ASSUME NEW g \in DOMAIN flows,
             \/ Proceed(g) \/ Stopping(g) \/ Break(g) \/ FetchFails(g)
             \/ StopFetchFails(g)
      PROVE  Types'
  BY <1>6, PrepareTypes, RefuseTypes, RegisterTypes, AttachTypes, ReceiveTypes,
     StreamEndsTypes, AnswerTypes, FinishTypes, StoppingTypes, BreakTypes
  DEF Proceed, Request, Stopping
<1>7. CASE UNCHANGED vars
  BY <1>7 DEF vars, Types, ServerTypes, ScreenTypes, FlowTypes, RunsCounted,
     FlowsRun, serverVars, moveVars, historyVars
<1> QED
  BY <1>1, <1>2, <1>3, <1>4, <1>5, <1>6, <1>7 DEF Next

(* A step of a flow that does not begin to ask leaves the others' runs.    *)
LEMMA PreparingStep ==
  ASSUME Types, Preparing, UNCHANGED runs, NEW g \in DOMAIN flows, NEW f,
         flows' = [flows EXCEPT ![g] = f],
         f.pc = "ask" => flows[g].pc = "ask" /\ f.run = flows[g].run
  PROVE  Preparing'
<1>1. DOMAIN flows' = DOMAIN flows
  OBVIOUS
<1>2. \A h \in DOMAIN flows : flows'[h] = IF h = g THEN f ELSE flows[h]
  OBVIOUS
<1> QED
  BY <1>1, <1>2, PreparingFrame

(* A request that is prepared.                                             *)
LEMMA PreparePreparing ==
  ASSUME Types, Preparing, NEW g \in DOMAIN flows, Prepare(g)
  PROVE  Preparing'
<1>1. /\ \A h \in DOMAIN flows : flows[h] \in Flows /\ flows[h].run \in 0..Len(runs)
      /\ Len(runs) \in Nat /\ DOMAIN runs = 1..Len(runs)
  BY Elements DEF Types, FlowsRun
<1>2. /\ DOMAIN flows' = DOMAIN flows
      /\ \A h \in DOMAIN flows : /\ flows'[h].pc = flows[h].pc
                                 /\ flows'[h].run = IF h = g THEN Len(runs) + 1
                                                             ELSE flows[h].run
  BY <1>1 DEF Prepare, Flows
<1>3. PICK c, key : NewRun(c, key, "prepared")
  BY DEF Prepare
<1>4. /\ runs'[Len(runs) + 1].phase = "prepared"
      /\ \A r \in DOMAIN runs : runs'[r] = runs[r]
  BY <1>1, <1>3 DEF NewRun, Types, ServerTypes
<1>5. ASSUME NEW h \in DOMAIN flows, flows[h].pc = "ask", flows'[h].run # 0
      PROVE  /\ runs'[flows'[h].run].phase = "prepared"
             /\ \A k \in DOMAIN flows :
                  flows[k].pc = "ask" /\ flows'[k].run = flows'[h].run => k = h
  <2>1. CASE h = g
    BY <1>1, <1>2, <1>4, <1>5, <2>1
  <2>2. CASE h # g
    <3>1. flows'[h].run = flows[h].run /\ flows[h].run \in DOMAIN runs
      BY <1>1, <1>2, <1>5, <2>2
    <3>2. flows'[h].run # Len(runs) + 1
      BY <1>1, <3>1
    <3> QED
      BY <1>2, <1>4, <1>5, <3>1, <3>2 DEF Preparing
  <2> QED
    BY <2>1, <2>2
<1> QED
  BY <1>2, <1>5 DEF Preparing

(* One that is registered.                                                 *)
LEMMA RegisterPreparing ==
  ASSUME Types, Preparing, NEW g \in DOMAIN flows, Register(g)
  PROVE  Preparing'
<1>1. /\ \A h \in DOMAIN flows : flows[h] \in Flows
      /\ flows[g].pc = "ask" /\ flows[g].run # 0
  BY Elements DEF Register
<1>2. /\ DOMAIN flows' = DOMAIN flows
      /\ flows'[g].pc # "ask"
      /\ \A h \in DOMAIN flows : h # g => flows'[h] = flows[h]
  <2>1. CASE Occupied(flows[g].conv)
    BY <1>1, <2>1, FailedTypes DEF Register, Failed
  <2>2. CASE ~Occupied(flows[g].conv)
    BY <1>1, <2>2, StepIs DEF Register, Step
  <2> QED
    BY <2>1, <2>2
<1>3. \A r \in DOMAIN runs : r # flows[g].run => runs'[r] = runs[r]
  BY DEF Register
<1>4. ASSUME NEW h \in DOMAIN flows, flows'[h].pc = "ask", flows'[h].run # 0
      PROVE  /\ flows[h].pc = "ask" /\ flows'[h].run = flows[h].run
             /\ runs'[flows[h].run].phase = runs[flows[h].run].phase
  <2>1. h # g /\ flows'[h] = flows[h]
    BY <1>2, <1>4
  <2>2. flows[h].run # flows[g].run
    BY <1>1, <1>4, <2>1 DEF Preparing
  <2>3. flows[h].run \in DOMAIN runs
    BY <1>4, <2>1, Elements DEF Types, FlowsRun
  <2> QED
    BY <1>3, <1>4, <2>1, <2>2, <2>3
<1> QED
  BY <1>2, <1>4, PreparingFrame

(* What a generation is when it begins.                                    *)
Begun(kind, c, place, target, kept, pos) ==
  [kind |-> kind, conv |-> c, place |-> place, target |-> target,
   real |-> {}, pc |-> "ask", run |-> 0, pos |-> pos, got |-> <<>>,
   kept |-> kept, error |-> FALSE, stop |-> "none", tries |-> 0,
   answer |-> <<>>, over |-> syncing # {} \/ ForeignScreen,
   cut |-> kind # "resume" /\ CutShort, lost |-> FALSE, away |-> FALSE,
   orphan |-> FALSE]

(* What a flow that begins leaves.                                         *)
LEMMA BeginIs ==
  ASSUME Types, NEW kind, NEW c, NEW place, NEW target, NEW kept,
         NEW pos, Begin(kind, c, place, target, kept, pos)
  PROVE  /\ Len(flows) \in Nat /\ DOMAIN flows = 1..Len(flows)
         /\ DOMAIN flows' = 1..Len(flows) + 1
         /\ current' = Len(flows) + 1
         /\ \A g \in DOMAIN flows :
              flows'[g] = IF g = current THEN Overtaken(g) ELSE flows[g]
         /\ flows'[Len(flows) + 1] = Begun(kind, c, place, target, kept, pos)
<1> DEFINE old == [g \in DOMAIN flows |-> IF g = current THEN Overtaken(g) ELSE flows[g]]
           new == Begun(kind, c, place, target, kept, pos)
           All == Flows \cup {new}
<1>1. Len(flows) \in Nat /\ DOMAIN flows = 1..Len(flows)
  BY Elements
<1>2. flows' = Append(old, new) /\ current' = Len(flows) + 1
  BY DEF Begin, Begun
<1>3. \A g \in DOMAIN flows : old[g] \in Flows
  BY Elements, OvertakenIs
<1>4. old \in Seq(All) /\ Len(old) = Len(flows) /\ DOMAIN old = DOMAIN flows
  BY <1>1, <1>3
<1>5. \A g \in DOMAIN flows : old[g] = IF g = current THEN Overtaken(g) ELSE flows[g]
  OBVIOUS
<1>6. new \in All
  OBVIOUS
<1> HIDE DEF old, new, All
<1>7. /\ Append(old, new) \in Seq(All) /\ Len(Append(old, new)) = Len(flows) + 1
      /\ DOMAIN Append(old, new) = 1..Len(flows) + 1
      /\ \A g \in 1..Len(flows) : Append(old, new)[g] = old[g]
      /\ Append(old, new)[Len(flows) + 1] = new
  BY <1>1, <1>4, <1>6, AppendProperties, LenProperties
<1> QED
  BY <1>1, <1>2, <1>5, <1>7 DEF new

(* A generation begins without a run.                                      *)
LEMMA BeginPreparing ==
  ASSUME Types, Preparing, NEW kind, NEW c, NEW place, NEW target, NEW kept,
         NEW pos, Begin(kind, c, place, target, kept, pos)
  PROVE  Preparing'
<1>1. /\ Len(flows) \in Nat /\ DOMAIN flows = 1..Len(flows)
      /\ DOMAIN flows' = 1..Len(flows) + 1
      /\ \A g \in DOMAIN flows :
           flows'[g].run = flows[g].run /\ flows'[g].pc = flows[g].pc
      /\ flows'[Len(flows) + 1].run = 0
  <2>1. Begun(kind, c, place, target, kept, pos).run = 0
    BY DEF Begun
  <2> QED
    BY <2>1, BeginIs, OvertakenIs
<1>2. UNCHANGED runs
  BY DEF Begin, serverVars
<1>3. ASSUME NEW g \in DOMAIN flows', flows'[g].run # 0
      PROVE  g \in DOMAIN flows /\ flows'[g].run = flows[g].run
             /\ flows'[g].pc = flows[g].pc
  BY <1>1, <1>3
<1> QED
  BY <1>2, <1>3, PreparingFrame

(* Flows are left, or nothing about them changes.                          *)
LEMMA ViewPreparing ==
  ASSUME Types, Preparing, UNCHANGED runs,
         \/ UNCHANGED flows
         \/ flows' = [g \in DOMAIN flows |-> [flows[g] EXCEPT !.away = TRUE]]
  PROVE  Preparing'
<1>1. \A f \in Flows : [f EXCEPT !.away = TRUE].run = f.run
                       /\ [f EXCEPT !.away = TRUE].pc = f.pc
  BY DEF Flows
<1>2. DOMAIN flows' = DOMAIN flows
  OBVIOUS
<1>3. \A g \in DOMAIN flows : flows'[g].run = flows[g].run /\ flows'[g].pc = flows[g].pc
  BY <1>1, Elements
<1> QED
  BY <1>2, <1>3, PreparingFrame

(* The server changes the phase of no run that is only prepared.           *)
LEMMA ServerPreparing ==
  ASSUME Types, Preparing, UNCHANGED flows,
         \/ \E r \in DOMAIN runs : Serve(r)
         \/ \E c \in Conversations : OtherTab(c)
  PROVE  Preparing'
<1>1. ASSUME NEW q \in DOMAIN runs, runs[q].phase = "prepared"
      PROVE  runs'[q].phase = "prepared"
  <2>1. ASSUME NEW r \in DOMAIN runs, Serve(r) PROVE runs'[q] = runs[q]
    <3>1. r # q
      BY <1>1, <2>1 DEF Serve, Publish, SettleReply, CloseRun
    <3> QED
      BY <2>1, <3>1 DEF Serve, Publish, SettleReply, CloseRun
  <2>2. ASSUME NEW c \in Conversations, OtherTab(c) PROVE runs'[q] = runs[q]
    <3>1. nextKey \in Int \ {0}
      BY DEF Types, ServerTypes
    <3>2. NewRun(c, nextKey, "live")
      BY <2>2 DEF OtherTab
    <3> QED
      BY <1>1, <3>1, <3>2, NewRunTypes
  <2> QED
    BY <1>1, <2>1, <2>2
<1>2. \A g \in DOMAIN flows : flows[g].pc = "ask" /\ flows[g].run # 0 =>
        flows[g].run \in DOMAIN runs
  BY Elements DEF Types, FlowsRun
<1> QED
  BY <1>1, <1>2, PreparingFrame DEF Preparing

(* Any step keeps what is known of them.                                   *)
LEMMA NextPreparing == Types /\ Preparing /\ [Next]_vars => Preparing'
<1> SUFFICES ASSUME Types, Preparing, [Next]_vars PROVE Preparing'
  OBVIOUS
<1>0. \A g \in DOMAIN flows : flows[g] \in Flows
  BY Elements
<1>1. CASE User
  <2>1. ASSUME NEW c, Navigate(c) PROVE Preparing'
    BY <2>1, ViewPreparing DEF Navigate, serverVars
  <2>2. CASE Archive
    BY <2>2, ViewPreparing DEF Archive, serverVars
  <2>3. CASE Send \/ Edit \/ \E m \in ToSet(messages) : Repeat(m)
    BY <2>3, BeginPreparing DEF Send, Edit, Repeat
  <2>4. CASE Stop
    <3>1. /\ UNCHANGED runs /\ current \in DOMAIN flows
          /\ flows' = [flows EXCEPT ![current] = [flows[current] EXCEPT !.stop = "cancel"]]
      BY <2>4, Elements DEF Stop, serverVars
    <3>2. LET f == [flows[current] EXCEPT !.stop = "cancel"]
          IN f.pc = flows[current].pc /\ f.run = flows[current].run
      BY <1>0, <3>1 DEF Flows
    <3> QED
      BY <3>1, <3>2, PreparingStep
  <2> QED
    BY <1>1, <2>1, <2>2, <2>3, <2>4 DEF User
<1>2. CASE Resume
  BY <1>2, BeginPreparing DEF Resume
<1>3. CASE FlushFrame \/ Sync \/ SyncFails
  BY <1>3, ViewPreparing
  DEF FlushFrame, Sync, SyncAnswer, SyncApply, SyncFails, serverVars
<1>4. ASSUME NEW c \in Conversations, OtherTab(c) \/ Archived(c) \/ ArchiveFails(c)
      PROVE  Preparing'
  BY <1>4, ServerPreparing, ViewPreparing
  DEF OtherTab, Archived, ArchiveFails, serverVars
<1>5. ASSUME NEW r \in DOMAIN runs, Serve(r) PROVE Preparing'
  BY <1>5, ServerPreparing DEF Serve
<1>6. ASSUME NEW g \in DOMAIN flows,
             \/ Proceed(g) \/ Stopping(g) \/ Break(g) \/ FetchFails(g)
             \/ StopFetchFails(g)
      PROVE  Preparing'
  <2>1. CASE Prepare(g) \/ Register(g)
    BY <2>1, PreparePreparing, RegisterPreparing
  <2>2. CASE Receive(g)
    <3>1. HasEvent(g) /\ UNCHANGED runs
      BY <2>2 DEF Receive, ReceiveStart, ReceiveDelta, ReceiveClosing, serverVars
    <3>2. DOMAIN flows' = DOMAIN flows
      BY <2>2, <3>1, LearntIs DEF Receive, ReceiveStart, ReceiveDelta, ReceiveClosing
    <3>3. \A h \in DOMAIN flows : flows'[h].run = flows[h].run /\ flows'[h].pc = flows[h].pc
      <4>1. CASE flows' = Learnt(g)
        BY <3>1, <4>1, LearntIs DEF Knows
      <4>2. CASE flows' = [flows EXCEPT ![g].pos = @ + 1]
        BY <1>0, <4>2 DEF Flows
      <4> QED
        BY <2>2, <4>1, <4>2 DEF Receive, ReceiveStart, ReceiveDelta, ReceiveClosing
    <3> QED
      BY <3>1, <3>2, <3>3, PreparingFrame
  <2>3. ASSUME ~Prepare(g), ~Register(g), ~Receive(g)
        PROVE  /\ UNCHANGED runs
               /\ \E f : /\ flows' = [flows EXCEPT ![g] = f]
                         /\ f.pc = "ask" => /\ flows[g].pc = "ask"
                                            /\ f.run = flows[g].run
    <3>1. flows[g] \in Flows /\ Overtaken(g) \in Flows
          /\ Overtaken(g).pc = flows[g].pc /\ Overtaken(g).run = flows[g].run
      BY <1>0, OvertakenIs
    <3> DEFINE Quiet(f) == f.pc = "ask" => flows[g].pc = "ask" /\ f.run = flows[g].run
    <3>2. CASE Refuse(g) \/ Attach(g) \/ StreamEnds(g) \/ Break(g) \/ FetchFails(g)
      <4>1. ASSUME NEW pc \in {"stream", "fetch", "finish"}
            PROVE  /\ Quiet([flows[g] EXCEPT !.pc = pc])
                   /\ Quiet([flows[g] EXCEPT !.pc = pc, !.error = TRUE])
                   /\ \A r : Quiet([flows[g] EXCEPT !.pc = pc, !.run = r])
        BY <3>1 DEF Flows
      <4>2. UNCHANGED runs
        BY <3>2 DEF Refuse, Attach, StreamEnds, Break, FetchFails, serverVars
      <4>3. CASE Failed(g)
        BY <4>1, <4>2, <4>3 DEF Failed
      <4>4. ASSUME NEW pc \in {"fetch", "finish"}, Step(g, pc)
            PROVE  \E f : flows' = [flows EXCEPT ![g] = f] /\ Quiet(f)
        <5>1. flows' = [flows EXCEPT ![g] = [flows[g] EXCEPT !.pc = pc]]
          BY <4>4 DEF Step
        <5> QED
          BY <4>1, <5>1
      <4>5. ASSUME NEW r, flows' = [flows EXCEPT ![g].pc = "stream", ![g].run = r]
            PROVE  \E f : flows' = [flows EXCEPT ![g] = f] /\ Quiet(f)
        <5>1. flows' = [flows EXCEPT ![g] = [flows[g] EXCEPT !.pc = "stream", !.run = r]]
          BY <4>5
        <5> QED
          BY <4>1, <5>1
      <4>6. ASSUME Failed(g)
            PROVE  \E f : flows' = [flows EXCEPT ![g] = f] /\ Quiet(f)
        <5>1. flows' = [flows EXCEPT ![g] = [flows[g] EXCEPT !.pc = "fetch", !.error = TRUE]]
          BY <4>6 DEF Failed
        <5> QED
          BY <4>1, <5>1
      <4>7. \/ Failed(g)
            \/ \E pc \in {"fetch", "finish"} : Step(g, pc)
            \/ \E r : flows' = [flows EXCEPT ![g].pc = "stream", ![g].run = r]
        BY <3>2 DEF Refuse, Attach, StreamEnds, Break, FetchFails
      <4> HIDE DEF Quiet
      <4>8. \E f : flows' = [flows EXCEPT ![g] = f] /\ Quiet(f)
        BY <4>4, <4>5, <4>6, <4>7
      <4> QED
        BY <4>2, <4>8 DEF Quiet
    <3>3. CASE Answer(g) \/ Apply(g) \/ Finish(g)
      <4>1. UNCHANGED runs
        BY <3>3 DEF Answer, Apply, Finish, serverVars
      <4>2. /\ \A got : Quiet([flows[g] EXCEPT !.pc = "answered", !.got = got])
            /\ Quiet([flows[g] EXCEPT !.pc = "finish", !.got = <<>>, !.kept = <<>>])
            /\ Quiet([Overtaken(g) EXCEPT !.pc = "done"])
        BY <3>1 DEF Flows
      <4>3. \/ \E got : flows' = [flows EXCEPT ![g] =
                  [flows[g] EXCEPT !.pc = "answered", !.got = got]]
            \/ flows' = [flows EXCEPT ![g] =
                  [flows[g] EXCEPT !.pc = "finish", !.got = <<>>, !.kept = <<>>]]
            \/ flows' = [flows EXCEPT ![g] = [Overtaken(g) EXCEPT !.pc = "done"]]
        BY <3>3 DEF Answer, Apply, Finish
      <4> HIDE DEF Quiet
      <4>4. \E f : flows' = [flows EXCEPT ![g] = f] /\ Quiet(f)
        BY <4>2, <4>3
      <4> QED
        BY <4>1, <4>4 DEF Quiet
    <3>4. CASE Stopping(g) \/ StopFetchFails(g)
      <4>1. UNCHANGED runs
        BY <3>4 DEF Stopping, StopCancel, StopAnswer, StopApply, StopFinish,
           StopFetchFails, serverVars
      <4>2. \A f \in {flows[g], Overtaken(g)} : \A st, x, y, z :
              /\ Quiet([f EXCEPT !.stop = st])
              /\ Quiet([f EXCEPT !.stop = st, !.lost = x])
              /\ Quiet([f EXCEPT !.stop = st, !.answer = x])
              /\ Quiet([f EXCEPT !.stop = st, !.tries = x, !.lost = y, !.answer = z])
        BY <3>1 DEF Flows
      <4>3. \/ \E st : flows' = [flows EXCEPT ![g] = [flows[g] EXCEPT !.stop = st]]
            \/ \E st : flows' = [flows EXCEPT ![g] = [Overtaken(g) EXCEPT !.stop = st]]
            \/ \E st, x : flows' = [flows EXCEPT ![g] = [flows[g] EXCEPT !.stop = st, !.lost = x]]
            \/ \E st, x : flows' = [flows EXCEPT ![g] = [flows[g] EXCEPT !.stop = st, !.answer = x]]
            \/ \E st, x, y, z : flows' = [flows EXCEPT ![g] =
                  [flows[g] EXCEPT !.stop = st, !.tries = x, !.lost = y, !.answer = z]]
        <5>1. CASE StopCancel(g)
          BY <5>1 DEF StopCancel
        <5>2. CASE StopAnswer(g)
          BY <5>2 DEF StopAnswer
        <5>3. CASE StopApply(g)
          <6> DEFINE unsettled == \E m \in ToSet(flows[g].answer) : m.status = "streaming"
                     again == unsettled /\ flows[g].tries + 1 < ReconcileAttempts
                     st == IF again THEN "fetch" ELSE "finish"
                     x == IF again THEN flows[g].tries + 1 ELSE flows[g].tries
                     y == flows[g].lost \/ (unsettled /\ ~again)
          <6>1. flows' = [flows EXCEPT ![g] =
                  [flows[g] EXCEPT !.stop = st, !.tries = x, !.lost = y, !.answer = <<>>]]
            BY <5>3 DEF StopApply
          <6> HIDE DEF st, x, y
          <6> QED
            BY <6>1
        <5>4. CASE StopFinish(g)
          BY <5>4 DEF StopFinish
        <5>5. CASE StopFetchFails(g)
          BY <5>5 DEF StopFetchFails
        <5> QED
          BY <3>4, <5>1, <5>2, <5>3, <5>4, <5>5 DEF Stopping
      <4> HIDE DEF Quiet
      <4>4. \E f : flows' = [flows EXCEPT ![g] = f] /\ Quiet(f)
        BY <4>2, <4>3
      <4> QED
        BY <4>1, <4>4 DEF Quiet
    <3> QED
      BY <1>6, <2>3, <3>2, <3>3, <3>4 DEF Proceed, Request
  <2> QED
    BY <2>1, <2>2, <2>3, PreparingStep
<1>7. CASE UNCHANGED vars
  BY <1>7, ViewPreparing DEF vars, serverVars
<1> QED
  BY <1>1, <1>2, <1>3, <1>4, <1>5, <1>6, <1>7 DEF Next

(* Types hold of every behaviour.                                          *)
LEMMA TypesInvariance == Spec => [](Types /\ Preparing)
<1>1. Init => Types /\ Preparing
  BY InitTypes DEF Init, Preparing
<1> QED
  BY <1>1, NextTypes, NextPreparing, PTL DEF Spec

-----------------------------------------------------------------------------
(* What a step may do to a flow. *)

(* A stop is on its way to the server or waits for its rows.               *)
Unsettled == {"cancel", "fetch", "answered"}

(* A flow that has not begun to reconcile.                                 *)
Early == {"ask", "stream"}

(* f is what the flow e is after a step: the same generation, with the     *)
(* rows it had, those of the server, or none.                              *)
Later(f, e) ==
  /\ f.kind = e.kind /\ f.conv = e.conv /\ f.place = e.place /\ f.over = e.over
  /\ f.cut = e.cut
  /\ f.got \in {e.got, <<>>, stored[e.conv]}
  /\ f.answer \in {e.answer, <<>>, stored[e.conv]}
  /\ f.kept = e.kept \/ (f.kept = <<>> /\ e.pc = "answered" /\ f.pc = "finish")
  /\ e.pc \in {"finish", "done"} => f.pc \in {e.pc, "done"}
  /\ f.stop = "none" => e.stop = "none"
  /\ e.away => f.away
  /\ e.orphan => f.orphan
  /\ f.error => e.error \/ (e.kind # "resume" /\ f.pc = "fetch")
  /\ f.pc \in Early => e.pc \in Early
  /\ f.pc = "ask" => e.pc = "ask"
  /\ e.pc = "ask" \/ f.run = e.run

(* The user, or the effect that resumes, begins a generation.              *)
Asks == Send \/ Edit \/ Resume \/ \E m \in ToSet(messages) : Repeat(m)

(* Flows go on; only the active generation begins to be stopped, only the  *)
(* merge takes what a generation kept, only events move its position and   *)
(* teach keys.                                                             *)
GoOn ==
  /\ DOMAIN flows \subseteq DOMAIN flows'
  /\ Asks \/ DOMAIN flows' = DOMAIN flows
  /\ \A h \in DOMAIN flows :
       /\ Later(flows'[h], flows[h])
       /\ flows'[h].stop \in Unsettled => flows[h].stop \in Unsettled \/ h = current
       /\ flows'[h].kept = flows[h].kept \/ Apply(h)
       /\ flows'[h].pos = flows[h].pos \/ Receive(h)
       /\ flows'[h].real = flows[h].real \/ \E g \in DOMAIN flows : Receive(g)

(* A flow that is left alone goes on.                                      *)
LEMMA LaterReflexive ==
  ASSUME NEW e
  PROVE  Later(e, e)
BY DEF Later

(* A step of one flow, without and with a change of its stop.              *)
LEMMA GoOnStep ==
  ASSUME Types, NEW g \in DOMAIN flows, NEW f, flows' = [flows EXCEPT ![g] = f],
         Later(f, flows[g]),
         f.stop \in Unsettled => flows[g].stop \in Unsettled \/ g = current,
         f.kept = flows[g].kept \/ Apply(g),
         (f.pos = flows[g].pos /\ f.real = flows[g].real) \/ Receive(g)
  PROVE  GoOn
<1>1. \A h \in DOMAIN flows : flows'[h] = IF h = g THEN f ELSE flows[h]
  OBVIOUS
<1>2. DOMAIN flows' = DOMAIN flows
  OBVIOUS
<1> QED
  BY <1>1, <1>2, LaterReflexive DEF GoOn

(* The flows of the handlers of requests.                                  *)
LEMMA RequestGoOn ==
  ASSUME Types, NEW g \in DOMAIN flows,
         Request(g) \/ StreamEnds(g) \/ Break(g)
  PROVE  GoOn
<1> DEFINE e == flows[g]
<1>1. e \in Flows /\ (e.pc = "ask" /\ e.run # 0 => e.kind # "resume")
  BY Elements DEF Types, FlowsRun
<1>2. ASSUME NEW r, e.pc = "ask", NEW f, f = [e EXCEPT !.run = r]
      PROVE  Later(f, e) /\ f.stop = e.stop /\ f.kept = e.kept /\ f.pos = e.pos /\ f.real = e.real
  BY <1>1, <1>2 DEF Later, Flows, Early
<1>3. ASSUME NEW pc, e.pc \in Early, pc # "ask",
             NEW f, f = [e EXCEPT !.pc = pc]
      PROVE  Later(f, e) /\ f.stop = e.stop /\ f.kept = e.kept /\ f.pos = e.pos /\ f.real = e.real
  BY <1>1, <1>3 DEF Later, Flows, Early
<1>4. ASSUME NEW r, e.pc = "ask", NEW f, f = [e EXCEPT !.pc = "stream", !.run = r]
      PROVE  Later(f, e) /\ f.stop = e.stop /\ f.kept = e.kept /\ f.pos = e.pos /\ f.real = e.real
  BY <1>1, <1>4 DEF Later, Flows, Early
<1>5. ASSUME e.pc \in {"ask", "stream"}, e.kind # "resume",
             NEW f, f = [e EXCEPT !.pc = "fetch", !.error = TRUE]
      PROVE  Later(f, e) /\ f.stop = e.stop /\ f.kept = e.kept /\ f.pos = e.pos /\ f.real = e.real
  BY <1>1, <1>5 DEF Later, Flows, Early
<1>6. \/ /\ e.pc = "ask"
         /\ \E r : flows' = [flows EXCEPT ![g] = [e EXCEPT !.run = r]]
      \/ \E pc : /\ e.pc \in Early /\ pc # "ask"
                 /\ flows' = [flows EXCEPT ![g] = [e EXCEPT !.pc = pc]]
      \/ /\ e.pc = "ask"
         /\ \E r : flows' = [flows EXCEPT ![g] = [e EXCEPT !.pc = "stream", !.run = r]]
      \/ /\ e.pc \in {"ask", "stream"} /\ e.kind # "resume"
         /\ flows' = [flows EXCEPT ![g] = [e EXCEPT !.pc = "fetch", !.error = TRUE]]
  <2>1. CASE Prepare(g)
    BY <2>1 DEF Prepare, Asking
  <2>2. CASE Refuse(g)
    BY <2>2 DEF Refuse, Asking, Failed
  <2>3. CASE Register(g)
    <3>1. CASE Occupied(e.conv)
      BY <1>1, <2>3, <3>1 DEF Register, Failed
    <3>2. CASE ~Occupied(e.conv)
      BY <2>3, <3>2 DEF Register, Step, Early
    <3> QED
      BY <3>1, <3>2
  <2>4. CASE Attach(g)
    <3>1. e.pc \in {"ask", "stream"} /\ e.pc \in Early
      BY <2>4 DEF Attach, Early
    <3> QED
      BY <2>4, <3>1 DEF Attach, Step
  <2>5. CASE StreamEnds(g)
    <3>1. e.pc \in {"ask", "stream"} /\ e.pc \in Early
      BY <2>5 DEF StreamEnds, Early
    <3> QED
      BY <2>5, <3>1 DEF StreamEnds, Step
  <2>6. CASE Break(g)
    <3>1. e.pc \in {"ask", "stream"} /\ e.pc \in Early
      BY <2>6 DEF Break, Early
    <3> QED
      BY <2>6, <3>1 DEF Break, Step, Failed
  <2> QED
    BY <2>1, <2>2, <2>3, <2>4, <2>5, <2>6 DEF Request
<1>7. PICK f : /\ flows' = [flows EXCEPT ![g] = f]
               /\ \/ e.pc = "ask" /\ \E r : f = [e EXCEPT !.run = r]
                  \/ \E pc : /\ e.pc \in Early /\ pc # "ask"
                             /\ f = [e EXCEPT !.pc = pc]
                  \/ e.pc = "ask" /\ \E r : f = [e EXCEPT !.pc = "stream", !.run = r]
                  \/ /\ e.pc \in {"ask", "stream"} /\ e.kind # "resume"
                     /\ f = [e EXCEPT !.pc = "fetch", !.error = TRUE]
  BY <1>6
<1>8. Later(f, e) /\ f.stop = e.stop /\ f.kept = e.kept /\ f.pos = e.pos /\ f.real = e.real
  <2>1. CASE e.pc = "ask" /\ \E r : f = [e EXCEPT !.run = r]
    BY <1>2, <2>1
  <2>2. CASE e.pc \in Early /\ \E pc : pc # "ask" /\ f = [e EXCEPT !.pc = pc]
    BY <1>3, <2>2
  <2>3. CASE e.pc = "ask" /\ \E r : f = [e EXCEPT !.pc = "stream", !.run = r]
    BY <1>4, <2>3
  <2>4. CASE /\ e.pc \in {"ask", "stream"} /\ e.kind # "resume"
             /\ f = [e EXCEPT !.pc = "fetch", !.error = TRUE]
    BY <1>5, <2>4
  <2> QED
    BY <1>7, <2>1, <2>2, <2>3, <2>4
<1> QED
  BY <1>7, <1>8, GoOnStep

(* The flows of reconciliations.                                           *)
LEMMA ReconcileGoOn ==
  ASSUME Types, NEW g \in DOMAIN flows,
         Answer(g) \/ Apply(g) \/ FetchFails(g) \/ Finish(g)
  PROVE  GoOn
<1> DEFINE e == flows[g]
           o == Overtaken(g)
<1>1. e \in Flows
  BY Elements
<1>2. PICK x \in BOOLEAN : o = [e EXCEPT !.orphan = x] /\ (e.orphan => x)
  BY OvertakenIs DEF Orphaned
<1>3. \E f : /\ flows' = [flows EXCEPT ![g] = f]
             /\ \/ /\ e.pc = "fetch"
                   /\ f = [e EXCEPT !.pc = "answered", !.got = stored[e.conv]]
                \/ e.pc = "fetch" /\ f = [e EXCEPT !.pc = "finish"]
                \/ /\ e.pc = "answered" /\ Apply(g)
                   /\ f = [e EXCEPT !.pc = "finish", !.got = <<>>, !.kept = <<>>]
                \/ f = [o EXCEPT !.pc = "done"]
  BY DEF Answer, Apply, FetchFails, Finish, Step
<1>4. ASSUME NEW f, e.pc = "fetch",
             \/ f = [e EXCEPT !.pc = "answered", !.got = stored[e.conv]]
             \/ f = [e EXCEPT !.pc = "finish"]
      PROVE  Later(f, e) /\ f.stop = e.stop /\ f.kept = e.kept /\ f.pos = e.pos /\ f.real = e.real
  BY <1>1, <1>4 DEF Later, Flows, Early
<1>5. ASSUME NEW f, e.pc = "answered",
             f = [e EXCEPT !.pc = "finish", !.got = <<>>, !.kept = <<>>]
      PROVE  Later(f, e) /\ f.stop = e.stop /\ f.pos = e.pos /\ f.real = e.real
  BY <1>1, <1>5 DEF Later, Flows, Early
<1> HIDE DEF o
<1>6. ASSUME NEW f, f = [o EXCEPT !.pc = "done"]
      PROVE  Later(f, e) /\ f.stop = e.stop /\ f.kept = e.kept /\ f.pos = e.pos /\ f.real = e.real
  BY <1>1, <1>2, <1>6 DEF Later, Flows, Early
<1>7. \E f : /\ flows' = [flows EXCEPT ![g] = f] /\ Later(f, e) /\ f.stop = e.stop
             /\ f.kept = e.kept \/ Apply(g)
             /\ f.pos = e.pos /\ f.real = e.real
  BY <1>3, <1>4, <1>5, <1>6
<1> QED
  BY <1>7, GoOnStep

(* The flows of stops.                                                     *)
LEMMA StoppingGoOn ==
  ASSUME Types, NEW g \in DOMAIN flows, Stopping(g) \/ StopFetchFails(g)
  PROVE  GoOn
<1> DEFINE e == flows[g]
           o == Overtaken(g)
           unsettled == \E m \in ToSet(e.answer) : m.status = "streaming"
           again == unsettled /\ e.tries + 1 < ReconcileAttempts
           st == IF again THEN "fetch" ELSE "finish"
           tries == IF again THEN e.tries + 1 ELSE e.tries
           lost == e.lost \/ (unsettled /\ ~again)
<1>1. e \in Flows
  BY Elements
<1>2. CASE StopCancel(g)
  <2> DEFINE f == [e EXCEPT !.stop = "fetch", !.lost = e.pc = "ask"]
  <2>1. flows' = [flows EXCEPT ![g] = f] /\ e.stop = "cancel"
    BY <1>2 DEF StopCancel
  <2>2. Later(f, e) /\ f.kept = e.kept /\ f.pos = e.pos /\ f.real = e.real
    BY <1>1, <2>1 DEF Later, Flows, Early
  <2> QED
    BY <2>1, <2>2, GoOnStep DEF Unsettled
<1> HIDE DEF st, tries, lost, o
<1>3. CASE StopAnswer(g)
  <2> DEFINE f == [e EXCEPT !.stop = "answered", !.answer = stored[e.conv]]
  <2>1. flows' = [flows EXCEPT ![g] = f] /\ e.stop = "fetch"
    BY <1>3 DEF StopAnswer
  <2>2. Later(f, e) /\ f.kept = e.kept /\ f.pos = e.pos /\ f.real = e.real
    BY <1>1 DEF Later, Flows, Early
  <2> QED
    BY <2>1, <2>2, GoOnStep DEF Unsettled
<1>4. CASE StopApply(g)
  <2> DEFINE f == [e EXCEPT !.stop = st, !.tries = tries, !.lost = lost, !.answer = <<>>]
  <2>1. /\ flows' = [flows EXCEPT ![g] = f]
        /\ e.stop = "answered" /\ st # "none"
    BY <1>4 DEF StopApply, st, tries, lost
  <2>2. Later(f, e) /\ f.kept = e.kept /\ f.pos = e.pos /\ f.real = e.real
    BY <1>1, <2>1 DEF Later, Flows, Early
  <2> HIDE DEF f
  <2> QED
    BY <2>1, <2>2, GoOnStep DEF Unsettled
<1>5. CASE StopFinish(g) \/ StopFetchFails(g)
  <2>1. \E f : /\ flows' = [flows EXCEPT ![g] = f]
               /\ f = [o EXCEPT !.stop = "done"] \/ f = [e EXCEPT !.stop = "finish"]
    BY <1>5 DEF StopFinish, StopFetchFails, o
  <2>2. PICK x \in BOOLEAN : o = [e EXCEPT !.orphan = x] /\ (e.orphan => x)
    BY OvertakenIs DEF Orphaned, o
  <2>3. ASSUME NEW f, f = [o EXCEPT !.stop = "done"]
        PROVE  /\ Later(f, e) /\ f.stop \notin Unsettled
               /\ f.kept = e.kept /\ f.pos = e.pos /\ f.real = e.real
    BY <1>1, <2>2, <2>3 DEF Later, Flows, Early, Unsettled
  <2>4. ASSUME NEW f, f = [e EXCEPT !.stop = "finish"]
        PROVE  /\ Later(f, e) /\ f.stop \notin Unsettled
               /\ f.kept = e.kept /\ f.pos = e.pos /\ f.real = e.real
    BY <1>1, <2>4 DEF Later, Flows, Early, Unsettled
  <2> QED
    BY <2>1, <2>3, <2>4, GoOnStep
<1> QED
  BY <1>2, <1>3, <1>4, <1>5 DEF Stopping

(* Flows go on with every step.                                            *)
LEMMA FlowsGoOn == Types /\ [Next]_vars => GoOn
<1> SUFFICES ASSUME Types, [Next]_vars PROVE GoOn
  OBVIOUS
<1>1. \A h \in DOMAIN flows : flows[h] \in Flows
  BY Elements
<1>2. ASSUME UNCHANGED flows PROVE GoOn
  BY <1>2, LaterReflexive DEF GoOn
<1>3. ASSUME flows' = [g \in DOMAIN flows |-> [flows[g] EXCEPT !.away = TRUE]]
      PROVE  GoOn
  <2>1. \A e \in Flows : Later([e EXCEPT !.away = TRUE], e)
                         /\ [e EXCEPT !.away = TRUE].stop = e.stop
                         /\ [e EXCEPT !.away = TRUE].kept = e.kept
                         /\ [e EXCEPT !.away = TRUE].pos = e.pos
                         /\ [e EXCEPT !.away = TRUE].real = e.real
    BY DEF Later, Flows, Early
  <2> QED
    BY <1>1, <1>3, <2>1 DEF GoOn
<1>4. ASSUME Asks,
             NEW kind, NEW c, NEW place, NEW target, NEW kept, NEW pos,
             Begin(kind, c, place, target, kept, pos)
      PROVE  GoOn
  <2>1. ASSUME NEW h \in DOMAIN flows
        PROVE  /\ Later(Overtaken(h), flows[h]) /\ Overtaken(h).stop = flows[h].stop
               /\ Overtaken(h).kept = flows[h].kept
               /\ Overtaken(h).pos = flows[h].pos
               /\ Overtaken(h).real = flows[h].real
    <3>1. PICK x \in BOOLEAN : /\ Overtaken(h) = [flows[h] EXCEPT !.orphan = x]
                               /\ flows[h].orphan => x
      BY OvertakenIs DEF Orphaned
    <3> QED
      BY <1>1, <3>1 DEF Later, Flows, Early
  <2>2. /\ DOMAIN flows \subseteq DOMAIN flows'
        /\ \A g \in DOMAIN flows :
             flows'[g] = IF g = current THEN Overtaken(g) ELSE flows[g]
    BY <1>4, BeginIs
  <2> QED
    BY <1>4, <2>1, <2>2, LaterReflexive DEF GoOn
<1>5. ASSUME Stop PROVE GoOn
  <2> DEFINE f == [flows[current] EXCEPT !.stop = "cancel"]
  <2>1. current \in DOMAIN flows /\ flows' = [flows EXCEPT ![current] = f]
    BY <1>5, Elements DEF Stop
  <2>2. Later(f, flows[current]) /\ f.kept = flows[current].kept
        /\ f.pos = flows[current].pos /\ f.real = flows[current].real
    BY <1>1, <2>1 DEF Later, Flows, Early
  <2> HIDE DEF f
  <2> QED
    BY <2>1, <2>2, GoOnStep
<1>6. ASSUME NEW g \in DOMAIN flows, Receive(g) PROVE GoOn
  <2>1. HasEvent(g)
    BY <1>6 DEF Receive, ReceiveStart, ReceiveDelta, ReceiveClosing
  <2>2. CASE flows' = Learnt(g)
    <3>1. ASSUME NEW h \in DOMAIN flows
          PROVE  /\ Later(flows'[h], flows[h]) /\ flows'[h].stop = flows[h].stop
                 /\ flows'[h].kept = flows[h].kept
      <4>1. Knows(flows'[h], flows[h])
        BY <2>1, <2>2, LearntIs
      <4> QED
        BY <4>1 DEF Knows, Later
    <3> QED
      BY <1>6, <2>1, <2>2, <3>1, LearntIs DEF GoOn
  <2>3. CASE flows' = [flows EXCEPT ![g].pos = @ + 1]
    <3> DEFINE f == [flows[g] EXCEPT !.pos = @ + 1]
    <3>1. flows' = [flows EXCEPT ![g] = f]
      BY <2>3
    <3>2. Later(f, flows[g]) /\ f.stop = flows[g].stop /\ f.kept = flows[g].kept
      BY <1>1 DEF Later, Flows, Early
    <3> HIDE DEF f
    <3> QED
      BY <1>6, <3>1, <3>2, GoOnStep
  <2> QED
    BY <1>6, <2>2, <2>3 DEF Receive, ReceiveStart, ReceiveDelta, ReceiveClosing
<1>7. CASE User
  <2>1. ASSUME Send \/ Edit \/ \E m \in ToSet(messages) : Repeat(m) PROVE GoOn
    <3>1. Asks
      BY <2>1 DEF Asks
    <3> QED
      BY <1>4, <2>1, <3>1 DEF Send, Edit, Repeat
  <2> QED
    BY <1>2, <1>3, <1>5, <1>7, <2>1 DEF User, Navigate, Archive
<1>8. CASE Resume
  <2>1. Asks
    BY <1>8 DEF Asks
  <2> QED
    BY <1>4, <1>8, <2>1 DEF Resume
<1>9. CASE FlushFrame \/ Sync \/ SyncFails \/ UNCHANGED vars
  BY <1>2, <1>9 DEF FlushFrame, Sync, SyncAnswer, SyncApply, SyncFails, vars
<1>10. ASSUME NEW c \in Conversations, OtherTab(c) \/ Archived(c) \/ ArchiveFails(c)
       PROVE  GoOn
  BY <1>2, <1>3, <1>10 DEF OtherTab, Archived, ArchiveFails
<1>11. ASSUME NEW r \in DOMAIN runs, Serve(r) PROVE GoOn
  BY <1>2, <1>11 DEF Serve
<1>12. ASSUME NEW g \in DOMAIN flows,
              \/ Proceed(g) \/ Stopping(g) \/ Break(g) \/ FetchFails(g)
              \/ StopFetchFails(g)
       PROVE  GoOn
  BY <1>6, <1>12, RequestGoOn, ReconcileGoOn, StoppingGoOn DEF Proceed
<1> QED
  BY <1>7, <1>8, <1>9, <1>10, <1>11, <1>12 DEF Next

-----------------------------------------------------------------------------
(* The stop button. *)

(* THEOREM: while a generation is the active one the user can stop it,     *)
(* however long ago an earlier one ended (finalizeGeneration).             *)
THEOREM StopIsOffered == Spec => []StopOffered
<1>1. Init => StopOffered
  BY DEF Init, StopOffered
<1>2. StopOffered /\ [Next]_vars => StopOffered'
  <2> SUFFICES ASSUME StopOffered, [Next]_vars PROVE StopOffered'
    OBVIOUS
  <2>1. ASSUME UNCHANGED <<current, sending, reset>> PROVE StopOffered'
    BY <2>1 DEF StopOffered
  <2>2. ASSUME NEW kind, NEW c, NEW place, NEW target, NEW kept, NEW pos,
               Begin(kind, c, place, target, kept, pos)
        PROVE  StopOffered'
    BY <2>2 DEF StopOffered, Begin
  <2>3. ASSUME NEW g, Finish(g) \/ StopFinish(g) PROVE StopOffered'
    BY <2>3 DEF StopOffered, Finish, StopFinish, Finalize, historyVars
  <2>4. ASSUME NEW c, Archived(c) PROVE StopOffered'
    BY <2>4 DEF StopOffered, Archived
  <2>5. CASE User \/ Resume
    BY <2>1, <2>2, <2>5
    DEF User, Resume, Navigate, Archive, Send, Edit, Repeat, Stop, historyVars
  <2>6. CASE FlushFrame \/ Sync \/ SyncFails \/ UNCHANGED vars
    BY <2>1, <2>6
    DEF FlushFrame, Sync, SyncAnswer, SyncApply, SyncFails, vars, historyVars
  <2>7. ASSUME NEW c \in Conversations, OtherTab(c) \/ Archived(c) \/ ArchiveFails(c)
        PROVE  StopOffered'
    BY <2>1, <2>4, <2>7 DEF OtherTab, ArchiveFails, historyVars
  <2>8. ASSUME NEW r \in DOMAIN runs, Serve(r) PROVE StopOffered'
    BY <2>1, <2>8 DEF Serve, historyVars
  <2>9. ASSUME NEW g \in DOMAIN flows, Proceed(g) PROVE StopOffered'
    BY <2>1, <2>3, <2>9
    DEF Proceed, Request, Prepare, Refuse, Register, Attach, Receive, ReceiveStart,
        ReceiveDelta, ReceiveClosing, StreamEnds, Answer, Apply, historyVars
  <2>10. ASSUME NEW g \in DOMAIN flows,
                Stopping(g) \/ Break(g) \/ FetchFails(g) \/ StopFetchFails(g)
         PROVE  StopOffered'
    BY <2>1, <2>3, <2>10
    DEF Stopping, StopCancel, StopAnswer, StopApply, Break, FetchFails,
        StopFetchFails, historyVars
  <2> QED
    BY <2>5, <2>6, <2>7, <2>8, <2>9, <2>10 DEF Next
<1> QED
  BY <1>1, <1>2, PTL DEF Spec

-----------------------------------------------------------------------------
(* Every message is where it belongs. *)

OfConv(rows, c) == \A m \in ToSet(rows) : m.conv = c

(* What the operators of the screen make of the messages of one            *)
(* conversation.                                                           *)
LEMMA OfConvKept ==
  ASSUME Types, NEW c, NEW ms \in Rows, OfConv(ms, c)
  PROVE  /\ OfConv(<<>>, c)
         /\ \A k : OfConv(MarkFailed(ms, k), c) /\ OfConv(Before(ms, k), c)
         /\ \A m \in Replies : m.conv = c => OfConv(Append(ms, m), c)
         /\ \A m \in Replies : \A place, real :
              m.conv = c => OfConv(Upsert(ms, m, place, real), c)
         /\ \A rows \in Rows : OfConv(rows, c) => OfConv(Merge(rows, ms), c)
<1>1. /\ Len(ms) \in Nat /\ DOMAIN ms = 1..Len(ms)
      /\ \A i \in DOMAIN ms : ms[i] \in Replies /\ ms[i].conv = c
  BY LenProperties, ElementOfSeq DEF Rows, OfConv, ToSet
<1>2. OfConv(<<>>, c)
  BY DEF OfConv, ToSet
<1>3. ASSUME NEW k PROVE OfConv(MarkFailed(ms, k), c)
  <2>1. \A m \in Replies : [m EXCEPT !.status = "failed"].conv = m.conv
    BY DEF Replies
  <2>2. /\ DOMAIN MarkFailed(ms, k) = DOMAIN ms
        /\ \A i \in DOMAIN ms :
             MarkFailed(ms, k)[i] =
               IF ms[i].id = k THEN [ms[i] EXCEPT !.status = "failed"] ELSE ms[i]
    BY DEF MarkFailed
  <2>3. \A i \in DOMAIN MarkFailed(ms, k) : MarkFailed(ms, k)[i].conv = c
    BY <1>1, <2>1, <2>2
  <2> QED
    BY <2>3 DEF OfConv, ToSet
<1>4. ASSUME NEW k PROVE OfConv(Before(ms, k), c)
  <2>1. \A i \in DOMAIN Before(ms, k) : \E j \in DOMAIN ms : Before(ms, k)[i] = ms[j]
    BY BeforeIs DEF Rows
  <2> QED
    BY <1>1, <2>1 DEF OfConv, ToSet
<1>5. ASSUME NEW m \in Replies, m.conv = c PROVE OfConv(Append(ms, m), c)
  <2>1. /\ DOMAIN Append(ms, m) = 1..Len(ms) + 1
        /\ \A i \in 1..Len(ms) : Append(ms, m)[i] = ms[i]
        /\ Append(ms, m)[Len(ms) + 1] = m
    BY AppendProperties, LenProperties DEF Rows
  <2>2. \A i \in 1..Len(ms) + 1 : i \in 1..Len(ms) \/ i = Len(ms) + 1
    BY <1>1
  <2> QED
    BY <1>1, <1>5, <2>1, <2>2 DEF OfConv, ToSet
<1>6. ASSUME NEW m \in Replies, NEW place, NEW real, m.conv = c
      PROVE  OfConv(Upsert(ms, m, place, real), c)
  <2>1. \A i \in DOMAIN Upsert(ms, m, place, real) :
          \/ Upsert(ms, m, place, real)[i] = m
          \/ Upsert(ms, m, place, real)[i] \in ToSet(ms)
    BY UpsertIs
  <2> QED
    BY <1>6, <2>1 DEF OfConv, ToSet
<1>7. ASSUME NEW rows \in Rows, OfConv(rows, c) PROVE OfConv(Merge(rows, ms), c)
  <2>1. \A i \in DOMAIN Merge(rows, ms) : Merge(rows, ms)[i] \in ToSet(ms) \cup ToSet(rows)
    BY MergeIs
  <2> QED
    BY <1>7, <2>1 DEF OfConv, ToSet
<1> QED
  BY <1>2, <1>3, <1>4, <1>5, <1>6, <1>7

(* Flushing the buffer moves no message.                                   *)
LEMMA FlushedOfConv ==
  ASSUME Types, NEW c, OfConv(messages, c)
  PROVE  OfConv(Flushed, c)
<1>1. DOMAIN Flushed = DOMAIN messages
      /\ \A i \in DOMAIN messages : Flushed[i].conv = messages[i].conv
  BY FlushedIs DEF Types
<1> QED
  BY <1>1 DEF OfConv, ToSet

StoredPlaced == \A c \in Conversations : OfConv(stored[c], c)
SyncPlaced == \A s \in syncing : s.conv = active /\ OfConv(s.got, active)
FlowPlaced(f) ==
  /\ OfConv(f.got, f.conv) /\ OfConv(f.answer, f.conv)
  /\ ~f.over => OfConv(f.kept, f.conv)
FlowsPlaced == \A g \in DOMAIN flows : FlowPlaced(flows[g])

(* No row is stored, fetched, kept or shown in a place of another          *)
(* conversation.                                                           *)
Placed == StoredPlaced /\ SyncPlaced /\ FlowsPlaced /\ OnlyActive

AllClear == \A g \in DOMAIN flows : ~flows[g].over

(* The rows of flows are the server's or those they had.                   *)
LEMMA FlowsPlacedStep ==
  ASSUME Types, GoOn, StoredPlaced, FlowsPlaced,
         \A g \in DOMAIN flows' : g \in DOMAIN flows \/ FlowPlaced(flows'[g])
  PROVE  FlowsPlaced'
<1>1. ASSUME NEW g \in DOMAIN flows PROVE FlowPlaced(flows'[g])
  <2>1. flows[g].conv \in Conversations
    BY Elements DEF Flows
  <2>2. OfConv(stored[flows[g].conv], flows[g].conv) /\ OfConv(<<>>, flows[g].conv)
    BY <2>1 DEF StoredPlaced, OfConv, ToSet
  <2>3. Later(flows'[g], flows[g]) /\ FlowPlaced(flows[g])
    BY DEF GoOn, FlowsPlaced
  <2> QED
    BY <2>2, <2>3 DEF Later, FlowPlaced
<1>2. \A g \in DOMAIN flows' : FlowPlaced(flows'[g])
  BY <1>1
<1> QED
  BY <1>2 DEF FlowsPlaced, FlowPlaced

(* A generation that begins keeps rows of its own conversation, unless it  *)
(* begins on the screen of another one.                                    *)
LEMMA AsksPlaced ==
  ASSUME Types, Placed, GoOn, Asks
  PROVE  Placed'
<1>1. messages \in Rows /\ (active # Home => active \in Conversations)
      /\ \A m \in ToSet(messages) : m \in Replies
  BY Elements DEF Types, ScreenTypes
<1>2. ASSUME NEW kind, NEW c, NEW place, NEW target, NEW kept, NEW pos,
             Begin(kind, c, place, target, kept, pos),
             ~ForeignScreen => OfConv(kept, c) /\ OfConv(messages', active)
      PROVE  Placed'
  <2>1. /\ \A g \in DOMAIN flows' : g \in DOMAIN flows \/ g = Len(flows) + 1
        /\ flows'[Len(flows) + 1] = Begun(kind, c, place, target, kept, pos)
        /\ Len(flows) + 1 \in DOMAIN flows'
    BY <1>2, BeginIs
  <2>2. FlowPlaced(Begun(kind, c, place, target, kept, pos))
    <3>1. OfConv(<<>>, c)
      BY DEF OfConv, ToSet
    <3> QED
      BY <1>2, <3>1 DEF FlowPlaced, Begun
  <2>3. FlowsPlaced'
    BY <2>1, <2>2, FlowsPlacedStep DEF Placed
  <2>4. AllClear' => ~ForeignScreen
    <3>1. AllClear' => ~Begun(kind, c, place, target, kept, pos).over
      BY <2>1 DEF AllClear
    <3>2. Begun(kind, c, place, target, kept, pos).over = (syncing # {} \/ ForeignScreen)
      BY Zenon DEF Begun
    <3> QED
      BY <3>1, <3>2
  <2>5. UNCHANGED <<stored, syncing, active>>
    BY <1>2 DEF Begin, serverVars
  <2>6. OnlyActive'
    BY <1>2, <2>4, <2>5 DEF OnlyActive, AllClear, OfConv
  <2> QED
    BY <2>3, <2>5, <2>6 DEF Placed, StoredPlaced, SyncPlaced, OfConv
<1>3. ASSUME ~ForeignScreen PROVE OfConv(messages, active)
  BY <1>3 DEF ForeignScreen, OfConv
<1>4. CASE Send
  <2> DEFINE k == -(Len(flows) + 1)
             new == Reply(active, k, "streaming", <<>>)
             shown == Append(messages, new)
  <2>1. /\ Begin("send", active, k, 0, MarkFailed(shown, k), 0)
        /\ messages' = shown /\ active \in Conversations
    BY <1>1, <1>4 DEF Send, MayAsk
  <2>2. new \in Replies /\ new.conv = active
    <3>1. k \in Int \ {0}
      BY Elements
    <3> QED
      BY <2>1, <3>1, ReplyType, EmptySeq DEF Statuses, Texts, Reply
  <2>3. shown \in Rows
    BY <1>1, <2>2, AppendProperties DEF Rows
  <2> HIDE DEF k, new
  <2>4. ~ForeignScreen => OfConv(shown, active)
    BY <1>1, <1>3, <2>2, OfConvKept
  <2>5. ~ForeignScreen => OfConv(MarkFailed(shown, k), active)
    BY <2>3, <2>4, OfConvKept
  <2> QED
    BY <1>2, <2>1, <2>4, <2>5
<1>5. CASE Edit
  <2> DEFINE k == -(Len(flows) + 1)
             last == Last(messages).id
             new == Reply(active, k, "streaming", <<>>)
             shown == Append(Before(messages, last), new)
  <2>1. /\ Begin("edit", active, k, last, MarkFailed(shown, k), 0)
        /\ messages' = shown /\ active \in Conversations
    BY <1>1, <1>5 DEF Edit, MayAsk
  <2>2. new \in Replies /\ new.conv = active
    <3>1. k \in Int \ {0}
      BY Elements
    <3> QED
      BY <2>1, <3>1, ReplyType, EmptySeq DEF Statuses, Texts, Reply
  <2> HIDE DEF k, new, last
  <2>3. Before(messages, last) \in Rows
    BY <1>1, BeforeIs DEF Rows
  <2>4. shown \in Rows
    BY <2>2, <2>3, AppendProperties DEF Rows
  <2>5. ~ForeignScreen => OfConv(Before(messages, last), active)
    BY <1>1, <1>3, OfConvKept
  <2>6. ~ForeignScreen => OfConv(shown, active)
    BY <2>2, <2>3, <2>5, OfConvKept
  <2>7. ~ForeignScreen => OfConv(MarkFailed(shown, k), active)
    BY <2>4, <2>6, OfConvKept
  <2> QED
    BY <1>2, <2>1, <2>6, <2>7
<1>6. ASSUME NEW m \in ToSet(messages), Repeat(m) PROVE Placed'
  <2> DEFINE new == [m EXCEPT !.status = "streaming", !.text = <<>>]
             shown == Append(Before(messages, m.id), new)
  <2>1. /\ Begin("repeat", m.conv, m.id, m.id, MarkFailed(shown, m.id), 0)
        /\ messages' = shown
    BY <1>6 DEF Repeat
  <2>2. new \in Replies /\ new.conv = m.conv
    BY <1>1, EmptySeq DEF Replies, Statuses, Texts
  <2>3. ~ForeignScreen => m.conv = active
    BY DEF ForeignScreen
  <2> HIDE DEF new
  <2>4. Before(messages, m.id) \in Rows
    BY <1>1, BeforeIs DEF Rows
  <2>5. shown \in Rows
    BY <2>2, <2>4, AppendProperties DEF Rows
  <2>6. ~ForeignScreen => OfConv(Before(messages, m.id), active)
    BY <1>1, <1>3, OfConvKept
  <2>7. ~ForeignScreen => OfConv(shown, active)
    BY <2>2, <2>3, <2>4, <2>6, OfConvKept
  <2>8. ~ForeignScreen => OfConv(MarkFailed(shown, m.id), active)
    BY <2>5, <2>7, OfConvKept
  <2> QED
    BY <1>2, <2>1, <2>3, <2>7, <2>8
<1>7. CASE Resume
  <2>1. Begin("resume", active, 0, 0, <<>>, seqs[active]) /\ messages' = messages
    BY <1>7 DEF Resume
  <2>2. OfConv(<<>>, active)
    BY DEF OfConv, ToSet
  <2> QED
    BY <1>2, <1>3, <2>1, <2>2
<1> QED
  BY <1>4, <1>5, <1>6, <1>7 DEF Asks

(* The rows of a conversation are its own, whatever the server does.       *)
LEMMA StoredPlacedStep ==
  ASSUME Types, StoredPlaced, NEW c \in Conversations, NEW s \in Rows, OfConv(s, c),
         stored' = [stored EXCEPT ![c] = s]
  PROVE  StoredPlaced'
<1>1. \A d \in Conversations : stored'[d] = IF d = c THEN s ELSE stored[d]
  BY DEF Types, ServerTypes
<1> QED
  BY <1>1 DEF StoredPlaced, OfConv

(* A step of the server keeps every flow in its place.                     *)
LEMMA ServerPlaced ==
  ASSUME Types, StoredPlaced,
         \/ \E c \in Conversations : OtherTab(c)
         \/ \E r \in DOMAIN runs : Serve(r)
         \/ \E g \in DOMAIN flows : Prepare(g)
  PROVE  StoredPlaced'
<1>1. \A c \in Conversations : stored[c] \in Rows /\ OfConv(stored[c], c)
  BY DEF Types, ServerTypes, StoredPlaced
<1>2. ASSUME NEW c \in Conversations, NEW rows \in Rows, OfConv(rows, c), NEW k,
             stored' = [stored EXCEPT ![c] = Append(rows, Reply(c, k, "streaming", <<>>))],
             k \in Int \ {0}
      PROVE  StoredPlaced'
  <2> DEFINE new == Reply(c, k, "streaming", <<>>)
  <2>1. new \in Replies /\ new.conv = c
    BY <1>2, ReplyType, EmptySeq DEF Statuses, Texts, Reply
  <2> HIDE DEF new
  <2>2. OfConv(Append(rows, new), c)
    BY <1>2, <2>1, OfConvKept
  <2>3. Append(rows, new) \in Rows
    BY <1>2, <2>1, AppendProperties DEF Rows
  <2> QED
    BY <1>2, <2>2, <2>3, StoredPlacedStep DEF new
<1>3. ASSUME NEW c \in Conversations, OtherTab(c) PROVE StoredPlaced'
  <2>1. nextKey \in Int \ {0}
    BY DEF Types, ServerTypes
  <2>2. stored' = [stored EXCEPT ![c] = Append(stored[c], Reply(c, nextKey, "streaming", <<>>))]
    BY <1>3 DEF OtherTab
  <2> QED
    BY <1>1, <1>2, <2>1, <2>2
<1>4. ASSUME NEW r \in DOMAIN runs, Serve(r) PROVE StoredPlaced'
  <2>1. CASE SettleReply(r)
    <3> DEFINE c == runs[r].conv
               reply == Reply(c, runs[r].key, "settled", Deltas(runs[r].seq))
               s == [i \in DOMAIN stored[c] |->
                       IF stored[c][i].id = runs[r].key THEN reply ELSE stored[c][i]]
    <3>1. c \in Conversations /\ stored' = [stored EXCEPT ![c] = s]
          /\ reply.conv = c
      BY <2>1, Elements DEF SettleReply, Runs, Reply
    <3>2. \A d \in Conversations : stored'[d] = IF d = c THEN s ELSE stored[d]
      BY <3>1 DEF Types, ServerTypes
    <3> HIDE DEF reply
    <3>3. OfConv(s, c)
      BY <1>1, <3>1 DEF OfConv, ToSet
    <3> QED
      BY <3>1, <3>2, <3>3 DEF StoredPlaced, OfConv
  <2>2. CASE Publish(r) \/ CloseRun(r)
    BY <2>2 DEF Publish, CloseRun, StoredPlaced, OfConv
  <2> QED
    BY <1>4, <2>1, <2>2 DEF Serve
<1>5. ASSUME NEW g \in DOMAIN flows, Prepare(g) PROVE StoredPlaced'
  <2> DEFINE f == flows[g]
             kept == IF f.kind = "send" THEN stored[f.conv]
                     ELSE Before(stored[f.conv], f.target)
             key == IF f.kind = "repeat" THEN f.target ELSE nextKey
  <2>1. /\ f.conv \in Conversations
        /\ stored' = [stored EXCEPT ![f.conv] =
                        Append(kept, Reply(f.conv, key, "streaming", <<>>))]
        /\ NewRun(f.conv, key, "prepared")
    BY <1>5, Elements DEF Prepare, Flows
  <2>2. /\ stored[f.conv] \in Rows /\ OfConv(stored[f.conv], f.conv)
        /\ nextKey \in Nat \ {0}
    BY <1>1, <2>1 DEF Types, ServerTypes
  <2>3. kept \in Rows /\ OfConv(kept, f.conv)
    BY <2>2, BeforeIs, OfConvKept DEF Rows
  <2>4. key \in Int \ {0}
    <3>1. CASE f.kind = "repeat"
      <4>1. \E m \in ToSet(stored[f.conv]) : m.id = f.target
        BY <1>5, <3>1 DEF Prepare, Accepts
      <4>2. ToSet(stored[f.conv]) \subseteq Replies
        BY <2>2, ToSetFinite DEF Rows
      <4> QED
        BY <3>1, <4>1, <4>2 DEF Replies
    <3> QED
      BY <2>2, <3>1
  <2> HIDE DEF kept, key
  <2> QED
    BY <1>2, <2>1, <2>3, <2>4
<1> QED
  BY <1>3, <1>4, <1>5

(* A step that loads no rows leaves strange ones away, too.                *)
LEMMA OnlyActiveStep ==
  ASSUME Types, GoOn, OnlyActive, UNCHANGED active,
         AllClear' /\ loaded' /\ (loaded => OfConv(messages, active))
           => OfConv(messages', active)
  PROVE  OnlyActive'
<1>1. AllClear' => AllClear
  BY DEF GoOn, Later, AllClear
<1> QED
  BY <1>1 DEF OnlyActive, AllClear, OfConv

(* Events and failures show messages of the conversation in view only.     *)
LEMMA ReceiveOfConv ==
  ASSUME Types, NEW g \in DOMAIN flows, Receive(g), OfConv(messages, active)
  PROVE  OfConv(messages', active)
<1>1. HasEvent(g)
  BY DEF Receive, ReceiveStart, ReceiveDelta, ReceiveClosing
<1>2. /\ messages \in Rows /\ Flushed \in Rows /\ OfConv(Flushed, active)
      /\ <<>> \in Texts
  BY FlushedIs, FlushedOfConv, EmptySeq DEF Types, ScreenTypes, Texts
<1>3. ASSUME NEW ms \in Rows, OfConv(ms, active), NEW status \in Statuses,
             NEW text \in Texts, ShowReply(g, ms, status, text)
      PROVE  OfConv(messages', active)
  <2> DEFINE m == Reply(flows[g].conv, runs[flows[g].run].key, status, text)
  <2>1. m \in Replies /\ m.conv = flows[g].conv
    BY <1>1, EventIs, ReplyType DEF Runs, Reply
  <2> HIDE DEF m
  <2>2. flows[g].conv = active =>
          \A place, real : OfConv(Upsert(ms, m, place, real), active)
    BY <1>3, <2>1, OfConvKept
  <2> QED
    BY <1>3, <2>2 DEF ShowReply, InView, m
<1>4. CASE ReceiveStart(g)
  BY <1>2, <1>3, <1>4 DEF ReceiveStart, Statuses
<1>5. CASE ReceiveDelta(g)
  BY <1>2, <1>5 DEF ReceiveDelta
<1>6. CASE ReceiveClosing(g)
  <2>1. flows[g].pos \in 1..MaxEvents /\ flows[g].pos < MaxEvents
    BY <1>1, <1>6, EventIs, BoundsAssumption DEF ReceiveClosing
  <2>2. Deltas(flows[g].pos) \in Texts
    BY <2>1, DeltasText
  <2> QED
    BY <1>2, <1>3, <1>6, <2>2 DEF ReceiveClosing, Statuses
<1> QED
  BY <1>4, <1>5, <1>6 DEF Receive

(* Rows that a generation or its stop fetched are shown in their own       *)
(* conversation.                                                           *)
LEMMA ShowRowsPlaced ==
  ASSUME Types, GoOn, Placed, UNCHANGED active, NEW g \in DOMAIN flows,
         NEW rows \in Rows, ~flows[g].over => OfConv(rows, flows[g].conv),
         ShowRows(flows[g].conv, rows)
  PROVE  OnlyActive'
<1>1. AllClear' => ~flows[g].over
  BY DEF GoOn, Later, AllClear
<1> QED
  BY <1>1, OnlyActiveStep DEF Placed, ShowRows, InView

(* Every step leaves every message where it belongs.                       *)
LEMMA NextPlaced == Types /\ Placed /\ [Next]_vars => Placed'
<1> SUFFICES ASSUME Types, Placed, [Next]_vars PROVE Placed'
  OBVIOUS
<1>1. GoOn
  BY FlowsGoOn
<1>2. ASSUME ~Asks PROVE FlowsPlaced'
  BY <1>1, <1>2, FlowsPlacedStep DEF GoOn, Placed
<1>3. ASSUME UNCHANGED <<syncing, active>> PROVE SyncPlaced'
  BY <1>3 DEF Placed, SyncPlaced, OfConv
<1>4. ASSUME UNCHANGED stored PROVE StoredPlaced'
  BY <1>4 DEF Placed, StoredPlaced, OfConv
<1>5. ASSUME UNCHANGED active, loaded' => loaded,
             \/ UNCHANGED messages \/ messages' = Flushed \/ messages' = <<>>
             \/ \E k : messages' = MarkFailed(messages, k)
             \/ \E g \in DOMAIN flows : Receive(g)
      PROVE  OnlyActive'
  <2>1. messages \in Rows
    BY DEF Types, ScreenTypes
  <2>2. OfConv(messages, active) => OfConv(messages', active)
    BY <1>5, <2>1, OfConvKept, FlushedOfConv, ReceiveOfConv
  <2> QED
    BY <1>1, <1>5, <2>2, OnlyActiveStep DEF Placed
<1>6. CASE Asks
  BY <1>1, <1>6, AsksPlaced
<1>7. ASSUME ~Asks, User PROVE Placed'
  <2>1. ASSUME NEW c \in Conversations \cup {Home}, Navigate(c) PROVE Placed'
    <3>1. OnlyActive' /\ StoredPlaced'
      BY <1>4, <2>1 DEF Navigate, OnlyActive, serverVars
    <3>2. OfConv(<<>>, c)
      BY DEF OfConv, ToSet
    <3>3. SyncPlaced'
      BY <2>1, <3>2 DEF Navigate, SyncPlaced
    <3> QED
      BY <1>2, <1>7, <3>1, <3>3 DEF Placed
  <2>2. CASE Archive
    BY <1>2, <1>3, <1>4, <1>5, <1>7, <2>2
    DEF Archive, Placed, serverVars, historyVars
  <2>3. CASE Stop
    BY <1>2, <1>3, <1>4, <1>5, <1>7, <2>3
    DEF Stop, Placed, serverVars, historyVars
  <2> QED
    BY <1>7, <2>1, <2>2, <2>3 DEF User, Asks
<1>8. ASSUME ~Asks, FlushFrame \/ Sync \/ SyncFails \/ UNCHANGED vars PROVE Placed'
  <2>1. CASE SyncAnswer
    <3>1. PICK s \in syncing : SyncAnswer!(s)
      BY <2>1 DEF SyncAnswer
    <3>2. s.conv = active /\ s.conv \in Conversations /\ s \in Fetches
      BY DEF Placed, SyncPlaced, Types, ScreenTypes, Fetches
    <3>3. SyncPlaced'
      BY <3>1, <3>2 DEF Placed, StoredPlaced, SyncPlaced, Fetches
    <3> QED
      BY <1>2, <1>4, <1>5, <1>8, <2>1, <3>3
      DEF SyncAnswer, Placed, serverVars, historyVars
  <2>2. CASE SyncApply
    <3>1. OfConv(messages', active)
      BY <2>2 DEF SyncApply, Placed, SyncPlaced
    <3>2. OnlyActive' /\ SyncPlaced'
      BY <2>2, <3>1 DEF SyncApply, OnlyActive, OfConv, SyncPlaced
    <3> QED
      BY <1>2, <1>4, <1>8, <2>2, <3>2 DEF SyncApply, Placed, serverVars
  <2>3. CASE SyncFails
    <3>1. SyncPlaced'
      BY <2>3 DEF SyncFails, SyncPlaced
    <3> QED
      BY <1>2, <1>4, <1>5, <1>8, <2>3, <3>1
      DEF SyncFails, Placed, serverVars, historyVars
  <2>4. CASE FlushFrame \/ UNCHANGED vars
    BY <1>2, <1>3, <1>4, <1>5, <1>8, <2>4
    DEF FlushFrame, vars, Placed, serverVars, historyVars
  <2> QED
    BY <1>8, <2>1, <2>2, <2>3, <2>4 DEF Sync
<1>9. ASSUME ~Asks, NEW c \in Conversations,
             OtherTab(c) \/ Archived(c) \/ ArchiveFails(c)
      PROVE  Placed'
  <2>1. CASE OtherTab(c)
    BY <1>2, <1>3, <1>5, <1>9, <2>1, ServerPlaced DEF OtherTab, Placed, historyVars
  <2>2. CASE Archived(c)
    BY <1>2, <1>4, <1>9, <2>2 DEF Archived, Placed, serverVars, SyncPlaced, OnlyActive
  <2>3. CASE ArchiveFails(c)
    BY <1>2, <1>3, <1>4, <1>5, <1>9, <2>3
    DEF ArchiveFails, Placed, serverVars, historyVars
  <2> QED
    BY <1>9, <2>1, <2>2, <2>3
<1>10. ASSUME ~Asks, NEW r \in DOMAIN runs, Serve(r) PROVE Placed'
  BY <1>2, <1>3, <1>5, <1>10, ServerPlaced DEF Serve, Placed, historyVars
<1>11. ASSUME ~Asks, NEW g \in DOMAIN flows, Proceed(g) \/ Stopping(g) \/ Break(g)
                                            \/ FetchFails(g) \/ StopFetchFails(g)
       PROVE  Placed'
  <2>1. UNCHANGED <<syncing, active>>
    BY <1>11
    DEF Proceed, Request, Prepare, Refuse, Register, Attach, Receive, ReceiveStart,
        ReceiveDelta, ReceiveClosing, StreamEnds, Answer, Apply, Finish, Stopping,
        StopCancel, StopAnswer, StopApply, StopFinish, Break, FetchFails,
        StopFetchFails
  <2>2. StoredPlaced'
    <3>1. CASE Prepare(g)
      BY <3>1, ServerPlaced DEF Placed
    <3>2. CASE ~Prepare(g)
      BY <1>4, <1>11, <3>2
      DEF Proceed, Request, Refuse, Register, Attach, Receive, ReceiveStart,
          ReceiveDelta, ReceiveClosing, StreamEnds, Answer, Apply, Finish, Stopping,
          StopCancel, StopAnswer, StopApply, StopFinish, Break, FetchFails,
          StopFetchFails, serverVars
    <3> QED
      BY <3>1, <3>2
  <2>3. OnlyActive'
    <3>1. CASE Apply(g)
      <4>1. flows[g] \in Flows /\ FlowPlaced(flows[g])
        BY Elements DEF Placed, FlowsPlaced
      <4>2. flows[g].got \in Rows /\ flows[g].kept \in Rows
        BY <4>1 DEF Flows
      <4>3. Merge(flows[g].got, flows[g].kept) \in Rows
        BY <4>2, MergeIs
      <4>4. ~flows[g].over =>
              OfConv(Merge(flows[g].got, flows[g].kept), flows[g].conv)
        BY <4>1, <4>2, OfConvKept DEF FlowPlaced
      <4> QED
        BY <1>1, <2>1, <3>1, <4>1, <4>2, <4>3, <4>4, ShowRowsPlaced
        DEF Apply, FlowPlaced
    <3>2. CASE StopApply(g)
      <4>1. flows[g] \in Flows /\ FlowPlaced(flows[g])
        BY Elements DEF Placed, FlowsPlaced
      <4>2. flows[g].answer \in Rows
        BY <4>1 DEF Flows
      <4> QED
        BY <1>1, <2>1, <3>2, <4>1, <4>2, ShowRowsPlaced DEF StopApply, FlowPlaced
    <3>3. CASE Receive(g)
      BY <1>5, <2>1, <3>3
      DEF Receive, ReceiveStart, ReceiveDelta, ReceiveClosing, historyVars
    <3>4. CASE Request(g) \/ StreamEnds(g) \/ Break(g)
      BY <1>5, <2>1, <3>4
      DEF Request, Prepare, Refuse, Register, Attach, StreamEnds, Break, Failed,
          historyVars
    <3>5. CASE Answer(g) \/ Finish(g) \/ FetchFails(g) \/ StopCancel(g)
               \/ StopAnswer(g) \/ StopFinish(g) \/ StopFetchFails(g)
      BY <1>5, <2>1, <3>5
      DEF Answer, Finish, FetchFails, StopCancel, StopAnswer, StopFinish,
          StopFetchFails, Finalize, historyVars
    <3> QED
      BY <1>11, <3>1, <3>2, <3>3, <3>4, <3>5 DEF Proceed, Stopping
  <2> QED
    BY <1>2, <1>3, <1>11, <2>1, <2>2, <2>3 DEF Placed
<1> QED
  BY <1>6, <1>7, <1>8, <1>9, <1>10, <1>11 DEF Next, Asks

(* Flows are in their place, always.                                       *)
LEMMA PlacedInvariance == Spec => []Placed
<1>1. Init => Placed
  BY DEF Init, Placed, StoredPlaced, SyncPlaced, FlowsPlaced, OnlyActive, OfConv, ToSet
<1> QED
  BY <1>1, TypesInvariance, NextPlaced, PTL DEF Spec

(* THEOREM: once the rows of the active conversation have arrived, no      *)
(* message of another one is on the screen, however many fetches, streams  *)
(* and stops of conversations that were left are still open                *)
(* (handleStreamEventForConversation, reconcileConversationState and the   *)
(* history effect compare with activeConversationIdRef).                   *)
THEOREM NothingForeign == Spec => []OnlyActive
<1>1. Placed => OnlyActive
  BY DEF Placed
<1> QED
  BY <1>1, PlacedInvariance, PTL

(* THEOREM: type correctness.                                              *)
THEOREM TypeCorrect == Spec => []TypeOK
<1>1. ASSUME Types, Placed PROVE TypeOK
  <2>1. ASSUME NEW c \in Conversations, NEW m \in ToSet(stored[c])
        PROVE  m \in Replies /\ m.conv = c
    <3>1. stored[c] \in Rows
      BY <1>1 DEF Types, ServerTypes
    <3> QED
      BY <1>1, <3>1, ToSetFinite DEF Rows, Placed, StoredPlaced, OfConv
  <2>2. \A m \in ToSet(messages) : m \in Replies
    BY <1>1, Elements
  <2>3. \A r \in DOMAIN runs :
          /\ runs[r].phase \in {"prepared", "live", "stored", "closed", "refused"}
          /\ runs[r].seq \in 0..MaxEvents
    BY <1>1, Elements DEF Runs
  <2> QED
    BY <1>1, <2>1, <2>2, <2>3
    DEF TypeOK, Types, ScreenTypes, FlowTypes, Replies, Texts
<1> QED
  BY <1>1, TypesInvariance, PlacedInvariance, PTL

-----------------------------------------------------------------------------
(* Failed requests stay on the screen. *)

(* A flow is through with the server, or is known to be an orphan.         *)
Left(f) == f.orphan \/ (f.pc \in {"finish", "done"} /\ f.stop \notin Unsettled)

(* Only the active generation may still do something unnoticed.            *)
Outlived == \A g \in DOMAIN flows : g # current => Left(flows[g])

(* The user sees what the active generation shows, unless he left or it    *)
(* began over an open fetch of the history.                                *)
Watched ==
  current # 0 /\ ~flows[current].over /\ ~flows[current].away =>
    syncing = {} /\ active = flows[current].conv

(* The reply with this id is in the rows, as failed.                       *)
Marked(ms, k) ==
  /\ \E m \in ToSet(ms) : m.id = k
  /\ \A m \in ToSet(ms) : m.id = k => m.status = "failed"

(* A generation that failed still keeps its reply until the rows of the    *)
(* server are merged into it.                                              *)
FailuresHeld ==
  \A g \in DOMAIN flows :
    /\ flows[g].error => flows[g].kind # "resume"
    /\ flows[g].kind # "resume" /\ flows[g].pc \notin {"finish", "done"} =>
         Marked(flows[g].kept, flows[g].place)

Overtakings == \A g \in DOMAIN flows : ~flows[g].over /\ ~flows[g].orphan

(* FailureKept, whether or not a stop came too early.                      *)
FailureShown ==
  \A g \in DOMAIN flows :
    LET f == flows[g] IN
    /\ current = g /\ f.error /\ f.pc = "finish" /\ f.kept = <<>>
    /\ ~f.away /\ f.stop = "none" /\ Overtakings
    => \E m \in ToSet(messages) : m.id = f.place /\ m.status = "failed"

(* What a step leaves of the generation that was the active one.           *)
LEMMA Succession ==
  ASSUME Types, [Next]_vars
  PROVE  /\ \A g \in DOMAIN flows' : g \in DOMAIN flows \/ g = current'
         /\ current' # current =>
              /\ current' = 0 \/ (Asks /\ current' \notin DOMAIN flows)
              /\ current # 0 => Left(flows'[current])
<1>1. current # 0 => current \in DOMAIN flows /\ flows[current] \in Flows
  BY Elements
<1>2. ASSUME NEW kind, NEW c, NEW place, NEW target, NEW kept, NEW pos,
             Begin(kind, c, place, target, kept, pos)
      PROVE  /\ \A g \in DOMAIN flows' : g \in DOMAIN flows \/ g = current'
             /\ current' \notin DOMAIN flows
             /\ current # 0 => Left(flows'[current])
  <2>1. /\ Len(flows) \in Nat /\ DOMAIN flows = 1..Len(flows)
        /\ DOMAIN flows' = 1..Len(flows) + 1 /\ current' = Len(flows) + 1
        /\ current # 0 => flows'[current] = Overtaken(current)
    BY <1>1, <1>2, BeginIs
  <2>2. current # 0 => Left(Overtaken(current))
    BY <1>1, OvertakenIs DEF Left, Orphaned, Unsettled
  <2> QED
    BY <2>1, <2>2
<1>3. CASE Asks
  BY <1>2, <1>3 DEF Asks, Send, Edit, Repeat, Resume
<1>4. ASSUME NEW g \in DOMAIN flows, Finish(g) \/ StopFinish(g), current' # current
      PROVE  current' = 0 /\ current = g /\ Left(flows'[g])
  <2>1. current' = 0 /\ current = g
    BY <1>4 DEF Finish, StopFinish, Finalize
  <2>2. Overtaken(g) \in Flows /\ Overtaken(g).orphan = Orphaned(g)
        /\ Overtaken(g).pc = flows[g].pc /\ Overtaken(g).stop = flows[g].stop
    BY OvertakenIs
  <2>3. CASE Finish(g)
    <3>1. flows'[g] = [Overtaken(g) EXCEPT !.pc = "done"]
      BY <2>3 DEF Finish
    <3>2. [Overtaken(g) EXCEPT !.pc = "done"].pc = "done"
          /\ [Overtaken(g) EXCEPT !.pc = "done"].stop = flows[g].stop
          /\ [Overtaken(g) EXCEPT !.pc = "done"].orphan = Orphaned(g)
      BY <2>2 DEF Flows
    <3> QED
      BY <2>1, <3>1, <3>2 DEF Left, Orphaned, Unsettled
  <2>4. CASE StopFinish(g)
    <3>1. flows'[g] = [Overtaken(g) EXCEPT !.stop = "done"]
      BY <2>4 DEF StopFinish
    <3>2. [Overtaken(g) EXCEPT !.stop = "done"].stop = "done"
          /\ [Overtaken(g) EXCEPT !.stop = "done"].pc = flows[g].pc
          /\ [Overtaken(g) EXCEPT !.stop = "done"].orphan = Orphaned(g)
      BY <2>2 DEF Flows
    <3> QED
      BY <2>1, <3>1, <3>2 DEF Left, Orphaned, Unsettled
  <2> QED
    BY <1>4, <2>3, <2>4, <2>1
<1>5. CASE ~Asks
  <2>1. DOMAIN flows' = DOMAIN flows
    BY <1>5, FlowsGoOn DEF GoOn
  <2>2. \/ current' = current
        \/ \E g \in DOMAIN flows : Finish(g) \/ StopFinish(g)
    <3>1. CASE UNCHANGED vars
      BY <3>1 DEF vars
    <3>2. CASE User \/ FlushFrame \/ Sync \/ SyncFails
      BY <1>5, <3>2
      DEF Asks, User, Navigate, Archive, Stop, FlushFrame, Sync, SyncAnswer,
          SyncApply, SyncFails
    <3>3. ASSUME NEW c \in Conversations, OtherTab(c) \/ Archived(c) \/ ArchiveFails(c)
          PROVE  current' = current
      BY <3>3 DEF OtherTab, Archived, ArchiveFails
    <3>4. ASSUME NEW r \in DOMAIN runs, Serve(r) PROVE current' = current
      BY <3>4 DEF Serve
    <3>5. ASSUME NEW g \in DOMAIN flows, Proceed(g)
          PROVE  current' = current \/ Finish(g)
      BY <3>5
      DEF Proceed, Request, Prepare, Refuse, Register, Attach, Receive,
          ReceiveStart, ReceiveDelta, ReceiveClosing, StreamEnds, Answer, Apply
    <3>6. ASSUME NEW g \in DOMAIN flows, Stopping(g)
          PROVE  current' = current \/ StopFinish(g)
      BY <3>6 DEF Stopping, StopCancel, StopAnswer, StopApply
    <3>7. ASSUME NEW g \in DOMAIN flows, Break(g) \/ FetchFails(g) \/ StopFetchFails(g)
          PROVE  current' = current
      BY <3>7 DEF Break, FetchFails, StopFetchFails
    <3>8. Resume => Asks
      BY DEF Asks
    <3> QED
      BY <1>5, <3>1, <3>2, <3>3, <3>4, <3>5, <3>6, <3>7, <3>8 DEF Next
  <2> QED
    BY <1>4, <2>1, <2>2
<1> QED
  BY <1>3, <1>5

(* Any step keeps what outlives a flow.                                    *)
LEMMA NextOutlived == Types /\ Outlived /\ [Next]_vars => Outlived'
<1> SUFFICES ASSUME Types, Outlived, [Next]_vars,
                    NEW g \in DOMAIN flows', g # current'
             PROVE  Left(flows'[g])
  BY DEF Outlived, Left
<1>1. GoOn
  BY FlowsGoOn
<1>2. g \in DOMAIN flows
  BY Succession
<1>3. ASSUME g # current PROVE Left(flows'[g])
  <2>1. Left(flows[g]) /\ Later(flows'[g], flows[g])
        /\ (flows'[g].stop \in Unsettled => flows[g].stop \in Unsettled)
    BY <1>1, <1>2, <1>3 DEF Outlived, GoOn
  <2> QED
    BY <2>1 DEF Left, Later
<1>4. ASSUME g = current PROVE Left(flows'[g])
  <2>1. current # 0
    BY <1>2, <1>4, Elements
  <2> QED
    BY <1>4, <2>1, Succession
<1> QED
  BY <1>3, <1>4

(* Where the user is, and whether the history is fetched, changes under no *)
(* generation that he does not leave.                                      *)
LEMMA Staying ==
  ASSUME Types, [Next]_vars
  PROVE  \/ \A g \in DOMAIN flows : flows'[g].away
         \/ UNCHANGED active /\ (syncing = {} => syncing' = {})
<1>1. ASSUME flows' = [g \in DOMAIN flows |-> [flows[g] EXCEPT !.away = TRUE]]
      PROVE  \A g \in DOMAIN flows : flows'[g].away
  <2>1. \A f \in Flows : [f EXCEPT !.away = TRUE].away
    BY DEF Flows
  <2> QED
    BY <1>1, <2>1, Elements
<1>2. CASE User \/ Resume
  BY <1>1, <1>2
  DEF User, Navigate, Archive, Send, Edit, Repeat, Resume, Stop, Begin
<1>3. CASE FlushFrame \/ Sync \/ SyncFails \/ UNCHANGED vars
  BY <1>3 DEF FlushFrame, Sync, SyncAnswer, SyncApply, SyncFails, vars
<1>4. ASSUME NEW c, OtherTab(c) \/ Archived(c) \/ ArchiveFails(c)
      PROVE  \/ \A g \in DOMAIN flows : flows'[g].away
             \/ UNCHANGED active /\ (syncing = {} => syncing' = {})
  BY <1>1, <1>4 DEF OtherTab, Archived, ArchiveFails
<1>5. ASSUME NEW r, Serve(r) PROVE UNCHANGED <<active, syncing>>
  BY <1>5 DEF Serve
<1>6. ASSUME NEW g, Proceed(g) \/ Stopping(g) \/ Break(g) \/ FetchFails(g)
                    \/ StopFetchFails(g)
      PROVE  UNCHANGED <<active, syncing>>
  BY <1>6
  DEF Proceed, Request, Prepare, Refuse, Register, Attach, Receive, ReceiveStart,
      ReceiveDelta, ReceiveClosing, StreamEnds, Answer, Apply, Finish, Stopping,
      StopCancel, StopAnswer, StopApply, StopFinish, Break, FetchFails, StopFetchFails
<1> QED
  BY <1>2, <1>3, <1>4, <1>5, <1>6 DEF Next

(* A generation begins with its reply kept as failed, and where the user   *)
(* is, unless it begins over a fetch or on a foreign screen.               *)
LEMMA AsksHeld ==
  ASSUME Types, Asks
  PROVE  /\ current' \in DOMAIN flows' /\ current' \notin DOMAIN flows
         /\ UNCHANGED <<active, syncing>>
         /\ LET f == flows'[current'] IN
            /\ f.pc = "ask" /\ ~f.error
            /\ ~f.over => syncing = {} /\ f.conv = active
            /\ f.kind # "resume" => Marked(f.kept, f.place)
<1>1. messages \in Rows
  BY DEF Types, ScreenTypes
<1>2. ASSUME NEW ms \in Rows, NEW m, m.id \in Int,
             \E i \in DOMAIN ms : ms[i] = m
      PROVE  Marked(MarkFailed(ms, m.id), m.id)
  <2>1. /\ DOMAIN MarkFailed(ms, m.id) = DOMAIN ms
        /\ \A i \in DOMAIN ms :
             /\ ms[i] \in Replies
             /\ MarkFailed(ms, m.id)[i] =
                  IF ms[i].id = m.id THEN [ms[i] EXCEPT !.status = "failed"] ELSE ms[i]
    BY ElementOfSeq, LenProperties DEF MarkFailed, Rows
  <2>2. \A r \in Replies : [r EXCEPT !.status = "failed"].id = r.id
                           /\ [r EXCEPT !.status = "failed"].status = "failed"
    BY DEF Replies
  <2>3. \A i \in DOMAIN ms :
          /\ MarkFailed(ms, m.id)[i].id = ms[i].id
          /\ ms[i].id = m.id => MarkFailed(ms, m.id)[i].status = "failed"
    BY <2>1, <2>2
  <2> QED
    BY <1>2, <2>1, <2>3 DEF Marked, ToSet
<1>3. ASSUME NEW s \in Rows, NEW m \in Replies
      PROVE  Marked(MarkFailed(Append(s, m), m.id), m.id)
  <2>1. Append(s, m) \in Rows /\ \E i \in DOMAIN Append(s, m) : Append(s, m)[i] = m
    BY AppendProperties, LenProperties DEF Rows
  <2>2. m.id \in Int
    BY DEF Replies
  <2> QED
    BY <1>2, <2>1, <2>2
<1>4. ASSUME NEW kind, NEW c, NEW place, NEW target, NEW kept, NEW pos,
             Begin(kind, c, place, target, kept, pos),
             ~ForeignScreen => c = active,
             kind # "resume" => Marked(kept, place)
      PROVE  /\ current' \in DOMAIN flows' /\ current' \notin DOMAIN flows
             /\ UNCHANGED <<active, syncing>>
             /\ LET f == flows'[current'] IN
                /\ f.pc = "ask" /\ ~f.error
                /\ ~f.over => syncing = {} /\ f.conv = active
                /\ f.kind # "resume" => Marked(f.kept, f.place)
  <2>1. /\ current' \in DOMAIN flows' /\ current' \notin DOMAIN flows
        /\ flows'[current'] = Begun(kind, c, place, target, kept, pos)
    BY <1>4, BeginIs
  <2>2. LET f == Begun(kind, c, place, target, kept, pos) IN
        /\ f.pc = "ask" /\ ~f.error /\ f.conv = c
        /\ f.kind = kind /\ f.kept = kept /\ f.place = place
    BY DEF Begun
  <2>3. Begun(kind, c, place, target, kept, pos).over = (syncing # {} \/ ForeignScreen)
    BY Zenon DEF Begun
  <2>4. UNCHANGED <<active, syncing>>
    BY <1>4 DEF Begin
  <2> QED
    BY <1>4, <2>1, <2>2, <2>3, <2>4
<1>5. active \in Conversations => 
        LET m == Reply(active, -(Len(flows) + 1), "streaming", <<>>)
        IN m \in Replies /\ m.id = -(Len(flows) + 1)
  <2>1. -(Len(flows) + 1) \in Int \ {0}
    BY Elements
  <2> QED
    BY <2>1, ReplyType, EmptySeq DEF Statuses, Texts, Reply
<1>6. CASE Send \/ Edit
  <2>1. active \in Conversations
    BY <1>6 DEF Send, Edit, MayAsk, Types, ScreenTypes
  <2> DEFINE k == -(Len(flows) + 1)
             m == Reply(active, k, "streaming", <<>>)
  <2>2. m \in Replies /\ m.id = k
    BY <1>5, <2>1
  <2>3. \E s \in Rows : \E kind, target :
          kind # "resume" /\ Begin(kind, active, k, target, MarkFailed(Append(s, m), k), 0)
    <3>1. CASE Send
      BY <1>1, <3>1 DEF Send
    <3>2. CASE Edit
      <4>1. Before(messages, Last(messages).id) \in Rows
        BY <1>1, BeforeIs DEF Rows
      <4> QED
        BY <3>2, <4>1 DEF Edit
    <3> QED
      BY <1>6, <3>1, <3>2
  <2> HIDE DEF k, m
  <2>4. \A s \in Rows : Marked(MarkFailed(Append(s, m), k), k)
    BY <1>3, <2>2
  <2> QED
    BY <1>4, <2>3, <2>4
<1>7. ASSUME NEW m \in ToSet(messages), Repeat(m)
      PROVE  /\ current' \in DOMAIN flows' /\ current' \notin DOMAIN flows
             /\ UNCHANGED <<active, syncing>>
             /\ LET f == flows'[current'] IN
                /\ f.pc = "ask" /\ ~f.error
                /\ ~f.over => syncing = {} /\ f.conv = active
                /\ f.kind # "resume" => Marked(f.kept, f.place)
  <2> DEFINE new == [m EXCEPT !.status = "streaming", !.text = <<>>]
             s == Before(messages, m.id)
  <2>1. new \in Replies /\ new.id = m.id
    BY Elements, EmptySeq DEF Replies, Statuses, Texts
  <2>2. Begin("repeat", m.conv, m.id, m.id, MarkFailed(Append(s, new), m.id), 0)
    BY <1>7 DEF Repeat
  <2>3. ~ForeignScreen => m.conv = active
    BY DEF ForeignScreen
  <2>4. s \in Rows
    BY <1>1, BeforeIs DEF Rows
  <2> HIDE DEF new, s
  <2>5. Marked(MarkFailed(Append(s, new), m.id), m.id)
    BY <1>3, <2>1, <2>4
  <2> QED
    BY <1>4, <2>2, <2>3, <2>5
<1>8. CASE Resume
  BY <1>4, <1>8 DEF Resume
<1> QED
  BY <1>6, <1>7, <1>8 DEF Asks

(* Every step keeps the user with the generation he watches.               *)
LEMMA NextWatched == Types /\ Watched /\ [Next]_vars => Watched'
<1> SUFFICES ASSUME Types, Watched, [Next]_vars, current' # 0,
                    ~flows'[current'].over, ~flows'[current'].away
             PROVE  syncing' = {} /\ active' = flows'[current'].conv
  BY DEF Watched
<1>1. CASE Asks
  BY <1>1, AsksHeld
<1>2. CASE ~Asks
  <2>1. GoOn /\ DOMAIN flows' = DOMAIN flows
    BY <1>2, FlowsGoOn DEF GoOn
  <2>3. current' = current
    BY <1>2, Succession
  <2>4. current \in DOMAIN flows /\ current # 0
    BY <2>3, Elements
  <2>5. Later(flows'[current], flows[current])
    BY <2>1, <2>4 DEF GoOn
  <2>6. ~flows[current].over /\ ~flows[current].away
        /\ flows'[current].conv = flows[current].conv
    BY <2>3, <2>5 DEF Later
  <2>7. syncing = {} /\ active = flows[current].conv
    BY <2>4, <2>6 DEF Watched
  <2>8. UNCHANGED active /\ syncing' = {}
    BY <2>3, <2>4, <2>7, Staying
  <2> QED
    BY <2>3, <2>6, <2>7, <2>8
<1> QED
  BY <1>1, <1>2

(* Every step leaves what a generation kept to the merge.                  *)
LEMMA NextHeld == Types /\ FailuresHeld /\ [Next]_vars => FailuresHeld'
<1> SUFFICES ASSUME Types, FailuresHeld, [Next]_vars, NEW g \in DOMAIN flows'
             PROVE  /\ flows'[g].error => flows'[g].kind # "resume"
                    /\ flows'[g].kind # "resume"
                       /\ flows'[g].pc \notin {"finish", "done"} =>
                         Marked(flows'[g].kept, flows'[g].place)
  BY DEF FailuresHeld, Marked
<1>1. CASE g \in DOMAIN flows
  <2>1. Later(flows'[g], flows[g]) /\ flows[g] \in Flows
    BY <1>1, FlowsGoOn, Elements DEF GoOn
  <2>2. flows'[g].pc \notin {"finish", "done"} =>
          flows'[g].kept = flows[g].kept /\ flows[g].pc \notin {"finish", "done"}
    BY <2>1 DEF Later
  <2> QED
    BY <1>1, <2>1, <2>2 DEF Later, FailuresHeld
<1>2. CASE g \notin DOMAIN flows
  <2>1. Asks /\ g = current'
    BY <1>2, FlowsGoOn, Succession DEF GoOn
  <2> QED
    BY <2>1, AsksHeld
<1> QED
  BY <1>1, <1>2

(* A failed reply that the user watches stays: whatever shows other rows   *)
(* belongs to a stop, a fetch or a generation that is not under way.       *)
LEMMA FailedStays ==
  ASSUME Types, Outlived, Watched, [Next]_vars, NEW k,
         \E m \in ToSet(messages) : m.id = k /\ m.status = "failed",
         current \in DOMAIN flows, current' = current,
         flows[current].pc = "finish", flows'[current].stop = "none",
         ~flows'[current].away, Overtakings'
  PROVE  \E m \in ToSet(messages') : m.id = k /\ m.status = "failed"
<1> DEFINE Shown(ms) == \E m \in ToSet(ms) : m.id = k /\ m.status = "failed"
<1>1. GoOn /\ current # 0
  BY FlowsGoOn, Elements
<1>2. /\ flows[current].stop = "none" /\ ~flows[current].away /\ Overtakings
      /\ \A g \in DOMAIN flows : Later(flows'[g], flows[g])
  BY <1>1 DEF GoOn, Later, Overtakings
<1>3. syncing = {}
  BY <1>1, <1>2 DEF Watched, Overtakings
<1>4. \A g \in DOMAIN flows : g # current =>
        flows[g].pc \in {"finish", "done"} /\ flows[g].stop \notin Unsettled
  BY <1>2 DEF Outlived, Left, Overtakings
<1>5. Shown(Flushed)
  <2>1. \E i \in DOMAIN messages : messages[i].id = k /\ messages[i].status = "failed"
    BY DEF ToSet
  <2> QED
    BY <2>1, FlushedIs DEF ToSet, Types
<1>6. \A j : Shown(MarkFailed(messages, j))
  <2>1. \A r \in Replies : [r EXCEPT !.status = "failed"].id = r.id
                           /\ [r EXCEPT !.status = "failed"].status = "failed"
    BY DEF Replies
  <2>2. PICK i \in DOMAIN messages : messages[i].id = k /\ messages[i].status = "failed"
    BY DEF ToSet
  <2>3. messages[i] \in Replies
    BY <2>2, Elements DEF ToSet
  <2>4. ASSUME NEW j PROVE Shown(MarkFailed(messages, j))
    <3>1. /\ DOMAIN MarkFailed(messages, j) = DOMAIN messages
          /\ MarkFailed(messages, j)[i] =
               IF messages[i].id = j THEN [messages[i] EXCEPT !.status = "failed"]
                                     ELSE messages[i]
      BY DEF MarkFailed
    <3>2. MarkFailed(messages, j)[i].id = k /\ MarkFailed(messages, j)[i].status = "failed"
      BY <2>1, <2>2, <2>3, <3>1
    <3> QED
      BY <3>1, <3>2 DEF ToSet
  <2> QED
    BY <2>4
<1>7. Shown(messages)
  OBVIOUS
<1> HIDE DEF Shown
<1>8. ~Asks
  BY AsksHeld
<1>9. CASE User
  <2>1. ASSUME NEW c, Navigate(c) PROVE FALSE
    <3>1. flows'[current] = [flows[current] EXCEPT !.away = TRUE]
      BY <2>1 DEF Navigate
    <3> QED
      BY <3>1, Elements DEF Flows
  <2>2. ASSUME Stop PROVE FALSE
    <3>1. flows'[current] = [flows[current] EXCEPT !.stop = "cancel"]
      BY <2>2 DEF Stop
    <3> QED
      BY <3>1, Elements DEF Flows
  <2> QED
    BY <1>7, <1>8, <1>9, <2>1, <2>2 DEF User, Asks, Archive, Shown
<1>10. CASE FlushFrame \/ Sync \/ SyncFails \/ UNCHANGED vars
  BY <1>3, <1>5, <1>7, <1>10
  DEF FlushFrame, Sync, SyncAnswer, SyncApply, SyncFails, vars, Shown
<1>11. ASSUME NEW c, OtherTab(c) \/ Archived(c) \/ ArchiveFails(c)
       PROVE  Shown(messages')
  <2>1. ASSUME Archived(c) PROVE FALSE
    <3>1. flows'[current] = [flows[current] EXCEPT !.away = TRUE]
      BY <2>1 DEF Archived
    <3> QED
      BY <3>1, Elements DEF Flows
  <2> QED
    BY <1>7, <1>11, <2>1 DEF OtherTab, ArchiveFails
<1>12. ASSUME NEW r, Serve(r) PROVE Shown(messages')
  BY <1>7, <1>12 DEF Serve
<1>13. ASSUME NEW g \in DOMAIN flows,
              Request(g) \/ StreamEnds(g) \/ Break(g)
       PROVE  Shown(messages')
  BY <1>6, <1>7, <1>13
  DEF Request, Prepare, Refuse, Register, Attach, StreamEnds, Break, Failed
<1>14. ASSUME NEW g \in DOMAIN flows,
              Answer(g) \/ Finish(g) \/ FetchFails(g) \/ StopCancel(g)
              \/ StopAnswer(g) \/ StopFinish(g) \/ StopFetchFails(g)
       PROVE  Shown(messages')
  BY <1>5, <1>7, <1>14
  DEF Answer, Finish, FetchFails, StopCancel, StopAnswer, StopFinish,
      StopFetchFails, Finalize
<1>15. ASSUME NEW g \in DOMAIN flows, Receive(g) \/ Apply(g) \/ StopApply(g)
       PROVE  FALSE
  <2>1. flows[g].pc \in {"stream", "answered"} \/ flows[g].stop = "answered"
    BY <1>15 DEF Receive, ReceiveStart, ReceiveDelta, ReceiveClosing, HasEvent,
       Apply, StopApply
  <2> QED
    BY <1>2, <1>4, <2>1 DEF Unsettled
<1>16. CASE Next
  BY <1>8, <1>9, <1>10, <1>11, <1>12, <1>13, <1>14, <1>15, <1>16
  DEF Next, Asks, Proceed, Stopping, Shown
<1> QED
  BY <1>10, <1>16

(* Every step shows the failures there are.                                *)
LEMMA NextFailureShown ==
  ASSUME Types, Outlived, Watched, FailuresHeld, FailureShown, [Next]_vars
  PROVE  FailureShown'
<1> SUFFICES ASSUME NEW g \in DOMAIN flows', current' = g, flows'[g].error,
                    flows'[g].pc = "finish", flows'[g].kept = <<>>,
                    ~flows'[g].away, flows'[g].stop = "none", Overtakings'
             PROVE  \E m \in ToSet(messages') :
                      m.id = flows'[g].place /\ m.status = "failed"
  BY DEF FailureShown, Overtakings
<1>1. GoOn /\ ~Asks
  <2>1. ~Asks
    BY AsksHeld
  <2> QED
    BY <2>1, FlowsGoOn
<1>2. /\ g \in DOMAIN flows /\ current = g
  <2>1. DOMAIN flows' = DOMAIN flows
    BY <1>1 DEF GoOn
  <2>2. g # 0
    BY <2>1, Elements
  <2> QED
    BY <2>1, <2>2, Succession
<1>3. /\ flows[g].error /\ ~flows[g].away /\ flows[g].stop = "none"
      /\ Overtakings /\ flows'[g].place = flows[g].place /\ flows[g].kind # "resume"
      /\ flows[g].pc # "done" /\ flows[g] \in Flows
      /\ flows'[g].kept = flows[g].kept \/ Apply(g)
  <2>1. \A h \in DOMAIN flows : Later(flows'[h], flows[h])
    BY <1>1 DEF GoOn
  <2>2. flows[g].error
    BY <1>2, <2>1 DEF Later
  <2>3. Overtakings
    BY <1>1, <2>1 DEF Overtakings, Later, GoOn
  <2> QED
    BY <1>1, <1>2, <2>1, <2>2, <2>3, Elements DEF Later, GoOn, FailuresHeld
<1>4. CASE Apply(g)
  <2>1. Marked(flows[g].kept, flows[g].place)
    BY <1>2, <1>3, <1>4 DEF FailuresHeld, Apply
  <2>2. active = flows[g].conv
    <3>1. current # 0
      BY <1>2, Elements
    <3> QED
      BY <1>2, <1>3, <3>1 DEF Watched, Overtakings
  <2>3. messages' = Merge(flows[g].got, flows[g].kept)
    BY <1>3, <1>4, <2>2 DEF Apply, ShowRows, InView
  <2>4. flows[g].got \in Rows /\ flows[g].kept \in Rows
    BY <1>3 DEF Flows
  <2>5. PICK m \in ToSet(flows[g].kept) : m.id = flows[g].place
    BY <2>1 DEF Marked
  <2> DEFINE ms == Merge(flows[g].got, flows[g].kept)
  <2>6. \A k \in ToSet(flows[g].kept) :
          \E i \in DOMAIN ms : ms[i].id = k.id /\ ms[i] \in ToSet(flows[g].kept)
    BY <2>4, MergeIs
  <2>7. \E i \in DOMAIN messages' :
          messages'[i].id = flows[g].place /\ messages'[i].status = "failed"
    BY <2>1, <2>3, <2>5, <2>6 DEF Marked
  <2> QED
    BY <1>3, <2>7 DEF ToSet
<1>5. CASE ~Apply(g)
  <2>1. flows[g].kept = <<>>
    BY <1>3, <1>5
  <2>2. flows[g].pc = "finish"
    <3>1. ~Marked(flows[g].kept, flows[g].place)
      BY <2>1 DEF Marked, ToSet
    <3> QED
      BY <1>2, <1>3, <3>1 DEF FailuresHeld
  <2>3. \E m \in ToSet(messages) : m.id = flows[g].place /\ m.status = "failed"
    BY <1>2, <1>3, <2>1, <2>2 DEF FailureShown
  <2> QED
    BY <1>2, <1>3, <2>2, <2>3, FailedStays
<1> QED
  BY <1>4, <1>5

(* THEOREM: a request that failed leaves its reply on the screen, marked   *)
(* as failed, when the rows of the server have been merged into it, though *)
(* fetches, stops and other generations show rows of their own             *)
(* (markAssistantMessageAsFailed, mergePreservedMessages).                 *)
THEOREM FailureIsKept == Spec => []FailureKept
<1>1. Init => Outlived /\ Watched /\ FailuresHeld /\ FailureShown
  BY DEF Init, Outlived, Watched, FailuresHeld, FailureShown
<1>2. /\ Types /\ Outlived /\ Watched /\ FailuresHeld /\ FailureShown /\ [Next]_vars
      => (Outlived /\ Watched /\ FailuresHeld /\ FailureShown)'
  BY NextOutlived, NextWatched, NextHeld, NextFailureShown
<1>3. FailureShown => FailureKept
  BY DEF FailureShown, FailureKept, Clean, Overtakings
<1> QED
  BY <1>1, <1>2, <1>3, TypesInvariance, PTL DEF Spec

-----------------------------------------------------------------------------
(* Deltas in their order. *)

UpTo(t, n) == \A i \in DOMAIN t : t[i] <= n
Ahead(s, t) == \A i \in DOMAIN s, j \in DOMAIN t : s[i] < t[j]

(* What a text is.                                                         *)
LEMMA TextIs ==
  ASSUME NEW t \in Texts
  PROVE  /\ Len(t) \in Nat /\ DOMAIN t = 1..Len(t)
         /\ \A i \in 1..Len(t) : t[i] \in Nat /\ t[i] >= 2 /\ t[i] <= MaxEvents - 1
<1>1. MaxEvents - 1 \in Int
  BY BoundsAssumption
<1> QED
  BY <1>1, LenProperties, ElementOfSeq DEF Texts

(* The empty text is in order, and ahead of any.                           *)
LEMMA EmptyText ==
  /\ <<>> \in Texts /\ Ascending(<<>>)
  /\ \A n : UpTo(<<>>, n)
  /\ \A t : Ahead(<<>>, t) /\ Ahead(t, <<>>)
BY EmptySeq DEF Texts, Ascending, UpTo, Ahead

(* A text that is ahead of another one goes before it.                     *)
LEMMA Concatenation ==
  ASSUME NEW s \in Texts, NEW t \in Texts, Ascending(s), Ascending(t), Ahead(s, t)
  PROVE  /\ s \o t \in Texts /\ Ascending(s \o t)
         /\ \A n : UpTo(s, n) /\ UpTo(t, n) => UpTo(s \o t, n)
<1>1. /\ Len(s) \in Nat /\ DOMAIN s = 1..Len(s)
      /\ Len(t) \in Nat /\ DOMAIN t = 1..Len(t)
  BY TextIs
<1>2. /\ s \o t \in Texts /\ Len(s \o t) = Len(s) + Len(t)
      /\ \A i \in 1..(Len(s) + Len(t)) :
           (s \o t)[i] = IF i <= Len(s) THEN s[i] ELSE t[i - Len(s)]
  BY ConcatProperties DEF Texts
<1> DEFINE c == s \o t
<1> HIDE DEF c
<1>3. /\ c \in Texts /\ Len(c) = Len(s) + Len(t) /\ DOMAIN c = 1..(Len(s) + Len(t))
      /\ \A i \in 1..Len(s) : c[i] = s[i]
      /\ \A i \in 1..(Len(s) + Len(t)) : i > Len(s) => c[i] = t[i - Len(s)]
  <2>1. c \in Texts /\ Len(c) = Len(s) + Len(t)
        /\ \A i \in 1..(Len(s) + Len(t)) : c[i] = IF i <= Len(s) THEN s[i] ELSE t[i - Len(s)]
    BY <1>2 DEF c
  <2>2. DOMAIN c = 1..Len(c)
    BY <2>1, TextIs
  <2>3. \A i \in 1..Len(s) : i \in 1..(Len(s) + Len(t)) /\ i <= Len(s)
    BY <1>1
  <2>4. \A i \in 1..Len(s) : c[i] = s[i]
    BY <2>1, <2>3
  <2>5. \A i \in 1..(Len(s) + Len(t)) : i > Len(s) => ~(i <= Len(s))
    BY <1>1
  <2> QED
    BY <2>1, <2>2, <2>4, <2>5
<1>4. Ascending(c)
  <2> SUFFICES ASSUME NEW i \in 1..(Len(c) - 1) PROVE c[i] < c[i + 1]
    BY DEF Ascending
  <2>1. i \in Nat /\ i >= 1 /\ i + 1 <= Len(s) + Len(t)
    BY <1>1, <1>3
  <2>2. CASE i + 1 <= Len(s)
    <3>1. i \in 1..Len(s) /\ i + 1 \in 1..Len(s) /\ i \in 1..(Len(s) - 1)
      BY <1>1, <2>1, <2>2
    <3> QED
      BY <1>3, <3>1 DEF Ascending
  <2>3. CASE i = Len(s)
    <3>1. /\ i \in 1..Len(s) /\ i \in DOMAIN s /\ i + 1 \in 1..(Len(s) + Len(t))
          /\ i + 1 > Len(s) /\ i + 1 - Len(s) = 1 /\ 1 \in DOMAIN t
      BY <1>1, <2>1, <2>3
    <3>2. c[i] = s[i] /\ c[i + 1] = t[1]
      BY <1>3, <3>1
    <3> QED
      BY <3>1, <3>2 DEF Ahead
  <2>4. CASE i > Len(s)
    <3> DEFINE j == i - Len(s)
    <3>1. /\ i \in 1..(Len(s) + Len(t)) /\ i + 1 \in 1..(Len(s) + Len(t)) /\ i + 1 > Len(s)
          /\ j \in 1..(Len(t) - 1) /\ i + 1 - Len(s) = j + 1
      BY <1>1, <2>1, <2>4
    <3>2. c[i] = t[j] /\ c[i + 1] = t[j + 1]
      BY <1>3, <2>4, <3>1
    <3> QED
      BY <3>1, <3>2 DEF Ascending
  <2>5. i + 1 <= Len(s) \/ i = Len(s) \/ i > Len(s)
    <3>1. Len(s) \in Nat
      BY <1>1
    <3> QED
      BY <2>1, <3>1
  <2> QED
    BY <2>2, <2>3, <2>4, <2>5
<1>5. ASSUME NEW n, UpTo(s, n), UpTo(t, n) PROVE UpTo(c, n)
  <2> SUFFICES ASSUME NEW i \in 1..(Len(s) + Len(t)) PROVE c[i] <= n
    BY <1>3 DEF UpTo
  <2>1. CASE i <= Len(s)
    <3>1. i \in 1..Len(s)
      BY <1>1, <2>1
    <3> QED
      BY <1>1, <1>3, <1>5, <3>1 DEF UpTo
  <2>2. CASE i > Len(s)
    <3>1. i - Len(s) \in DOMAIN t
      BY <1>1, <2>2
    <3> QED
      BY <1>3, <1>5, <2>2, <3>1 DEF UpTo
  <2> QED
    BY <1>1, <2>1, <2>2
<1> QED
  BY <1>3, <1>4, <1>5 DEF c

(* The next delta goes behind those before it.                             *)
LEMMA NextDelta ==
  ASSUME NEW t \in Texts, NEW n \in Nat, n >= 2, n < MaxEvents,
         Ascending(t), UpTo(t, n - 1)
  PROVE  /\ Append(t, n) \in Texts /\ Ascending(Append(t, n)) /\ UpTo(Append(t, n), n)
         /\ \A s \in Texts : Ahead(s, t) /\ UpTo(s, n - 1) => Ahead(s, Append(t, n))
<1>1. /\ Len(t) \in Nat /\ DOMAIN t = 1..Len(t)
      /\ \A i \in 1..Len(t) : t[i] \in Nat /\ t[i] <= n - 1
  BY TextIs DEF UpTo
<1> DEFINE c == Append(t, n)
<1>2. n \in 2..(MaxEvents - 1)
  BY BoundsAssumption
<1>3. /\ c \in Texts /\ Len(c) = Len(t) + 1 /\ DOMAIN c = 1..(Len(t) + 1)
      /\ \A i \in 1..Len(t) : c[i] = t[i]
      /\ c[Len(t) + 1] = n
  BY <1>2, TextIs, AppendProperties DEF Texts
<1> HIDE DEF c
<1>4. Ascending(c)
  <2> SUFFICES ASSUME NEW i \in 1..(Len(c) - 1) PROVE c[i] < c[i + 1]
    BY DEF Ascending
  <2>1. i \in 1..Len(t)
    BY <1>1, <1>3
  <2>2. CASE i = Len(t)
    BY <1>1, <1>3, <2>1, <2>2
  <2>3. CASE i # Len(t)
    <3>1. i \in 1..(Len(t) - 1) /\ i + 1 \in 1..Len(t)
      <4>1. Len(t) \in Nat
        BY <1>1
      <4> QED
        BY <2>1, <2>3, <4>1
    <3> QED
      BY <1>3, <2>1, <3>1 DEF Ascending
  <2> QED
    BY <2>2, <2>3
<1>5. \A i \in 1..(Len(t) + 1) : i \in 1..Len(t) \/ i = Len(t) + 1
  BY <1>1
<1>6. UpTo(c, n)
  BY <1>1, <1>3, <1>5 DEF UpTo
<1>7. ASSUME NEW s \in Texts, Ahead(s, t), UpTo(s, n - 1) PROVE Ahead(s, c)
  <2>1. \A i \in DOMAIN s : s[i] \in Nat /\ s[i] < n
    BY <1>7, TextIs DEF UpTo
  <2> QED
    BY <1>1, <1>3, <1>5, <1>7, <2>1 DEF Ahead
<1> QED
  BY <1>3, <1>4, <1>6, <1>7 DEF c

(* A bound that holds holds when it grows.                                 *)
LEMMA UpToMore ==
  ASSUME NEW t \in Texts, NEW k \in Int, NEW n \in Int, k <= n, UpTo(t, k)
  PROVE  UpTo(t, n)
BY TextIs DEF UpTo

(* The deltas of a run are in order.                                       *)
LEMMA DeltasAscending ==
  ASSUME NEW n \in 1..MaxEvents
  PROVE  Ascending(Deltas(n))
<1>1. n \in Nat /\ n - 1 \in Nat
  BY BoundsAssumption
<1>2. Len(Deltas(n)) = n - 1 /\ \A i \in 1..(n - 1) : Deltas(n)[i] = i + 1
  BY <1>1 DEF Deltas
<1>3. \A i \in 1..(n - 1 - 1) : i \in 1..(n - 1) /\ i + 1 \in 1..(n - 1) /\ i + 1 < i + 1 + 1
  BY <1>1
<1> QED
  BY <1>2, <1>3 DEF Ascending

(* A bounded set of numbers has a greatest one.                            *)
LEMMA GreatestIs ==
  ASSUME NEW n \in Nat, NEW S \in SUBSET (1..n), S # {}
  PROVE  Max(S) \in S
<1> DEFINE gaps == {k \in Nat : \E x \in S : k = n - x}
           less == OpToRel(<, Nat)
<1>1. gaps \subseteq Nat /\ gaps # {}
  <2>1. PICK x : x \in S
    OBVIOUS
  <2>2. n - x \in gaps
    BY <2>1
  <2> QED
    BY <2>2
<1>2. \A j, k \in Nat : j < k => <<j, k>> \in less
  BY DEF OpToRel
<1>3. PICK k \in gaps : \A j \in gaps : ~(<<j, k>> \in less)
  <2> HIDE DEF gaps
  <2> QED
    BY <1>1, NatLessThanWellFounded, WFMin
<1> HIDE DEF less
<1>4. PICK x \in S : k = n - x
  BY <1>3
<1>5. \A y \in S : n - y \in gaps
  OBVIOUS
<1>6. \A y \in S : ~(n - y < n - x)
  BY <1>1, <1>2, <1>3, <1>4, <1>5
<1>7. \A y \in S : x >= y
  BY <1>4, <1>6
<1> QED
  BY <1>7 DEF Max

(* A buffered delta is appended to a message that streams in its           *)
(* conversation; the others stay as they are.                              *)
LEMMA AppendedText ==
  ASSUME NEW ms \in Rows, NEW b \in Buffers, NEW i \in DOMAIN ms
  PROVE  \/ AppendDelta(ms, b)[i] = ms[i]
         \/ /\ ms[i].status = "streaming" /\ ms[i].conv = b.conv
            /\ AppendDelta(ms, b)[i].text = ms[i].text \o b.text
<1> DEFINE hits == {h \in DOMAIN ms : /\ ms[h].status = "streaming"
                                      /\ Same(ms[h], b.conv, b.place, Real(b.conv))}
<1>1. Len(ms) \in Nat /\ DOMAIN ms = 1..Len(ms) /\ \A h \in 1..Len(ms) : ms[h] \in Replies
  BY LenProperties, ElementOfSeq DEF Rows
<1>2. CASE hits = {}
  BY <1>2 DEF AppendDelta
<1>3. CASE hits # {}
  <2>1. Max(hits) \in hits
    <3>1. hits \in SUBSET (1..Len(ms))
      BY <1>1
    <3> HIDE DEF hits
    <3> QED
      BY <1>1, <1>3, <3>1, GreatestIs
  <2>2. ms[Max(hits)].status = "streaming" /\ ms[Max(hits)].conv = b.conv
    BY <2>1 DEF Same
  <2>3. AppendDelta(ms, b) = [ms EXCEPT ![Max(hits)].text = @ \o b.text]
    BY <1>3 DEF AppendDelta
  <2> DEFINE h == Max(hits)
  <2> HIDE DEF hits, h
  <2>4. CASE i = h
    <3>1. AppendDelta(ms, b)[i] = [ms[i] EXCEPT !.text = @ \o b.text]
      BY <2>3, <2>4 DEF h
    <3>2. ms[i] \in Replies
      BY <1>1
    <3>3. [ms[i] EXCEPT !.text = @ \o b.text].text = ms[i].text \o b.text
      BY <3>2 DEF Replies
    <3> QED
      BY <2>2, <2>4, <3>1, <3>3 DEF h
  <2>5. CASE i # h
    BY <2>3, <2>5 DEF h
  <2> QED
    BY <2>4, <2>5
<1> QED
  BY <1>2, <1>3
-----------------------------------------------------------------------------
(* Conversations that are read behind the back of the active generation.   *)
Twice == {c \in Conversations : ReadTwice(c)}

(* Rows that no delta was appended to: what still streams has no text.     *)
Whole(rows, T) ==
  \A m \in ToSet(rows) :
    /\ m.conv \in T \/ Ascending(m.text)
    /\ m.status = "streaming" => m.text = <<>>

(* What is shown of a reply that streams ends before the delta that is     *)
(* awaited, S[c], and before those that are buffered.                      *)
Behind(m, S, bs) ==
  m.status = "streaming" =>
    UpTo(m.text, S[m.conv]) /\ \A b \in bs : b.conv = m.conv => Ahead(m.text, b.text)

Shown(ms, T, S, bs) ==
  \A m \in ToSet(ms) : m.conv \in T \/ (Ascending(m.text) /\ Behind(m, S, bs))

StoredWhole == \A c \in Conversations : Whole(stored[c], {})
SyncWhole == \A s \in syncing : Whole(s.got, {})
AnswersWhole == \A g \in DOMAIN flows : Whole(flows[g].got, {}) /\ Whole(flows[g].answer, {})
KeptWhole == \A g \in DOMAIN flows : Whole(flows[g].kept, Twice)

(* The active generation is where its conversation is remembered to be.    *)
Remembered ==
  current # 0 /\ flows[current].pc \in Early =>
    \/ flows[current].conv \in Twice
    \/ flows[current].pos = seqs[flows[current].conv]

(* Only the active generation fills the buffer, in order.                  *)
BufferOrdered ==
  \A b \in buffer :
    /\ b.conv = active
    /\ \/ b.conv \in Twice
       \/ /\ current # 0 /\ flows[current].conv = b.conv
          /\ Ascending(b.text) /\ UpTo(b.text, seqs[b.conv])

ScreenOrdered == Forgotten \/ (Shown(messages, Twice, seqs, buffer) /\ KeptWhole)

(* Texts are whole where rows come from the server, and grow in order on   *)
(* the screen.                                                             *)
RowsWhole == StoredWhole /\ SyncWhole /\ AnswersWhole
Orderly == RowsWhole /\ Remembered /\ BufferOrdered /\ ScreenOrdered

(* What was read twice or forgotten stays so.                              *)
LEMMA TwiceGrows ==
  ASSUME Types, GoOn
  PROVE  Twice \subseteq Twice' /\ (Forgotten => Forgotten')
<1>1. \A g \in DOMAIN flows :
        /\ g \in DOMAIN flows' /\ flows'[g].conv = flows[g].conv
        /\ flows'[g].cut = flows[g].cut
        /\ flows[g].orphan => flows'[g].orphan
  BY DEF GoOn, Later
<1> QED
  BY <1>1 DEF Twice, ReadTwice, Forgotten

(* The rows of a set of rows, and whole rows on the screen.                *)
LEMMA WholeIs ==
  ASSUME NEW rows, NEW T, Whole(rows, T)
  PROVE  /\ \A U : T \subseteq U => Whole(rows, U)
         /\ \A S, bs : Shown(rows, T, S, bs)
BY EmptyText DEF Whole, Shown, Behind

(* No rows are whole.                                                      *)
LEMMA NoRowsWhole == \A T : Whole(<<>>, T)
BY DEF Whole, ToSet

(* The screen stays in order when deltas are awaited further on, less is   *)
(* buffered, or more is read twice.                                        *)
LEMMA ShownStays ==
  ASSUME NEW ms \in Rows, NEW T, NEW S \in [Conversations -> 0..MaxEvents], NEW bs,
         Shown(ms, T, S, bs),
         NEW U, T \subseteq U, NEW R \in [Conversations -> 0..MaxEvents],
         \A c \in Conversations : c \in U \/ S[c] <= R[c],
         NEW as, as \subseteq bs
  PROVE  Shown(ms, U, R, as)
<1> SUFFICES ASSUME NEW m \in ToSet(ms), m.conv \notin U
             PROVE  Ascending(m.text) /\ Behind(m, R, as)
  BY DEF Shown
<1>1. m \in Replies /\ m.conv \in Conversations /\ m.text \in Texts
  <2>1. ToSet(ms) \subseteq Replies
    BY ToSetFinite DEF Rows
  <2> QED
    BY <2>1 DEF Replies
<1>2. Ascending(m.text) /\ Behind(m, S, bs)
  BY DEF Shown
<1>3. S[m.conv] \in Int /\ R[m.conv] \in Int /\ S[m.conv] <= R[m.conv]
  BY <1>1, BoundsAssumption
<1>4. UpTo(m.text, S[m.conv]) => UpTo(m.text, R[m.conv])
  BY <1>1, <1>3, UpToMore
<1> QED
  BY <1>2, <1>4 DEF Behind

(* Messages of other rows, and a new one, are shown in order.              *)
LEMMA ShownParts ==
  ASSUME NEW ms, NEW rows, NEW m, NEW T, NEW S, NEW bs, Shown(rows, T, S, bs),
         m.conv \in T \/ (Ascending(m.text) /\ Behind(m, S, bs)),
         \A i \in DOMAIN ms : ms[i] = m \/ ms[i] \in ToSet(rows)
  PROVE  Shown(ms, T, S, bs)
BY DEF Shown, ToSet

(* Marking a message as failed leaves its text.                            *)
LEMMA MarkedTexts ==
  ASSUME NEW ms \in Rows, NEW k, NEW T
  PROVE  /\ \A S, bs : Shown(ms, T, S, bs) => Shown(MarkFailed(ms, k), T, S, bs)
         /\ Whole(ms, T) => Whole(MarkFailed(ms, k), T)
<1>1. \A r \in Replies :
        /\ [r EXCEPT !.status = "failed"].conv = r.conv
        /\ [r EXCEPT !.status = "failed"].text = r.text
        /\ [r EXCEPT !.status = "failed"].status = "failed"
  BY DEF Replies
<1>2. \A x \in ToSet(MarkFailed(ms, k)) :
        \E m \in ToSet(ms) : /\ x.conv = m.conv /\ x.text = m.text
                             /\ x.status \in {m.status, "failed"}
  <2>1. ASSUME NEW i \in DOMAIN MarkFailed(ms, k)
        PROVE  \E m \in ToSet(ms) : /\ MarkFailed(ms, k)[i].conv = m.conv
                                    /\ MarkFailed(ms, k)[i].text = m.text
                                    /\ MarkFailed(ms, k)[i].status \in {m.status, "failed"}
    <3>1. /\ i \in DOMAIN ms /\ ms[i] \in ToSet(ms) /\ ms[i] \in Replies
          /\ MarkFailed(ms, k)[i] =
               IF ms[i].id = k THEN [ms[i] EXCEPT !.status = "failed"] ELSE ms[i]
      <4>1. /\ DOMAIN MarkFailed(ms, k) = DOMAIN ms
            /\ \A j \in DOMAIN ms :
                 MarkFailed(ms, k)[j] =
                   IF ms[j].id = k THEN [ms[j] EXCEPT !.status = "failed"] ELSE ms[j]
        BY MarkFailedIs
      <4>2. DOMAIN ms = 1..Len(ms) /\ \A j \in 1..Len(ms) : ms[j] \in Replies
        BY LenProperties, ElementOfSeq DEF Rows
      <4> QED
        BY <4>1, <4>2 DEF ToSet
    <3> QED
      BY <1>1, <3>1
  <2> QED
    BY <2>1 DEF ToSet
<1>3. ASSUME NEW S, NEW bs, Shown(ms, T, S, bs) PROVE Shown(MarkFailed(ms, k), T, S, bs)
  BY <1>2, <1>3 DEF Shown, Behind
<1>4. ASSUME Whole(ms, T) PROVE Whole(MarkFailed(ms, k), T)
  BY <1>2, <1>4 DEF Whole
<1> QED
  BY <1>3, <1>4

(* The buffer is flushed behind what is shown.                             *)
LEMMA FlushedShown ==
  ASSUME Types, BufferOrdered, Shown(messages, Twice, seqs, buffer)
  PROVE  Flushed \in Rows /\ Shown(Flushed, Twice, seqs, {})
<1>1. /\ messages \in Rows /\ buffer \in SUBSET Buffers /\ Flushed \in Rows
      /\ seqs \in [Conversations -> 0..MaxEvents]
  BY FlushedIs DEF Types, ScreenTypes
<1>2. CASE buffer = {}
  BY <1>1, <1>2 DEF Flushed
<1>3. CASE buffer # {}
  <2> DEFINE b == CHOOSE b \in buffer : TRUE
  <2>1. b \in buffer /\ b \in Buffers /\ Flushed = AppendDelta(messages, b)
    BY <1>1, <1>3 DEF Flushed
  <2> HIDE DEF b
  <2>2. ASSUME NEW i \in DOMAIN messages, Flushed[i].conv \notin Twice
        PROVE  Ascending(Flushed[i].text) /\ Behind(Flushed[i], seqs, {})
    <3> DEFINE m == messages[i]
    <3>1. /\ m \in ToSet(messages) /\ m \in Replies /\ m.text \in Texts
          /\ m.conv \in Conversations /\ b.text \in Texts
      <4>1. m \in Replies /\ m \in ToSet(messages)
        BY Elements DEF ToSet
      <4> QED
        BY <2>1, <4>1 DEF Replies, Buffers
    <3>2. /\ Flushed[i].conv = m.conv /\ Flushed[i].status = m.status
      BY <1>1, FlushedIs DEF Types
    <3>3. Ascending(m.text) /\ Behind(m, seqs, buffer)
      BY <2>2, <3>1, <3>2 DEF Shown
    <3>4. CASE Flushed[i] = m
      BY <3>3, <3>4 DEF Behind
    <3>5. CASE /\ m.status = "streaming" /\ m.conv = b.conv
               /\ Flushed[i].text = m.text \o b.text
      <4>1. Ahead(m.text, b.text) /\ UpTo(m.text, seqs[m.conv])
        BY <2>1, <3>3, <3>5 DEF Behind
      <4>2. Ascending(b.text) /\ UpTo(b.text, seqs[m.conv])
        BY <2>1, <2>2, <3>2, <3>5 DEF BufferOrdered
      <4>3. Ascending(m.text \o b.text) /\ UpTo(m.text \o b.text, seqs[m.conv])
        BY <3>1, <3>3, <4>1, <4>2, Concatenation
      <4> QED
        BY <3>2, <3>5, <4>3 DEF Behind
    <3> QED
      BY <1>1, <2>1, <3>4, <3>5, AppendedText
  <2>3. DOMAIN Flushed = DOMAIN messages
    BY FlushedIs DEF Types
  <2> QED
    BY <1>1, <2>2, <2>3 DEF Shown, ToSet
<1> QED
  BY <1>2, <1>3

(* What the parts of the invariant say of the next state.                  *)
LEMMA NextParts ==
  /\ StoredWhole' <=> \A c \in Conversations : Whole(stored'[c], {})
  /\ SyncWhole' <=> \A s \in syncing' : Whole(s.got, {})
  /\ AnswersWhole' <=> \A g \in DOMAIN flows' :
                         Whole(flows'[g].got, {}) /\ Whole(flows'[g].answer, {})
  /\ KeptWhole' <=> \A g \in DOMAIN flows' : Whole(flows'[g].kept, Twice')
  /\ Shown(messages, Twice, seqs, buffer)' <=> Shown(messages', Twice', seqs', buffer')
BY DEF StoredWhole, SyncWhole, AnswersWhole, KeptWhole, Whole, Shown, Behind, UpTo,
       Ahead, Ascending

(* A reply without a text is appended to rows, or to the first of them.    *)
LEMMA AppendedRows ==
  ASSUME NEW rows \in Rows, NEW m \in Replies
  PROVE  /\ Append(rows, m) \in Rows
         /\ \A x \in ToSet(Append(rows, m)) : x = m \/ x \in ToSet(rows)
         /\ \A T : Whole(rows, T) /\ m.text = <<>> => Whole(Append(rows, m), T)
<1>1. /\ Append(rows, m) \in Rows
      /\ DOMAIN Append(rows, m) = 1..Len(rows) + 1
      /\ \A i \in 1..Len(rows) : Append(rows, m)[i] = rows[i]
      /\ Append(rows, m)[Len(rows) + 1] = m
      /\ Len(rows) \in Nat /\ DOMAIN rows = 1..Len(rows)
  BY AppendProperties, LenProperties DEF Rows
<1>2. \A i \in 1..Len(rows) + 1 : i \in 1..Len(rows) \/ i = Len(rows) + 1
  BY <1>1
<1>3. \A x \in ToSet(Append(rows, m)) : x = m \/ x \in ToSet(rows)
  BY <1>1, <1>2 DEF ToSet
<1> QED
  BY <1>1, <1>3, EmptyText DEF Whole

LEMMA FirstRows ==
  ASSUME NEW rows \in Rows, NEW k
  PROVE  /\ Before(rows, k) \in Rows /\ ToSet(Before(rows, k)) \subseteq ToSet(rows)
         /\ \A T : Whole(rows, T) => Whole(Before(rows, k), T)
<1>1. /\ Before(rows, k) \in Rows
      /\ \A i \in DOMAIN Before(rows, k) : \E j \in DOMAIN rows : Before(rows, k)[i] = rows[j]
  BY BeforeIs DEF Rows
<1>2. ToSet(Before(rows, k)) \subseteq ToSet(rows)
  BY <1>1 DEF ToSet
<1> QED
  BY <1>1, <1>2 DEF Whole

(* The server appends to no text: it begins a reply without one and stores *)
(* all the deltas of its run when that is settled.                         *)
LEMMA StoredWholeStep ==
  ASSUME Types, StoredWhole, [Next]_vars
  PROVE  StoredWhole'
<1>1. \A c \in Conversations : stored[c] \in Rows /\ Whole(stored[c], {})
  BY DEF Types, ServerTypes, StoredWhole
<1>2. ASSUME NEW c \in Conversations, NEW s, Whole(s, {}),
             stored' = [stored EXCEPT ![c] = s]
      PROVE  StoredWhole'
  <2>1. \A d \in Conversations : stored'[d] = IF d = c THEN s ELSE stored[d]
    BY <1>2 DEF Types, ServerTypes
  <2>2. \A d \in Conversations : Whole(stored'[d], {})
    BY <1>1, <1>2, <2>1
  <2> QED
    BY <2>2, NextParts
<1>3. ASSUME NEW c \in Conversations, NEW rows \in Rows, Whole(rows, {}),
             NEW k \in Int \ {0},
             stored' = [stored EXCEPT ![c] = Append(rows, Reply(c, k, "streaming", <<>>))]
      PROVE  StoredWhole'
  <2>1. /\ Reply(c, k, "streaming", <<>>) \in Replies
        /\ Reply(c, k, "streaming", <<>>).text = <<>>
    BY ReplyType, EmptyText DEF Statuses, Reply
  <2>2. Whole(Append(rows, Reply(c, k, "streaming", <<>>)), {})
    BY <1>3, <2>1, AppendedRows
  <2> QED
    BY <1>2, <1>3, <2>2
<1>4. ASSUME NEW c \in Conversations, OtherTab(c) PROVE StoredWhole'
  <2>1. nextKey \in Int \ {0}
    BY DEF Types, ServerTypes
  <2>2. stored' = [stored EXCEPT ![c] = Append(stored[c], Reply(c, nextKey, "streaming", <<>>))]
    BY <1>4 DEF OtherTab
  <2> QED
    BY <1>1, <1>3, <2>1, <2>2
<1>5. ASSUME NEW r \in DOMAIN runs, SettleReply(r) PROVE StoredWhole'
  <2> DEFINE c == runs[r].conv
             reply == Reply(c, runs[r].key, "settled", Deltas(runs[r].seq))
             s == [i \in DOMAIN stored[c] |->
                     IF stored[c][i].id = runs[r].key THEN reply ELSE stored[c][i]]
  <2>1. /\ c \in Conversations /\ runs[r].seq \in 1..MaxEvents
        /\ stored' = [stored EXCEPT ![c] = s]
    <3>1. runs[r] \in Runs /\ runs[r].seq > 0
      BY <1>5, Elements DEF SettleReply
    <3>2. runs[r].seq \in 0..MaxEvents /\ MaxEvents \in Nat
      BY <3>1, BoundsAssumption DEF Runs
    <3> QED
      BY <1>5, <3>1, <3>2 DEF SettleReply, Runs
  <2>2. reply.status = "settled" /\ Ascending(reply.text)
    BY <2>1, DeltasAscending DEF Reply
  <2> HIDE DEF reply
  <2>3. \A x \in ToSet(s) : x = reply \/ x \in ToSet(stored[c])
    BY DEF ToSet
  <2>4. Whole(s, {})
    BY <1>1, <2>1, <2>2, <2>3 DEF Whole
  <2> HIDE DEF s, c
  <2> QED
    BY <1>2, <2>1, <2>4
<1>6. ASSUME NEW g \in DOMAIN flows, Prepare(g) PROVE StoredWhole'
  <2> DEFINE f == flows[g]
             kept == IF f.kind = "send" THEN stored[f.conv]
                     ELSE Before(stored[f.conv], f.target)
             key == IF f.kind = "repeat" THEN f.target ELSE nextKey
  <2>1. /\ f.conv \in Conversations
        /\ stored' = [stored EXCEPT ![f.conv] =
                        Append(kept, Reply(f.conv, key, "streaming", <<>>))]
    BY <1>6, Elements DEF Prepare, Flows
  <2>2. /\ stored[f.conv] \in Rows /\ Whole(stored[f.conv], {})
        /\ nextKey \in Nat \ {0}
    BY <1>1, <2>1 DEF Types, ServerTypes
  <2>3. kept \in Rows /\ Whole(kept, {})
    BY <2>2, FirstRows
  <2>4. key \in Int \ {0}
    <3>1. CASE f.kind = "repeat"
      <4>1. \E m \in ToSet(stored[f.conv]) : m.id = f.target
        BY <1>6, <3>1 DEF Prepare, Accepts
      <4>2. ToSet(stored[f.conv]) \subseteq Replies
        BY <2>2, ToSetFinite DEF Rows
      <4> QED
        BY <3>1, <4>1, <4>2 DEF Replies
    <3> QED
      BY <2>2, <3>1
  <2> HIDE DEF kept, key
  <2> QED
    BY <1>3, <2>1, <2>3, <2>4
<1>7. CASE UNCHANGED stored
  BY <1>1, <1>7, NextParts
<1>8. ASSUME NEW g \in DOMAIN flows, ~Prepare(g),
             Proceed(g) \/ Stopping(g) \/ Break(g) \/ FetchFails(g) \/ StopFetchFails(g)
      PROVE  UNCHANGED stored
  BY <1>8
  DEF Proceed, Request, Refuse, Register, Attach, Receive, ReceiveStart,
      ReceiveDelta, ReceiveClosing, StreamEnds, Answer, Apply, Finish, Stopping,
      StopCancel, StopAnswer, StopApply, StopFinish, Break, FetchFails,
      StopFetchFails, serverVars
<1>9. ASSUME User \/ Resume \/ FlushFrame \/ Sync \/ SyncFails \/ UNCHANGED vars
      PROVE  UNCHANGED stored
  BY <1>9
  DEF User, Navigate, Archive, Send, Edit, Repeat, Resume, Stop, Begin, FlushFrame,
      Sync, SyncAnswer, SyncApply, SyncFails, vars, serverVars
<1>10. ASSUME NEW c, Archived(c) \/ ArchiveFails(c) PROVE UNCHANGED stored
  BY <1>10 DEF Archived, ArchiveFails, serverVars
<1>11. ASSUME NEW r, Publish(r) \/ CloseRun(r) PROVE UNCHANGED stored
  BY <1>11 DEF Publish, CloseRun
<1> QED
  BY <1>4, <1>5, <1>6, <1>7, <1>8, <1>9, <1>10, <1>11 DEF Next, Serve

(* A generation that the user begins shows his reply behind messages that  *)
(* were shown before; one that resumes shows nothing.                      *)
LEMMA AsksAre ==
  ASSUME Types, Asks
  PROVE  \/ Resume
         \/ \E s \in Rows, m \in Replies : \E kind, target :
              /\ kind # "resume" /\ current = 0
              /\ ToSet(s) \subseteq ToSet(messages)
              /\ m.status = "streaming" /\ m.text = <<>>
              /\ Begin(kind, m.conv, m.id, target, MarkFailed(Append(s, m), m.id), 0)
              /\ messages' = Append(s, m)
              /\ seqs' = [seqs EXCEPT ![m.conv] = 0]
<1>1. messages \in Rows
  BY DEF Types, ScreenTypes
<1>2. \A k : Before(messages, k) \in Rows
             /\ ToSet(Before(messages, k)) \subseteq ToSet(messages)
  BY <1>1, FirstRows
<1> DEFINE k == -(Len(flows) + 1)
           new == Reply(active, k, "streaming", <<>>)
<1>3. active \in Conversations =>
        /\ new \in Replies /\ new.conv = active /\ new.id = k
        /\ new.status = "streaming" /\ new.text = <<>>
  <2>1. k \in Int \ {0}
    BY Elements
  <2> QED
    BY <2>1, ReplyType, EmptyText DEF Statuses, Reply
<1>4. MayAsk => active \in Conversations /\ current = 0
  BY DEF MayAsk, Types, ScreenTypes
<1>5. CASE Send
  <2>1. /\ MayAsk /\ messages' = Append(messages, new)
        /\ Begin("send", active, k, 0, MarkFailed(Append(messages, new), k), 0)
        /\ seqs' = [seqs EXCEPT ![active] = 0]
    BY <1>5 DEF Send
  <2> HIDE DEF new, k
  <2> QED
    BY <1>1, <1>3, <1>4, <2>1
<1>6. CASE Edit
  <2> DEFINE s == Before(messages, Last(messages).id)
  <2>1. /\ MayAsk /\ messages' = Append(s, new)
        /\ Begin("edit", active, k, Last(messages).id, MarkFailed(Append(s, new), k), 0)
        /\ seqs' = [seqs EXCEPT ![active] = 0]
    BY <1>6 DEF Edit
  <2>2. s \in Rows /\ ToSet(s) \subseteq ToSet(messages)
    BY <1>2
  <2> HIDE DEF new, k, s
  <2> QED
    BY <1>3, <1>4, <2>1, <2>2
<1>7. ASSUME NEW m \in ToSet(messages), Repeat(m)
      PROVE  \E s \in Rows, x \in Replies : \E kind, target :
               /\ kind # "resume" /\ current = 0
               /\ ToSet(s) \subseteq ToSet(messages)
               /\ x.status = "streaming" /\ x.text = <<>>
               /\ Begin(kind, x.conv, x.id, target, MarkFailed(Append(s, x), x.id), 0)
               /\ messages' = Append(s, x)
               /\ seqs' = [seqs EXCEPT ![x.conv] = 0]
  <2> DEFINE s == Before(messages, m.id)
             x == [m EXCEPT !.status = "streaming", !.text = <<>>]
  <2>1. /\ x \in Replies /\ x.conv = m.conv /\ x.id = m.id
        /\ x.status = "streaming" /\ x.text = <<>>
    <3>1. m \in Replies
      BY Elements
    <3> QED
      BY <3>1, EmptyText DEF Replies, Statuses
  <2>2. /\ MayAsk /\ messages' = Append(s, x)
        /\ Begin("repeat", m.conv, m.id, m.id, MarkFailed(Append(s, x), m.id), 0)
        /\ seqs' = [seqs EXCEPT ![m.conv] = 0]
    BY <1>7 DEF Repeat
  <2>3. s \in Rows /\ ToSet(s) \subseteq ToSet(messages)
    BY <1>2
  <2> HIDE DEF s, x
  <2> QED
    BY <1>4, <2>1, <2>2, <2>3
<1> QED
  BY <1>5, <1>6, <1>7 DEF Asks

(* Rows that were fetched are whole, too.                                  *)
LEMMA NextRowsWhole == Types /\ RowsWhole /\ [Next]_vars => RowsWhole'
<1> SUFFICES ASSUME Types, RowsWhole, [Next]_vars PROVE RowsWhole'
  OBVIOUS
<1>1. GoOn /\ StoredWhole'
  BY FlowsGoOn, StoredWholeStep DEF RowsWhole
<1>2. \A c \in Conversations : Whole(stored[c], {})
  BY DEF RowsWhole, StoredWhole
<1>3. ASSUME NEW g \in DOMAIN flows'
      PROVE  Whole(flows'[g].got, {}) /\ Whole(flows'[g].answer, {})
  <2>1. CASE g \in DOMAIN flows
    <3>1. Later(flows'[g], flows[g]) /\ flows[g].conv \in Conversations
      BY <1>1, <2>1, Elements DEF GoOn, Flows
    <3>2. Whole(flows[g].got, {}) /\ Whole(flows[g].answer, {})
      BY <2>1 DEF RowsWhole, AnswersWhole
    <3> QED
      BY <1>2, <3>1, <3>2, NoRowsWhole DEF Later
  <2>2. CASE g \notin DOMAIN flows
    <3>1. Asks /\ g = current'
      BY <1>1, <2>2, Succession DEF GoOn
    <3>2. \E kind, c, place, target, kept, pos : Begin(kind, c, place, target, kept, pos)
      BY <3>1 DEF Asks, Send, Edit, Repeat, Resume
    <3>3. \E kind, c, place, target, kept, pos :
            flows'[g] = Begun(kind, c, place, target, kept, pos)
      BY <3>1, <3>2, BeginIs
    <3>4. flows'[g].got = <<>> /\ flows'[g].answer = <<>>
      BY <3>3 DEF Begun
    <3> QED
      BY <3>4, NoRowsWhole
  <2> QED
    BY <2>1, <2>2
<1>4. ASSUME NEW s \in syncing' PROVE Whole(s.got, {})
  <2>1. CASE syncing' \subseteq syncing
    BY <2>1 DEF RowsWhole, SyncWhole
  <2>2. ASSUME NEW c, Navigate(c) PROVE Whole(s.got, {})
    BY <2>2, NoRowsWhole DEF Navigate
  <2>3. CASE SyncAnswer
    <3>1. PICK e \in syncing : syncing' = {[e EXCEPT !.pc = "answered", !.got = stored[e.conv]]}
      BY <2>3 DEF SyncAnswer
    <3>2. e \in Fetches /\ e.conv \in Conversations
      BY DEF Types, ScreenTypes, Fetches
    <3>3. s.got = stored[e.conv]
      BY <3>1, <3>2 DEF Fetches
    <3> QED
      BY <1>2, <3>2, <3>3
  <2>4. CASE Archive \/ Stop \/ Asks \/ FlushFrame \/ SyncApply \/ SyncFails
             \/ UNCHANGED vars
    BY <2>1, <2>4
    DEF Archive, Stop, Asks, Send, Edit, Repeat, Resume, Begin, FlushFrame,
        SyncApply, SyncFails, vars
  <2>5. ASSUME NEW c, OtherTab(c) \/ Archived(c) \/ ArchiveFails(c)
        PROVE  syncing' \subseteq syncing
    BY <2>5 DEF OtherTab, Archived, ArchiveFails
  <2>6. ASSUME NEW r, Serve(r) PROVE syncing' \subseteq syncing
    BY <2>6 DEF Serve
  <2>7. ASSUME NEW g, Proceed(g) \/ Stopping(g) \/ Break(g) \/ FetchFails(g)
                      \/ StopFetchFails(g)
        PROVE  syncing' \subseteq syncing
    BY <2>7
    DEF Proceed, Request, Prepare, Refuse, Register, Attach, Receive, ReceiveStart,
        ReceiveDelta, ReceiveClosing, StreamEnds, Answer, Apply, Finish, Stopping,
        StopCancel, StopAnswer, StopApply, StopFinish, Break, FetchFails,
        StopFetchFails
  <2> QED
    BY <2>1, <2>2, <2>3, <2>4, <2>5, <2>6, <2>7 DEF Next, User, Sync, Asks
<1> QED
  BY <1>1, <1>3, <1>4, NextParts DEF RowsWhole

(* A generation begins where its conversation is remembered to be: at 0,   *)
(* with no delta of a reply shown, or behind the deltas that are.          *)
LEMMA AsksOrderly ==
  ASSUME Types, Orderly, [Next]_vars, Asks
  PROVE  Remembered' /\ BufferOrdered' /\ ScreenOrdered'
<1>1. GoOn /\ Twice \subseteq Twice' /\ (Forgotten => Forgotten')
  BY FlowsGoOn, TwiceGrows
<1>2. /\ messages \in Rows /\ seqs \in [Conversations -> 0..MaxEvents]
      /\ Remembered /\ BufferOrdered /\ ScreenOrdered
  BY DEF Types, ScreenTypes, Orderly
<1>3. ASSUME NEW kind, NEW c, NEW place, NEW target, NEW kept, NEW pos,
             Begin(kind, c, place, target, kept, pos)
      PROVE  /\ current' \in DOMAIN flows' /\ UNCHANGED <<active, buffer>>
             /\ current' # 0
             /\ flows'[current'].conv = c /\ flows'[current'].pos = pos
             /\ flows'[current'].kept = kept
             /\ kind # "resume" /\ CutShort => Forgotten'
             /\ \A g \in DOMAIN flows' : g \in DOMAIN flows \/ g = current'
  <2>1. /\ Len(flows) \in Nat /\ DOMAIN flows = 1..Len(flows)
        /\ DOMAIN flows' = 1..Len(flows) + 1 /\ current' = Len(flows) + 1
        /\ flows'[current'] = Begun(kind, c, place, target, kept, pos)
    BY <1>3, BeginIs
  <2>2. /\ Begun(kind, c, place, target, kept, pos).conv = c
        /\ Begun(kind, c, place, target, kept, pos).pos = pos
        /\ Begun(kind, c, place, target, kept, pos).kept = kept
    BY DEF Begun
  <2>3. Begun(kind, c, place, target, kept, pos).cut = (kind # "resume" /\ CutShort)
    BY Zenon DEF Begun
  <2>4. current' \in DOMAIN flows' /\ current' # 0
        /\ \A g \in DOMAIN flows' : g \in DOMAIN flows \/ g = current'
    BY <2>1
  <2>5. kind # "resume" /\ CutShort => Forgotten'
    BY <2>1, <2>3, <2>4 DEF Forgotten
  <2>6. UNCHANGED <<active, buffer>>
    BY <1>3 DEF Begin
  <2> QED
    BY <2>1, <2>2, <2>4, <2>5, <2>6
<1>4. ASSUME KeptWhole, Whole(flows'[current'].kept, Twice')
      PROVE  KeptWhole'
  <2>1. ASSUME NEW g \in DOMAIN flows' PROVE Whole(flows'[g].kept, Twice')
    <3>1. CASE g \in DOMAIN flows
      <4>1. flows'[g].kept \in {flows[g].kept, <<>>}
        BY <1>1, <3>1 DEF GoOn, Later
      <4>2. Whole(flows[g].kept, Twice)
        BY <1>4, <3>1 DEF KeptWhole
      <4> QED
        BY <1>1, <4>1, <4>2, WholeIs, NoRowsWhole
    <3> QED
      BY <1>4, <3>1, Succession
  <2> QED
    BY <2>1, NextParts
<1>5. CASE Resume
  <2>1. /\ Begin("resume", active, 0, 0, <<>>, seqs[active])
        /\ UNCHANGED <<messages, seqs>>
        /\ ~(current # 0 /\ flows[current].conv = active)
    BY <1>5 DEF Resume, ResumeDue
  <2>2. Remembered'
    BY <1>3, <2>1 DEF Remembered
  <2>3. BufferOrdered'
    <3>1. \A b \in buffer : b.conv = active /\ b.conv \in Twice
      BY <1>2, <2>1 DEF BufferOrdered
    <3>2. \A b \in buffer' : b.conv = active' /\ b.conv \in Twice'
      BY <1>1, <1>3, <2>1, <3>1
    <3> QED
      BY <3>2 DEF BufferOrdered
  <2>4. ASSUME ~Forgotten' PROVE Shown(messages, Twice, seqs, buffer)' /\ KeptWhole'
    <3>1. Shown(messages, Twice, seqs, buffer) /\ KeptWhole
      BY <1>1, <1>2, <2>4 DEF ScreenOrdered
    <3>2. \A c \in Conversations : seqs[c] <= seqs[c]
      BY <1>2, BoundsAssumption
    <3>3. Shown(messages, Twice', seqs, buffer)
      BY <1>1, <1>2, <3>1, <3>2, ShownStays
    <3>4. KeptWhole'
      BY <1>3, <1>4, <2>1, <3>1, NoRowsWhole
    <3> QED
      BY <1>3, <2>1, <3>3, <3>4, NextParts
  <2> QED
    BY <2>2, <2>3, <2>4 DEF ScreenOrdered
<1>6. CASE ~Resume
  <2>1. PICK s \in Rows, m \in Replies : \E kind, target :
          /\ kind # "resume" /\ current = 0
          /\ ToSet(s) \subseteq ToSet(messages)
          /\ m.status = "streaming" /\ m.text = <<>>
          /\ Begin(kind, m.conv, m.id, target, MarkFailed(Append(s, m), m.id), 0)
          /\ messages' = Append(s, m)
          /\ seqs' = [seqs EXCEPT ![m.conv] = 0]
    BY <1>6, AsksAre
  <2>2. PICK kind, target :
          /\ kind # "resume" /\ current = 0
          /\ ToSet(s) \subseteq ToSet(messages)
          /\ m.status = "streaming" /\ m.text = <<>>
          /\ Begin(kind, m.conv, m.id, target, MarkFailed(Append(s, m), m.id), 0)
          /\ messages' = Append(s, m)
          /\ seqs' = [seqs EXCEPT ![m.conv] = 0]
    BY <2>1
  <2>3. /\ UNCHANGED <<active, buffer>>
        /\ flows'[current'].conv = m.conv /\ flows'[current'].pos = 0
        /\ flows'[current'].kept = MarkFailed(messages', m.id)
        /\ CutShort => Forgotten'
    BY <1>3, <2>2
  <2>4. Remembered'
    <3>1. seqs'[m.conv] = 0
      BY <1>2, <2>2 DEF Replies
    <3> QED
      BY <2>3, <3>1 DEF Remembered
  <2>5. BufferOrdered'
    <3>1. \A b \in buffer : b.conv = active /\ b.conv \in Twice
      BY <1>2, <2>2 DEF BufferOrdered
    <3>2. \A b \in buffer' : b.conv = active' /\ b.conv \in Twice'
      BY <1>1, <2>3, <3>1
    <3> QED
      BY <3>2 DEF BufferOrdered
  <2>6. ASSUME ~Forgotten' PROVE Shown(messages, Twice, seqs, buffer)' /\ KeptWhole'
    <3>1. Shown(messages, Twice, seqs, buffer) /\ KeptWhole /\ ~CutShort
      BY <1>1, <1>2, <2>3, <2>6 DEF ScreenOrdered
    <3>2. Whole(messages, Twice)
      BY <3>1 DEF Shown, Whole, CutShort
    <3>3. Whole(s, Twice)
      BY <2>2, <3>2 DEF Whole
    <3>4. messages' \in Rows /\ Whole(messages', Twice)
      BY <2>2, <3>3, AppendedRows
    <3>5. Whole(messages', Twice')
      BY <1>1, <3>4, WholeIs
    <3>6. Whole(MarkFailed(messages', m.id), Twice')
      BY <3>4, <3>5, MarkedTexts
    <3>7. KeptWhole'
      BY <1>4, <2>3, <3>1, <3>6
    <3>8. Shown(messages', Twice', seqs', buffer')
      BY <3>5, WholeIs
    <3> QED
      BY <3>7, <3>8, NextParts
  <2> QED
    BY <2>4, <2>5, <2>6 DEF ScreenOrdered
<1> QED
  BY <1>5, <1>6

(* A step that begins no generation and receives no event shows what it    *)
(* showed, what was buffered, or rows of the server.                       *)
LEMMA QuietOrderly ==
  ASSUME Types, Orderly, [Next]_vars, ~Asks, \A g \in DOMAIN flows : ~Receive(g),
         UNCHANGED seqs,
         buffer' = {} \/ UNCHANGED <<buffer, active, current>>,
         \/ messages' \in {messages, <<>>}
         \/ \E k : messages' = MarkFailed(messages, k)
         \/ messages' = Flushed /\ buffer' = {}
         \/ Forgotten \/ Whole(messages', Twice)
  PROVE  Remembered' /\ BufferOrdered' /\ ScreenOrdered'
<1>1. /\ Twice \subseteq Twice' /\ (Forgotten => Forgotten')
      /\ \A g \in DOMAIN flows :
           /\ g \in DOMAIN flows' /\ Later(flows'[g], flows[g])
           /\ flows'[g].pos = flows[g].pos
      /\ DOMAIN flows' = DOMAIN flows
  BY FlowsGoOn, TwiceGrows DEF GoOn
<1>2. /\ messages \in Rows /\ seqs \in [Conversations -> 0..MaxEvents]
      /\ Remembered /\ BufferOrdered /\ ScreenOrdered
  BY DEF Types, ScreenTypes, Orderly
<1>3. current' \in {current, 0}
  BY Succession
<1>4. Remembered'
  <2> SUFFICES ASSUME current' # 0, flows'[current'].pc \in Early
               PROVE  \/ flows'[current'].conv \in Twice'
                      \/ flows'[current'].pos = seqs'[flows'[current'].conv]
    BY DEF Remembered
  <2>1. current' = current /\ current # 0 /\ current \in DOMAIN flows
    BY <1>3, Elements
  <2>2. flows[current].pc \in Early /\ flows'[current].conv = flows[current].conv
        /\ flows'[current].pos = flows[current].pos
    BY <1>1, <2>1 DEF Later
  <2> QED
    BY <1>1, <1>2, <2>1, <2>2 DEF Remembered
<1>5. BufferOrdered'
  <2> SUFFICES ASSUME NEW b \in buffer'
               PROVE  /\ b.conv = active'
                      /\ \/ b.conv \in Twice'
                         \/ /\ current' # 0 /\ flows'[current'].conv = b.conv
                            /\ Ascending(b.text) /\ UpTo(b.text, seqs'[b.conv])
    BY DEF BufferOrdered, Ascending, UpTo
  <2>1. b \in buffer /\ UNCHANGED <<active, current>>
    OBVIOUS
  <2>2. /\ b.conv = active
        /\ \/ b.conv \in Twice
           \/ /\ current # 0 /\ flows[current].conv = b.conv
              /\ Ascending(b.text) /\ UpTo(b.text, seqs[b.conv])
    BY <1>2, <2>1 DEF BufferOrdered
  <2>3. current # 0 => flows'[current].conv = flows[current].conv
    BY <1>1, Elements DEF Later
  <2> QED
    BY <1>1, <2>1, <2>2, <2>3
<1>6. ASSUME ~Forgotten' PROVE Shown(messages, Twice, seqs, buffer)' /\ KeptWhole'
  <2>1. Shown(messages, Twice, seqs, buffer) /\ KeptWhole /\ ~Forgotten
    BY <1>1, <1>2, <1>6 DEF ScreenOrdered
  <2>2. ASSUME NEW g \in DOMAIN flows' PROVE Whole(flows'[g].kept, Twice')
    <3>1. flows'[g].kept \in {flows[g].kept, <<>>} /\ g \in DOMAIN flows
      BY <1>1 DEF Later
    <3>2. Whole(flows[g].kept, Twice)
      BY <2>1, <3>1 DEF KeptWhole
    <3> QED
      BY <1>1, <3>1, <3>2, WholeIs, NoRowsWhole
  <2>3. KeptWhole'
    BY <2>2, NextParts
  <2>4. ASSUME NEW ms \in Rows, NEW bs, Shown(ms, Twice, seqs, bs), buffer' \subseteq bs
        PROVE  Shown(ms, Twice', seqs', buffer')
    <3>1. \A c \in Conversations : seqs[c] <= seqs[c]
      BY <1>2, BoundsAssumption
    <3> QED
      BY <1>1, <1>2, <2>4, <3>1, ShownStays
  <2>5. ASSUME Whole(messages', Twice) PROVE Shown(messages', Twice', seqs', buffer')
    <3>1. Whole(messages', Twice')
      BY <1>1, <2>5, WholeIs
    <3> QED
      BY <3>1, WholeIs
  <2>6. CASE messages' = messages
    BY <1>2, <2>1, <2>3, <2>4, <2>6, NextParts
  <2>7. CASE messages' = <<>> \/ Whole(messages', Twice)
    BY <2>3, <2>5, <2>7, NoRowsWhole, NextParts
  <2>8. ASSUME NEW k, messages' = MarkFailed(messages, k)
        PROVE  Shown(messages', Twice', seqs', buffer')
    <3>1. messages' \in Rows /\ Shown(messages', Twice, seqs, buffer)
      BY <1>2, <2>1, <2>8, MarkFailedIs, MarkedTexts
    <3> QED
      BY <2>4, <3>1
  <2>9. CASE messages' = Flushed /\ buffer' = {}
    <3>1. Flushed \in Rows /\ Shown(Flushed, Twice, seqs, {})
      BY <1>2, <2>1, FlushedShown
    <3> QED
      BY <2>3, <2>4, <2>9, <3>1, NextParts
  <2> QED
    BY <2>1, <2>3, <2>6, <2>7, <2>8, <2>9, NextParts
<1> QED
  BY <1>4, <1>5, <1>6 DEF ScreenOrdered

(* An event moves the position of its flow and the number that is          *)
(* remembered for its conversation to the same event.                      *)
LEMMA ReceiveIs ==
  ASSUME Types, NEW g \in DOMAIN flows, Receive(g)
  PROVE  /\ HasEvent(g) /\ UNCHANGED <<active, current>>
         /\ seqs' = [seqs EXCEPT ![flows[g].conv] = Upcoming(g)]
         /\ DOMAIN flows' = DOMAIN flows
         /\ \A h \in DOMAIN flows :
              /\ flows'[h].conv = flows[h].conv /\ flows'[h].orphan = flows[h].orphan
              /\ flows'[h].pc = flows[h].pc /\ flows'[h].kept = flows[h].kept
              /\ flows'[h].cut = flows[h].cut
              /\ flows'[h].pos = IF h = g THEN Upcoming(g) ELSE flows[h].pos
         /\ Twice' = Twice /\ (Forgotten => Forgotten')
<1>1. /\ HasEvent(g) /\ UNCHANGED <<active, current>>
      /\ seqs' = [seqs EXCEPT ![flows[g].conv] = Upcoming(g)]
      /\ flows' \in {Learnt(g), [flows EXCEPT ![g].pos = @ + 1]}
  BY DEF Receive, ReceiveStart, ReceiveDelta, ReceiveClosing, Remember
<1>2. /\ DOMAIN flows' = DOMAIN flows
      /\ \A h \in DOMAIN flows :
           /\ flows'[h].conv = flows[h].conv /\ flows'[h].orphan = flows[h].orphan
           /\ flows'[h].pc = flows[h].pc /\ flows'[h].kept = flows[h].kept
           /\ flows'[h].cut = flows[h].cut
           /\ flows'[h].pos = IF h = g THEN Upcoming(g) ELSE flows[h].pos
  <2>1. CASE flows' = Learnt(g)
    BY <1>1, <2>1, LearntIs DEF Knows
  <2>2. CASE flows' = [flows EXCEPT ![g].pos = @ + 1]
    BY <2>2, Elements DEF Flows, Upcoming
  <2> QED
    BY <1>1, <2>1, <2>2
<1>3. Twice' = Twice /\ (Forgotten => Forgotten')
  BY <1>2 DEF Twice, ReadTwice, Forgotten
<1> QED
  BY <1>1, <1>2, <1>3

(* A stream that nobody reads a second time is the one of the active       *)
(* generation, and goes on behind what is remembered.                      *)
LEMMA InTurn ==
  ASSUME Types, Outlived, Remembered, NEW g \in DOMAIN flows, HasEvent(g),
         flows[g].conv \notin Twice
  PROVE  current = g /\ current # 0 /\ seqs[flows[g].conv] = Upcoming(g) - 1
<1>1. /\ flows[g].conv \in Conversations /\ flows[g].pos \in Nat
      /\ flows[g].pc = "stream"
  BY EventIs DEF HasEvent
<1>2. ~flows[g].orphan
  BY <1>1 DEF Twice, ReadTwice
<1>3. current = g
  BY <1>1, <1>2 DEF Outlived, Left
<1>4. g # 0
  BY Elements
<1>5. flows[g].pos = seqs[flows[g].conv]
  BY <1>1, <1>3, <1>4 DEF Remembered, Early
<1> QED
  BY <1>1, <1>3, <1>4, <1>5 DEF Upcoming

(* Events in turn lengthen the texts in order.                             *)
LEMMA ReceiveOrderly ==
  ASSUME Types, Outlived, Orderly, NEW g \in DOMAIN flows, Receive(g)
  PROVE  Remembered' /\ BufferOrdered' /\ ScreenOrdered'
<1> DEFINE c == flows[g].conv
           n == Upcoming(g)
<1>1. /\ HasEvent(g) /\ UNCHANGED <<active, current>>
      /\ seqs' = [seqs EXCEPT ![c] = n]
      /\ DOMAIN flows' = DOMAIN flows
      /\ \A h \in DOMAIN flows :
           /\ flows'[h].conv = flows[h].conv
           /\ flows'[h].pc = flows[h].pc /\ flows'[h].kept = flows[h].kept
           /\ flows'[h].pos = IF h = g THEN n ELSE flows[h].pos
      /\ Twice' = Twice /\ (Forgotten => Forgotten')
  BY ReceiveIs
<1>2. /\ c \in Conversations /\ n \in 1..MaxEvents /\ MaxEvents \in Nat
      /\ n \in Nat /\ n >= 1
      /\ ~IsClosing(g) => n < MaxEvents
      /\ runs[flows[g].run].key \in Int \ {0}
      /\ IsClosing(g) => flows[g].pos \in 1..MaxEvents /\ flows[g].pos < MaxEvents
  BY <1>1, EventIs, BoundsAssumption DEF Runs
<1>3. c \notin Twice => current = g /\ current # 0 /\ seqs[c] = n - 1
  BY <1>1, InTurn DEF Orderly
<1> HIDE DEF c, n
<1>4. /\ messages \in Rows /\ Flushed \in Rows
      /\ seqs \in [Conversations -> 0..MaxEvents]
      /\ seqs' \in [Conversations -> 0..MaxEvents] /\ seqs'[c] = n
      /\ \A d \in Conversations : seqs[d] \in Int /\ seqs'[d] \in Int
      /\ \A d \in Conversations : d # c => seqs'[d] = seqs[d]
      /\ \A d \in Conversations : d \in Twice \/ seqs[d] <= seqs'[d]
  <2>1. /\ messages \in Rows /\ Flushed \in Rows
        /\ seqs \in [Conversations -> 0..MaxEvents]
    BY FlushedIs DEF Types, ScreenTypes
  <2>2. /\ seqs' \in [Conversations -> 0..MaxEvents] /\ seqs'[c] = n
        /\ \A d \in Conversations : d # c => seqs'[d] = seqs[d]
    BY <1>1, <1>2, <2>1
  <2>3. \A d \in Conversations : seqs[d] \in Int /\ seqs'[d] \in Int
    BY <1>2, <2>1, <2>2
  <2>4. ASSUME NEW d \in Conversations, d \notin Twice PROVE seqs[d] <= seqs'[d]
    BY <1>2, <1>3, <2>2, <2>3, <2>4
  <2> QED
    BY <2>1, <2>2, <2>3, <2>4
<1>5. Remembered /\ BufferOrdered /\ ScreenOrdered
  BY DEF Orderly
<1>6. Remembered'
  <2> SUFFICES ASSUME current' # 0, flows'[current'].pc \in Early
               PROVE  \/ flows'[current'].conv \in Twice'
                      \/ flows'[current'].pos = seqs'[flows'[current'].conv]
    BY DEF Remembered
  <2>1. /\ current' = current /\ current # 0 /\ current \in DOMAIN flows
        /\ flows[current].pc \in Early
        /\ flows'[current].conv = flows[current].conv
        /\ flows[current].conv \in Conversations
    BY <1>1, Elements DEF Flows
  <2>2. CASE current = g
    BY <1>1, <1>4, <2>1, <2>2 DEF c
  <2>3. CASE current # g
    <3>1. flows'[current].pos = flows[current].pos
      BY <1>1, <2>1, <2>3
    <3>2. flows[current].conv \in Twice \/ flows[current].conv # c
      BY <1>3, <2>3
    <3> QED
      BY <1>1, <1>4, <1>5, <2>1, <3>1, <3>2 DEF Remembered
  <2> QED
    BY <2>2, <2>3
<1>7. current # 0 => flows'[current].conv = flows[current].conv
  BY <1>1, Elements
<1>8. \A b \in buffer : b \in Buffers /\ b.text \in Texts /\ b.conv \in Conversations
  BY DEF Types, ScreenTypes, Buffers
<1>9. ASSUME buffer' \subseteq buffer PROVE BufferOrdered'
  <2> SUFFICES ASSUME NEW b \in buffer'
               PROVE  /\ b.conv = active'
                      /\ \/ b.conv \in Twice'
                         \/ /\ current' # 0 /\ flows'[current'].conv = b.conv
                            /\ Ascending(b.text) /\ UpTo(b.text, seqs'[b.conv])
    BY DEF BufferOrdered, Ascending, UpTo
  <2>1. /\ b.conv = active /\ b.text \in Texts /\ b.conv \in Conversations
        /\ \/ b.conv \in Twice
           \/ /\ current # 0 /\ flows[current].conv = b.conv
              /\ Ascending(b.text) /\ UpTo(b.text, seqs[b.conv])
    BY <1>5, <1>8, <1>9 DEF BufferOrdered
  <2>2. b.conv \notin Twice /\ UpTo(b.text, seqs[b.conv]) => UpTo(b.text, seqs'[b.conv])
    BY <1>4, <2>1, UpToMore
  <2> QED
    BY <1>1, <1>7, <2>1, <2>2
<1>10. ASSUME NEW ms \in Rows, NEW bs, Shown(ms, Twice, seqs, bs), buffer' \subseteq bs
       PROVE  Shown(ms, Twice', seqs', buffer')
  BY <1>1, <1>4, <1>10, ShownStays
<1>11. ASSUME Forgotten \/ Shown(messages', Twice', seqs', buffer') PROVE ScreenOrdered'
  <2>1. ASSUME ~Forgotten' PROVE Shown(messages, Twice, seqs, buffer)' /\ KeptWhole'
    <3>1. KeptWhole /\ Shown(messages', Twice', seqs', buffer')
      BY <1>1, <1>5, <1>11, <2>1 DEF ScreenOrdered
    <3>2. \A h \in DOMAIN flows' : Whole(flows'[h].kept, Twice')
      BY <1>1, <3>1 DEF KeptWhole
    <3> QED
      BY <3>1, <3>2, NextParts
  <2> QED
    BY <2>1 DEF ScreenOrdered
<1>12. ASSUME NEW ms \in Rows, NEW bs, Shown(ms, Twice, seqs, bs), buffer' \subseteq bs,
              NEW status \in Statuses, NEW text \in Texts, Ascending(text),
              status = "streaming" => text = <<>>,
              ShowReply(g, ms, status, text), InView(c)
       PROVE  Shown(messages', Twice', seqs', buffer')
  <2> DEFINE m == Reply(c, runs[flows[g].run].key, status, text)
  <2>1. m \in Replies /\ m.conv = c /\ m.status = status /\ m.text = text
    BY <1>2, ReplyType DEF Reply
  <2>2. \E place, real : messages' = Upsert(ms, m, place, real)
    BY <1>12 DEF ShowReply, c
  <2> HIDE DEF m
  <2>3. \A i \in DOMAIN messages' : messages'[i] = m \/ messages'[i] \in ToSet(ms)
    BY <2>1, <2>2, UpsertIs
  <2>4. Behind(m, seqs', buffer')
    BY <1>12, <2>1, EmptyText DEF Behind
  <2>5. Shown(ms, Twice', seqs', buffer')
    BY <1>10, <1>12
  <2> QED
    BY <1>12, <2>1, <2>3, <2>4, <2>5, ShownParts
<1>13. CASE ~InView(c)
  <2>1. UNCHANGED <<messages, buffer>>
    BY <1>13
    DEF Receive, ReceiveStart, ReceiveDelta, ReceiveClosing, ShowReply, c
  <2>2. Forgotten \/ Shown(messages', Twice', seqs', buffer')
    BY <1>4, <1>5, <1>10, <2>1 DEF ScreenOrdered
  <2> QED
    BY <1>6, <1>9, <1>11, <2>1, <2>2
<1>14. CASE ReceiveStart(g) /\ InView(c)
  <2>1. ShowReply(g, messages, "streaming", <<>>) /\ buffer' = buffer
    BY <1>14 DEF ReceiveStart
  <2>2. Forgotten \/ Shown(messages', Twice', seqs', buffer')
    BY <1>4, <1>5, <1>12, <1>14, <2>1, EmptyText DEF ScreenOrdered, Statuses
  <2> QED
    BY <1>6, <1>9, <1>11, <2>1, <2>2
<1>15. CASE ReceiveClosing(g) /\ InView(c)
  <2>1. /\ ShowReply(g, Flushed, "settled", Deltas(flows[g].pos)) /\ buffer' = {}
        /\ IsClosing(g)
    BY <1>15 DEF ReceiveClosing, c
  <2>2. Deltas(flows[g].pos) \in Texts /\ Ascending(Deltas(flows[g].pos))
    BY <1>2, <2>1, DeltasText, DeltasAscending
  <2>3. Forgotten \/ Shown(Flushed, Twice, seqs, {})
    BY <1>5, FlushedShown DEF ScreenOrdered
  <2>4. Forgotten \/ Shown(messages', Twice', seqs', buffer')
    BY <1>4, <1>12, <1>15, <2>1, <2>2, <2>3 DEF Statuses
  <2> QED
    BY <1>6, <1>9, <1>11, <2>1, <2>4
<1>16. CASE ReceiveDelta(g) /\ InView(c)
  <2> DEFINE mine == {b \in buffer : b.conv = c /\ b.place = flows[g].place}
             text == IF mine = {} THEN <<>> ELSE (CHOOSE b \in mine : TRUE).text
             new == [conv |-> c, place |-> flows[g].place, text |-> Append(text, n)]
             ms == IF mine = {} THEN Flushed ELSE messages
  <2>1. /\ n # 1 /\ ~IsClosing(g) /\ active = c
        /\ buffer' = {new} /\ messages' = ms
    BY <1>16 DEF ReceiveDelta, InView, c, n
  <2>2. new.conv = c /\ new.text = Append(text, n)
    OBVIOUS
  <2>3. /\ text \in Texts
        /\ c \in Twice \/ (Ascending(text) /\ UpTo(text, n - 1))
        /\ mine # {} => \E b \in buffer : text = b.text /\ b.conv = c
    <3>1. CASE mine = {}
      BY <3>1, EmptyText
    <3>2. CASE mine # {}
      <4>1. PICK b \in buffer : text = b.text /\ b.conv = c
        BY <3>2
      <4> HIDE DEF text
      <4>2. b.text \in Texts /\ (c \in Twice \/ (Ascending(b.text) /\ UpTo(b.text, seqs[c])))
        BY <1>5, <1>8, <4>1 DEF BufferOrdered
      <4> QED
        BY <1>3, <4>1, <4>2
    <3> QED
      BY <3>1, <3>2
  <2>4. ms \in Rows
    BY <1>4
  <2>5. Forgotten \/
          /\ Shown(ms, Twice, seqs, {})
          /\ \A m \in ToSet(ms) : m.status = "streaming" /\ m.conv = c /\ c \notin Twice
               => Ahead(m.text, text)
    <3>1. CASE mine = {}
      <4>1. Forgotten \/ Shown(Flushed, Twice, seqs, {})
        BY <1>5, FlushedShown DEF ScreenOrdered
      <4> QED
        BY <3>1, <4>1, EmptyText
    <3>2. CASE mine # {}
      <4>1. PICK b \in buffer : text = b.text /\ b.conv = c
        BY <2>3, <3>2
      <4>2. Forgotten \/ Shown(messages, Twice, seqs, buffer)
        BY <1>5 DEF ScreenOrdered
      <4> HIDE DEF text
      <4>3. Shown(messages, Twice, seqs, buffer) =>
              \A m \in ToSet(messages) :
                m.status = "streaming" /\ m.conv = c /\ c \notin Twice
                  => Ahead(m.text, text)
        BY <4>1 DEF Shown, Behind
      <4>4. Shown(messages, Twice, seqs, buffer) => Shown(messages, Twice, seqs, {})
        BY DEF Shown, Behind
      <4> QED
        BY <3>2, <4>2, <4>3, <4>4
    <3> QED
      BY <3>1, <3>2
  <2> HIDE DEF text, mine, ms, new
  <2>6. n >= 2 /\ n < MaxEvents
    BY <1>2, <2>1
  <2>7. c \notin Twice =>
          /\ Ascending(Append(text, n)) /\ UpTo(Append(text, n), n)
          /\ \A s \in Texts : Ahead(s, text) /\ UpTo(s, n - 1) => Ahead(s, Append(text, n))
    BY <1>2, <2>3, <2>6, NextDelta
  <2>8. BufferOrdered'
    <3> SUFFICES ASSUME NEW b \in buffer'
                 PROVE  /\ b.conv = active'
                        /\ \/ b.conv \in Twice'
                           \/ /\ current' # 0 /\ flows'[current'].conv = b.conv
                              /\ Ascending(b.text) /\ UpTo(b.text, seqs'[b.conv])
      BY DEF BufferOrdered, Ascending, UpTo
    <3>1. b = new
      BY <2>1
    <3>2. c \notin Twice => current' # 0 /\ flows'[current'].conv = c
      BY <1>1, <1>3, <1>7 DEF c
    <3> QED
      BY <1>1, <1>4, <2>1, <2>2, <2>7, <3>1, <3>2
  <2>9. Forgotten \/ Shown(messages', Twice', seqs', buffer')
    <3> SUFFICES ASSUME ~Forgotten, NEW m \in ToSet(ms), m.conv \notin Twice
                 PROVE  Ascending(m.text) /\ Behind(m, seqs', {new})
      BY <1>1, <2>1 DEF Shown
    <3>1. /\ m \in Replies /\ m.conv \in Conversations /\ m.text \in Texts
      <4>1. ToSet(ms) \subseteq Replies
        BY <2>4, ToSetFinite DEF Rows
      <4> QED
        BY <4>1 DEF Replies
    <3>2. /\ Ascending(m.text)
          /\ m.status = "streaming" => UpTo(m.text, seqs[m.conv])
          /\ m.status = "streaming" /\ m.conv = c => Ahead(m.text, text)
      BY <2>5 DEF Shown, Behind
    <3>3. UpTo(m.text, seqs[m.conv]) => UpTo(m.text, seqs'[m.conv])
      BY <1>4, <3>1, UpToMore
    <3>4. m.status = "streaming" /\ m.conv = c => Ahead(m.text, Append(text, n))
      BY <1>3, <2>7, <3>1, <3>2
    <3> QED
      BY <2>2, <3>2, <3>3, <3>4 DEF Behind
  <2> QED
    BY <1>6, <1>11, <2>8, <2>9
<1> QED
  BY <1>13, <1>14, <1>15, <1>16 DEF Receive

(* Every step leaves rows and texts as they ought to be.                   *)
LEMMA NextOrderly == Types /\ Outlived /\ Orderly /\ [Next]_vars => Orderly'
<1> SUFFICES ASSUME Types, Outlived, Orderly, [Next]_vars PROVE Orderly'
  OBVIOUS
<1> DEFINE Done == Remembered' /\ BufferOrdered' /\ ScreenOrdered'
<1>1. RowsWhole'
  BY NextRowsWhole DEF Orderly
<1>2. /\ \A s \in syncing : Whole(s.got, {})
      /\ \A g \in DOMAIN flows : Whole(flows[g].got, {}) /\ Whole(flows[g].answer, {})
      /\ Forgotten \/ \A g \in DOMAIN flows : Whole(flows[g].kept, Twice)
  BY DEF Orderly, RowsWhole, SyncWhole, AnswersWhole, ScreenOrdered, KeptWhole
<1> SUFFICES Done
  BY <1>1 DEF Orderly
<1>3. CASE Asks
  BY <1>3, AsksOrderly
<1>4. CASE \E g \in DOMAIN flows : Receive(g)
  BY <1>4, ReceiveOrderly
<1>5. CASE ~Asks /\ \A g \in DOMAIN flows : ~Receive(g)
  <2>1. ASSUME UNCHANGED seqs,
               buffer' = {} \/ UNCHANGED <<buffer, active, current>>,
               \/ messages' \in {messages, <<>>}
               \/ \E k : messages' = MarkFailed(messages, k)
               \/ messages' = Flushed /\ buffer' = {}
               \/ Forgotten \/ Whole(messages', Twice)
        PROVE  Done
    BY <1>5, <2>1, QuietOrderly
  <2> HIDE DEF Done
  <2>2. ASSUME User \/ FlushFrame \/ UNCHANGED vars PROVE Done
    <3>1. CASE UNCHANGED vars
      BY <2>1, <3>1 DEF vars
    <3>2. ASSUME NEW c, Navigate(c) PROVE Done
      BY <2>1, <3>2 DEF Navigate
    <3>3. CASE Archive
      BY <2>1, <3>3 DEF Archive
    <3>4. CASE Stop
      BY <2>1, <3>4 DEF Stop
    <3>5. CASE FlushFrame
      BY <2>1, <3>5 DEF FlushFrame
    <3> QED
      BY <1>5, <2>2, <3>1, <3>2, <3>3, <3>4, <3>5 DEF User, Asks
  <2>3. ASSUME Sync \/ SyncFails PROVE Done
    <3>1. CASE SyncAnswer \/ SyncFails
      BY <2>1, <3>1 DEF SyncAnswer, SyncFails
    <3>2. CASE SyncApply
      <4>1. Whole(messages', {})
        BY <1>2, <3>2 DEF SyncApply
      <4>2. Whole(messages', Twice)
        BY <4>1, WholeIs
      <4> QED
        BY <2>1, <3>2, <4>2 DEF SyncApply
    <3> QED
      BY <2>3, <3>1, <3>2 DEF Sync
  <2>4. ASSUME NEW c, OtherTab(c) \/ Archived(c) \/ ArchiveFails(c) PROVE Done
    BY <2>1, <2>4 DEF OtherTab, Archived, ArchiveFails
  <2>5. ASSUME NEW r, Serve(r) PROVE Done
    BY <2>1, <2>5 DEF Serve
  <2>6. ASSUME NEW g \in DOMAIN flows, Request(g) \/ StreamEnds(g) \/ Break(g)
        PROVE  Done
    <3>1. UNCHANGED <<seqs, buffer, active, current>>
      BY <2>6 DEF Request, Prepare, Refuse, Register, Attach, StreamEnds, Break
    <3>2. messages' = messages \/ messages' = MarkFailed(messages, flows[g].place)
      BY <2>6
      DEF Request, Prepare, Refuse, Register, Attach, StreamEnds, Break, Failed
    <3> QED
      BY <2>1, <3>1, <3>2
  <2>7. ASSUME NEW g \in DOMAIN flows, Answer(g) \/ FetchFails(g) \/ StopCancel(g)
                                       \/ StopAnswer(g) \/ StopFetchFails(g)
        PROVE  Done
    BY <2>1, <2>7 DEF Answer, FetchFails, StopCancel, StopAnswer, StopFetchFails
  <2>8. ASSUME NEW g \in DOMAIN flows, Finish(g) \/ StopFinish(g) PROVE Done
    BY <2>1, <2>8 DEF Finish, StopFinish, Finalize
  <2>9. ASSUME NEW g \in DOMAIN flows, Apply(g) PROVE Done
    <3>1. /\ UNCHANGED <<seqs, buffer, active, current>>
          /\ messages' \in {messages, flows[g].got, Merge(flows[g].got, flows[g].kept)}
      BY <2>9 DEF Apply, ShowRows
    <3>2. Whole(flows[g].got, Twice)
      BY <1>2, WholeIs
    <3>3. Forgotten \/ Whole(Merge(flows[g].got, flows[g].kept), Twice)
      <4>1. flows[g].got \in Rows /\ flows[g].kept \in Rows
        BY Elements DEF Flows
      <4>2. \A x \in ToSet(Merge(flows[g].got, flows[g].kept)) :
              x \in ToSet(flows[g].kept) \cup ToSet(flows[g].got)
        <5>1. \A i \in DOMAIN Merge(flows[g].got, flows[g].kept) :
                Merge(flows[g].got, flows[g].kept)[i]
                  \in ToSet(flows[g].kept) \cup ToSet(flows[g].got)
          BY <4>1, MergeIs
        <5> QED
          BY <5>1 DEF ToSet
      <4> QED
        BY <1>2, <3>2, <4>2 DEF Whole
    <3> QED
      BY <2>1, <3>1, <3>2, <3>3
  <2>10. ASSUME NEW g \in DOMAIN flows, StopApply(g) PROVE Done
    <3>1. /\ UNCHANGED <<seqs, buffer, active, current>>
          /\ messages' \in {messages, flows[g].answer}
      BY <2>10 DEF StopApply, ShowRows
    <3>2. Whole(flows[g].answer, Twice)
      BY <1>2, WholeIs
    <3> QED
      BY <2>1, <3>1, <3>2
  <2>11. Resume => Asks
    BY DEF Asks
  <2> QED
    BY <1>5, <2>2, <2>3, <2>4, <2>5, <2>6, <2>7, <2>8, <2>9, <2>10, <2>11
    DEF Next, Proceed, Stopping
<1> QED
  BY <1>3, <1>4, <1>5

(* No rows, no texts.                                                      *)
LEMMA InitOrderly == Init => Orderly
<1> SUFFICES ASSUME Init PROVE Orderly
  OBVIOUS
<1>1. /\ \A c \in Conversations : stored[c] = <<>>
      /\ syncing = {} /\ DOMAIN flows = {} /\ messages = <<>> /\ current = 0
      /\ buffer = {}
  BY DEF Init
<1>2. RowsWhole
  BY <1>1, NoRowsWhole DEF RowsWhole, StoredWhole, SyncWhole, AnswersWhole
<1>3. Shown(messages, Twice, seqs, buffer) /\ KeptWhole
  BY <1>1, NoRowsWhole, WholeIs DEF KeptWhole
<1> QED
  BY <1>1, <1>2, <1>3 DEF Orderly, Remembered, BufferOrdered, ScreenOrdered

(* THEOREM: the text of a reply on the screen holds no delta twice and     *)
(* none before an earlier one, however often its stream is left, resumed   *)
(* by the remembered sequence number, stopped or read over, unless two     *)
(* streams of its conversation are open or the number was forgotten while  *)
(* a reply that was read in part streamed on the screen                    *)
(* (syncStreamEventSequence, flushBufferedMessageDelta, upsertMessage).    *)
THEOREM TextsInOrder == Spec => []InOrder
<1>1. Init => Outlived /\ Orderly
  BY InitOrderly DEF Init, Outlived
<1>2. Types /\ Outlived /\ Orderly /\ [Next]_vars => (Outlived /\ Orderly)'
  BY NextOutlived, NextOrderly
<1>3. Types /\ Orderly => InOrder
  BY Elements DEF Orderly, ScreenOrdered, Shown, InOrder, Twice, Replies
<1> QED
  BY <1>1, <1>2, <1>3, TypesInvariance, PTL DEF Spec

-----------------------------------------------------------------------------
(* What the user reads live. *)

(* A generation that was refused or began anew has read nothing.           *)
AskedAtZero ==
  \A g \in DOMAIN flows :
    flows[g].kind # "resume" /\ flows[g].pc = "ask" => flows[g].pos = 0

(* The active generation began its reply, and nobody stopped, left or      *)
(* overtook it.                                                            *)
Live ==
  /\ current # 0 /\ Overtakings
  /\ flows[current].kind # "resume" /\ flows[current].stop = "none"
  /\ flows[current].pc \in Early /\ ~flows[current].away

(* The reply k is among the messages as it ended.                          *)
Ended(ms, k) == \E i \in DOMAIN ms : ms[i].id = k /\ ms[i].status = "settled"

(* One message takes the deltas of the flow f, whose reply is k; with the  *)
(* text t behind it, it is what f received.                                *)
Takes(ms, f, k, t) ==
  \E i \in DOMAIN ms :
    /\ ms[i].id = k /\ ms[i].conv = f.conv /\ ms[i].status = "streaming"
    /\ ms[i].text \o t = Deltas(f.pos)
    /\ \A j \in DOMAIN ms : Same(ms[j], f.conv, f.place, {k}) => j = i

(* LiveTextComplete with what it takes to stay so: the generation knows    *)
(* its reply, and what is buffered is of this reply.                       *)
Follows(ms, bs, f, k) ==
  IF f.pos = 0 THEN bs = {}
  ELSE \/ Ended(ms, k)
       \/ /\ f.real = {k}
          /\ \A b \in bs : b.conv = f.conv /\ b.place = f.place
          /\ Takes(ms, f, k, IF bs = {} THEN <<>> ELSE (CHOOSE b \in bs : TRUE).text)

LiveText ==
  Live => Follows(messages, buffer, flows[current], runs[flows[current].run].key)

(* What the invariant says of the next state.                              *)
LEMMA LiveTextNext ==
  LiveText' <=>
    (Live' => Follows(messages', buffer', flows'[current'], runs'[flows'[current'].run].key))
BY DEF LiveText, Follows, Ended, Takes, Same, Deltas

(* A text with nothing behind it, and with one more delta.                 *)
LEMMA OneMore ==
  ASSUME NEW s \in Texts, NEW t \in Texts, NEW n \in 2..(MaxEvents - 1)
  PROVE  s \o <<>> = s /\ s \o Append(t, n) = Append(s \o t, n)
<1> DEFINE E == 2..(MaxEvents - 1)
<1>1. s \in Seq(E) /\ t \in Seq(E) /\ n \in E
  BY DEF Texts
<1> HIDE DEF E
<1>2. s \o <<>> = s /\ s \o t \in Seq(E)
  BY <1>1, ConcatEmptySeq, ConcatProperties
<1>3. Append(t, n) = t \o <<n>> /\ Append(s \o t, n) = (s \o t) \o <<n>>
  BY <1>1, <1>2, AppendIsConcat
<1>4. <<n>> \in Seq(E)
  BY <1>1
<1>5. (s \o t) \o <<n>> = s \o (t \o <<n>>)
  BY <1>1, <1>4, ConcatAssociative
<1> QED
  BY <1>2, <1>3, <1>5

(* The next event of a run brings its next delta.                          *)
LEMMA DeltasGrow ==
  /\ Deltas(1) = <<>>
  /\ \A n \in 1..(MaxEvents - 1) : Append(Deltas(n), n + 1) = Deltas(n + 1)
<1>1. Deltas(1) = <<>>
  BY DEF Deltas
<1>2. ASSUME NEW n \in 1..(MaxEvents - 1)
      PROVE  Append(Deltas(n), n + 1) = Deltas(n + 1)
  <2>1. n \in Nat /\ n - 1 \in Nat /\ n >= 1
    BY BoundsAssumption
  <2>2. Deltas(n) \in [1..(n - 1) -> Nat] /\ Deltas(n) \in Seq(Nat) /\ Len(Deltas(n)) = n - 1
        /\ \A i \in 1..(n - 1) : Deltas(n)[i] = i + 1
    BY <2>1 DEF Deltas
  <2> DEFINE s == Append(Deltas(n), n + 1)
  <2>3. /\ s \in Seq(Nat) /\ Len(s) = n
        /\ \A i \in 1..(n - 1) : s[i] = i + 1
        /\ s[n] = n + 1
    <3>1. n + 1 \in Nat /\ n - 1 + 1 = n
      BY <2>1
    <3> HIDE DEF s
    <3>2. /\ s \in Seq(Nat) /\ Len(s) = Len(Deltas(n)) + 1
          /\ \A i \in 1..Len(Deltas(n)) : s[i] = Deltas(n)[i]
          /\ s[Len(Deltas(n)) + 1] = n + 1
      BY <2>2, <3>1, AppendProperties DEF s
    <3> QED
      BY <2>2, <3>1, <3>2
  <2> HIDE DEF s
  <2>4. s = [i \in 1..n |-> s[i]]
    BY <2>3, LenProperties
  <2>5. \A i \in 1..n : s[i] = i + 1
    <3>1. \A i \in 1..n : i \in 1..(n - 1) \/ i = n
      BY <2>1
    <3> QED
      BY <2>3, <3>1
  <2>6. Deltas(n + 1) = [i \in 1..n |-> i + 1]
    <3>1. n + 1 - 1 = n
      BY <2>1
    <3> QED
      BY <3>1 DEF Deltas
  <2> QED
    BY <2>4, <2>5, <2>6 DEF s
<1> QED
  BY <1>1, <1>2

(* Requests ask before they read.                                          *)
LEMMA NextAskedAtZero == Types /\ AskedAtZero /\ [Next]_vars => AskedAtZero'
<1> SUFFICES ASSUME Types, AskedAtZero, [Next]_vars, NEW g \in DOMAIN flows',
                    flows'[g].kind # "resume", flows'[g].pc = "ask"
             PROVE  flows'[g].pos = 0
  BY DEF AskedAtZero
<1>1. CASE g \in DOMAIN flows
  <2>1. Later(flows'[g], flows[g]) /\ (flows'[g].pos = flows[g].pos \/ Receive(g))
    BY <1>1, FlowsGoOn DEF GoOn
  <2>2. flows[g].pc = "ask" /\ flows[g].kind # "resume"
    BY <2>1 DEF Later
  <2>3. ~Receive(g)
    BY <2>2 DEF Receive, ReceiveStart, ReceiveDelta, ReceiveClosing, HasEvent
  <2> QED
    BY <1>1, <2>1, <2>2, <2>3 DEF AskedAtZero
<1>2. CASE g \notin DOMAIN flows
  <2>1. Asks /\ g = current'
    BY <1>2, FlowsGoOn, Succession DEF GoOn
  <2>2. PICK kind, c, place, target, kept, pos :
          /\ Begin(kind, c, place, target, kept, pos)
          /\ kind = "resume" \/ pos = 0
    BY <2>1 DEF Asks, Send, Edit, Repeat, Resume
  <2>3. flows'[g] = Begun(kind, c, place, target, kept, pos)
    BY <2>1, <2>2, BeginIs
  <2> QED
    BY <2>2, <2>3 DEF Begun
<1> QED
  BY <1>1, <1>2

(* A run writes one reply.                                                 *)
LEMMA KeysKept ==
  ASSUME Types, [Next]_vars, NEW r \in DOMAIN runs
  PROVE  runs'[r].key = runs[r].key
<1>1. runs[r] \in Runs /\ Len(runs) \in Nat /\ DOMAIN runs = 1..Len(runs)
  BY Elements
<1>2. CASE UNCHANGED runs
  BY <1>2
<1>3. ASSUME NEW c, NEW k, NEW phase, NewRun(c, k, phase)
      PROVE  runs'[r].key = runs[r].key
  <2> DEFINE new == [conv |-> c, key |-> k, phase |-> phase, seq |-> 0]
  <2>1. runs' = Append(runs, new) /\ runs \in Seq(Runs \cup {new}) /\ new \in Runs \cup {new}
    <3>1. runs \in Seq(Runs)
      BY DEF Types, ServerTypes
    <3>2. runs \in Seq(Runs \cup {new})
      BY <3>1, SeqMonotonic
    <3> QED
      BY <1>3, <3>2 DEF NewRun
  <2> HIDE DEF new
  <2>2. runs'[r] = runs[r]
    BY <1>1, <2>1, AppendProperties
  <2> QED
    BY <2>2
<1>4. ASSUME NEW q \in DOMAIN runs, Serve(q) PROVE runs'[r].key = runs[r].key
  <2>1. CASE Publish(q)
    BY <1>1, <2>1 DEF Publish, Runs
  <2>2. CASE SettleReply(q)
    BY <1>1, <2>2 DEF SettleReply, Runs
  <2>3. CASE CloseRun(q)
    BY <1>1, <2>3 DEF CloseRun, Runs
  <2> QED
    BY <1>4, <2>1, <2>2, <2>3 DEF Serve
<1>5. ASSUME NEW g \in DOMAIN flows, Register(g) PROVE runs'[r].key = runs[r].key
  <2>1. \E q, phase : runs' = [runs EXCEPT ![q].phase = phase]
    BY <1>5 DEF Register
  <2> QED
    BY <1>1, <2>1 DEF Runs
<1>6. ASSUME NEW c, OtherTab(c) PROVE runs'[r].key = runs[r].key
  BY <1>3, <1>6 DEF OtherTab
<1>7. ASSUME NEW g, Prepare(g) PROVE runs'[r].key = runs[r].key
  BY <1>3, <1>7 DEF Prepare
<1>8. CASE User \/ Resume \/ FlushFrame \/ Sync \/ SyncFails \/ UNCHANGED vars
  BY <1>2, <1>8
  DEF User, Navigate, Archive, Send, Edit, Repeat, Resume, Begin, Stop, FlushFrame,
      Sync, SyncAnswer, SyncApply, SyncFails, vars, serverVars
<1>9. ASSUME NEW c, Archived(c) \/ ArchiveFails(c) PROVE runs'[r].key = runs[r].key
  BY <1>2, <1>9 DEF Archived, ArchiveFails, serverVars
<1>10. ASSUME NEW g, Refuse(g) \/ Attach(g) \/ Receive(g) \/ StreamEnds(g) \/ Answer(g)
                     \/ Apply(g) \/ Finish(g) \/ Break(g) \/ FetchFails(g)
       PROVE  runs'[r].key = runs[r].key
  BY <1>2, <1>10
  DEF Refuse, Attach, Receive, ReceiveStart, ReceiveDelta, ReceiveClosing, StreamEnds,
      Answer, Apply, Finish, Break, FetchFails, serverVars
<1>11. ASSUME NEW g, Stopping(g) \/ StopFetchFails(g) PROVE runs'[r].key = runs[r].key
  BY <1>2, <1>11
  DEF Stopping, StopCancel, StopAnswer, StopApply, StopFinish, StopFetchFails, serverVars
<1> QED
  BY <1>4, <1>5, <1>6, <1>7, <1>8, <1>9, <1>10, <1>11 DEF Next, Proceed, Request

(* The active generation learns the key of its reply from its events.      *)
LEMMA LearntKey ==
  ASSUME Types, NEW g \in DOMAIN flows, HasEvent(g), current = g, current # 0
  PROVE  Learnt(g)[g].real = {runs[flows[g].run].key}
<1> DEFINE key == runs[flows[g].run].key
           moved == [flows EXCEPT ![g].pos = @ + 1]
<1>1. flows[g] \in Flows
  BY Elements
<1>2. Learnt(g) = [moved EXCEPT ![g].real = {key}]
  BY DEF Learnt
<1>3. moved[g] = [flows[g] EXCEPT !.pos = @ + 1] /\ g \in DOMAIN moved
  OBVIOUS
<1> QED
  BY <1>1, <1>2, <1>3 DEF Flows

(* Flushing moves what is buffered to the message that takes it.           *)
LEMMA TakesFlushed ==
  ASSUME Types, NEW f \in Flows, current # 0, flows[current] = f, NEW k, f.real = {k},
         \A b \in buffer : b.conv = f.conv /\ b.place = f.place,
         NEW t, t = (IF buffer = {} THEN <<>> ELSE (CHOOSE b \in buffer : TRUE).text),
         Takes(messages, f, k, t)
  PROVE  Takes(Flushed, f, k, <<>>)
<1>1. /\ DOMAIN Flushed = DOMAIN messages /\ Flushed \in Rows /\ messages \in Rows
      /\ \A j \in DOMAIN messages :
           /\ Flushed[j].conv = messages[j].conv
           /\ Flushed[j].id = messages[j].id
           /\ Flushed[j].status = messages[j].status
           /\ messages[j] \in Replies /\ messages[j].text \in Texts
  <2>1. \A j \in DOMAIN messages : messages[j] \in Replies
    BY Elements DEF ToSet
  <2>2. \A r \in Replies : r.text \in Texts
    BY DEF Replies
  <2> QED
    BY <2>1, <2>2, FlushedIs DEF Types, ScreenTypes
<1>2. PICK i \in DOMAIN messages :
        /\ messages[i].id = k /\ messages[i].conv = f.conv
        /\ messages[i].status = "streaming"
        /\ messages[i].text \o t = Deltas(f.pos)
        /\ \A j \in DOMAIN messages : Same(messages[j], f.conv, f.place, {k}) => j = i
  BY DEF Takes
<1>3. \A j \in DOMAIN Flushed : Same(Flushed[j], f.conv, f.place, {k}) => j = i
  BY <1>1, <1>2 DEF Same
<1>4. \A s \in Texts : s \o <<>> = s
  BY ConcatEmptySeq DEF Texts
<1>5. CASE buffer = {}
  BY <1>2, <1>5 DEF Flushed, Takes
<1>6. CASE buffer # {}
  <2> DEFINE b == CHOOSE b \in buffer : TRUE
             hits == {h \in DOMAIN messages : /\ messages[h].status = "streaming"
                                              /\ Same(messages[h], b.conv, b.place, Real(b.conv))}
  <2>1. b \in buffer /\ b.conv = f.conv /\ b.place = f.place /\ b \in Buffers /\ t = b.text
    BY <1>6 DEF Types, ScreenTypes
  <2> HIDE DEF b
  <2>2. Real(b.conv) = {k}
    BY <2>1 DEF Real
  <2>3. hits = {i}
    <3>1. i \in hits
      BY <1>2, <2>1, <2>2 DEF Same
    <3>2. \A h \in hits : h = i
      BY <1>2, <2>1, <2>2
    <3> HIDE DEF hits
    <3> QED
      BY <3>1, <3>2
  <2>4. Max({i}) = i
    <3>1. Len(messages) \in Nat /\ i \in 1..Len(messages)
      BY <1>1, <1>2, LenProperties DEF Rows
    <3>2. Max({i}) \in {i}
      BY <3>1, GreatestIs
    <3> QED
      BY <3>2
  <2>5. AppendDelta(messages, b) = [messages EXCEPT ![i].text = @ \o b.text]
    <3> HIDE DEF hits
    <3>1. AppendDelta(messages, b) = [messages EXCEPT ![Max(hits)].text = @ \o b.text]
      BY <2>3 DEF AppendDelta, hits
    <3> QED
      BY <2>3, <2>4, <3>1
  <2>6. Flushed = [messages EXCEPT ![i].text = @ \o b.text]
    BY <1>6, <2>5 DEF Flushed, b
  <2>7. Flushed[i] = [messages[i] EXCEPT !.text = @ \o b.text]
    BY <1>2, <2>6
  <2>8. Flushed[i].text = messages[i].text \o b.text
    BY <1>1, <1>2, <2>7 DEF Replies
  <2>9. Flushed[i].text \in Texts
    <3>1. Flushed[i] \in Replies
      BY <1>1, <1>2, ElementOfSeq, LenProperties DEF Rows
    <3> QED
      BY <3>1 DEF Replies
  <2>10. Flushed[i].text \o <<>> = Deltas(f.pos)
    BY <1>2, <1>4, <2>1, <2>8, <2>9
  <2> HIDE DEF hits
  <2> QED
    BY <1>1, <1>2, <1>3, <2>10 DEF Takes
<1> QED
  BY <1>5, <1>6

(* Nothing happens to the reply that is read live but its events and the   *)
(* frames that show them.                                                  *)
LEMMA LiveStep ==
  ASSUME Types, Outlived, Watched, AskedAtZero, [Next]_vars, ~Asks, Live'
  PROVE  LET f == flows[current]
             g == flows'[current]
         IN /\ current' = current /\ current \in DOMAIN flows /\ current # 0 /\ Live
            /\ f \in Flows /\ active = f.conv
            /\ g.conv = f.conv /\ g.place = f.place
            /\ f.pos # 0 => g.run = f.run /\ runs'[f.run].key = runs[f.run].key
            /\ \/ Receive(current)
               \/ /\ g.pos = f.pos /\ g.real = f.real
                  /\ UNCHANGED <<messages, buffer>> \/ FlushFrame
<1>1. GoOn /\ current' = current /\ current # 0 /\ current \in DOMAIN flows
      /\ DOMAIN flows' = DOMAIN flows
  BY FlowsGoOn, Succession, Elements DEF Live, GoOn
<1>2. /\ flows[current] \in Flows
      /\ \A h \in DOMAIN flows : Later(flows'[h], flows[h])
      /\ \A h \in DOMAIN flows : flows'[h].pos = flows[h].pos \/ Receive(h)
      /\ \A h \in DOMAIN flows :
           flows'[h].real = flows[h].real \/ \E g \in DOMAIN flows : Receive(g)
  BY <1>1, Elements DEF GoOn
<1>3. /\ flows'[current].stop = "none" /\ flows'[current].pc \in Early
      /\ ~flows'[current].away /\ flows'[current].kind # "resume"
      /\ \A h \in DOMAIN flows : ~flows'[h].over /\ ~flows'[h].orphan
  BY <1>1 DEF Live, Overtakings
<1>4. /\ Live /\ flows[current].stop = "none" /\ flows[current].pc \in Early
      /\ flows[current].kind # "resume"
      /\ \A h \in DOMAIN flows : ~flows[h].over /\ ~flows[h].orphan
  BY <1>1, <1>2, <1>3 DEF Live, Overtakings, Later
<1>5. active = flows[current].conv /\ syncing = {}
  BY <1>1, <1>4 DEF Watched, Live
<1>6. \A h \in DOMAIN flows : h # current =>
        flows[h].pc \in {"finish", "done"} /\ flows[h].stop \notin Unsettled
  BY <1>4 DEF Outlived, Left
<1>7. /\ flows'[current].conv = flows[current].conv
      /\ flows'[current].place = flows[current].place
  BY <1>1, <1>2 DEF Later
<1>8. ASSUME flows[current].pos # 0
      PROVE  /\ flows'[current].run = flows[current].run
             /\ runs'[flows[current].run].key = runs[flows[current].run].key
  <2>1. flows[current].pc = "stream"
    BY <1>1, <1>4, <1>8 DEF AskedAtZero, Early
  <2>2. flows'[current].run = flows[current].run
    BY <1>1, <1>2, <2>1 DEF Later
  <2>3. flows[current].run \in DOMAIN runs
    BY <1>1, <2>1, Elements DEF Types, FlowsRun
  <2> QED
    BY <2>2, <2>3, KeysKept
<1>9. \A g \in DOMAIN flows : Receive(g) => g = current
  BY <1>6 DEF Receive, ReceiveStart, ReceiveDelta, ReceiveClosing, HasEvent
<1>10. ASSUME ~Receive(current)
       PROVE  flows'[current].pos = flows[current].pos /\ flows'[current].real = flows[current].real
  BY <1>1, <1>2, <1>9, <1>10
<1> DEFINE Still == UNCHANGED <<messages, buffer>> \/ FlushFrame \/ Receive(current)
<1>11. Still
  <2>1. CASE UNCHANGED vars
    BY <2>1 DEF vars
  <2>2. CASE User
    <3>1. ASSUME NEW c, Navigate(c) PROVE FALSE
      <4>1. flows'[current] = [flows[current] EXCEPT !.away = TRUE]
        BY <1>1, <3>1 DEF Navigate
      <4> QED
        BY <1>2, <1>3, <4>1 DEF Flows
    <3>2. ASSUME Stop PROVE FALSE
      <4>1. flows'[current] = [flows[current] EXCEPT !.stop = "cancel"]
        BY <1>1, <3>2 DEF Stop
      <4> QED
        BY <1>2, <1>3, <4>1 DEF Flows
    <3> QED
      BY <2>2, <3>1, <3>2 DEF User, Asks, Archive
  <2>3. CASE FlushFrame \/ Sync \/ SyncFails
    BY <1>5, <2>3 DEF Sync, SyncAnswer, SyncApply, SyncFails
  <2>4. ASSUME NEW c, OtherTab(c) \/ Archived(c) \/ ArchiveFails(c) PROVE Still
    <3>1. ASSUME Archived(c) PROVE FALSE
      <4>1. flows'[current] = [flows[current] EXCEPT !.away = TRUE]
        BY <1>1, <3>1 DEF Archived
      <4> QED
        BY <1>2, <1>3, <4>1 DEF Flows
    <3> QED
      BY <2>4, <3>1 DEF OtherTab, ArchiveFails
  <2>5. ASSUME NEW r, Serve(r) PROVE Still
    BY <2>5 DEF Serve
  <2>6. ASSUME NEW g \in DOMAIN flows, Request(g) \/ StreamEnds(g) \/ Break(g)
        PROVE  Still
    <3>1. flows[g].pc \in Early
      BY <2>6
      DEF Request, Prepare, Refuse, Register, Attach, StreamEnds, Break, Asking, Early
    <3>2. g = current
      BY <1>6, <3>1 DEF Early
    <3>3. ASSUME NEW f, flows' = [flows EXCEPT ![g] = f] PROVE f.pc \in Early
      BY <1>3, <3>2, <3>3
    <3>4. ASSUME Failed(g) PROVE FALSE
      <4>1. flows' = [flows EXCEPT ![g] = [flows[g] EXCEPT !.pc = "fetch", !.error = TRUE]]
        BY <3>4 DEF Failed
      <4>2. [flows[g] EXCEPT !.pc = "fetch", !.error = TRUE].pc = "fetch"
        BY <1>2, <3>2 DEF Flows
      <4> QED
        BY <3>3, <4>1, <4>2 DEF Early
    <3> QED
      BY <1>4, <2>6, <3>2, <3>4
      DEF Request, Prepare, Refuse, Register, Attach, StreamEnds, Break
  <2>7. ASSUME NEW g \in DOMAIN flows, Receive(g) PROVE Still
    BY <1>9, <2>7
  <2>8. ASSUME NEW g \in DOMAIN flows, Answer(g) \/ Apply(g) \/ FetchFails(g)
        PROVE  Still
    BY <1>4, <1>6, <2>8 DEF Answer, Apply, FetchFails, Early
  <2>9. ASSUME NEW g \in DOMAIN flows, Finish(g) PROVE Still
    <3>1. g # current
      BY <1>4, <2>9 DEF Finish, Early
    <3> QED
      BY <2>9, <3>1 DEF Finish, Finalize
  <2>10. ASSUME NEW g \in DOMAIN flows, Stopping(g) \/ StopFetchFails(g) PROVE Still
    <3>1. flows[g].stop # "none"
      BY <2>10 DEF Stopping, StopCancel, StopAnswer, StopApply, StopFinish, StopFetchFails
    <3>2. g # current /\ flows[g].stop \notin Unsettled
      BY <1>4, <1>6, <3>1
    <3> QED
      BY <2>10, <3>2
      DEF Stopping, StopCancel, StopAnswer, StopApply, StopFinish, StopFetchFails,
          Unsettled, Finalize
  <2> HIDE DEF Still
  <2>11. ~Resume
    BY DEF Asks
  <2> QED
    BY <2>1, <2>2, <2>3, <2>4, <2>5, <2>6, <2>7, <2>8, <2>9, <2>10, <2>11 DEF Next, Proceed
<1> QED
  BY <1>1, <1>2, <1>4, <1>5, <1>7, <1>8, <1>10, <1>11


(* Events lengthen the reply that is read live by what they bring.         *)
LEMMA ReceiveLive ==
  ASSUME Types, LiveText, Live, Receive(current), active = flows[current].conv,
         current \in DOMAIN flows, current # 0,
         NEW k, k = runs[flows[current].run].key
  PROVE  Follows(messages', buffer', flows'[current], k)
<1> DEFINE f == flows[current]
           h == flows'[current]
           n == Upcoming(current)
<1>1. /\ HasEvent(current) /\ UNCHANGED <<active, current>>
      /\ h.conv = f.conv /\ h.pos = n
  BY ReceiveIs
<1>2. /\ f \in Flows /\ k \in Int \ {0} /\ f.conv \in Conversations
      /\ f.pos \in Nat /\ n = f.pos + 1 /\ n \in 1..MaxEvents /\ n # 0
      /\ ~IsClosing(current) => n < MaxEvents
      /\ IsClosing(current) => f.pos > 0 /\ f.pos < MaxEvents
      /\ MaxEvents \in Nat
  BY <1>1, EventIs, BoundsAssumption DEF Runs, Upcoming
<1>3. Learnt(current)[current].real = {k} /\ Learnt(current)[current].place = f.place
  BY <1>1, LearntKey, LearntIs DEF Knows
<1>4. Follows(messages, buffer, f, k)
  BY DEF LiveText
<1>5. messages \in Rows /\ Flushed \in Rows /\ InView(f.conv)
  BY FlushedIs DEF Types, ScreenTypes, InView
<1> HIDE DEF n
<1>6. ASSUME NEW ms \in Rows, NEW status \in Statuses, NEW text \in Texts,
             flows' = Learnt(current), ShowReply(current, ms, status, text)
      PROVE  \E i \in DOMAIN messages' :
               /\ messages'[i].id = k /\ messages'[i].conv = f.conv
               /\ messages'[i].status = status /\ messages'[i].text = text
               /\ \A j \in DOMAIN messages' :
                    Same(messages'[j], f.conv, f.place, {k}) => j = i
  <2> DEFINE m == Reply(f.conv, k, status, text)
  <2>1. m \in Replies /\ m.conv = f.conv /\ m.id = k /\ m.status = status /\ m.text = text
    BY <1>2, ReplyType DEF Reply
  <2>2. messages' = Upsert(ms, m, f.place, {k})
    BY <1>3, <1>5, <1>6 DEF ShowReply
  <2> HIDE DEF m
  <2>3. /\ \A j \in DOMAIN messages' :
             messages'[j] = m \/ ~Same(messages'[j], m.conv, f.place, {k})
        /\ \A i, j \in DOMAIN messages' : messages'[i].id = messages'[j].id => i = j
        /\ \E i \in DOMAIN messages' : messages'[i] = m
    <3>1. PICK place, real : place = f.place /\ real = {k}
      OBVIOUS
    <3>2. messages' = Upsert(ms, m, place, real)
      BY <2>2, <3>1
    <3>3. /\ \A j \in DOMAIN messages' :
               messages'[j] = m \/ ~Same(messages'[j], m.conv, place, real)
          /\ \A i, j \in DOMAIN messages' : messages'[i].id = messages'[j].id => i = j
          /\ \E i \in DOMAIN messages' : messages'[i] = m
      BY <2>1, <3>2, UpsertIs
    <3> QED
      BY <3>1, <3>3
  <2> QED
    BY <2>1, <2>3
<1>7. CASE ReceiveStart(current)
  <2>1. /\ flows' = Learnt(current) /\ ShowReply(current, messages, "streaming", <<>>)
        /\ n = 1 /\ buffer' = buffer
    BY <1>7 DEF ReceiveStart, n
  <2>2. f.pos = 0 /\ buffer = {}
    BY <1>2, <1>4, <2>1 DEF Follows
  <2>3. <<>> \in Texts /\ <<>> \o <<>> = Deltas(1) /\ "streaming" \in Statuses
    BY EmptyText, DeltasGrow, ConcatEmptySeq DEF Texts, Statuses
  <2>4. PICK i \in DOMAIN messages' :
          /\ messages'[i].id = k /\ messages'[i].conv = f.conv
          /\ messages'[i].status = "streaming" /\ messages'[i].text = <<>>
          /\ \A j \in DOMAIN messages' : Same(messages'[j], f.conv, f.place, {k}) => j = i
    BY <1>5, <1>6, <2>1, <2>3
  <2>5. messages'[i].text \o <<>> = Deltas(h.pos)
    BY <1>1, <2>1, <2>3, <2>4
  <2>6. h.place = f.place /\ h.real = {k}
    BY <1>3, <2>1
  <2>7. Takes(messages', h, k, <<>>)
    BY <1>1, <2>4, <2>5, <2>6 DEF Takes
  <2> QED
    BY <1>1, <1>2, <2>1, <2>2, <2>6, <2>7 DEF Follows
<1>8. CASE ReceiveClosing(current)
  <2>1. /\ flows' = Learnt(current) /\ IsClosing(current)
        /\ ShowReply(current, Flushed, "settled", Deltas(f.pos))
    BY <1>8 DEF ReceiveClosing
  <2>2. Deltas(f.pos) \in Texts /\ "settled" \in Statuses
    BY <1>2, <2>1, DeltasText DEF Statuses
  <2>3. Ended(messages', k)
    BY <1>5, <1>6, <2>1, <2>2 DEF Ended
  <2> QED
    BY <1>1, <1>2, <2>3 DEF Follows
<1>9. CASE ReceiveDelta(current)
  <2> DEFINE mine == {b \in buffer : b.conv = f.conv /\ b.place = f.place}
             text == IF mine = {} THEN <<>> ELSE (CHOOSE b \in mine : TRUE).text
             new == [conv |-> f.conv, place |-> f.place, text |-> Append(text, n)]
  <2>1. /\ n # 1 /\ ~IsClosing(current)
        /\ flows' = [flows EXCEPT ![current].pos = @ + 1]
        /\ buffer' = {new}
        /\ messages' = IF mine = {} THEN Flushed ELSE messages
    BY <1>5, <1>9 DEF ReceiveDelta, n
  <2>2. f.pos # 0 /\ n \in 2..(MaxEvents - 1) /\ f.pos \in 1..(MaxEvents - 1)
    BY <1>2, <2>1
  <2>3. h.place = f.place /\ h.real = f.real
    <3>1. h = [f EXCEPT !.pos = @ + 1]
      BY <2>1
    <3> QED
      BY <1>2, <3>1 DEF Flows
  <2>4. CASE Ended(messages, k)
    <3>1. Ended(Flushed, k)
      BY <2>4, FlushedIs DEF Ended, Types
    <3>2. Ended(messages', k)
      BY <2>1, <2>4, <3>1
    <3> QED
      BY <1>1, <1>2, <3>2 DEF Follows
  <2>5. CASE ~Ended(messages, k)
    <3> DEFINE t == IF buffer = {} THEN <<>> ELSE (CHOOSE b \in buffer : TRUE).text
    <3>1. /\ f.real = {k}
          /\ \A b \in buffer : b.conv = f.conv /\ b.place = f.place
          /\ Takes(messages, f, k, t)
      BY <1>4, <2>2, <2>5 DEF Follows
    <3>2. mine = buffer
      BY <3>1
    <3>3. text = t /\ text \in Texts
      <4>1. text = t
        <5>1. CASE buffer = {}
          BY <3>2, <5>1
        <5>2. CASE buffer # {}
          <6>1. (CHOOSE b \in mine : TRUE) \in buffer /\ (CHOOSE b \in buffer : TRUE) \in buffer
            BY <3>2, <5>2
          <6>2. (CHOOSE b \in mine : TRUE) = (CHOOSE b \in buffer : TRUE)
            BY <6>1 DEF Types, ScreenTypes
          <6> QED
            BY <3>2, <5>2, <6>2
        <5> QED
          BY <5>1, <5>2
      <4>2. \A b \in buffer : b.text \in Texts
        BY DEF Types, ScreenTypes, Buffers
      <4>3. t \in Texts
        BY <4>2, EmptyText
      <4> QED
        BY <4>1, <4>3
    <3>4. messages' = messages
      BY <2>1, <3>2 DEF Flushed
    <3> HIDE DEF t, mine, text
    <3>5. PICK i \in DOMAIN messages :
            /\ messages[i].id = k /\ messages[i].conv = f.conv
            /\ messages[i].status = "streaming"
            /\ messages[i].text \o t = Deltas(f.pos)
            /\ \A j \in DOMAIN messages : Same(messages[j], f.conv, f.place, {k}) => j = i
      BY <3>1 DEF Takes
    <3>6. messages[i].text \in Texts
      <4>1. messages[i] \in Replies
        BY Elements DEF ToSet
      <4> QED
        BY <4>1 DEF Replies
    <3>7. messages[i].text \o Append(text, n) = Deltas(h.pos)
      <4>1. messages[i].text \o Append(t, n) = Append(messages[i].text \o t, n)
        BY <2>2, <3>3, <3>6, OneMore
      <4>2. Append(Deltas(f.pos), f.pos + 1) = Deltas(f.pos + 1)
        BY <2>2, DeltasGrow
      <4> QED
        BY <1>1, <1>2, <3>3, <3>5, <4>1, <4>2
    <3>8. Takes(messages', h, k, new.text)
      BY <1>1, <2>3, <3>4, <3>5, <3>7 DEF Takes
    <3>9. /\ buffer' # {} /\ (CHOOSE b \in buffer' : TRUE) = new
          /\ \A b \in buffer' : b.conv = f.conv /\ b.place = f.place
      <4>1. new.conv = f.conv /\ new.place = f.place
        OBVIOUS
      <4> HIDE DEF new
      <4> QED
        BY <2>1, <4>1
    <3> HIDE DEF new
    <3> QED
      BY <1>1, <1>2, <2>3, <3>1, <3>8, <3>9 DEF Follows
  <2> QED
    BY <2>4, <2>5
<1> QED
  BY <1>7, <1>8, <1>9 DEF Receive

(* Every step keeps the reply that is read live complete.                  *)
LEMMA NextLiveText ==
  ASSUME Types, Outlived, Watched, AskedAtZero, BufferOrdered, LiveText, [Next]_vars
  PROVE  LiveText'
<1> SUFFICES ASSUME Live'
             PROVE  Follows(messages', buffer', flows'[current'], runs'[flows'[current'].run].key)
  BY LiveTextNext
<1>1. CASE Asks
  <2>1. ASSUME Resume PROVE FALSE
    <3>1. flows'[current'] = Begun("resume", active, 0, 0, <<>>, seqs[active])
      BY <2>1, BeginIs DEF Resume
    <3> QED
      BY <3>1 DEF Begun, Live
  <2>2. PICK kind, c, place, target, kept :
          Begin(kind, c, place, target, kept, 0) /\ current = 0
    BY <1>1, <2>1, AsksAre
  <2>3. /\ flows'[current'] = Begun(kind, c, place, target, kept, 0)
        /\ \A g \in DOMAIN flows : g \in DOMAIN flows' /\ flows'[g] = flows[g]
    <3>1. 0 \notin DOMAIN flows
      BY Elements
    <3> QED
      BY <2>2, <3>1, BeginIs
  <2>4. Twice = {}
    BY <2>3 DEF Live, Overtakings, Twice, ReadTwice
  <2>5. buffer' = {}
    BY <2>2, <2>4 DEF BufferOrdered, Begin
  <2>6. flows'[current'].pos = 0
    BY <2>3 DEF Begun
  <2> QED
    BY <2>5, <2>6 DEF Follows
<1>2. CASE ~Asks
  <2> DEFINE f == flows[current]
             h == flows'[current]
             k == runs[f.run].key
  <2>1. /\ current' = current /\ current \in DOMAIN flows /\ current # 0 /\ Live
        /\ f \in Flows /\ active = f.conv /\ h.conv = f.conv /\ h.place = f.place
        /\ f.pos # 0 => h.run = f.run /\ runs'[f.run].key = k
        /\ \/ Receive(current)
           \/ /\ h.pos = f.pos /\ h.real = f.real
              /\ UNCHANGED <<messages, buffer>> \/ FlushFrame
    BY <1>2, LiveStep
  <2>2. Follows(messages, buffer, f, k)
    BY <2>1 DEF LiveText
  <2>3. CASE Receive(current)
    <3>1. Follows(messages', buffer', h, k)
      BY <2>1, <2>3, ReceiveLive
    <3>2. h.run = f.run /\ runs' = runs
      <4>1. flows' \in {Learnt(current), [flows EXCEPT ![current].pos = @ + 1]} /\ runs' = runs
            /\ HasEvent(current)
        BY <2>3 DEF Receive, ReceiveStart, ReceiveDelta, ReceiveClosing, serverVars
      <4>2. CASE flows' = Learnt(current)
        BY <2>1, <4>1, <4>2, LearntIs DEF Knows
      <4>3. CASE flows' = [flows EXCEPT ![current].pos = @ + 1]
        BY <2>1, <4>1, <4>3 DEF Flows
      <4> QED
        BY <4>1, <4>2, <4>3
    <3> QED
      BY <2>1, <3>1, <3>2
  <2>4. ASSUME f.pos = 0, h.pos = f.pos, UNCHANGED <<messages, buffer>> \/ FlushFrame
        PROVE  Follows(messages', buffer', h, runs'[h.run].key)
    BY <2>2, <2>4 DEF Follows, FlushFrame
  <2>5. ASSUME f.pos # 0, h.pos = f.pos, h.real = f.real,
               UNCHANGED <<messages, buffer>> \/ FlushFrame
        PROVE  Follows(messages', buffer', h, k)
    <3>1. CASE UNCHANGED <<messages, buffer>>
      BY <2>1, <2>2, <2>5, <3>1 DEF Follows, Takes
    <3>2. CASE FlushFrame
      <4>1. messages' = Flushed /\ buffer' = {}
        BY <3>2 DEF FlushFrame
      <4>2. Ended(messages, k) => Ended(Flushed, k)
        BY FlushedIs DEF Ended, Types
      <4>3. CASE Ended(messages, k)
        BY <2>5, <4>1, <4>2, <4>3 DEF Follows
      <4>4. CASE ~Ended(messages, k)
        <5>1. Takes(Flushed, f, k, <<>>) /\ f.real = {k}
          BY <2>1, <2>2, <2>5, <4>4, TakesFlushed DEF Follows
        <5>2. Takes(Flushed, h, k, <<>>)
          BY <2>1, <2>5, <5>1 DEF Takes
        <5> QED
          BY <2>5, <4>1, <5>1, <5>2 DEF Follows
      <4> QED
        BY <4>3, <4>4
    <3> QED
      BY <2>5, <3>1, <3>2
  <2> QED
    BY <2>1, <2>3, <2>4, <2>5
<1> QED
  BY <1>1, <1>2

(* THEOREM: while a reply streams before the eyes of the user, what is     *)
(* shown of it and what is buffered for the next frame are together what   *)
(* was received, however deltas, frames and the other flows interleave     *)
(* (bufferMessageDelta, flushBufferedMessageDelta, upsertMessage).         *)
THEOREM LiveTextIsComplete == Spec => []LiveTextComplete
<1>1. Init => Outlived /\ Watched /\ AskedAtZero /\ Orderly /\ LiveText
  <2> SUFFICES ASSUME Init PROVE Outlived /\ Watched /\ AskedAtZero /\ Orderly /\ LiveText
    OBVIOUS
  <2>1. Orderly
    BY InitOrderly
  <2> QED
    BY <2>1 DEF Init, Outlived, Watched, AskedAtZero, LiveText, Live
<1>2. /\ Types /\ Outlived /\ Watched /\ AskedAtZero /\ Orderly /\ LiveText /\ [Next]_vars
      => (Outlived /\ Watched /\ AskedAtZero /\ Orderly /\ LiveText)'
  <2>1. Types /\ Outlived /\ Watched /\ [Next]_vars => Outlived' /\ Watched'
    BY NextOutlived, NextWatched
  <2>2. Types /\ Outlived /\ Orderly /\ AskedAtZero /\ [Next]_vars => Orderly' /\ AskedAtZero'
    BY NextOrderly, NextAskedAtZero
  <2>3. /\ Types /\ Outlived /\ Watched /\ AskedAtZero /\ Orderly /\ LiveText /\ [Next]_vars
        => LiveText'
    BY NextLiveText DEF Orderly
  <2> QED
    BY <2>1, <2>2, <2>3
<1>3. LiveText => LiveTextComplete
  <2> SUFFICES ASSUME LiveText, current # 0, flows[current].kind # "resume",
                      flows[current].stop = "none", flows[current].pc = "stream",
                      flows[current].pos > 0, ~flows[current].away, Clean
               PROVE  \E m \in ToSet(messages) :
                        /\ m.id = runs[flows[current].run].key
                        /\ \/ m.text \o Pending = Deltas(flows[current].pos)
                           \/ m.status = "settled"
    BY DEF LiveTextComplete
  <2>1. Live
    BY DEF Live, Overtakings, Clean, Early
  <2>2. Follows(messages, buffer, flows[current], runs[flows[current].run].key)
        /\ flows[current].pos # 0
    BY <2>1 DEF LiveText
  <2> QED
    BY <2>2 DEF Follows, Ended, Takes, ToSet, Pending
<1> QED
  BY <1>1, <1>2, <1>3, TypesInvariance, PTL DEF Spec

=============================================================================
