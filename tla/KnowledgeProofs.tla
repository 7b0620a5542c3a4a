-------------------------- MODULE KnowledgeProofs --------------------------
(***************************************************************************)
(* Proofs about Knowledge: for any number of rows and of requests, the     *)
(* lists, caches and forms of the tab are the server's when its requests   *)
(* have ended and nothing crossed, was lost or failed.                     *)
(*                                                                         *)
(* The argument follows a request from its click to its end.  While none   *)
(* crossed (Straight), a request under way is alone with what it touches   *)
(* (Apart), and what the server answered is still what it stores           *)
(* (StillTrue); so what an end puts on the screen is the server's, and     *)
(* what no request under way touches already was (Settled).                *)
(***************************************************************************)
EXTENDS Knowledge, FiniteSetTheorems, SequenceTheorems, TLAPS

-----------------------------------------------------------------------------
(* Records.                                                                *)

(* What a record with further fields is: the fields given, and the others  *)
(* of the record it adds to.                                               *)
IsBeside(d, f, c) ==
  /\ DOMAIN d = DOMAIN f \cup DOMAIN c
  /\ \A x \in DOMAIN f : d[x] = f[x]
  /\ \A x \in DOMAIN c : x \notin DOMAIN f => d[x] = c[x]
(* Beside makes such a record.                                             *)
LEMMA BesideIs == \A f, c : IsBeside(Beside(f, c), f, c)
  BY DEF IsBeside, Beside
-----------------------------------------------------------------------------
(* What the tab may hold, and what it may be answered.                     *)

(* The rows there were, and copies of them.                                *)
Known == 1 .. issued
SpaceCopy == [id : Known, rev : Nat]
DocumentCopy == [id : Known, space : Known, kind : Kinds, rev : Nat]

(* The rows of the server, one of an id.                                   *)
SourceTypes ==
  /\ issued \in 0 .. MaxRows
  /\ spaceRows \subseteq SpaceCopy /\ IsFiniteSet(spaceRows)
  /\ documentRows \subseteq DocumentCopy /\ IsFiniteSet(documentRows)
  /\ \A r, q \in spaceRows : r.id = q.id => r = q
  /\ \A d, e \in documentRows : d.id = e.id => d = e

(* The lists the tab keeps.                                                *)
ListTypes ==
  /\ knowledgeSpaces \in Seq(SpaceCopy)
  /\ knowledgeDocuments \in [Ids -> Seq(DocumentCopy) \cup {NoOne}]
  /\ \A s \in Ids : knowledgeDocuments[s] # NoOne => s \in Known

(* What a request is about.                                                *)
OfDocument == DocumentUpdates \cup {"deleteDocument"}
OfSpace == {"updateSpace", "deleteSpace", "documents"} \cup DocumentWrites
KnowledgeKinds == {"workspace", "rag", "createSpace"} \cup OfSpace

(* What the tab asks for.                                                  *)
IsPart(p) == p = NoOne \/ p = <<>> \/ \E l \in Seq(SpaceCopy) : p = <<l>>
IsAsk(c) ==
  /\ {"kind", "mine"} \subseteq DOMAIN c /\ c.mine \in BOOLEAN /\ c.kind \in KnowledgeKinds
  /\ c.kind \in OfSpace => "space" \in DOMAIN c /\ c.space \in Known
  /\ c.kind \in OfDocument => "document" \in DOMAIN c /\ c.document \in Known
  /\ c.kind \in {"deleteSpace", "deleteDocument"} => "endsEdit" \in DOMAIN c /\ c.endsEdit \in BOOLEAN
  /\ c.kind = "deleteSpace" => "leavesSpace" \in DOMAIN c /\ c.leavesSpace \in BOOLEAN
  /\ c.kind = "workspace" => {"spaces", "rag"} \subseteq DOMAIN c /\ IsPart(c.spaces)
  /\ c.kind = "rag" => "preset" \in DOMAIN c
IsConfirmation(c) == IsAsk(c) /\ c.kind \in {"deleteSpace", "deleteDocument"} /\ c.mine

(* A request of the tab, in any phase, and what it may be answered.        *)
IsKnowledgeRequest(c) ==
  /\ IsAsk(c)
  /\ {"n", "phase", "lost"} \subseteq DOMAIN c /\ c.lost \in BOOLEAN
  /\ c.phase \in {"sent", "checked", "answered", "failed"}
  /\ c.kind = "workspace" => c.phase \in {"sent", "answered"}
  /\ c.phase = "checked" => c.kind \in DocumentCreates \cup DocumentUpdates
  /\ c.phase = "checked" /\ c.kind \in DocumentUpdates =>
       "row" \in DOMAIN c /\ c.row \in DocumentCopy /\ c.row.id = c.document
IsKnowledgeAnswer(c) ==
  c.phase = "answered" =>
    /\ c.kind # "workspace" => "reply" \in DOMAIN c
    /\ c.kind = "workspace" => c.spaces # NoOne /\ c.rag # NoOne
    /\ c.kind \in {"createSpace", "updateSpace"} => c.reply \in SpaceCopy
    /\ c.kind = "updateSpace" => c.reply.id = c.space
    /\ c.kind \in DocumentCreates \cup DocumentUpdates => c.reply \in DocumentCopy
    /\ c.kind \in DocumentCreates => c.reply.space = c.space
    /\ c.kind \in DocumentUpdates => c.reply.id = c.document
    /\ c.kind = "documents" => c.reply \in Seq(DocumentCopy)
KnowledgeCall(c) == IsKnowledgeRequest(c) /\ IsKnowledgeAnswer(c)

(* The forms and the dialog.                                               *)
FormTypes ==
  /\ documentSpaceId \in Known \cup {NoOne} /\ editingSpace \in Known \cup {NoOne}
  /\ editingDocument # NoOne => editingDocument \in DocumentCopy
  /\ confirmation # NoOne => IsConfirmation(confirmation)
  /\ mixed \in BOOLEAN /\ reopened \in BOOLEAN

(* Away from the tab its forms are gone, and nothing is to be confirmed.   *)
OffTab ==
  panelTab # "knowledge" =>
    /\ editingSpace = NoOne /\ documentSpaceId = NoOne /\ editingDocument = NoOne
    /\ confirmation = NoOne
    /\ \A c \in calls : ~c.mine

KnowledgeTypes ==
  SourceTypes /\ ListTypes /\ FormTypes /\ OffTab /\ \A c \in calls : KnowledgeCall(c)

(* No requests crossed that must not, and no answer was lost.              *)
Lost(c) == c.phase = "failed" /\ c.lost
Straight == ~mixed /\ \A c \in calls : ~Lost(c)

(* Requests that must not cross do not, and no list is read that is not    *)
(* there.                                                                  *)
Apart == \A c, d \in calls : ~Conflict(c, d) \/ c = d
HaveLists == \A c \in calls : ~Unloaded(c, knowledgeDocuments)

(* What was answered; a list that has each row once.                       *)
Landed(c, kinds) == c.phase = "answered" /\ c.kind \in kinds
Single(list) == \A i, j \in DOMAIN list : list[i].id = list[j].id => i = j
Exact(list, rows) == ToSet(list) = rows /\ Single(list)

(* What a request was told, or looked up, is still so.                     *)
StillTrue(c) ==
  /\ c.phase = "checked" /\ c.kind \in DocumentUpdates =>
       c.row \in documentRows /\ c.row.space = c.space
  /\ Landed(c, {"createSpace", "updateSpace"}) => c.reply \in spaceRows
  /\ Landed(c, {"deleteSpace"}) => c.space \notin IdsOf(spaceRows)
  /\ Landed(c, DocumentCreates \cup DocumentUpdates) => c.reply \in documentRows /\ c.reply.space = c.space
  /\ Landed(c, {"deleteDocument"}) => c.document \notin IdsOf(documentRows)
  /\ Landed(c, {"documents"}) => c.space \in IdsOf(spaceRows) /\ Exact(c.reply, DocumentsOf(c.space))
  /\ Landed(c, {"rag"}) => c.reply = ragRows
  /\ c.kind = "workspace" => /\ c.spaces # NoOne /\ c.spaces # <<>> => Exact(c.spaces[1], spaceRows)
                             /\ c.rag # NoOne /\ c.rag # <<>> => c.rag[1] = ragRows

(* The spaces and documents the tab has heard of.                          *)
SpaceHeard(i) ==
  \/ HasId(knowledgeSpaces, i) \/ knowledgeDocuments[i] # NoOne \/ i \in {documentSpaceId, editingSpace}
  \/ confirmation # NoOne /\ confirmation.space = i
  \/ \E d \in calls : d.kind \in OfSpace /\ d.space = i
DocumentHeard(j) ==
  \/ \E s \in Ids : knowledgeDocuments[s] # NoOne /\ HasId(knowledgeDocuments[s], j)
  \/ editingDocument # NoOne /\ editingDocument.id = j
  \/ confirmation # NoOne /\ confirmation.kind = "deleteDocument" /\ confirmation.document = j
  \/ \E d \in calls : d.kind \in OfDocument /\ d.document = j

(* It has not heard of a row whose creation it was not told.               *)
NewRows ==
  /\ \A c \in calls : /\ Landed(c, {"createSpace"}) => ~SpaceHeard(c.reply.id)
                      /\ Landed(c, DocumentCreates) => ~DocumentHeard(c.reply.id)
  /\ \A c, d \in calls : Landed(c, {"createSpace"}) /\ Landed(d, {"createSpace"}) =>
                           c.reply.id # d.reply.id \/ c = d
  /\ \A c, d \in calls : Landed(c, DocumentCreates) /\ Landed(d, DocumentCreates) =>
                           c.reply.id # d.reply.id \/ c = d

(* The lists are what the server has, but for what the answers there are   *)
(* will change.                                                            *)
SpaceGone(s) == \E c \in calls : Landed(c, {"deleteSpace"}) /\ c.space = s
SpacesShown ==
  /\ Single(knowledgeSpaces)
  /\ \A copy \in ToSet(knowledgeSpaces) :
       copy \in spaceRows \/ \E c \in calls : Landed(c, {"updateSpace", "deleteSpace"}) /\ c.space = copy.id
  /\ "spaces" \in loadedParts => \A r \in spaceRows :
       HasId(knowledgeSpaces, r.id) \/ \E c \in calls : Landed(c, {"createSpace"}) /\ c.reply = r
Shows(s, list) ==
  /\ Single(list) /\ \A copy \in ToSet(list) : copy.space = s
  /\ \A copy \in ToSet(list) :
       \/ copy \in documentRows \/ SpaceGone(s)
       \/ \E c \in calls : Landed(c, OfDocument) /\ c.document = copy.id /\ c.space = s
  /\ \A d \in DocumentsOf(s) :
       HasId(list, d.id) \/ \E c \in calls : Landed(c, DocumentCreates) /\ c.reply = d
  /\ s \in IdsOf(spaceRows) \/ SpaceGone(s)
DocumentsShown ==
  \A s \in Ids : knowledgeDocuments[s] # NoOne => Shows(s, knowledgeDocuments[s])
RagShown ==
  "rag" \in loadedParts /\ (\A c \in calls : ~Landed(c, {"rag"})) => ragProviders = ragRows

(* The forms are about rows that are there, or that the answer to a        *)
(* deletion will take away.                                                *)
SpaceFormShown ==
  /\ documentSpaceId # NoOne => documentSpaceId \in IdsOf(spaceRows) \/ SpaceGone(documentSpaceId)
  /\ \A c \in calls : c.kind = "deleteSpace" /\ c.space = documentSpaceId => c.mine /\ c.leavesSpace
  /\ confirmation # NoOne /\ confirmation.kind = "deleteSpace" /\ confirmation.space = documentSpaceId =>
       confirmation.leavesSpace
DocumentFormShown ==
  editingDocument # NoOne =>
    /\ \/ \E d \in documentRows : d.id = editingDocument.id /\ d.space = editingDocument.space
       \/ \E c \in calls : Landed(c, {"deleteDocument"}) /\ c.document = editingDocument.id
       \/ editingDocument.space \notin IdsOf(spaceRows)
    /\ \A c \in calls : c.kind = "deleteDocument" /\ c.document = editingDocument.id => c.mine /\ c.endsEdit
    /\ confirmation # NoOne /\ confirmation.kind = "deleteDocument"
         /\ confirmation.document = editingDocument.id => confirmation.endsEdit

(* All of it, which holds while the history is straight.                   *)
Settled ==
  /\ Apart /\ HaveLists /\ (\A c \in calls : StillTrue(c)) /\ NewRows
  /\ SpacesShown /\ DocumentsShown /\ RagShown
  /\ ~reopened => SpaceFormShown /\ DocumentFormShown
KnowledgeInv == KnowledgeTypes /\ (Straight => Settled)

-----------------------------------------------------------------------------
(* The helpers of the lists.                                               *)

(* Where a number stands among others.                                     *)
Beneath(S, k) == {h \in S : h < k}
Place(S, n) == CHOOSE i \in S : Cardinality(Beneath(S, i)) = n - 1

(* Every member of a finite set of numbers has its place in it.            *)
LEMMA PlacesAre ==
  ASSUME NEW S \in SUBSET Int, IsFiniteSet(S)
  PROVE  /\ Cardinality(S) \in Nat
         /\ \A n \in 1..Cardinality(S) :
              Place(S, n) \in S /\ Cardinality(Beneath(S, Place(S, n))) = n - 1
         /\ \A k \in S : \E n \in 1..Cardinality(S) : Place(S, n) = k
<1> DEFINE N == Cardinality(S)
           rank == [k \in S |-> 1 + Cardinality(Beneath(S, k))]
<1>1. N \in Nat
  BY FS_CardinalityType
<1>2. ASSUME NEW k \in S
      PROVE  /\ IsFiniteSet(Beneath(S, k)) /\ Cardinality(Beneath(S, k)) \in Nat
             /\ Cardinality(Beneath(S, k)) < N
  <2>1. Beneath(S, k) \in SUBSET S /\ k \notin Beneath(S, k)
    BY DEF Beneath
  <2>2. /\ IsFiniteSet(Beneath(S, k)) /\ Cardinality(Beneath(S, k)) <= N
        /\ N # Cardinality(Beneath(S, k))
    BY <2>1, <1>2, FS_Subset
  <2> QED BY <1>1, <2>2, FS_CardinalityType
<1>3. ASSUME NEW j \in S, NEW k \in S, j < k
      PROVE  Cardinality(Beneath(S, j)) < Cardinality(Beneath(S, k))
  <2>1. j \in Int /\ k \in Int /\ ~(j < j) /\ \A h \in S : h < j => h < k
    BY <1>3
  <2>2. Beneath(S, j) \in SUBSET Beneath(S, k) /\ j \in Beneath(S, k) /\ j \notin Beneath(S, j)
    BY <1>3, <2>1 DEF Beneath
  <2>3. /\ Cardinality(Beneath(S, j)) <= Cardinality(Beneath(S, k))
        /\ Cardinality(Beneath(S, j)) # Cardinality(Beneath(S, k))
    BY <1>2, <2>2, FS_Subset
  <2> QED BY <1>2, <2>3
<1>4. ASSUME NEW j \in S, NEW k \in S, Cardinality(Beneath(S, j)) = Cardinality(Beneath(S, k))
      PROVE  j = k
  <2>1. j \in Int /\ k \in Int
    OBVIOUS
  <2>2. ~(j < k) /\ ~(k < j)
    BY <1>2, <1>3, <1>4
  <2> QED BY <2>1, <2>2
<1>5. rank \in [S -> 1..N]
  BY <1>1, <1>2
<1>6. \A j, k \in S : rank[j] = rank[k] => j = k
  BY <1>2, <1>4
<1>7. rank \in Surjection(S, 1..N)
  <2>1. IsFiniteSet(1..N) /\ Cardinality(1..N) = N
    BY <1>1, FS_Interval
  <2>2. rank \in Injection(S, 1..N)
    BY <1>5, <1>6 DEF Injection, IsInjective
  <2> QED BY <2>1, <2>2, FS_Injection
<1>8. ASSUME NEW n \in 1..N
      PROVE  Place(S, n) \in S /\ Cardinality(Beneath(S, Place(S, n))) = n - 1
  <2>1. \E k \in S : rank[k] = n
    BY <1>7 DEF Surjection
  <2>2. \E k \in S : Cardinality(Beneath(S, k)) = n - 1
    BY <1>2, <2>1
  <2> QED BY <2>2 DEF Place
<1>9. ASSUME NEW k \in S PROVE \E n \in 1..N : Place(S, n) = k
  <2>1. rank[k] \in 1..N /\ Cardinality(Beneath(S, k)) = rank[k] - 1
    BY <1>2, <1>5
  <2>2. Place(S, rank[k]) \in S /\ Cardinality(Beneath(S, Place(S, rank[k]))) = rank[k] - 1
    BY <1>8, <2>1
  <2> QED BY <1>4, <2>1, <2>2
<1> QED BY <1>1, <1>8, <1>9

(* The members of a list.                                                  *)
LEMMA ListHas ==
  ASSUME NEW S, NEW list \in Seq(S)
  PROVE  /\ DOMAIN list = 1 .. Len(list) /\ Len(list) \in Nat
         /\ \A i \in DOMAIN list : list[i] \in S
         /\ \A x : x \in ToSet(list) <=> \E i \in DOMAIN list : list[i] = x
         /\ \A id : HasId(list, id) <=> \E x \in ToSet(list) : x.id = id
  BY DEF ToSet, HasId

(* An edited copy takes the place of the one before it.                    *)
LEMMA ReplacedIs ==
  ASSUME NEW S, NEW list \in Seq(S), NEW copy \in S
  PROVE  LET new == Replaced(list, copy)
         IN  /\ new \in Seq(S)
             /\ \A x \in ToSet(new) : x = copy \/ (x \in ToSet(list) /\ x.id # copy.id)
             /\ \A id : HasId(new, id) <=> HasId(list, id)
             /\ Single(list) => Single(new)
<1> DEFINE new == Replaced(list, copy)
<1>1. DOMAIN list = 1 .. Len(list) /\ Len(list) \in Nat /\ \A i \in DOMAIN list : list[i] \in S
  BY ListHas
<1>2. /\ DOMAIN new = DOMAIN list
      /\ \A i \in DOMAIN list : new[i] = IF list[i].id = copy.id THEN copy ELSE list[i]
  BY DEF Replaced
<1>3. new \in [1 .. Len(list) -> S]
  BY <1>1 DEF Replaced
<1>4. new \in Seq(S)
  BY <1>1, <1>3
<1> HIDE DEF new
<1>5. \A x \in ToSet(new) : x = copy \/ (x \in ToSet(list) /\ x.id # copy.id)
  BY <1>2 DEF ToSet
<1>6. \A i \in DOMAIN list : new[i].id = list[i].id
  BY <1>2
<1> QED BY <1>2, <1>4, <1>5, <1>6 DEF new, HasId, Single

(* A dropped id is gone, and nothing else.                                 *)
LEMMA DroppedIs ==
  ASSUME NEW S, NEW list \in Seq(S), NEW id
  PROVE  LET new == Dropped(list, id)
         IN  /\ new \in Seq(S)
             /\ \A x : x \in ToSet(new) <=> x \in ToSet(list) /\ x.id # id
             /\ \A k : HasId(new, k) <=> HasId(list, k) /\ k # id
             /\ Single(list) => Single(new)
<1> DEFINE new == Dropped(list, id)
           kept == {i \in DOMAIN list : list[i].id # id}
<1>1. DOMAIN list = 1 .. Len(list) /\ Len(list) \in Nat /\ \A i \in DOMAIN list : list[i] \in S
  BY ListHas
<1>2. kept \in SUBSET Int /\ IsFiniteSet(kept)
  <2>1. IsFiniteSet(1 .. Len(list)) /\ kept \in SUBSET (1 .. Len(list))
    BY <1>1, FS_Interval
  <2> HIDE DEF kept
  <2>2. kept \in SUBSET Int
    BY <1>1, <2>1
  <2>3. IsFiniteSet(kept)
    BY <2>1, FS_Subset
  <2> QED BY <2>2, <2>3
<1>3. /\ Cardinality(kept) \in Nat
      /\ \A n \in 1..Cardinality(kept) :
              Place(kept, n) \in kept /\ Cardinality(Beneath(kept, Place(kept, n))) = n - 1
      /\ \A k \in kept : \E n \in 1..Cardinality(kept) : Place(kept, n) = k
  <2> HIDE DEF kept
  <2> QED BY <1>2, PlacesAre
<1>4. new = [n \in 1 .. Cardinality(kept) |-> list[Place(kept, n)]]
  BY DEF Dropped, Place, Beneath
<1> HIDE DEF new
<1>5. \A n \in 1 .. Cardinality(kept) : Place(kept, n) \in DOMAIN list /\ list[Place(kept, n)].id # id
  BY <1>3
<1>6. new \in Seq(S)
  <2>1. new \in [1 .. Cardinality(kept) -> S]
    BY <1>1, <1>4, <1>5
  <2> HIDE DEF kept
  <2> QED BY <1>3, <2>1
<1>7. ASSUME NEW x PROVE x \in ToSet(new) <=> x \in ToSet(list) /\ x.id # id
  <2>1. ASSUME x \in ToSet(new) PROVE x \in ToSet(list) /\ x.id # id
    BY <1>4, <1>5, <2>1 DEF ToSet
  <2>2. ASSUME x \in ToSet(list), x.id # id PROVE x \in ToSet(new)
    <3>1. PICK k \in kept : list[k] = x
      BY <2>2 DEF ToSet
    <3>2. PICK n \in 1..Cardinality(kept) : Place(kept, n) = k
      BY <1>3, <3>1
    <3>3. new[n] = x /\ n \in DOMAIN new
      <4> HIDE DEF kept
      <4> QED BY <1>4, <3>1, <3>2
    <3> QED BY <3>3 DEF ToSet
  <2> QED BY <2>1, <2>2
<1>8. \A k : HasId(new, k) <=> HasId(list, k) /\ k # id
  BY <1>6, <1>7, ListHas
<1>9. Single(list) => Single(new)
  <2> SUFFICES ASSUME Single(list), NEW i \in DOMAIN new, NEW j \in DOMAIN new, new[i].id = new[j].id
               PROVE  i = j
    BY DEF Single
  <2>1. Place(kept, i) = Place(kept, j)
    <3> HIDE DEF kept
    <3> QED BY <1>4, <1>5 DEF Single
  <2>2. i \in Nat /\ j \in Nat
    BY <1>3, <1>4
  <2>3. i - 1 = j - 1
    <3> HIDE DEF kept
    <3> QED BY <1>3, <1>4, <2>1
  <2> QED BY <2>2, <2>3
<1> QED BY <1>6, <1>7, <1>8, <1>9 DEF new

(* What is put in front of a list.                                         *)
LEMMA PrependIs ==
  ASSUME NEW S, NEW list \in Seq(S), NEW copy \in S
  PROVE  LET new == <<copy>> \o list
         IN  /\ new \in Seq(S)
             /\ \A x : x \in ToSet(new) <=> x = copy \/ x \in ToSet(list)
             /\ \A k : HasId(new, k) <=> HasId(list, k) \/ k = copy.id
             /\ Single(list) /\ ~HasId(list, copy.id) => Single(new)
<1> DEFINE new == <<copy>> \o list
<1>1. DOMAIN list = 1 .. Len(list) /\ Len(list) \in Nat
  BY ListHas
<1>2. new \in Seq(S) /\ Len(new) = 1 + Len(list) /\ new[1] = copy
      /\ \A i \in 1 .. Len(list) : new[i + 1] = list[i]
  BY <1>1
<1> HIDE DEF new
<1>3. DOMAIN new = 1 .. (1 + Len(list)) /\ \A i \in DOMAIN new : i # 1 => i - 1 \in DOMAIN list /\ new[i] = list[i - 1]
  <2>1. DOMAIN new = 1 .. (1 + Len(list))
    BY <1>1, <1>2
  <2>2. ASSUME NEW i \in DOMAIN new, i # 1 PROVE i - 1 \in DOMAIN list /\ new[i] = list[i - 1]
    <3>1. i - 1 \in 1 .. Len(list) /\ (i - 1) + 1 = i
      BY <1>1, <2>1, <2>2
    <3> QED BY <1>1, <1>2, <3>1
  <2> QED BY <2>1, <2>2
<1>4. ASSUME NEW x PROVE x \in ToSet(new) <=> x = copy \/ x \in ToSet(list)
  <2>1. x \in ToSet(new) => x = copy \/ x \in ToSet(list)
    BY <1>2, <1>3 DEF ToSet
  <2>2. 1 \in DOMAIN new /\ \A i \in DOMAIN list : i + 1 \in DOMAIN new
    BY <1>1, <1>3
  <2> QED BY <1>1, <1>2, <2>1, <2>2 DEF ToSet
<1>5. \A k : HasId(new, k) <=> HasId(list, k) \/ k = copy.id
  BY <1>2, <1>4, ListHas
<1>6. Single(list) /\ ~HasId(list, copy.id) => Single(new)
  <2> SUFFICES ASSUME Single(list), ~HasId(list, copy.id),
                      NEW i \in DOMAIN new, NEW j \in DOMAIN new, new[i].id = new[j].id
               PROVE  i = j
    BY DEF Single
  <2>1. i \in Int /\ j \in Int
    BY <1>1, <1>3
  <2>2. (i = 1) <=> (j = 1)
    BY <1>2, <1>3 DEF HasId
  <2>3. i # 1 /\ j # 1 => i - 1 = j - 1
    BY <1>3 DEF Single
  <2> QED BY <2>1, <2>2, <2>3
<1> QED BY <1>2, <1>4, <1>5, <1>6 DEF new

(* Either way an upserted copy is the only one of its id.                  *)
LEMMA UpsertedIs ==
  ASSUME NEW S, NEW list \in Seq(S), NEW copy \in S
  PROVE  LET new == Upsert(list, copy)
         IN  /\ new \in Seq(S)
             /\ \A x \in ToSet(new) : x = copy \/ (x \in ToSet(list) /\ x.id # copy.id)
             /\ \A k : HasId(new, k) <=> HasId(list, k) \/ k = copy.id
             /\ Single(list) => Single(new)
<1>1. CASE HasId(list, copy.id)
  BY <1>1, ReplacedIs DEF Upsert
<1>2. CASE ~HasId(list, copy.id)
  <2>1. \A x \in ToSet(list) : x.id # copy.id
    BY <1>2, ListHas
  <2> QED BY <1>2, <2>1, PrependIs DEF Upsert
<1> QED BY <1>1, <1>2

(* What the server answers lists every row once.                           *)
LEMMA ListingIs ==
  ASSUME NEW S, NEW rows \in SUBSET S, IsFiniteSet(rows), \A r, q \in rows : r.id = q.id => r = q
  PROVE  Listing(rows) \in Seq(S) /\ Exact(Listing(rows), rows)
<1> DEFINE n == Cardinality(rows)
           list == Listing(rows)
<1>1. n \in Nat
  BY FS_CardinalityType
<1>2. \E f \in [1..n -> rows] : IsInjective(f)
  <2>1. ExistsBijection(1..n, rows)
    BY FS_CardinalityType
  <2> QED BY <2>1 DEF ExistsBijection, Bijection, Injection, IsInjective
<1>3. list \in [1..n -> rows] /\ IsInjective(list)
  BY <1>2 DEF Listing, SetToSeq
<1> HIDE DEF list
<1>4. list \in Surjection(1..n, rows)
  <2>1. IsFiniteSet(1..n) /\ Cardinality(1..n) = n
    BY <1>1, FS_Interval
  <2>2. list \in Injection(1..n, rows)
    BY <1>3 DEF Injection
  <2> QED BY <2>1, <2>2, FS_Injection
<1>5. list \in Seq(S)
  <2>1. list \in [1..n -> S]
    BY <1>3
  <2> QED BY <1>1, <2>1
<1>6. ToSet(list) = rows
  BY <1>3, <1>4 DEF ToSet, Surjection
<1>7. Single(list)
  BY <1>3 DEF Single, IsInjective
<1> QED BY <1>5, <1>6, <1>7 DEF Exact, list

(* Such a list is as long as there are rows.                               *)
LEMMA ExactMirrors ==
  ASSUME NEW S, NEW list \in Seq(S), NEW rows, IsFiniteSet(rows), Exact(list, rows)
  PROVE  Mirrors(list, rows)
<1>1. DOMAIN list = 1 .. Len(list) /\ Len(list) \in Nat
  BY ListHas
<1>2. list \in Bijection(1 .. Len(list), rows)
  <2>1. list \in [1 .. Len(list) -> rows]
    BY <1>1 DEF Exact, ToSet
  <2>2. \A i, j \in 1 .. Len(list) : list[i] = list[j] => i = j
    BY <1>1 DEF Exact, Single
  <2>3. \A r \in rows : \E i \in 1 .. Len(list) : list[i] = r
    BY <1>1 DEF Exact, ToSet
  <2> QED BY <2>1, <2>2, <2>3 DEF Bijection, Injection, Surjection, IsInjective
<1>3. Cardinality(1 .. Len(list)) = Len(list) /\ IsFiniteSet(1 .. Len(list))
  BY <1>1, FS_Interval
<1>4. Cardinality(rows) = Len(list)
  BY <1>2, <1>3, FS_Bijection DEF ExistsBijection
<1> QED BY <1>4 DEF Mirrors, Exact

-----------------------------------------------------------------------------
(* The types of the knowledge base.                                        *)

(* More ids change no type.                                                *)
LEMMA KnownGrows ==
  ASSUME KnowledgeTypes, issued' \in Nat, issued <= issued'
  PROVE  /\ Known \subseteq Known' /\ SpaceCopy \subseteq SpaceCopy' /\ DocumentCopy \subseteq DocumentCopy'
         /\ \A l \in Seq(SpaceCopy) : l \in Seq(SpaceCopy')
         /\ \A l \in Seq(DocumentCopy) : l \in Seq(DocumentCopy')
         /\ \A c : IsAsk(c) => IsAsk(c)'
         /\ \A c : KnowledgeCall(c) => KnowledgeCall(c)'
<1>1. issued \in Nat
  BY KnowledgeAssumption DEF KnowledgeTypes, SourceTypes
<1>2. Known \subseteq Known'
  BY <1>1 DEF Known
<1>3. SpaceCopy \subseteq SpaceCopy' /\ DocumentCopy \subseteq DocumentCopy'
  BY <1>2 DEF SpaceCopy, DocumentCopy
<1>4. /\ \A l \in Seq(SpaceCopy) : l \in Seq(SpaceCopy')
      /\ \A l \in Seq(DocumentCopy) : l \in Seq(DocumentCopy')
  <2> HIDE DEF SpaceCopy, DocumentCopy
  <2>1. \A S, T : S \subseteq T => \A l \in Seq(S) : l \in Seq(T)
    OBVIOUS
  <2> QED BY <1>3, <2>1
<1>5. \A p : IsPart(p) => IsPart(p)'
  BY <1>4 DEF IsPart
<1>6. \A c : IsAsk(c) => IsAsk(c)'
  BY <1>2, <1>5 DEF IsAsk
<1>7. ASSUME NEW c, KnowledgeCall(c) PROVE KnowledgeCall(c)'
  <2>1. IsKnowledgeRequest(c)'
    BY <1>3, <1>6, <1>7 DEF KnowledgeCall, IsKnowledgeRequest
  <2>2. IsKnowledgeAnswer(c)'
    BY <1>3, <1>4, <1>7 DEF KnowledgeCall, IsKnowledgeAnswer
  <2> QED BY <2>1, <2>2 DEF KnowledgeCall
<1> QED BY <1>2, <1>3, <1>4, <1>6, <1>7

(* The same with as many.                                                  *)
LEMMA KnownStays ==
  ASSUME KnowledgeTypes, UNCHANGED issued
  PROVE  /\ Known' = Known /\ SpaceCopy' = SpaceCopy /\ DocumentCopy' = DocumentCopy
         /\ \A c : IsAsk(c) => IsAsk(c)'
         /\ \A c : KnowledgeCall(c) => KnowledgeCall(c)'
<1>1. issued \in Nat
  BY KnowledgeAssumption DEF KnowledgeTypes, SourceTypes
<1>2. issued' \in Nat /\ issued <= issued'
  BY <1>1
<1> QED BY <1>2, KnownGrows DEF Known, SpaceCopy, DocumentCopy

(* A request as it leaves.                                                 *)
IsAsked(r, body) ==
  /\ DOMAIN r = {"n", "phase", "lost"} \cup DOMAIN body
  /\ r.phase = "sent" /\ r.lost = FALSE
  /\ \A x \in DOMAIN body : x \notin {"n", "phase", "lost"} => r[x] = body[x]

(* AsNext makes such a request.                                            *)
LEMMA AsNextIs == \A cs, body : IsAsked(AsNext(cs, body), body)
<1> TAKE cs, body
<1>1. PICK n : AsNext(cs, body) = Beside([n |-> n, phase |-> "sent", lost |-> FALSE], body)
  BY DEF AsNext, Request
<1>2. PICK f : f = [n |-> n, phase |-> "sent", lost |-> FALSE]
  OBVIOUS
<1>3. IsBeside(AsNext(cs, body), f, body)
  BY <1>1, <1>2, BesideIs
<1>4. DOMAIN f = {"n", "phase", "lost"} /\ f.phase = "sent" /\ f.lost = FALSE
  BY <1>2
<1> QED BY <1>3, <1>4 DEF IsBeside, IsAsked

(* It is a request of the tab.                                             *)
LEMMA AskedIs ==
  ASSUME NEW body, IsAsk(body), NEW r, IsAsked(r, body)
  PROVE  /\ KnowledgeCall(r) /\ r.kind = body.kind /\ r.mine = body.mine /\ r.phase = "sent" /\ ~r.lost
         /\ body.kind \in OfSpace => r.space = body.space
         /\ body.kind \in OfDocument => r.document = body.document
         /\ body.kind \in {"deleteSpace", "deleteDocument"} => r.endsEdit = body.endsEdit
         /\ body.kind = "deleteSpace" => r.leavesSpace = body.leavesSpace
         /\ body.kind = "workspace" => r.spaces = body.spaces /\ r.rag = body.rag
<1>1. /\ r.kind = body.kind /\ r.mine = body.mine
      /\ "space" \in DOMAIN body => r.space = body.space
      /\ "document" \in DOMAIN body => r.document = body.document
      /\ "endsEdit" \in DOMAIN body => r.endsEdit = body.endsEdit
      /\ "leavesSpace" \in DOMAIN body => r.leavesSpace = body.leavesSpace
      /\ "spaces" \in DOMAIN body => r.spaces = body.spaces
      /\ "rag" \in DOMAIN body => r.rag = body.rag
  BY DEF IsAsk, IsAsked
<1>2. IsAsk(r)
  BY <1>1 DEF IsAsk, IsAsked
<1>3. IsKnowledgeRequest(r) /\ IsKnowledgeAnswer(r)
  BY <1>2 DEF IsKnowledgeRequest, IsKnowledgeAnswer, IsAsked
<1> QED BY <1>1, <1>3 DEF IsAsk, IsAsked, KnowledgeCall

(* Two requests with the same question.                                    *)
Alike(d, c) ==
  /\ d.kind = c.kind
  /\ c.kind \in OfSpace => d.space = c.space
  /\ c.kind \in OfDocument => d.document = c.document
  /\ c.kind \in {"deleteSpace", "deleteDocument"} => d.endsEdit = c.endsEdit
  /\ c.kind = "deleteSpace" => d.leavesSpace = c.leavesSpace

(* A request in its next phase.                                            *)
LEMMA BesideAlike ==
  ASSUME NEW c, IsAsk(c), NEW f, DOMAIN f \subseteq {"phase", "reply", "lost", "row"},
         NEW d, IsBeside(d, f, c)
  PROVE  /\ IsAsk(d) /\ Alike(d, c) /\ d.mine = c.mine
         /\ {"n", "phase", "lost"} \subseteq DOMAIN c => {"n", "phase", "lost"} \subseteq DOMAIN d
         /\ c.kind = "workspace" => d.spaces = c.spaces /\ d.rag = c.rag
<1>1. /\ d.kind = c.kind /\ d.mine = c.mine
      /\ "space" \in DOMAIN c => d.space = c.space
      /\ "document" \in DOMAIN c => d.document = c.document
      /\ "endsEdit" \in DOMAIN c => d.endsEdit = c.endsEdit
      /\ "leavesSpace" \in DOMAIN c => d.leavesSpace = c.leavesSpace
      /\ "spaces" \in DOMAIN c => d.spaces = c.spaces
      /\ "rag" \in DOMAIN c => d.rag = c.rag
  BY DEF IsAsk, IsBeside
<1>2. IsAsk(d)
  BY <1>1 DEF IsAsk, IsBeside
<1> QED BY <1>1, <1>2 DEF IsAsk, IsBeside, Alike

(* Answered, refused or lost.                                              *)
LEMMA RepliedIs ==
  ASSUME NEW c, KnowledgeCall(c), NEW body
  PROVE  LET d == Reply(c, body)
         IN  /\ Alike(d, c) /\ d.mine = c.mine /\ d.phase = "answered" /\ d.reply = body /\ d.lost = c.lost
             /\ IsKnowledgeRequest(d) /\ "reply" \in DOMAIN d
<1> DEFINE d == Reply(c, body)
<1>1. PICK f : f = [phase |-> "answered", reply |-> body]
  OBVIOUS
<1>2. DOMAIN f = {"phase", "reply"} /\ f.phase = "answered" /\ f.reply = body
  BY <1>1
<1>3. IsBeside(d, f, c)
  BY <1>1, BesideIs DEF Reply
<1> HIDE DEF d
<1>4. d.phase = "answered" /\ d.reply = body /\ d.lost = c.lost /\ "reply" \in DOMAIN d
  BY <1>2, <1>3 DEF IsBeside, KnowledgeCall, IsKnowledgeRequest
<1>5. IsAsk(d) /\ Alike(d, c) /\ d.mine = c.mine /\ {"n", "phase", "lost"} \subseteq DOMAIN d
  BY <1>2, <1>3, BesideAlike DEF KnowledgeCall, IsKnowledgeRequest
<1>6. IsKnowledgeRequest(d)
  BY <1>4, <1>5 DEF IsKnowledgeRequest, KnowledgeCall
<1> QED BY <1>4, <1>5, <1>6 DEF d

(* What a request that fails is.                                           *)
LEMMA KnowledgeBrokenIs ==
  ASSUME NEW c, KnowledgeCall(c), c.kind # "workspace"
  PROVE  LET d == Broken(c)
         IN  Alike(d, c) /\ d.mine = c.mine /\ d.phase = "failed" /\ d.lost = (c.phase # "sent") /\ KnowledgeCall(d)
<1> DEFINE d == Broken(c)
           b == c.phase # "sent"
<1>1. PICK f : f = [phase |-> "failed", lost |-> b]
  OBVIOUS
<1>2. DOMAIN f = {"phase", "lost"} /\ f.phase = "failed" /\ f.lost = b
  BY <1>1
<1>3. IsBeside(d, f, c)
  BY <1>1, BesideIs DEF Broken
<1>7. b \in BOOLEAN
  OBVIOUS
<1> HIDE DEF d, b
<1>4. d.phase = "failed" /\ d.lost = b
  BY <1>2, <1>3 DEF IsBeside
<1>5. IsAsk(d) /\ Alike(d, c) /\ d.mine = c.mine /\ {"n", "phase", "lost"} \subseteq DOMAIN d
  BY <1>2, <1>3, BesideAlike DEF KnowledgeCall, IsKnowledgeRequest
<1>6. IsKnowledgeRequest(d) /\ IsKnowledgeAnswer(d)
  BY <1>4, <1>5, <1>7 DEF IsKnowledgeRequest, IsKnowledgeAnswer, Alike
<1> QED BY <1>4, <1>5, <1>6 DEF d, b, KnowledgeCall


-----------------------------------------------------------------------------
(* Requests from one state to the next.                                    *)

(* The same request, whether or not its form is still there.               *)
SameCall(d, c) ==
  /\ Alike(d, c) /\ d.phase = c.phase /\ d.lost = c.lost
  /\ c.kind = "workspace" => d.spaces = c.spaces /\ d.rag = c.rag
  /\ c.phase = "answered" /\ c.kind # "workspace" => d.reply = c.reply
  /\ c.phase = "checked" /\ c.kind \in DocumentUpdates => d.row = c.row

(* A request the server has not seen; one that is still there.             *)
Unserved(d) ==
  d.phase = "sent" /\ d.lost = FALSE /\ (d.kind = "workspace" => d.spaces = NoOne /\ d.rag = NoOne)
Carried(c) == \E d \in calls' : SameCall(d, c)

(* A request is itself.                                                    *)
LEMMA SameCallIs == \A c : SameCall(c, c)
  BY DEF SameCall, Alike

(* A request whose form was left.                                          *)
LEMMA OrphanIs ==
  ASSUME NEW c, KnowledgeCall(c)
  PROVE  LET d == [c EXCEPT !.mine = FALSE]
         IN  KnowledgeCall(d) /\ SameCall(d, c) /\ ~d.mine
<1> DEFINE d == [c EXCEPT !.mine = FALSE]
<1>1. /\ DOMAIN d = DOMAIN c /\ d.mine = FALSE
      /\ d.kind = c.kind /\ d.phase = c.phase /\ d.lost = c.lost
      /\ "space" \in DOMAIN c => d.space = c.space
      /\ "document" \in DOMAIN c => d.document = c.document
      /\ "endsEdit" \in DOMAIN c => d.endsEdit = c.endsEdit
      /\ "leavesSpace" \in DOMAIN c => d.leavesSpace = c.leavesSpace
      /\ "spaces" \in DOMAIN c => d.spaces = c.spaces
      /\ "rag" \in DOMAIN c => d.rag = c.rag
      /\ "reply" \in DOMAIN c => d.reply = c.reply
      /\ "row" \in DOMAIN c => d.row = c.row
  BY DEF KnowledgeCall, IsKnowledgeRequest, IsAsk
<1> HIDE DEF d
<1>2. Alike(d, c)
  BY <1>1 DEF Alike, KnowledgeCall, IsKnowledgeRequest, IsAsk
<1>3. SameCall(d, c)
  BY <1>1, <1>2 DEF SameCall, KnowledgeCall, IsKnowledgeRequest, IsKnowledgeAnswer, IsAsk
<1>4. IsAsk(d)
  BY <1>1 DEF KnowledgeCall, IsKnowledgeRequest, IsAsk
<1>5. IsKnowledgeRequest(d)
  <2>1. c.phase = "checked" /\ c.kind \in DocumentUpdates =>
          "row" \in DOMAIN c /\ c.row \in DocumentCopy /\ c.row.id = c.document /\ c.kind \in OfDocument
    BY DEF KnowledgeCall, IsKnowledgeRequest, OfDocument
  <2> QED BY <1>1, <1>2, <1>4, <2>1 DEF KnowledgeCall, IsKnowledgeRequest, Alike
<1>6. IsKnowledgeAnswer(d)
  <2>1. /\ c.phase = "answered" /\ c.kind # "workspace" => d.reply = c.reply
        /\ c.kind = "workspace" => d.spaces = c.spaces /\ d.rag = c.rag
        /\ c.kind \in {"updateSpace"} \cup DocumentCreates => d.space = c.space
        /\ c.kind \in DocumentUpdates => d.document = c.document
    BY <1>2, <1>3 DEF SameCall, Alike, OfSpace, OfDocument, DocumentWrites
  <2> QED BY <1>1, <2>1 DEF KnowledgeCall, IsKnowledgeAnswer, DocumentCreates, DocumentUpdates
<1> QED BY <1>1, <1>3, <1>5, <1>6 DEF d, KnowledgeCall

(* Which requests must not cross is a matter of what they ask.             *)
LEMMA AlikeConflict ==
  ASSUME NEW c, NEW d, NEW e, NEW g, Alike(e, c), Alike(g, d)
  PROVE  Conflict(e, g) => Conflict(c, d)
<1>1. /\ e.kind = c.kind /\ g.kind = d.kind
      /\ c.kind \in OfSpace => e.space = c.space
      /\ d.kind \in OfSpace => g.space = d.space
      /\ c.kind \in OfDocument => e.document = c.document
      /\ d.kind \in OfDocument => g.document = d.document
  BY DEF Alike
<1>2. Loads(e, g) => Loads(c, d)
  BY <1>1 DEF Loads, OfSpace
<1>3. Loads(g, e) => Loads(d, c)
  BY <1>1 DEF Loads, OfSpace
<1>4. SameRow(e, g) => SameRow(c, d)
  BY <1>1 DEF SameRow, OfSpace, OfDocument
<1>5. SameRow(g, e) => SameRow(d, c)
  BY <1>1 DEF SameRow, OfSpace, OfDocument
<1> QED BY <1>2, <1>3, <1>4, <1>5 DEF Conflict

(* Crossing goes both ways.                                                *)
LEMMA ConflictBoth == \A c, d : Conflict(c, d) => Conflict(d, c)
  BY DEF Conflict

(* Requests about the same need the same list.                             *)
LEMMA AlikeUnloaded ==
  ASSUME NEW c, NEW d, Alike(d, c), NEW cache
  PROVE  Unloaded(d, cache) => Unloaded(c, cache)
  BY DEF Alike, Unloaded, OfSpace

(* What Settle adds.                                                       *)
LoadOf(space) == [kind |-> "documents", space |-> space, mine |-> TRUE]

(* Settle adds the load of the effect at most.                             *)
LEMMA SettleIs ==
  ASSUME NEW cs, NEW space, NEW cache, Settle(cs, space, cache), mixed \in BOOLEAN
  PROVE  /\ documentSpaceId' = space /\ knowledgeDocuments' = cache /\ mixed' \in BOOLEAN
         /\ \E new : /\ calls' = cs \cup new
                     /\ \A c \in new : space # NoOne /\ IsAsked(c, LoadOf(space))
                     /\ \A c, d \in new : c = d
                     /\ ~mixed' => ~mixed /\ \A c \in new, d \in cs : ~Conflict(c, d)
         /\ ~mixed' => \A c \in cs \ calls : ~Unloaded(c, cache) /\ \A d \in cs \ {c} : ~Conflict(c, d)
<1> DEFINE new == EffectLoads(cs, space, cache)
<1>1. /\ calls' = cs \cup new
      /\ documentSpaceId' = space /\ knowledgeDocuments' = cache
      /\ mixed' = (\/ mixed
                   \/ \E c \in new, d \in cs : Conflict(c, d)
                   \/ \E c \in cs \ calls : \/ Unloaded(c, cache)
                                            \/ \E d \in cs \ {c} : Conflict(c, d))
  BY DEF Settle
<1>2. \A c \in new : space # NoOne /\ c = AsNext(cs, LoadOf(space))
  BY DEF EffectLoads, LoadOf
<1>3. \A c \in new : space # NoOne /\ IsAsked(c, LoadOf(space))
  BY <1>2, AsNextIs
<1> HIDE DEF new
<1> QED BY <1>1, <1>2, <1>3

-----------------------------------------------------------------------------
(* What a step leaves true of the requests, lists and forms it leaves      *)
(* alone.                                                                  *)

(* The requests after a step are some of those before, and new ones that   *)
(* the server has not seen.                                                *)
Going(old, f, new) ==
  /\ calls' = {f[c] : c \in old} \cup new
  /\ \A c \in old : c \in calls /\ SameCall(f[c], c)
  /\ \A d \in new : Unserved(d)

(* What the tab does leaves the answers true.                              *)
LEMMA StillTrueSame ==
  ASSUME NEW c, StillTrue(c), NEW d, SameCall(d, c), UNCHANGED <<spaceRows, documentRows, ragRows>>
  PROVE  StillTrue(d)'
<1>1. /\ d.kind = c.kind /\ d.phase = c.phase
      /\ c.kind \in OfSpace => d.space = c.space
      /\ c.kind \in OfDocument => d.document = c.document
      /\ c.kind = "workspace" => d.spaces = c.spaces /\ d.rag = c.rag
      /\ c.phase = "answered" /\ c.kind # "workspace" => d.reply = c.reply
      /\ c.phase = "checked" /\ c.kind \in DocumentUpdates => d.row = c.row
  BY DEF SameCall, Alike
<1>2. \A s : DocumentsOf(s)' = DocumentsOf(s)
  BY DEF DocumentsOf
<1> QED BY <1>1, <1>2 DEF StillTrue, Landed, OfSpace, OfDocument, DocumentWrites, DocumentCreates, DocumentUpdates

(* A request that was not served was told nothing.                         *)
LEMMA StillTrueFresh ==
  ASSUME NEW d, Unserved(d)
  PROVE  StillTrue(d)'
  BY DEF Unserved, StillTrue, Landed

(* No requests cross, and each is about a list that is there.              *)
LEMMA GoingApart ==
  ASSUME Apart, HaveLists, NEW old, NEW f, NEW new, Going(old, f, new),
         \A c \in new, d \in calls' : ~Conflict(c, d) \/ c = d,
         \A c \in new : ~Unloaded(c, knowledgeDocuments'),
         \A c \in old : Unloaded(c, knowledgeDocuments') => Unloaded(c, knowledgeDocuments)
  PROVE  Apart' /\ HaveLists'
<1>1. ASSUME NEW c \in calls', NEW d \in calls', c # d PROVE ~Conflict(c, d)
  <2>1. c \in new \/ d \in new => ~Conflict(c, d)
    BY <1>1, ConflictBoth
  <2>2. ASSUME c \notin new, d \notin new PROVE ~Conflict(c, d)
    <3>1. PICK e \in old, g \in old : c = f[e] /\ d = f[g]
      BY <1>1, <2>2 DEF Going
    <3>2. e \in calls /\ g \in calls /\ e # g /\ Alike(c, e) /\ Alike(d, g)
      BY <1>1, <3>1 DEF Going, SameCall
    <3>3. ~Conflict(e, g)
      BY <3>2 DEF Apart
    <3> QED BY <3>2, <3>3, AlikeConflict
  <2> QED BY <2>1, <2>2
<1>2. ASSUME NEW d \in calls' PROVE ~Unloaded(d, knowledgeDocuments')
  <2>1. CASE d \in new
    BY <2>1
  <2>2. CASE d \notin new
    <3>1. PICK c \in old : d = f[c]
      BY <2>2, <1>2 DEF Going
    <3>2. c \in calls /\ Alike(d, c)
      BY <3>1 DEF Going, SameCall
    <3> QED BY <3>1, <3>2, AlikeUnloaded DEF HaveLists
  <2> QED BY <2>1, <2>2
<1> QED BY <1>1, <1>2 DEF Apart, HaveLists

(* With the rows as they are, what requests were told is still so.         *)
LEMMA GoingTrue ==
  ASSUME \A c \in calls : StillTrue(c), NEW old, NEW f, NEW new, Going(old, f, new),
         UNCHANGED <<spaceRows, documentRows, ragRows>>
  PROVE  (\A c \in calls : StillTrue(c))'
<1> SUFFICES ASSUME NEW d \in calls' PROVE StillTrue(d)'
  OBVIOUS
<1>1. CASE d \in new
  BY <1>1, StillTrueFresh DEF Going
<1>2. CASE d \notin new
  <2>1. PICK c \in old : d = f[c]
    BY <1>2 DEF Going
  <2> QED BY <2>1, StillTrueSame DEF Going
<1> QED BY <1>1, <1>2

(* The rows the tab was not told of are new to it.                         *)
LEMMA GoingNew ==
  ASSUME NewRows, NEW old, NEW f, NEW new, Going(old, f, new),
         \A c \in old : Landed(c, {"createSpace"}) /\ SpaceHeard(c.reply.id)' => SpaceHeard(c.reply.id),
         \A c \in old : Landed(c, DocumentCreates) /\ DocumentHeard(c.reply.id)' => DocumentHeard(c.reply.id)
  PROVE  NewRows'
<1> DEFINE Creates == {"createSpace"} \cup DocumentCreates
<1>1. ASSUME NEW d \in calls', Landed(d, Creates)
      PROVE  \E c \in old : /\ d = f[c] /\ c \in calls /\ d.reply = c.reply
                            /\ Landed(d, {"createSpace"}) = Landed(c, {"createSpace"})
                            /\ Landed(d, DocumentCreates) = Landed(c, DocumentCreates)
  <2>1. d \notin new
    BY <1>1 DEF Going, Unserved, Landed
  <2>2. PICK c \in old : d = f[c]
    BY <2>1, <1>1 DEF Going
  <2>3. c \in calls /\ SameCall(d, c)
    BY <2>2 DEF Going
  <2>4. d.kind = c.kind /\ d.phase = c.phase /\ d.reply = c.reply
    BY <2>3, <1>1 DEF SameCall, Alike, Landed, DocumentCreates
  <2> QED BY <2>2, <2>3, <2>4 DEF Landed
<1>2. \A d : Landed(d, {"createSpace"}) \/ Landed(d, DocumentCreates) => Landed(d, Creates)
  BY DEF Landed
<1>3. ASSUME NEW d \in calls'
      PROVE  /\ Landed(d, {"createSpace"}) => ~SpaceHeard(d.reply.id)'
             /\ Landed(d, DocumentCreates) => ~DocumentHeard(d.reply.id)'
  <2>1. ASSUME Landed(d, {"createSpace"}) PROVE ~SpaceHeard(d.reply.id)'
    <3>1. PICK c \in old : c \in calls /\ d.reply = c.reply /\ Landed(c, {"createSpace"})
      BY <1>1, <1>2, <2>1
    <3> QED BY <3>1 DEF NewRows
  <2>2. ASSUME Landed(d, DocumentCreates) PROVE ~DocumentHeard(d.reply.id)'
    <3>1. PICK c \in old : c \in calls /\ d.reply = c.reply /\ Landed(c, DocumentCreates)
      BY <1>1, <1>2, <2>2
    <3> QED BY <3>1 DEF NewRows
  <2> QED BY <2>1, <2>2
<1>4. ASSUME NEW d \in calls', NEW e \in calls', d.reply.id = e.reply.id,
             \/ Landed(d, {"createSpace"}) /\ Landed(e, {"createSpace"})
             \/ Landed(d, DocumentCreates) /\ Landed(e, DocumentCreates)
      PROVE  d = e
  <2>1. PICK c \in old : /\ d = f[c] /\ c \in calls /\ d.reply = c.reply
                         /\ Landed(d, {"createSpace"}) = Landed(c, {"createSpace"})
                         /\ Landed(d, DocumentCreates) = Landed(c, DocumentCreates)
    BY <1>1, <1>2, <1>4
  <2>2. PICK g \in old : /\ e = f[g] /\ g \in calls /\ e.reply = g.reply
                         /\ Landed(e, {"createSpace"}) = Landed(g, {"createSpace"})
                         /\ Landed(e, DocumentCreates) = Landed(g, DocumentCreates)
    BY <1>1, <1>2, <1>4
  <2>3. c = g
    BY <2>1, <2>2, <1>4 DEF NewRows
  <2> QED BY <2>1, <2>2, <2>3
<1> HIDE DEF Creates
<1> QED BY <1>3, <1>4 DEF NewRows, Landed

(* A list nothing was done to is as right as before.                       *)
LEMMA SpacesStay ==
  ASSUME SpacesShown, UNCHANGED <<knowledgeSpaces, spaceRows>>,
         "spaces" \in loadedParts' => "spaces" \in loadedParts,
         \A c \in calls : Landed(c, SpaceWrites) => Carried(c)
  PROVE  SpacesShown'
<1>1. ASSUME NEW c \in calls, Landed(c, SpaceWrites)
      PROVE  \E d \in calls' : /\ d.phase = "answered" /\ d.kind = c.kind /\ d.reply = c.reply
                               /\ c.kind # "createSpace" => d.space = c.space
  <2>1. PICK d \in calls' : SameCall(d, c)
    BY <1>1 DEF Carried
  <2> QED BY <2>1, <1>1 DEF SameCall, Alike, Landed, SpaceWrites, OfSpace
<1>2. \A copy : (\E c \in calls : Landed(c, {"updateSpace", "deleteSpace"}) /\ c.space = copy.id)
                  => \E c \in calls' : Landed(c, {"updateSpace", "deleteSpace"}) /\ c.space = copy.id
  BY <1>1 DEF Landed, SpaceWrites
<1>3. \A r : (\E c \in calls : Landed(c, {"createSpace"}) /\ c.reply = r)
                  => \E c \in calls' : Landed(c, {"createSpace"}) /\ c.reply = r
  BY <1>1 DEF Landed, SpaceWrites
<1> QED BY <1>2, <1>3 DEF SpacesShown

(* A list stays right while its rows, and the answers about it, do.        *)
LEMMA ShowsStay ==
  ASSUME NEW s, NEW list, Shows(s, list), DocumentsOf(s)' = DocumentsOf(s),
         \A c \in calls : StillTrue(c),
         s \in IdsOf(spaceRows) => s \in IdsOf(spaceRows') \/ SpaceGone(s)',
         \A c \in calls : Landed(c, DocumentWrites \cup {"deleteSpace"}) /\ c.space = s => Carried(c)
  PROVE  Shows(s, list)'
<1>1. ASSUME NEW c \in calls, Landed(c, DocumentWrites \cup {"deleteSpace"}), c.space = s
      PROVE  \E d \in calls' : /\ d.phase = "answered" /\ d.kind = c.kind /\ d.reply = c.reply
                               /\ d.space = s
                               /\ c.kind \in OfDocument => d.document = c.document
  <2>1. PICK d \in calls' : SameCall(d, c)
    BY <1>1 DEF Carried
  <2> QED BY <2>1, <1>1 DEF SameCall, Alike, Landed, OfSpace, DocumentWrites, DocumentCreates, DocumentUpdates
<1>2. SpaceGone(s) => SpaceGone(s)'
  <2>1. ASSUME NEW c \in calls, Landed(c, {"deleteSpace"}), c.space = s PROVE SpaceGone(s)'
    <3>1. PICK d \in calls' : d.phase = "answered" /\ d.kind = c.kind /\ d.space = s
      BY <1>1, <2>1 DEF Landed
    <3> QED BY <3>1, <2>1 DEF SpaceGone, Landed
  <2> QED BY <2>1 DEF SpaceGone
<1>3. ASSUME NEW j, NEW c \in calls, Landed(c, OfDocument), c.document = j, c.space = s
      PROVE  \E d \in calls' : Landed(d, OfDocument) /\ d.document = j /\ d.space = s
  BY <1>1, <1>3 DEF Landed, OfDocument, DocumentWrites
<1>4. ASSUME NEW row \in DocumentsOf(s), NEW c \in calls, Landed(c, DocumentCreates), c.reply = row
      PROVE  \E d \in calls' : Landed(d, DocumentCreates) /\ d.reply = row
  <2>1. c.space = s
    BY <1>4 DEF StillTrue, DocumentsOf, Landed
  <2> QED BY <1>1, <1>4, <2>1 DEF Landed, DocumentWrites
<1>5. \A copy \in documentRows : copy.space = s => copy \in documentRows'
  BY DEF DocumentsOf
<1> QED BY <1>2, <1>3, <1>4, <1>5 DEF Shows

(* The providers do too.                                                   *)
LEMMA RagStays ==
  ASSUME RagShown, UNCHANGED <<ragProviders, ragRows>>, "rag" \in loadedParts' => "rag" \in loadedParts,
         \A c \in calls : Landed(c, {"rag"}) => Carried(c)
  PROVE  RagShown'
<1>1. ASSUME NEW c \in calls, Landed(c, {"rag"})
      PROVE  \E d \in calls' : Landed(d, {"rag"})
  BY <1>1 DEF Carried, SameCall, Alike, Landed
<1> QED BY <1>1 DEF RagShown

(* What the tab has heard of has an id.                                    *)
LEMMA HeardIsKnown ==
  ASSUME KnowledgeTypes, NEW i \in Ids
  PROVE  SpaceHeard(i) \/ DocumentHeard(i) => i \in Known
<1>1. NoOne \notin Known /\ Known \subseteq Ids
  BY KnowledgeAssumption DEF Known, Ids, KnowledgeTypes, SourceTypes
<1>2. SpaceHeard(i) => i \in Known
  <2>1. HasId(knowledgeSpaces, i) => i \in Known
    <3>1. \A k \in DOMAIN knowledgeSpaces : knowledgeSpaces[k] \in SpaceCopy
      BY ListHas DEF KnowledgeTypes, ListTypes
    <3> QED BY <3>1 DEF HasId, SpaceCopy
  <2>2. knowledgeDocuments[i] # NoOne => i \in Known
    BY DEF KnowledgeTypes, ListTypes
  <2>3. confirmation # NoOne /\ confirmation.space = i => i \in Known
    BY DEF KnowledgeTypes, FormTypes, IsConfirmation, IsAsk, OfSpace, DocumentWrites
  <2>4. i \in {documentSpaceId, editingSpace} => i \in Known
    BY <1>1, KnowledgeAssumption DEF KnowledgeTypes, FormTypes, Ids
  <2>5. \A d \in calls : d.kind \in OfSpace /\ d.space = i => i \in Known
    BY DEF KnowledgeTypes, KnowledgeCall, IsKnowledgeRequest, IsAsk
  <2> QED BY <2>1, <2>2, <2>3, <2>4, <2>5 DEF SpaceHeard
<1>3. DocumentHeard(i) => i \in Known
  <2>1. ASSUME NEW s \in Ids, knowledgeDocuments[s] # NoOne, HasId(knowledgeDocuments[s], i) PROVE i \in Known
    <3>1. knowledgeDocuments[s] \in Seq(DocumentCopy)
      BY <2>1 DEF KnowledgeTypes, ListTypes
    <3>2. \A k \in DOMAIN knowledgeDocuments[s] : knowledgeDocuments[s][k] \in DocumentCopy
      BY <3>1, ListHas
    <3> QED BY <2>1, <3>2 DEF HasId, DocumentCopy
  <2>2. editingDocument # NoOne /\ editingDocument.id = i => i \in Known
    BY DEF KnowledgeTypes, FormTypes, DocumentCopy
  <2>3. confirmation # NoOne /\ confirmation.kind = "deleteDocument" /\ confirmation.document = i => i \in Known
    BY DEF KnowledgeTypes, FormTypes, IsConfirmation, IsAsk, OfDocument
  <2>4. \A d \in calls : d.kind \in OfDocument /\ d.document = i => i \in Known
    BY DEF KnowledgeTypes, KnowledgeCall, IsKnowledgeRequest, IsAsk
  <2> QED BY <2>1, <2>2, <2>3, <2>4 DEF DocumentHeard
<1> QED BY <1>2, <1>3

(* The types after a step that takes no id.                                *)
LEMMA StayingTypes ==
  ASSUME KnowledgeTypes, UNCHANGED <<spaceRows, documentRows, issued>>,
         knowledgeSpaces' \in Seq(SpaceCopy),
         knowledgeDocuments' \in [Ids -> Seq(DocumentCopy) \cup {NoOne}],
         \A s \in Ids : knowledgeDocuments'[s] # NoOne => s \in Known,
         documentSpaceId' \in Known \cup {NoOne}, editingSpace' \in Known \cup {NoOne},
         editingDocument' # NoOne => editingDocument' \in DocumentCopy,
         confirmation' # NoOne => IsConfirmation(confirmation'),
         mixed' \in BOOLEAN, reopened' \in BOOLEAN, OffTab',
         \A c \in calls' : KnowledgeCall(c)
  PROVE  KnowledgeTypes'
<1>1. /\ Known' = Known /\ SpaceCopy' = SpaceCopy /\ DocumentCopy' = DocumentCopy
      /\ \A c : IsAsk(c) => IsAsk(c)'
      /\ \A c : KnowledgeCall(c) => KnowledgeCall(c)'
  BY KnownStays
<1>2. SourceTypes'
  BY <1>1 DEF KnowledgeTypes, SourceTypes
<1>3. ListTypes'
  BY <1>1 DEF ListTypes
<1>4. FormTypes'
  BY <1>1 DEF FormTypes, IsConfirmation
<1>5. (\A c \in calls : KnowledgeCall(c))'
  BY <1>1
<1> QED BY <1>2, <1>3, <1>4, <1>5 DEF KnowledgeTypes

(* A step of the tab keeps the invariant if what it did to the lists and   *)
(* forms is right.                                                         *)
HeardStays(old) ==
  /\ \A c \in old : Landed(c, {"createSpace"}) /\ SpaceHeard(c.reply.id)' => SpaceHeard(c.reply.id)
  /\ \A c \in old : Landed(c, DocumentCreates) /\ DocumentHeard(c.reply.id)' => DocumentHeard(c.reply.id)

(* The forms, unless a row was reopened.                                   *)
FormsShown == ~reopened => SpaceFormShown /\ DocumentFormShown

(* Such a step keeps the invariant.                                        *)
LEMMA GoingKeeps ==
  ASSUME KnowledgeInv, KnowledgeTypes', UNCHANGED <<spaceRows, documentRows, ragRows>>,
         NEW old, NEW f, NEW new, Going(old, f, new),
         ~mixed' => ~mixed /\ \A c \in calls \ old : ~Lost(c),
         ~mixed' => /\ \A c \in new, d \in calls' : ~Conflict(c, d) \/ c = d
                    /\ \A c \in new : ~Unloaded(c, knowledgeDocuments'),
         Straight /\ Settled =>
           /\ \A c \in old : Unloaded(c, knowledgeDocuments') => Unloaded(c, knowledgeDocuments)
           /\ HeardStays(old) /\ SpacesShown' /\ DocumentsShown' /\ RagShown' /\ FormsShown'
  PROVE  KnowledgeInv'
<1> SUFFICES ASSUME Straight' PROVE Settled'
  BY DEF KnowledgeInv
<1>1. Straight
  <2>1. ~mixed' /\ ~mixed /\ \A c \in calls \ old : ~Lost(c)
    BY DEF Straight
  <2>2. ASSUME NEW c \in old PROVE ~Lost(c)
    <3>1. f[c] \in calls' /\ SameCall(f[c], c)
      BY DEF Going
    <3>2. ~Lost(f[c])
      BY <3>1 DEF Straight, Lost
    <3> QED BY <3>1, <3>2 DEF SameCall, Lost
  <2> QED BY <2>1, <2>2 DEF Straight
<1>2. Settled /\ ~mixed'
  BY <1>1 DEF KnowledgeInv, Straight
<1>3. Apart' /\ HaveLists'
  BY <1>1, <1>2, GoingApart DEF Settled
<1>4. (\A c \in calls : StillTrue(c))'
  BY <1>2, GoingTrue DEF Settled
<1>5. NewRows'
  BY <1>1, <1>2, GoingNew DEF Settled, HeardStays
<1> QED BY <1>1, <1>2, <1>3, <1>4, <1>5 DEF Settled, FormsShown

(* The requests after Settle: those that stay, those it was given, and the *)
(* load of the effect.                                                     *)
IsLoad(c, space) ==
  c.kind = "documents" /\ c.space = space /\ c.mine /\ space # NoOne

(* Each request as it was.                                                 *)
Same(old) == [c \in old |-> c]

(* They go on, and new ones leave.                                         *)
LEMMA GoingSame ==
  ASSUME NEW old \in SUBSET calls, NEW new, calls' = old \cup new, \A c \in new : Unserved(c)
  PROVE  Going(old, Same(old), new)
<1>1. {Same(old)[c] : c \in old} = old /\ \A c \in old : Same(old)[c] = c
  BY DEF Same
<1> QED BY <1>1, SameCallIs DEF Going

(* Settle lets them go on.                                                 *)
LEMMA SettleGoing ==
  ASSUME KnowledgeTypes, NEW cs, NEW space \in Known \cup {NoOne}, NEW cache, Settle(cs, space, cache),
         \A c \in cs \ calls : KnowledgeCall(c) /\ Unserved(c)
  PROVE  /\ documentSpaceId' = space /\ knowledgeDocuments' = cache /\ mixed' \in BOOLEAN
         /\ \E new : /\ calls' = (cs \cap calls) \cup new
                     /\ Going(cs \cap calls, Same(cs \cap calls), new)
                     /\ \A c \in new : KnowledgeCall(c) /\ Unserved(c) /\ (c \in cs \ calls \/ IsLoad(c, space))
                     /\ ~mixed' => /\ ~mixed
                                   /\ \A c \in new, d \in calls' : ~Conflict(c, d) \/ c = d
                                   /\ \A c \in new : ~Unloaded(c, knowledgeDocuments')
<1>1. mixed \in BOOLEAN
  BY DEF KnowledgeTypes, FormTypes
<1>2. /\ documentSpaceId' = space /\ knowledgeDocuments' = cache /\ mixed' \in BOOLEAN
      /\ ~mixed' => \A c \in cs \ calls : ~Unloaded(c, cache) /\ \A d \in cs \ {c} : ~Conflict(c, d)
  BY <1>1, SettleIs
<1>3. PICK loads : /\ calls' = cs \cup loads
                   /\ \A c \in loads : space # NoOne /\ IsAsked(c, LoadOf(space))
                   /\ \A c, d \in loads : c = d
                   /\ ~mixed' => ~mixed /\ \A c \in loads, d \in cs : ~Conflict(c, d)
  BY <1>1, SettleIs
<1>4. ASSUME NEW c \in loads PROVE KnowledgeCall(c) /\ Unserved(c) /\ IsLoad(c, space)
  <2>1. IsAsk(LoadOf(space)) /\ LoadOf(space).kind = "documents" /\ LoadOf(space).space = space
        /\ LoadOf(space).mine
    <3>1. space \in Known
      BY <1>3
    <3>2. PICK l : l = LoadOf(space)
      OBVIOUS
    <3>3. DOMAIN l = {"kind", "space", "mine"} /\ l.kind = "documents" /\ l.space = space /\ l.mine = TRUE
      BY <3>2 DEF LoadOf
    <3>4. IsAsk(l)
      BY <3>1, <3>3 DEF IsAsk, OfSpace, OfDocument, DocumentUpdates, KnowledgeKinds
    <3> QED BY <3>2, <3>3, <3>4
  <2>2. IsAsked(c, LoadOf(space))
    BY <1>3
  <2>3. KnowledgeCall(c) /\ c.kind = "documents" /\ c.mine /\ c.phase = "sent" /\ c.space = space /\ c.lost = FALSE
    <3> HIDE DEF LoadOf
    <3> QED BY <2>1, <2>2, AskedIs DEF OfSpace, IsAsked
  <2> QED BY <1>3, <2>3 DEF IsLoad, Unserved
<1> DEFINE old == cs \cap calls
           new == (cs \ calls) \cup loads
<1>5. calls' = old \cup new
  BY <1>3
<1>6. \A c \in new : KnowledgeCall(c) /\ Unserved(c) /\ (c \in cs \ calls \/ IsLoad(c, space))
  BY <1>4
<1>7. ASSUME ~mixed', NEW c \in new, NEW d \in calls' PROVE ~Conflict(c, d) \/ c = d
  <2>1. CASE c \in loads
    BY <1>3, <1>7, <2>1
  <2>2. CASE c \in cs \ calls /\ d \in cs
    BY <1>2, <1>7, <2>2
  <2>3. CASE c \in cs \ calls /\ d \in loads
    BY <1>3, <1>7, <2>3, ConflictBoth
  <2> QED BY <1>3, <2>1, <2>2, <2>3
<1>8. ASSUME ~mixed', NEW c \in new PROVE ~Unloaded(c, knowledgeDocuments')
  <2>1. c \in loads => c.kind \notin DocumentWrites
    BY <1>4 DEF IsLoad, DocumentWrites, DocumentCreates, DocumentUpdates
  <2> QED BY <1>2, <1>8, <2>1 DEF Unloaded
<1>9. Going(old, Same(old), new)
  BY <1>5, <1>6, GoingSame
<1> HIDE DEF new, old
<1>10. ~mixed' => /\ ~mixed
                  /\ \A c \in new, d \in calls' : ~Conflict(c, d) \/ c = d
                  /\ \A c \in new : ~Unloaded(c, knowledgeDocuments')
  BY <1>3, <1>7, <1>8
<1> QED BY <1>2, <1>5, <1>6, <1>9, <1>10 DEF old

(* The forms after a step that did nothing to them.                        *)
Behind(d) == \E c \in calls : Alike(d, c) /\ d.mine = c.mine

(* The space that is open stays one that is there.                         *)
LEMMA SpaceFormStays ==
  ASSUME SpaceFormShown, UNCHANGED documentSpaceId, confirmation' \in {confirmation, NoOne},
         documentSpaceId \in IdsOf(spaceRows) =>
           documentSpaceId \in IdsOf(spaceRows') \/ SpaceGone(documentSpaceId)',
         \A c \in calls : Landed(c, {"deleteSpace"}) /\ c.space = documentSpaceId => Carried(c),
         \A d \in calls' : d.kind = "deleteSpace" /\ d.space = documentSpaceId =>
                             Behind(d) \/ (d.mine /\ d.leavesSpace)
  PROVE  SpaceFormShown'
<1>1. SpaceGone(documentSpaceId) => SpaceGone(documentSpaceId)'
  <2>1. ASSUME NEW c \in calls, Landed(c, {"deleteSpace"}), c.space = documentSpaceId
        PROVE  SpaceGone(documentSpaceId)'
    <3>1. PICK d \in calls' : SameCall(d, c)
      BY <2>1 DEF Carried
    <3>2. d.phase = "answered" /\ d.kind = "deleteSpace" /\ d.space = documentSpaceId
      BY <2>1, <3>1 DEF SameCall, Alike, Landed, OfSpace
    <3> QED BY <3>2 DEF SpaceGone, Landed
  <2> QED BY <2>1 DEF SpaceGone
<1>2. ASSUME NEW d \in calls', d.kind = "deleteSpace", d.space = documentSpaceId
      PROVE  d.mine /\ d.leavesSpace
  <2>1. ASSUME NEW c \in calls, Alike(d, c), d.mine = c.mine PROVE d.mine /\ d.leavesSpace
    <3>1. c.kind = "deleteSpace" /\ c.space = documentSpaceId /\ d.leavesSpace = c.leavesSpace
      BY <1>2, <2>1 DEF Alike, OfSpace
    <3> QED BY <2>1, <3>1 DEF SpaceFormShown
  <2> QED BY <1>2, <2>1 DEF Behind
<1> QED BY <1>1, <1>2 DEF SpaceFormShown

(* A document is there, or what takes it away is on its way.               *)
DocumentKept(j, s) ==
  \/ \E d \in documentRows : d.id = j /\ d.space = s
  \/ \E c \in calls : Landed(c, {"deleteDocument"}) /\ c.document = j
  \/ s \notin IdsOf(spaceRows)

(* The document in the form stays one that is there.                       *)
LEMMA DocumentFormStays ==
  ASSUME DocumentFormShown, UNCHANGED editingDocument, confirmation' \in {confirmation, NoOne},
         editingDocument # NoOne =>
           /\ DocumentKept(editingDocument.id, editingDocument.space) =>
                DocumentKept(editingDocument.id, editingDocument.space)'
           /\ \A d \in calls' : d.kind = "deleteDocument" /\ d.document = editingDocument.id =>
                                  Behind(d) \/ (d.mine /\ d.endsEdit)
  PROVE  DocumentFormShown'
<1> SUFFICES ASSUME editingDocument # NoOne PROVE DocumentFormShown'
  BY DEF DocumentFormShown
<1>1. DocumentKept(editingDocument.id, editingDocument.space)'
  BY DEF DocumentFormShown, DocumentKept
<1>2. ASSUME NEW d \in calls', d.kind = "deleteDocument", d.document = editingDocument.id
      PROVE  d.mine /\ d.endsEdit
  <2>1. ASSUME NEW c \in calls, Alike(d, c), d.mine = c.mine PROVE d.mine /\ d.endsEdit
    <3>1. c.kind = "deleteDocument" /\ c.document = editingDocument.id /\ d.endsEdit = c.endsEdit
      BY <1>2, <2>1 DEF Alike, OfDocument
    <3> QED BY <2>1, <3>1 DEF DocumentFormShown
  <2> QED BY <1>2, <2>1 DEF Behind
<1> QED BY <1>1, <1>2 DEF DocumentFormShown, DocumentKept

(* With the rows as they are, a document is kept until the answer to its   *)
(* deletion.                                                               *)
LEMMA DocumentKeptStays ==
  ASSUME UNCHANGED <<spaceRows, documentRows>>, NEW j, NEW s,
         \A c \in calls : Landed(c, {"deleteDocument"}) /\ c.document = j => Carried(c)
  PROVE  DocumentKept(j, s) => DocumentKept(j, s)'
<1>1. ASSUME NEW c \in calls, Landed(c, {"deleteDocument"}), c.document = j
      PROVE  \E d \in calls' : Landed(d, {"deleteDocument"}) /\ d.document = j
  <2>1. PICK d \in calls' : SameCall(d, c)
    BY <1>1 DEF Carried
  <2> QED BY <1>1, <2>1 DEF SameCall, Alike, Landed, OfDocument
<1> QED BY <1>1 DEF DocumentKept

-----------------------------------------------------------------------------
(* What the user does in the knowledge base.                               *)

(* The forms a step may leave: about what the tab has heard of.            *)
FormsHeard ==
  /\ documentSpaceId' # NoOne => SpaceHeard(documentSpaceId')
  /\ editingSpace' # NoOne => SpaceHeard(editingSpace')
  /\ editingDocument' # NoOne => DocumentHeard(editingDocument'.id)
  /\ confirmation' # NoOne =>
       /\ SpaceHeard(confirmation'.space)
       /\ confirmation'.kind = "deleteDocument" => DocumentHeard(confirmation'.document)

(* New requests are about what the tab has heard of.                       *)
AsksHeard(new) ==
  \A c \in new : /\ c.kind \in OfSpace => SpaceHeard(c.space)
                 /\ c.kind \in OfDocument => DocumentHeard(c.document)

(* The forms keep their types.                                             *)
FormTypesNext ==
  /\ documentSpaceId' \in Known \cup {NoOne} /\ editingSpace' \in Known \cup {NoOne}
  /\ editingDocument' # NoOne => editingDocument' \in DocumentCopy
  /\ confirmation' # NoOne => IsConfirmation(confirmation')
  /\ mixed' \in BOOLEAN /\ reopened' \in BOOLEAN

(* Asking keeps the invariant.                                             *)
LEMMA AskingKeeps ==
  ASSUME KnowledgeInv, UNCHANGED <<serverRows, caches, loadedParts>>, FormTypesNext, OffTab',
         NEW f, NEW new, Going(calls, f, new),
         \A c \in calls : KnowledgeCall(f[c]), \A c \in new : KnowledgeCall(c),
         ~mixed' => /\ ~mixed
                    /\ \A c \in new, d \in calls' : ~Conflict(c, d) \/ c = d
                    /\ \A c \in new : ~Unloaded(c, knowledgeDocuments'),
         Settled => AsksHeard(new) /\ FormsHeard /\ FormsShown'
  PROVE  KnowledgeInv'
<1>1. UNCHANGED <<spaceRows, documentRows, ragRows, issued, knowledgeSpaces, knowledgeDocuments, ragProviders>>
  BY DEF serverRows, caches
<1>2. KnowledgeTypes
  BY DEF KnowledgeInv
<1>3. \A c \in calls' : KnowledgeCall(c)
  BY DEF Going
<1>4. KnowledgeTypes'
  <2>1. knowledgeSpaces' \in Seq(SpaceCopy) /\ knowledgeDocuments' \in [Ids -> Seq(DocumentCopy) \cup {NoOne}]
        /\ \A s \in Ids : knowledgeDocuments'[s] # NoOne => s \in Known
    BY <1>1, <1>2 DEF KnowledgeTypes, ListTypes
  <2> QED BY <1>1, <1>2, <1>3, <2>1, StayingTypes DEF FormTypesNext
<1>5. ASSUME Settled PROVE HeardStays(calls)
  <2>1. \A c \in calls : c \in calls /\ SameCall(f[c], c)
    BY DEF Going
  <2>2. ASSUME NEW i, i # NoOne, SpaceHeard(i)' PROVE SpaceHeard(i)
    <3>1. ASSUME NEW d \in calls', d.kind \in OfSpace, d.space = i PROVE SpaceHeard(i)
      <4>1. CASE d \in new
        BY <1>5, <3>1, <4>1 DEF AsksHeard
      <4>2. CASE d \notin new
        <5>1. PICK c \in calls : d = f[c]
          BY <3>1, <4>2 DEF Going
        <5>2. c.kind \in OfSpace /\ c.space = i
          BY <2>1, <3>1, <5>1 DEF SameCall, Alike
        <5> QED BY <5>2 DEF SpaceHeard
      <4> QED BY <4>1, <4>2
    <3>2. \/ HasId(knowledgeSpaces, i) \/ knowledgeDocuments[i] # NoOne \/ i \in {documentSpaceId', editingSpace'}
          \/ confirmation' # NoOne /\ confirmation'.space = i
          \/ \E d \in calls' : d.kind \in OfSpace /\ d.space = i
      BY <1>1, <2>2 DEF SpaceHeard
    <3> QED BY <1>5, <2>2, <3>1, <3>2 DEF SpaceHeard, FormsHeard
  <2>3. ASSUME NEW j, DocumentHeard(j)' PROVE DocumentHeard(j)
    <3>1. ASSUME NEW d \in calls', d.kind \in OfDocument, d.document = j PROVE DocumentHeard(j)
      <4>1. CASE d \in new
        BY <1>5, <3>1, <4>1 DEF AsksHeard
      <4>2. CASE d \notin new
        <5>1. PICK c \in calls : d = f[c]
          BY <3>1, <4>2 DEF Going
        <5>2. c.kind \in OfDocument /\ c.document = j
          BY <2>1, <3>1, <5>1 DEF SameCall, Alike
        <5> QED BY <5>2 DEF DocumentHeard
      <4> QED BY <4>1, <4>2
    <3>2. \/ \E s \in Ids : knowledgeDocuments[s] # NoOne /\ HasId(knowledgeDocuments[s], j)
          \/ editingDocument' # NoOne /\ editingDocument'.id = j
          \/ confirmation' # NoOne /\ confirmation'.kind = "deleteDocument" /\ confirmation'.document = j
          \/ \E d \in calls' : d.kind \in OfDocument /\ d.document = j
      BY <1>1, <2>3 DEF DocumentHeard
    <3> QED BY <1>5, <3>1, <3>2 DEF DocumentHeard, FormsHeard
  <2>4. \A c \in calls : Landed(c, {"createSpace"}) => c.reply.id # NoOne
    BY <1>2, KnowledgeAssumption DEF KnowledgeTypes, KnowledgeCall, IsKnowledgeAnswer, Landed, SpaceCopy, Known
  <2> QED BY <2>2, <2>3, <2>4 DEF HeardStays
<1>6. ASSUME Settled PROVE SpacesShown' /\ DocumentsShown' /\ RagShown'
  <2>1. \A c \in calls : Carried(c)
    BY DEF Going, Carried
  <2>2. SpacesShown' /\ RagShown'
    BY <1>1, <1>6, <2>1, SpacesStay, RagStays DEF Settled
  <2>3. ASSUME NEW s \in Ids, knowledgeDocuments[s] # NoOne PROVE Shows(s, knowledgeDocuments[s])'
    <3>1. Shows(s, knowledgeDocuments[s])
      BY <1>6, <2>3 DEF Settled, DocumentsShown
    <3>2. PICK list : list = knowledgeDocuments[s]
      OBVIOUS
    <3>3. Shows(s, list)'
      BY <1>1, <1>6, <2>1, <3>1, <3>2, ShowsStay DEF DocumentsOf, Settled
    <3> QED BY <1>1, <3>2, <3>3
  <2> QED BY <1>1, <2>2, <2>3 DEF DocumentsShown
<1>7. \A c \in calls : Unloaded(c, knowledgeDocuments') => Unloaded(c, knowledgeDocuments)
  BY <1>1
<1> QED BY <1>1, <1>4, <1>5, <1>6, <1>7, GoingKeeps

(* Forms that stay are about what was heard of,                            *)
LEMMA FormsAreHeard ==
  ASSUME UNCHANGED <<documentSpaceId, editingSpace, editingDocument>>, confirmation' \in {confirmation, NoOne}
  PROVE  FormsHeard
  BY DEF FormsHeard, SpaceHeard, DocumentHeard

(* and keep their types.                                                   *)
LEMMA FormTypesStay ==
  ASSUME KnowledgeTypes, UNCHANGED <<documentSpaceId, editingSpace, editingDocument, reopened>>,
         confirmation' \in {confirmation, NoOne}, mixed' \in BOOLEAN
  PROVE  FormTypesNext
  BY DEF FormTypesNext, KnowledgeTypes, FormTypes

(* A request is issued from the tab.                                       *)
LEMMA IssuedKeeps ==
  ASSUME KnowledgeInv, NEW body, IsAsk(body), body.kind # "workspace", Issue(body),
         UNCHANGED <<serverRows, knowledgeSpaces, ragProviders, panelTab, editingSpace,
                     editingDocument, confirmation, histories>>,
         body.kind \in OfSpace => SpaceHeard(body.space),
         body.kind \in OfDocument => DocumentHeard(body.document),
         body.kind \in {"deleteSpace", "deleteDocument"} => confirmation # NoOne /\ body = confirmation,
         panelTab # "knowledge" => ~body.mine
  PROVE  KnowledgeInv'
<1> DEFINE a == AsNext(calls, body)
           cs == calls \cup {a}
<1>1. KnowledgeTypes
  BY DEF KnowledgeInv
<1>2. /\ KnowledgeCall(a) /\ Unserved(a) /\ a.kind = body.kind /\ a.mine = body.mine
      /\ body.kind \in OfSpace => a.space = body.space
      /\ body.kind \in OfDocument => a.document = body.document
      /\ body.kind \in {"deleteSpace", "deleteDocument"} => a.endsEdit = body.endsEdit
      /\ body.kind = "deleteSpace" => a.leavesSpace = body.leavesSpace
  <2>1. IsAsked(a, body)
    BY AsNextIs
  <2> HIDE DEF a
  <2>2. PICK r : r = a
    OBVIOUS
  <2>3. /\ KnowledgeCall(r) /\ r.kind = body.kind /\ r.mine = body.mine
        /\ body.kind \in OfSpace => r.space = body.space
        /\ body.kind \in OfDocument => r.document = body.document
        /\ body.kind \in {"deleteSpace", "deleteDocument"} => r.endsEdit = body.endsEdit
        /\ body.kind = "deleteSpace" => r.leavesSpace = body.leavesSpace
    BY <2>1, <2>2, AskedIs
  <2>4. r.phase = "sent" /\ r.lost = FALSE
    BY <2>1, <2>2 DEF IsAsked
  <2>5. Unserved(r)
    BY <2>3, <2>4 DEF Unserved
  <2> QED BY <2>2, <2>3, <2>5
<1> HIDE DEF a
<1>3. Settle(cs, documentSpaceId, knowledgeDocuments)
  BY DEF Issue, a
<1>4. documentSpaceId \in Known \cup {NoOne}
  BY <1>1 DEF KnowledgeTypes, FormTypes
<1>5. \A c \in cs \ calls : KnowledgeCall(c) /\ Unserved(c)
  BY <1>2
<1>6. cs \cap calls = calls
  OBVIOUS
<1>7. PICK new : /\ calls' = calls \cup new /\ Going(calls, Same(calls), new)
                 /\ \A c \in new : KnowledgeCall(c) /\ Unserved(c) /\ (c = a \/ IsLoad(c, documentSpaceId))
                 /\ ~mixed' => /\ ~mixed
                               /\ \A c \in new, d \in calls' : ~Conflict(c, d) \/ c = d
                               /\ \A c \in new : ~Unloaded(c, knowledgeDocuments')
  <2> HIDE DEF cs
  <2>1. PICK new : /\ calls' = (cs \cap calls) \cup new
                   /\ Going(cs \cap calls, Same(cs \cap calls), new)
                   /\ \A c \in new : KnowledgeCall(c) /\ Unserved(c) /\ (c \in cs \ calls \/ IsLoad(c, documentSpaceId))
                   /\ ~mixed' => /\ ~mixed
                                 /\ \A c \in new, d \in calls' : ~Conflict(c, d) \/ c = d
                                 /\ \A c \in new : ~Unloaded(c, knowledgeDocuments')
    BY <1>1, <1>3, <1>4, <1>5, SettleGoing
  <2>2. \A c \in cs \ calls : c = a
    BY DEF cs
  <2> QED BY <1>6, <2>1, <2>2
<1>8. UNCHANGED <<documentSpaceId, knowledgeDocuments>> /\ mixed' \in BOOLEAN
  <2> HIDE DEF cs
  <2> QED BY <1>1, <1>3, <1>4, <1>5, SettleGoing
<1>9. UNCHANGED <<serverRows, caches, loadedParts>>
  BY <1>8 DEF caches, histories
<1>10. FormTypesNext /\ FormsHeard
  BY <1>1, <1>8, FormTypesStay, FormsAreHeard DEF histories
<1>11. OffTab'
  <2> SUFFICES ASSUME panelTab # "knowledge" PROVE OffTab'
    BY DEF OffTab
  <2>1. editingSpace = NoOne /\ documentSpaceId = NoOne /\ editingDocument = NoOne
        /\ confirmation = NoOne /\ \A c \in calls : ~c.mine
    BY <1>1 DEF KnowledgeTypes, OffTab
  <2>3. \A c \in new : ~c.mine
    BY <1>2, <1>7, <2>1 DEF IsLoad
  <2> QED BY <1>7, <1>8, <2>1, <2>3 DEF OffTab
<1>12. \A c \in calls : KnowledgeCall(Same(calls)[c])
  BY <1>1 DEF KnowledgeTypes, Same
<1>13. AsksHeard(new)
  BY <1>2, <1>7 DEF AsksHeard, IsLoad, SpaceHeard, OfDocument, DocumentUpdates
<1>14. ASSUME Settled PROVE FormsShown'
  <2> SUFFICES ASSUME ~reopened PROVE SpaceFormShown' /\ DocumentFormShown'
    BY DEF FormsShown, histories
  <2>1. SpaceFormShown /\ DocumentFormShown
    BY <1>14 DEF Settled
  <2>2. \A c \in calls : Carried(c)
    BY <1>7, SameCallIs DEF Carried
  <2>3. ASSUME NEW d \in calls', d.kind \in {"deleteSpace", "deleteDocument"}
        PROVE  Behind(d) \/ (d = a /\ body = confirmation /\ confirmation # NoOne)
    <3>1. d \in calls => Behind(d)
      BY DEF Behind, Alike
    <3>2. d \in new => d = a
      BY <1>7, <2>3 DEF IsLoad
    <3> QED BY <1>2, <1>7, <2>3, <3>1, <3>2
  <2>4. body = confirmation /\ confirmation # NoOne => body.mine
    BY <1>1 DEF KnowledgeTypes, FormTypes, IsConfirmation
  <2>5. \A d \in calls' : d.kind = "deleteSpace" /\ d.space = documentSpaceId => Behind(d) \/ (d.mine /\ d.leavesSpace)
    BY <1>2, <2>1, <2>3, <2>4 DEF SpaceFormShown, OfSpace
  <2>6. \A d \in calls' : d.kind = "deleteDocument" /\ editingDocument # NoOne /\ d.document = editingDocument.id =>
            Behind(d) \/ (d.mine /\ d.endsEdit)
    BY <1>2, <2>1, <2>3, <2>4 DEF DocumentFormShown, OfDocument
  <2>7. UNCHANGED <<spaceRows, documentRows>>
    BY DEF serverRows
  <2>8. SpaceFormShown'
    BY <1>8, <2>1, <2>2, <2>5, <2>7, SpaceFormStays
  <2>9. DocumentFormShown'
    BY <2>1, <2>2, <2>6, <2>7, DocumentKeptStays, DocumentFormStays
  <2> QED BY <2>8, <2>9
<1> QED BY <1>7, <1>9, <1>10, <1>11, <1>12, <1>13, <1>14, AskingKeeps

(* The documents are loaded again.                                         *)
LEMMA RefreshDocumentsKeeps == ASSUME KnowledgeInv, RefreshDocuments PROVE KnowledgeInv'
<1>1. documentSpaceId \in Known
  BY DEF RefreshDocuments, KnowledgeInv, KnowledgeTypes, FormTypes
<1>2. PICK body : body = [kind |-> "documents", space |-> documentSpaceId, mine |-> TRUE]
  OBVIOUS
<1>3. /\ DOMAIN body = {"kind", "space", "mine"}
      /\ body.kind = "documents" /\ body.space = documentSpaceId /\ body.mine = TRUE
  BY <1>2
<1>4. IsAsk(body) /\ SpaceHeard(body.space) /\ body.kind \notin OfDocument
  BY <1>1, <1>3 DEF IsAsk, OfSpace, OfDocument, DocumentUpdates, KnowledgeKinds, SpaceHeard
<1>5. Issue(body) /\ panelTab = "knowledge"
  BY <1>2 DEF RefreshDocuments, InTab
<1> QED BY <1>3, <1>4, <1>5, IssuedKeeps DEF RefreshDocuments

(* A space is saved.                                                       *)
LEMMA SaveSpaceKeeps == ASSUME KnowledgeInv, SaveSpace PROVE KnowledgeInv'
<1>1. PICK body : /\ Issue(body)
                  /\ body = (IF editingSpace # NoOne
                             THEN [kind |-> "updateSpace", space |-> editingSpace, mine |-> TRUE]
                             ELSE [kind |-> "createSpace", mine |-> TRUE])
  BY DEF SaveSpace
<1>2. /\ {"kind", "mine"} \subseteq DOMAIN body /\ body.mine = TRUE
      /\ \/ body.kind = "updateSpace" /\ "space" \in DOMAIN body /\ body.space = editingSpace /\ editingSpace # NoOne
         \/ body.kind = "createSpace"
  BY <1>1
<1>3. editingSpace # NoOne => editingSpace \in Known
  BY DEF KnowledgeInv, KnowledgeTypes, FormTypes
<1>4. /\ IsAsk(body) /\ body.kind \notin OfDocument /\ body.kind \notin {"workspace", "deleteSpace", "deleteDocument"}
      /\ body.kind \in OfSpace => SpaceHeard(body.space)
  BY <1>2, <1>3 DEF IsAsk, OfSpace, OfDocument, DocumentUpdates, DocumentCreates, DocumentWrites,
                    KnowledgeKinds, SpaceHeard
<1> QED BY <1>1, <1>4, IssuedKeeps DEF SaveSpace, InTab

(* Documents are saved.                                                    *)
LEMMA SaveDocumentKeeps == ASSUME KnowledgeInv, SaveDocument PROVE KnowledgeInv'
<1>1. documentSpaceId \in Known
  BY DEF SaveDocument, KnowledgeInv, KnowledgeTypes, FormTypes
<1>2. \E body : /\ Issue(body) /\ IsAsk(body) /\ body.kind \in DocumentCreates \cup DocumentUpdates
                /\ body.space = documentSpaceId
                /\ body.kind \in OfDocument => DocumentHeard(body.document)
  <2>1. CASE editingDocument = NoOne
    <3>1. PICK k \in DocumentCreates : Issue([kind |-> k, space |-> documentSpaceId, mine |-> TRUE])
      BY <2>1 DEF SaveDocument
    <3>2. PICK body : body = [kind |-> k, space |-> documentSpaceId, mine |-> TRUE]
      OBVIOUS
    <3>3. DOMAIN body = {"kind", "space", "mine"} /\ body.kind = k /\ body.space = documentSpaceId /\ body.mine = TRUE
      BY <3>2
    <3>4. IsAsk(body) /\ body.kind \notin OfDocument
      BY <1>1, <3>3 DEF IsAsk, OfSpace, OfDocument, DocumentCreates, DocumentUpdates, DocumentWrites, KnowledgeKinds
    <3> QED BY <3>1, <3>2, <3>3, <3>4
  <2>2. CASE editingDocument # NoOne
    <3>1. PICK k \in DocumentUpdates : Issue([kind |-> k, space |-> documentSpaceId,
                                              document |-> editingDocument.id, mine |-> TRUE])
      BY <2>2 DEF SaveDocument, DocumentUpdates
    <3>2. PICK body : body = [kind |-> k, space |-> documentSpaceId, document |-> editingDocument.id, mine |-> TRUE]
      OBVIOUS
    <3>3. /\ DOMAIN body = {"kind", "space", "document", "mine"} /\ body.kind = k /\ body.space = documentSpaceId
          /\ body.document = editingDocument.id /\ body.mine = TRUE
      BY <3>2
    <3>4. editingDocument.id \in Known
      BY <2>2 DEF KnowledgeInv, KnowledgeTypes, FormTypes, DocumentCopy
    <3>5. IsAsk(body)
      BY <1>1, <3>3, <3>4 DEF IsAsk, OfSpace, OfDocument, DocumentCreates, DocumentUpdates, DocumentWrites, KnowledgeKinds
    <3> QED BY <2>2, <3>1, <3>2, <3>3, <3>5 DEF DocumentHeard
  <2> QED BY <2>1, <2>2
<1>3. PICK body : /\ Issue(body) /\ IsAsk(body) /\ body.kind \in DocumentCreates \cup DocumentUpdates
                  /\ body.space = documentSpaceId
                  /\ body.kind \in OfDocument => DocumentHeard(body.document)
  BY <1>2
<1>4. SpaceHeard(body.space) /\ body.kind \notin {"workspace", "deleteSpace", "deleteDocument"}
  BY <1>3 DEF SpaceHeard, DocumentCreates, DocumentUpdates
<1> QED BY <1>3, <1>4, IssuedKeeps DEF SaveDocument, InTab

(* A provider is saved, deleted or activated.                              *)
LEMMA ChooseProviderKeeps == ASSUME KnowledgeInv, ChooseProvider PROVE KnowledgeInv'
<1>1. PICK p : Issue([kind |-> "rag", preset |-> p, mine |-> FALSE])
  BY DEF ChooseProvider
<1>2. PICK body : body = [kind |-> "rag", preset |-> p, mine |-> FALSE]
  OBVIOUS
<1>3. DOMAIN body = {"kind", "preset", "mine"} /\ body.kind = "rag" /\ body.mine = FALSE
  BY <1>2
<1>4. IsAsk(body) /\ body.kind \notin OfSpace /\ body.kind \notin OfDocument
  BY <1>3 DEF IsAsk, OfSpace, OfDocument, DocumentCreates, DocumentUpdates, DocumentWrites, KnowledgeKinds
<1> QED BY <1>1, <1>2, <1>3, <1>4, IssuedKeeps DEF ChooseProvider

(* A deletion is confirmed.                                                *)
LEMMA ConfirmKeeps == ASSUME KnowledgeInv, Confirm PROVE KnowledgeInv'
<1>1. IsConfirmation(confirmation) /\ panelTab = "knowledge"
  BY DEF Confirm, KnowledgeInv, KnowledgeTypes, FormTypes, OffTab
<1>2. /\ IsAsk(confirmation) /\ confirmation.kind # "workspace"
      /\ SpaceHeard(confirmation.space)
      /\ confirmation.kind \in OfDocument => DocumentHeard(confirmation.document)
  BY <1>1 DEF Confirm, IsConfirmation, SpaceHeard, DocumentHeard, OfDocument, DocumentUpdates
<1> QED BY <1>1, <1>2, IssuedKeeps DEF Confirm

(* The effect alone adds but its load.                                     *)
LEMMA EffectIs ==
  ASSUME KnowledgeTypes, NEW cs \in SUBSET calls, NEW space \in Known \cup {NoOne}, NEW cache,
         Settle(cs, space, cache)
  PROVE  /\ documentSpaceId' = space /\ knowledgeDocuments' = cache /\ mixed' \in BOOLEAN
         /\ \E new : /\ calls' = cs \cup new /\ Going(cs, Same(cs), new)
                     /\ \A c \in new : KnowledgeCall(c) /\ Unserved(c) /\ IsLoad(c, space)
                     /\ ~mixed' => /\ ~mixed
                                   /\ \A c \in new, d \in calls' : ~Conflict(c, d) \/ c = d
                                   /\ \A c \in new : ~Unloaded(c, knowledgeDocuments')
<1>1. cs \cap calls = cs /\ cs \ calls = {}
  OBVIOUS
<1>2. \A c \in cs \ calls : KnowledgeCall(c) /\ Unserved(c)
  BY <1>1
<1>3. PICK new : /\ calls' = (cs \cap calls) \cup new
                 /\ Going(cs \cap calls, Same(cs \cap calls), new)
                 /\ \A c \in new : KnowledgeCall(c) /\ Unserved(c) /\ (c \in cs \ calls \/ IsLoad(c, space))
                 /\ ~mixed' => /\ ~mixed
                               /\ \A c \in new, d \in calls' : ~Conflict(c, d) \/ c = d
                               /\ \A c \in new : ~Unloaded(c, knowledgeDocuments')
  BY <1>2, SettleGoing
<1>4. documentSpaceId' = space /\ knowledgeDocuments' = cache /\ mixed' \in BOOLEAN
  BY <1>2, SettleGoing
<1> QED BY <1>1, <1>3, <1>4

(* The effect loads a space the tab has heard of.                          *)
LEMMA LoadsAreHeard ==
  ASSUME NEW new, NEW space, \A c \in new : IsLoad(c, space), space # NoOne => SpaceHeard(space)
  PROVE  AsksHeard(new)
  BY DEF AsksHeard, IsLoad, OfDocument, DocumentUpdates

(* A space or a row is put into the forms.                                 *)
LEMMA SelectingKeeps ==
  ASSUME KnowledgeInv, NEW space \in Known \cup {NoOne}, Settle(calls, space, knowledgeDocuments),
         UNCHANGED <<serverRows, knowledgeSpaces, ragProviders, panelTab, confirmation, loadedParts>>,
         panelTab = "knowledge", confirmation = NoOne, reopened' \in BOOLEAN,
         editingSpace' \in Known \cup {NoOne},
         editingDocument' # NoOne => editingDocument' \in DocumentCopy,
         Settled =>
           /\ space # NoOne => SpaceHeard(space)
           /\ editingSpace' # NoOne => SpaceHeard(editingSpace')
           /\ editingDocument' # NoOne => DocumentHeard(editingDocument'.id),
         Settled /\ ~reopened' =>
           /\ space # NoOne => space \in IdsOf(spaceRows) \/ SpaceGone(space)
           /\ \A c \in calls : c.kind = "deleteSpace" /\ c.space = space => c.mine /\ c.leavesSpace
           /\ editingDocument' # NoOne =>
                /\ DocumentKept(editingDocument'.id, editingDocument'.space)
                /\ \A c \in calls : c.kind = "deleteDocument" /\ c.document = editingDocument'.id => c.mine /\ c.endsEdit
  PROVE  KnowledgeInv'
<1>1. KnowledgeTypes
  BY DEF KnowledgeInv
<1>2. UNCHANGED knowledgeDocuments /\ documentSpaceId' = space /\ mixed' \in BOOLEAN
  BY <1>1, EffectIs
<1>3. PICK new : /\ calls' = calls \cup new /\ Going(calls, Same(calls), new)
                 /\ \A c \in new : KnowledgeCall(c) /\ Unserved(c) /\ IsLoad(c, space)
                 /\ ~mixed' => /\ ~mixed
                               /\ \A c \in new, d \in calls' : ~Conflict(c, d) \/ c = d
                               /\ \A c \in new : ~Unloaded(c, knowledgeDocuments')
  BY <1>1, EffectIs
<1>4. UNCHANGED <<serverRows, caches, loadedParts>>
  BY <1>2 DEF caches
<1>5. FormTypesNext /\ OffTab'
  BY <1>2 DEF FormTypesNext, OffTab
<1>6. \A c \in calls : KnowledgeCall(Same(calls)[c])
  BY <1>1 DEF KnowledgeTypes, Same
<1>7. ASSUME Settled PROVE AsksHeard(new) /\ FormsHeard
  BY <1>2, <1>3, <1>7, LoadsAreHeard DEF FormsHeard
<1>8. ASSUME Settled PROVE FormsShown'
  <2> SUFFICES ASSUME ~reopened' PROVE SpaceFormShown' /\ DocumentFormShown'
    BY DEF FormsShown
  <2>1. UNCHANGED <<spaceRows, documentRows>>
    BY DEF serverRows
  <2>2. \A c \in calls' : c.kind \in {"deleteSpace", "deleteDocument"} => c \in calls
    BY <1>3 DEF IsLoad
  <2>3. SpaceFormShown'
    <3>1. SpaceGone(space) => SpaceGone(space)'
      BY <1>3 DEF SpaceGone
    <3> QED BY <1>2, <1>8, <2>1, <2>2, <3>1 DEF SpaceFormShown
  <2>4. DocumentFormShown'
    <3>1. \A j, s : DocumentKept(j, s) => DocumentKept(j, s)'
      BY <1>3, <2>1 DEF DocumentKept
    <3> QED BY <1>8, <2>2, <3>1 DEF DocumentFormShown, DocumentKept
  <2> QED BY <2>3, <2>4
<1> QED BY <1>3, <1>4, <1>5, <1>6, <1>7, <1>8, AskingKeeps

(* A space of the list is there, or its deletion is answered; a document   *)
(* is of the space it is listed under.                                     *)
LEMMA ListedSpaceIs ==
  ASSUME KnowledgeTypes, NEW s \in IdsOf(ToSet(knowledgeSpaces))
  PROVE  s \in Known /\ HasId(knowledgeSpaces, s) /\ (Settled => s \in IdsOf(spaceRows) \/ SpaceGone(s))
<1>1. PICK copy \in ToSet(knowledgeSpaces) : s = copy.id
  BY DEF IdsOf
<1>2. copy \in SpaceCopy /\ HasId(knowledgeSpaces, s)
  BY <1>1, ListHas DEF KnowledgeTypes, ListTypes
<1>3. ASSUME Settled PROVE s \in IdsOf(spaceRows) \/ SpaceGone(s)
  <2>1. CASE copy \in spaceRows
    BY <1>1, <2>1 DEF IdsOf
  <2>2. CASE \E c \in calls : Landed(c, {"updateSpace", "deleteSpace"}) /\ c.space = copy.id
    <3>1. PICK c \in calls : Landed(c, {"updateSpace", "deleteSpace"}) /\ c.space = s
      BY <1>1, <2>2
    <3>2. CASE c.kind = "deleteSpace"
      BY <3>1, <3>2 DEF SpaceGone, Landed
    <3>3. CASE c.kind = "updateSpace"
      <4>1. StillTrue(c) /\ KnowledgeCall(c)
        BY <1>3 DEF Settled, KnowledgeTypes
      <4>2. c.reply \in spaceRows /\ c.reply.id = s
        BY <3>1, <3>3, <4>1 DEF StillTrue, Landed, KnowledgeCall, IsKnowledgeAnswer
      <4> QED BY <4>2 DEF IdsOf
    <3> QED BY <3>1, <3>2, <3>3 DEF Landed
  <2> QED BY <1>1, <1>3, <2>1, <2>2 DEF Settled, SpacesShown
<1> QED BY <1>1, <1>2, <1>3 DEF SpaceCopy

(* A document that is listed is one of the space that is open.             *)
LEMMA ListedDocumentIs ==
  ASSUME KnowledgeTypes, NEW d \in Shown
  PROVE  /\ documentSpaceId # NoOne /\ d \in DocumentCopy /\ DocumentHeard(d.id)
         /\ Settled => d.space = documentSpaceId /\ DocumentKept(d.id, d.space)
<1>1. documentSpaceId # NoOne /\ d \in ToSet(Cached(documentSpaceId)) /\ documentSpaceId \in Known
  BY DEF Shown, KnowledgeTypes, FormTypes
<1>2. documentSpaceId \in Ids
  BY <1>1, KnowledgeAssumption DEF KnowledgeTypes, SourceTypes, Known, Ids
<1>3. PICK list : list = knowledgeDocuments[documentSpaceId]
  OBVIOUS
<1>4. list # NoOne /\ d \in ToSet(list)
  BY <1>1, <1>3 DEF Cached, ToSet
<1>5. list \in Seq(DocumentCopy)
  BY <1>2, <1>3, <1>4 DEF KnowledgeTypes, ListTypes
<1>6. d \in DocumentCopy /\ DocumentHeard(d.id)
  BY <1>2, <1>3, <1>4, <1>5, ListHas DEF DocumentHeard
<1>7. ASSUME Settled PROVE d.space = documentSpaceId /\ DocumentKept(d.id, d.space)
  <2>1. Shows(documentSpaceId, list)
    BY <1>2, <1>3, <1>4, <1>7 DEF Settled, DocumentsShown
  <2>2. d.space = documentSpaceId
    BY <1>4, <2>1 DEF Shows
  <2>3. CASE d \in documentRows
    BY <2>2, <2>3 DEF DocumentKept
  <2>4. CASE SpaceGone(documentSpaceId)
    <3>1. documentSpaceId \notin IdsOf(spaceRows)
      BY <1>7, <2>4 DEF SpaceGone, Settled, StillTrue
    <3> QED BY <2>2, <3>1 DEF DocumentKept
  <2>5. CASE \E c \in calls : Landed(c, OfDocument) /\ c.document = d.id /\ c.space = documentSpaceId
    <3>1. PICK c \in calls : Landed(c, OfDocument) /\ c.document = d.id /\ c.space = documentSpaceId
      BY <2>5
    <3>2. CASE c.kind = "deleteDocument"
      BY <2>2, <3>1, <3>2 DEF DocumentKept, Landed
    <3>3. CASE c.kind \in DocumentUpdates
      <4>1. StillTrue(c) /\ KnowledgeCall(c)
        BY <1>7 DEF Settled, KnowledgeTypes
      <4>2. c.reply \in documentRows /\ c.reply.space = c.space /\ c.reply.id = c.document
        BY <3>1, <3>3, <4>1 DEF StillTrue, Landed, KnowledgeCall, IsKnowledgeAnswer
      <4> QED BY <2>2, <3>1, <4>2 DEF DocumentKept
    <3> QED BY <3>1, <3>2, <3>3 DEF Landed, OfDocument
  <2> QED BY <1>4, <2>1, <2>2, <2>3, <2>4, <2>5 DEF Shows
<1> QED BY <1>1, <1>6, <1>7

(* A space is selected.                                                    *)
LEMMA SelectSpaceKeeps == ASSUME KnowledgeInv, SelectSpace PROVE KnowledgeInv'
<1>1. PICK s \in IdsOf(ToSet(knowledgeSpaces)) \cup {NoOne} :
        /\ InTab /\ Settle(calls, s, knowledgeDocuments)
        /\ reopened' = (reopened \/ \E c \in Kind("deleteSpace") : c.space = s)
  BY DEF SelectSpace
<1>2. UNCHANGED <<serverRows, knowledgeSpaces, ragProviders, panelTab, editingSpace,
                   editingDocument, confirmation, loadedParts>>
  BY DEF SelectSpace
<1>3. KnowledgeTypes /\ panelTab = "knowledge" /\ confirmation = NoOne
  BY <1>1 DEF KnowledgeInv, InTab
<1>4. s \in Known \cup {NoOne} /\ (s # NoOne => SpaceHeard(s))
      /\ (Settled /\ s # NoOne => s \in IdsOf(spaceRows) \/ SpaceGone(s))
  BY <1>1, <1>3, ListedSpaceIs DEF SpaceHeard
<1>5. /\ editingSpace' \in Known \cup {NoOne} /\ (editingDocument' # NoOne => editingDocument' \in DocumentCopy)
      /\ reopened' \in BOOLEAN
  BY <1>1, <1>2, <1>3 DEF KnowledgeTypes, FormTypes
<1>6. /\ editingSpace' # NoOne => SpaceHeard(editingSpace')
      /\ editingDocument' # NoOne => DocumentHeard(editingDocument'.id)
  BY <1>2 DEF SpaceHeard, DocumentHeard
<1>7. ASSUME Settled, ~reopened'
      PROVE  /\ \A c \in calls : c.kind = "deleteSpace" /\ c.space = s => c.mine /\ c.leavesSpace
             /\ editingDocument' # NoOne =>
                  /\ DocumentKept(editingDocument'.id, editingDocument'.space)
                  /\ \A c \in calls : c.kind = "deleteDocument" /\ c.document = editingDocument'.id =>
                                        c.mine /\ c.endsEdit
  <2>1. ~reopened /\ \A c \in calls : c.kind = "deleteSpace" => c.space # s
    BY <1>1, <1>7 DEF Kind
  <2> QED BY <1>2, <1>7, <2>1 DEF Settled, DocumentFormShown, DocumentKept
<1> QED BY <1>1, <1>2, <1>3, <1>4, <1>5, <1>6, <1>7, SelectingKeeps

(* A row is put into its form.                                             *)
LEMMA EditRowKeeps == ASSUME KnowledgeInv, EditRow PROVE KnowledgeInv'
<1>1. KnowledgeTypes /\ panelTab = "knowledge" /\ confirmation = NoOne
  BY DEF KnowledgeInv, EditRow, InTab
<1>2. UNCHANGED <<serverRows, knowledgeSpaces, ragProviders, panelTab, confirmation, loadedParts>>
  BY DEF EditRow
<1>3. /\ documentSpaceId \in Known \cup {NoOne} /\ editingSpace \in Known \cup {NoOne} /\ reopened \in BOOLEAN
      /\ editingDocument # NoOne => editingDocument \in DocumentCopy
  BY <1>1 DEF KnowledgeTypes, FormTypes
<1>4. /\ documentSpaceId # NoOne => SpaceHeard(documentSpaceId)
      /\ editingSpace # NoOne => SpaceHeard(editingSpace)
      /\ editingDocument # NoOne => DocumentHeard(editingDocument.id)
  BY DEF SpaceHeard, DocumentHeard
<1>5. ASSUME Settled, ~reopened
      PROVE  /\ documentSpaceId # NoOne => documentSpaceId \in IdsOf(spaceRows) \/ SpaceGone(documentSpaceId)
             /\ \A c \in calls : c.kind = "deleteSpace" /\ c.space = documentSpaceId => c.mine /\ c.leavesSpace
             /\ editingDocument # NoOne =>
                  /\ DocumentKept(editingDocument.id, editingDocument.space)
                  /\ \A c \in calls : c.kind = "deleteDocument" /\ c.document = editingDocument.id =>
                                        c.mine /\ c.endsEdit
  BY <1>5 DEF Settled, SpaceFormShown, DocumentFormShown, DocumentKept
<1>6. CASE \E d \in Shown :
             /\ editingDocument' = d /\ UNCHANGED editingSpace
             /\ Settle(calls, d.space, knowledgeDocuments)
             /\ reopened' = (reopened \/ \E c \in Kind("deleteDocument") : c.document = d.id)
  <2>1. PICK d \in Shown :
          /\ editingDocument' = d /\ UNCHANGED editingSpace
          /\ Settle(calls, d.space, knowledgeDocuments)
          /\ reopened' = (reopened \/ \E c \in Kind("deleteDocument") : c.document = d.id)
    BY <1>6
  <2>2. /\ documentSpaceId # NoOne /\ d \in DocumentCopy /\ DocumentHeard(d.id)
        /\ Settled => d.space = documentSpaceId /\ DocumentKept(d.id, d.space)
    BY <1>1, ListedDocumentIs
  <2>3. d.space \in Known \cup {NoOne}
    BY <2>2 DEF DocumentCopy
  <2>4. ASSUME Settled, ~reopened'
        PROVE  /\ d.space \in IdsOf(spaceRows) \/ SpaceGone(d.space)
               /\ \A c \in calls : c.kind = "deleteSpace" /\ c.space = d.space => c.mine /\ c.leavesSpace
               /\ DocumentKept(d.id, d.space)
               /\ \A c \in calls : c.kind = "deleteDocument" => c.document # d.id
    <3>1. ~reopened /\ \A c \in calls : c.kind = "deleteDocument" => c.document # d.id
      BY <2>1, <2>4 DEF Kind
    <3> QED BY <1>5, <2>2, <2>4, <3>1
  <2> HIDE DEF KnowledgeInv
  <2> QED BY <1>1, <1>2, <1>3, <1>4, <2>1, <2>2, <2>3, <2>4, SelectingKeeps
<1>7. CASE /\ editingDocument' = NoOne /\ UNCHANGED <<editingSpace, reopened>>
           /\ Settle(calls, documentSpaceId, knowledgeDocuments)
  BY <1>1, <1>2, <1>3, <1>4, <1>5, <1>7, SelectingKeeps
<1>8. CASE /\ \E s \in IdsOf(ToSet(knowledgeSpaces)) \cup {NoOne} : editingSpace' = s
           /\ UNCHANGED <<editingDocument, reopened>>
           /\ Settle(calls, documentSpaceId, knowledgeDocuments)
  <2>1. editingSpace' \in Known \cup {NoOne} /\ (editingSpace' # NoOne => SpaceHeard(editingSpace'))
    BY <1>1, <1>8, ListedSpaceIs DEF SpaceHeard
  <2> QED BY <1>1, <1>2, <1>3, <1>4, <1>5, <1>8, <2>1, SelectingKeeps
<1> QED BY <1>6, <1>7, <1>8 DEF EditRow

(* Nothing is asked.                                                       *)
LEMMA QuietKeeps ==
  ASSUME KnowledgeInv,
         UNCHANGED <<serverRows, caches, panelTab, editingSpace, documentSpaceId, editingDocument,
                     calls, histories, mixed>>,
         panelTab # "knowledge" => confirmation' \in {confirmation, NoOne},
         confirmation' # NoOne => IsConfirmation(confirmation'),
         confirmation' # NoOne /\ confirmation'.kind = "deleteSpace" /\ confirmation'.space = documentSpaceId =>
           confirmation'.leavesSpace \/ confirmation' = confirmation,
         confirmation' # NoOne /\ confirmation'.kind = "deleteDocument" /\ editingDocument # NoOne
           /\ confirmation'.document = editingDocument.id =>
             confirmation'.endsEdit \/ confirmation' = confirmation,
         Settled /\ confirmation' # NoOne =>
           /\ SpaceHeard(confirmation'.space)
           /\ confirmation'.kind = "deleteDocument" => DocumentHeard(confirmation'.document)
  PROVE  KnowledgeInv'
<1>1. KnowledgeTypes
  BY DEF KnowledgeInv
<1>2. Going(calls, Same(calls), {})
  BY GoingSame
<1>3. UNCHANGED <<serverRows, caches, loadedParts>>
  BY DEF histories
<1>4. FormTypesNext
  BY <1>1 DEF FormTypesNext, KnowledgeTypes, FormTypes, histories
<1>5. OffTab'
  BY <1>1 DEF KnowledgeTypes, OffTab
<1>6. \A c \in calls : KnowledgeCall(Same(calls)[c])
  BY <1>1 DEF KnowledgeTypes, Same
<1>7. ASSUME Settled PROVE AsksHeard({}) /\ FormsHeard
  BY <1>7 DEF AsksHeard, FormsHeard, SpaceHeard, DocumentHeard
<1>8. ASSUME Settled PROVE FormsShown'
  <2> SUFFICES ASSUME ~reopened PROVE SpaceFormShown' /\ DocumentFormShown'
    BY DEF FormsShown, histories
  <2>1. UNCHANGED <<spaceRows, documentRows>>
    BY DEF serverRows
  <2>2. SpaceFormShown /\ DocumentFormShown
    BY <1>8 DEF Settled
  <2>3. SpaceFormShown'
    BY <2>1, <2>2 DEF SpaceFormShown, SpaceGone
  <2>4. DocumentFormShown'
    BY <2>1, <2>2 DEF DocumentFormShown
  <2> QED BY <2>3, <2>4
<1> QED BY <1>1, <1>2, <1>3, <1>4, <1>5, <1>6, <1>7, <1>8, AskingKeeps DEF KnowledgeTypes, FormTypes

(* A deletion is asked for.                                                *)
LEMMA AskDeleteKeeps == ASSUME KnowledgeInv, AskDelete PROVE KnowledgeInv'
<1>1. KnowledgeTypes /\ panelTab = "knowledge"
  BY DEF KnowledgeInv, AskDelete, InTab
<1>2. UNCHANGED <<serverRows, caches, panelTab, editingSpace, documentSpaceId, editingDocument,
                     calls, histories, mixed>>
  BY DEF AskDelete
<1>3. CASE \E s \in IdsOf(ToSet(knowledgeSpaces)) :
          confirmation' = [kind |-> "deleteSpace", space |-> s, mine |-> TRUE,
                           leavesSpace |-> documentSpaceId = s,
                           endsEdit |-> editingSpace = s]
  <2>1. PICK s \in IdsOf(ToSet(knowledgeSpaces)), l \in BOOLEAN, e \in BOOLEAN :
          /\ confirmation' = [kind |-> "deleteSpace", space |-> s, mine |-> TRUE, leavesSpace |-> l, endsEdit |-> e]
          /\ l = (documentSpaceId = s)
    BY <1>3
  <2>2. s \in Known /\ HasId(knowledgeSpaces, s)
    BY <1>1, ListedSpaceIs
  <2>3. PICK body : body = confirmation'
    OBVIOUS
  <2>4. /\ DOMAIN body = {"kind", "space", "mine", "leavesSpace", "endsEdit"} /\ body.kind = "deleteSpace"
        /\ body.space = s /\ body.mine = TRUE /\ body.leavesSpace = l /\ body.endsEdit = e
    BY <2>1, <2>3
  <2>5. IsConfirmation(body)
    BY <2>2, <2>4 DEF IsConfirmation, IsAsk, OfSpace, OfDocument, DocumentUpdates, KnowledgeKinds
  <2>6. SpaceHeard(body.space)
    BY <2>2, <2>4 DEF SpaceHeard
  <2>7. body.space = documentSpaceId => body.leavesSpace
    BY <2>1, <2>4
  <2> QED BY <1>1, <1>2, <2>3, <2>4, <2>5, <2>6, <2>7, QuietKeeps
<1>4. CASE \E d \in Shown :
          confirmation' = [kind |-> "deleteDocument", space |-> d.space, document |-> d.id,
                           mine |-> TRUE,
                           endsEdit |-> editingDocument # NoOne /\ editingDocument.id = d.id]
  <2>1. PICK d \in Shown, e \in BOOLEAN :
          /\ confirmation' = [kind |-> "deleteDocument", space |-> d.space, document |-> d.id,
                              mine |-> TRUE, endsEdit |-> e]
          /\ e = (editingDocument # NoOne /\ editingDocument.id = d.id)
    BY <1>4
  <2>2. /\ d \in DocumentCopy /\ DocumentHeard(d.id)
        /\ Settled => documentSpaceId # NoOne /\ d.space = documentSpaceId
    BY <1>1, ListedDocumentIs
  <2>3. PICK body : body = confirmation'
    OBVIOUS
  <2>4. /\ DOMAIN body = {"kind", "space", "document", "mine", "endsEdit"} /\ body.kind = "deleteDocument"
        /\ body.space = d.space /\ body.document = d.id /\ body.mine = TRUE /\ body.endsEdit = e
    BY <2>1, <2>3
  <2>5. IsConfirmation(body)
    <3>1. d.space \in Known /\ d.id \in Known
      BY <2>2 DEF DocumentCopy
    <3> QED BY <2>4, <3>1 DEF IsConfirmation, IsAsk, OfSpace, DocumentWrites, OfDocument, DocumentUpdates, KnowledgeKinds
  <2>6. DocumentHeard(body.document) /\ (Settled => SpaceHeard(body.space))
    BY <2>2, <2>4 DEF SpaceHeard
  <2>7. editingDocument # NoOne /\ body.document = editingDocument.id => body.endsEdit
    BY <2>1, <2>4
  <2> QED BY <1>1, <1>2, <2>3, <2>4, <2>5, <2>6, <2>7, QuietKeeps
<1> QED BY <1>3, <1>4 DEF AskDelete

(* It is not confirmed.                                                    *)
LEMMA CancelDeleteKeeps == ASSUME KnowledgeInv, CancelDelete PROVE KnowledgeInv'
  BY QuietKeeps DEF CancelDelete

(* A step that leaves the knowledge base alone.                            *)
LEMMA KnowledgeStutterKeeps == ASSUME KnowledgeInv, UNCHANGED <<knowledgeState, calls>> PROVE KnowledgeInv'
<1>1. confirmation # NoOne =>
        /\ IsConfirmation(confirmation) /\ SpaceHeard(confirmation.space)
        /\ confirmation.kind = "deleteDocument" => DocumentHeard(confirmation.document)
  BY DEF KnowledgeInv, KnowledgeTypes, FormTypes, SpaceHeard, DocumentHeard
<1>2. UNCHANGED <<serverRows, caches, panelTab, editingSpace, documentSpaceId, editingDocument,
                     calls, histories, mixed, confirmation>>
  BY DEF knowledgeState, forms
<1> QED BY <1>1, <1>2, QuietKeeps

(* The tab is left, or the dialog.                                         *)
LEMMA ChangeTabKeeps == ASSUME KnowledgeInv, ChangeTab PROVE KnowledgeInv'
<1>1. KnowledgeTypes
  BY DEF KnowledgeInv
<1> DEFINE rest == Orphaned(calls)
           load(t) == IF "closed" \in {t, panelTab} THEN {AsNext(rest, Workspace)} ELSE {}
           f == [c \in calls |-> [c EXCEPT !.mine = FALSE]]
<1>2. PICK t \in {"closed", "knowledge", "rag"} :
        /\ panelTab' = t /\ editingSpace' = NoOne /\ editingDocument' = NoOne
        /\ confirmation' = NoOne /\ documentSpaceId' = NoOne
        /\ calls' = rest \cup load(t)
        /\ mixed' = (mixed \/ \E c \in load(t), d \in rest : Conflict(c, d))
  BY DEF ChangeTab
<1>3. UNCHANGED <<serverRows, caches, histories>>
  BY DEF ChangeTab
<1>4. PICK new : new = load(t)
  OBVIOUS
<1>5. ASSUME NEW c \in new PROVE KnowledgeCall(c) /\ Unserved(c) /\ c.kind = "workspace" /\ ~c.mine
  <2>1. IsAsked(c, Workspace)
    BY <1>4, <1>5, AsNextIs
  <2>2. PICK w : w = Workspace
    OBVIOUS
  <2>3. /\ DOMAIN w = {"kind", "spaces", "rag", "mine"} /\ w.kind = "workspace" /\ w.spaces = NoOne
        /\ w.rag = NoOne /\ w.mine = FALSE
    BY <2>2 DEF Workspace
  <2>4. IsAsk(w)
    BY <2>3 DEF IsAsk, IsPart, OfSpace, OfDocument, DocumentWrites, DocumentCreates, DocumentUpdates, KnowledgeKinds
  <2>5. KnowledgeCall(c) /\ c.kind = "workspace" /\ c.mine = FALSE /\ c.spaces = NoOne /\ c.rag = NoOne
    BY <2>1, <2>2, <2>3, <2>4, AskedIs
  <2> QED BY <2>1, <2>5 DEF Unserved, IsAsked
<1>6. \A c, d \in new : c = d
  BY <1>4
<1>7. calls' = rest \cup new /\ mixed' = (mixed \/ \E c \in new, d \in rest : Conflict(c, d))
  BY <1>2, <1>4
<1>8. \A c \in calls : KnowledgeCall(f[c]) /\ SameCall(f[c], c) /\ ~f[c].mine
  BY <1>1, OrphanIs DEF KnowledgeTypes
<1>9. rest = {f[c] : c \in calls}
  BY DEF Orphaned
<1> HIDE DEF rest, load, f
<1>10. Going(calls, f, new)
  BY <1>5, <1>7, <1>8, <1>9 DEF Going
<1>11. FormTypesNext
  <2>1. mixed' \in BOOLEAN
    BY <1>1, <1>7 DEF KnowledgeTypes, FormTypes
  <2> QED BY <1>1, <1>2, <1>3, <2>1 DEF FormTypesNext, KnowledgeTypes, FormTypes, histories
<1>12. OffTab'
  <2>1. \A c \in calls' : ~c.mine
    BY <1>5, <1>7, <1>8, <1>9
  <2> QED BY <1>2, <2>1 DEF OffTab
<1>13. ASSUME ~mixed'
       PROVE  /\ ~mixed /\ \A c \in new, d \in calls' : ~Conflict(c, d) \/ c = d
              /\ \A c \in new : ~Unloaded(c, knowledgeDocuments')
  <2>1. \A c \in new : ~Unloaded(c, knowledgeDocuments')
    BY <1>5 DEF Unloaded, DocumentWrites, DocumentCreates, DocumentUpdates
  <2> QED BY <1>6, <1>7, <1>13, <2>1
<1>14. AsksHeard(new)
  BY <1>5 DEF AsksHeard, OfSpace, OfDocument, DocumentWrites, DocumentCreates, DocumentUpdates
<1>15. FormsHeard
  BY <1>2 DEF FormsHeard, SpaceHeard, DocumentHeard
<1>16. FormsShown'
  <2>1. confirmation' # NoOne => IsConfirmation(confirmation')
    BY <1>11 DEF FormTypesNext
  <2>2. NoOne \notin Known
    BY KnowledgeAssumption DEF Known
  <2>3. confirmation' # NoOne => confirmation'.space # NoOne
    BY <2>1, <2>2 DEF IsConfirmation, IsAsk, OfSpace, DocumentWrites
  <2>4. \A c \in calls' : KnowledgeCall(c)
    BY <1>5, <1>7, <1>8, <1>9
  <2>5. \A c \in calls' : c.kind = "deleteSpace" => c.space # NoOne
    BY <2>2, <2>4 DEF KnowledgeCall, IsKnowledgeRequest, IsAsk, OfSpace
  <2> QED BY <1>2, <2>3, <2>5 DEF FormsShown, SpaceFormShown, DocumentFormShown
<1> QED BY <1>3, <1>5, <1>8, <1>10, <1>11, <1>12, <1>13, <1>14, <1>15, <1>16, AskingKeeps DEF histories

-----------------------------------------------------------------------------
(* Answers.                                                                *)

SpacesHeardNext(i) == HasId(knowledgeSpaces', i) \/ knowledgeDocuments'[i] # NoOne \/ documentSpaceId' = i

(* What the lists have after a step, and the forms.                        *)
DocumentsHeardNext(j) == \E s \in Ids : knowledgeDocuments'[s] # NoOne /\ HasId(knowledgeDocuments'[s], j)

(* The space that is open after an answer,                                 *)
SpaceAfter(c) ==
  \/ documentSpaceId' = NoOne
  \/ UNCHANGED documentSpaceId /\ ~(Landed(c, {"deleteSpace"}) /\ c.space = documentSpaceId)
  \/ SpaceFormShown'

(* and the document in the form.                                           *)
DocumentAfter(c) ==
  \/ editingDocument' = NoOne
  \/ UNCHANGED editingDocument /\ ~(Landed(c, {"deleteDocument"}) /\ c.document = editingDocument.id)

(* A request is over.                                                      *)
LEMMA AnsweringKeeps ==
  ASSUME KnowledgeInv, KnowledgeTypes', NEW c \in calls, NEW new, calls' = (calls \ {c}) \cup new,
         UNCHANGED <<serverRows, panelTab, reopened>>,
         \A d \in new : Unserved(d) /\ IsLoad(d, documentSpaceId'),
         ~mixed' => /\ ~mixed /\ ~Lost(c)
                    /\ \A d \in new, e \in calls' : ~Conflict(d, e) \/ d = e
                    /\ \A d \in new : ~Unloaded(d, knowledgeDocuments'),
         confirmation' \in {confirmation, NoOne},
         editingSpace' \in {editingSpace, NoOne}, editingDocument' \in {editingDocument, NoOne},
         Straight /\ Settled =>
           /\ \A d \in calls \ {c} :
                /\ Unloaded(d, knowledgeDocuments') => Unloaded(d, knowledgeDocuments)
                /\ Landed(d, {"createSpace"}) /\ SpacesHeardNext(d.reply.id) => SpaceHeard(d.reply.id)
                /\ Landed(d, DocumentCreates) /\ DocumentsHeardNext(d.reply.id) => DocumentHeard(d.reply.id)
           /\ SpacesShown' /\ DocumentsShown' /\ RagShown'
           /\ ~reopened => SpaceAfter(c) /\ DocumentAfter(c)
  PROVE  KnowledgeInv'
<1>1. KnowledgeTypes /\ UNCHANGED <<spaceRows, documentRows, ragRows, issued>>
  BY DEF KnowledgeInv, serverRows
<1> DEFINE old == calls \ {c}
<1>2. Going(old, Same(old), new)
  BY GoingSame
<1>3. \A d \in calls : d # c => Carried(d)
  BY SameCallIs DEF Carried
<1>4. \A d \in calls' : d.kind # "documents" => d \in calls
  BY DEF IsLoad
<1>5. NoOne \notin Known
  BY KnowledgeAssumption DEF Known
<1>6. ASSUME Straight, Settled PROVE HeardStays(old)
  <2>1. ASSUME NEW e \in old, Landed(e, {"createSpace"}), SpaceHeard(e.reply.id)' PROVE SpaceHeard(e.reply.id)
    <3>1. PICK i : i = e.reply.id
      OBVIOUS
    <3>2. i # NoOne
      BY <1>1, <1>5, <2>1, <3>1 DEF KnowledgeTypes, KnowledgeCall, IsKnowledgeAnswer, Landed, SpaceCopy
    <3>3. SpacesHeardNext(i) => SpaceHeard(i)
      BY <1>6, <2>1, <3>1
    <3>4. ASSUME NEW d \in calls', d.kind \in OfSpace, d.space = i PROVE SpaceHeard(i)
      <4>1. d \in new => documentSpaceId' = i
        BY <3>4 DEF IsLoad
      <4>2. d \in calls => SpaceHeard(i)
        BY <3>4 DEF SpaceHeard
      <4> QED BY <3>3, <4>1, <4>2 DEF SpacesHeardNext
    <3>5. SpaceHeard(i)'
      BY <2>1, <3>1
    <3>6. confirmation' # NoOne /\ confirmation'.space = i => SpaceHeard(i)
      BY DEF SpaceHeard
    <3>7. editingSpace' = i => SpaceHeard(i)
      BY <3>2 DEF SpaceHeard
    <3>8. \/ SpacesHeardNext(i) \/ editingSpace' = i \/ (confirmation' # NoOne /\ confirmation'.space = i)
          \/ \E d \in calls' : d.kind \in OfSpace /\ d.space = i
      BY <3>5 DEF SpaceHeard, SpacesHeardNext
    <3> QED BY <3>1, <3>3, <3>4, <3>6, <3>7, <3>8
  <2>2. ASSUME NEW e \in old, Landed(e, DocumentCreates), DocumentHeard(e.reply.id)' PROVE DocumentHeard(e.reply.id)
    <3>1. PICK j : j = e.reply.id
      OBVIOUS
    <3>3. DocumentsHeardNext(j) => DocumentHeard(j)
      BY <1>6, <2>2, <3>1
    <3>4. ASSUME NEW d \in calls', d.kind \in OfDocument, d.document = j PROVE DocumentHeard(j)
      <4>1. d \in calls
        BY <1>4, <3>4 DEF OfDocument, DocumentUpdates
      <4> QED BY <3>4, <4>1 DEF DocumentHeard
    <3>5. \/ DocumentsHeardNext(j) \/ (editingDocument' # NoOne /\ editingDocument'.id = j)
          \/ (confirmation' # NoOne /\ confirmation'.kind = "deleteDocument" /\ confirmation'.document = j)
          \/ \E d \in calls' : d.kind \in OfDocument /\ d.document = j
      BY <2>2, <3>1 DEF DocumentHeard, DocumentsHeardNext
    <3> QED BY <3>1, <3>3, <3>4, <3>5 DEF DocumentHeard
  <2> QED BY <2>1, <2>2 DEF HeardStays
<1>7. ASSUME Straight, Settled PROVE FormsShown'
  <2> SUFFICES ASSUME ~reopened PROVE SpaceFormShown' /\ DocumentFormShown'
    BY DEF FormsShown
  <2>1. SpaceFormShown /\ DocumentFormShown
    BY <1>7 DEF Settled
  <2>2. \A d \in calls' : d.kind \in {"deleteSpace", "deleteDocument"} => Behind(d)
    BY <1>4 DEF Behind, Alike
  <2>3. ASSUME documentSpaceId' = NoOne PROVE SpaceFormShown'
    <3>1. confirmation' # NoOne => confirmation'.space # NoOne
      BY <1>1, <1>5 DEF KnowledgeTypes, FormTypes, IsConfirmation, IsAsk, OfSpace, DocumentWrites
    <3>2. \A d \in calls' : d.kind = "deleteSpace" => d.space # NoOne
      BY <1>1, <1>4, <1>5 DEF KnowledgeTypes, KnowledgeCall, IsKnowledgeRequest, IsAsk, OfSpace
    <3> QED BY <2>3, <3>1, <3>2 DEF SpaceFormShown
  <2>4. ASSUME UNCHANGED documentSpaceId, ~(Landed(c, {"deleteSpace"}) /\ c.space = documentSpaceId)
        PROVE  SpaceFormShown'
    BY <1>1, <1>3, <2>1, <2>2, <2>4, SpaceFormStays
  <2>5. SpaceFormShown'
    BY <1>7, <2>3, <2>4 DEF SpaceAfter
  <2>6. ASSUME editingDocument' = NoOne PROVE DocumentFormShown'
    BY <2>6 DEF DocumentFormShown
  <2>7. ASSUME UNCHANGED editingDocument, ~(Landed(c, {"deleteDocument"}) /\ c.document = editingDocument.id)
        PROVE  DocumentFormShown'
    BY <1>1, <1>3, <2>1, <2>2, <2>7, DocumentFormStays, DocumentKeptStays
  <2> QED BY <1>7, <2>5, <2>6, <2>7 DEF DocumentAfter
<1>8. ~mixed' => ~mixed /\ \A d \in calls \ old : ~Lost(d)
  OBVIOUS
<1> HIDE DEF old
<1>9. Straight /\ Settled => \A d \in old : Unloaded(d, knowledgeDocuments') => Unloaded(d, knowledgeDocuments)
  BY DEF old
<1> QED BY <1>1, <1>2, <1>6, <1>7, <1>8, <1>9, GoingKeeps

(* Its types.                                                              *)
LEMMA AnsweringTypes ==
  ASSUME KnowledgeTypes, NEW c \in calls, NEW new, calls' = (calls \ {c}) \cup new,
         UNCHANGED <<serverRows, panelTab, reopened>>,
         \A d \in new : KnowledgeCall(d) /\ IsLoad(d, documentSpaceId'),
         knowledgeSpaces' \in Seq(SpaceCopy),
         knowledgeDocuments' \in [Ids -> Seq(DocumentCopy) \cup {NoOne}],
         \A s \in Ids : knowledgeDocuments'[s] # NoOne => s \in Known,
         documentSpaceId' \in Known \cup {NoOne}, mixed' \in BOOLEAN,
         confirmation' \in {confirmation, NoOne},
         editingSpace' \in {editingSpace, NoOne}, editingDocument' \in {editingDocument, NoOne},
         panelTab # "knowledge" => documentSpaceId' \in {documentSpaceId, NoOne}
  PROVE  KnowledgeTypes'
<1>1. UNCHANGED <<spaceRows, documentRows, issued>>
  BY DEF serverRows
<1>2. /\ editingSpace' \in Known \cup {NoOne} /\ reopened' \in BOOLEAN
      /\ editingDocument' # NoOne => editingDocument' \in DocumentCopy
      /\ confirmation' # NoOne => IsConfirmation(confirmation')
  BY DEF KnowledgeTypes, FormTypes
<1>3. \A d \in calls' : KnowledgeCall(d)
  BY DEF KnowledgeTypes
<1>4. OffTab'
  <2> SUFFICES ASSUME panelTab # "knowledge" PROVE OffTab'
    BY DEF OffTab
  <2>1. editingSpace = NoOne /\ documentSpaceId = NoOne /\ editingDocument = NoOne
        /\ confirmation = NoOne /\ \A d \in calls : ~d.mine
    BY DEF KnowledgeTypes, OffTab
  <2>2. documentSpaceId' = NoOne /\ editingSpace' = NoOne /\ editingDocument' = NoOne
    BY <2>1
  <2>3. calls' \subseteq calls
    BY <2>2 DEF IsLoad
  <2> QED BY <2>1, <2>2, <2>3 DEF OffTab
<1> QED BY <1>1, <1>2, <1>3, <1>4, StayingTypes

(* Lists that stay, or are right, are right.                               *)
LEMMA DocumentsStay ==
  ASSUME DocumentsShown, \A c \in calls : StillTrue(c), UNCHANGED <<spaceRows, documentRows>>,
         \A s \in Ids : knowledgeDocuments'[s] # NoOne =>
           \/ /\ knowledgeDocuments'[s] = knowledgeDocuments[s]
              /\ \A c \in calls : Landed(c, DocumentWrites \cup {"deleteSpace"}) /\ c.space = s => Carried(c)
           \/ Shows(s, knowledgeDocuments[s])'
  PROVE  DocumentsShown'
<1> SUFFICES ASSUME NEW s \in Ids, knowledgeDocuments'[s] # NoOne PROVE Shows(s, knowledgeDocuments[s])'
  BY DEF DocumentsShown
<1>1. ASSUME knowledgeDocuments'[s] = knowledgeDocuments[s],
             \A c \in calls : Landed(c, DocumentWrites \cup {"deleteSpace"}) /\ c.space = s => Carried(c)
      PROVE  Shows(s, knowledgeDocuments[s])'
  <2>1. PICK list : list = knowledgeDocuments[s]
    OBVIOUS
  <2>2. Shows(s, list)
    BY <1>1, <2>1 DEF DocumentsShown
  <2>3. DocumentsOf(s)' = DocumentsOf(s)
    BY DEF DocumentsOf
  <2>4. Shows(s, list)'
    BY <1>1, <2>2, <2>3, ShowsStay
  <2> QED BY <1>1, <2>1, <2>4
<1> QED BY <1>1

(* What remains once a request is over.                                    *)
LEMMA RestCarried ==
  ASSUME NEW c, NEW new, calls' = (calls \ {c}) \cup new
  PROVE  \A d \in calls : d # c => Carried(d)
  BY SameCallIs DEF Carried

(* What the workspace answers.                                             *)
LEMMA PartIs ==
  ASSUME NEW p, IsPart(p), p # NoOne, p # <<>>
  PROVE  p[1] \in Seq(SpaceCopy)
  BY DEF IsPart

(* The two lists of the workspace have come.                               *)
LEMMA WorkspaceLoadedKeeps == ASSUME KnowledgeInv, WorkspaceLoaded PROVE KnowledgeInv'
<1>1. PICK c \in Answered("workspace") :
        /\ knowledgeSpaces' = IF c.spaces # <<>> THEN c.spaces[1] ELSE knowledgeSpaces
        /\ ragProviders' = IF c.rag # <<>> THEN c.rag[1] ELSE ragProviders
        /\ loadedParts' = loadedParts \cup (IF c.spaces # <<>> THEN {"spaces"} ELSE {})
                                      \cup (IF c.rag # <<>> THEN {"rag"} ELSE {})
        /\ Done(c)
        /\ UNCHANGED <<serverRows, knowledgeDocuments, panelTab, forms, acts, reopened, mixed>>
  BY DEF WorkspaceLoaded
<1>2. /\ UNCHANGED <<serverRows, knowledgeDocuments, panelTab, editingSpace, documentSpaceId,
                     editingDocument, confirmation, reopened, mixed>>
      /\ UNCHANGED <<spaceRows, documentRows, ragRows>>
  BY <1>1 DEF forms, serverRows
<1>3. c \in calls /\ c.kind = "workspace" /\ c.phase = "answered" /\ calls' = (calls \ {c}) \cup {}
  BY <1>1 DEF Answered, Kind, Done
<1>20. PICK none : none = {} /\ calls' = (calls \ {c}) \cup none
  BY <1>3
<1>4. KnowledgeTypes /\ KnowledgeCall(c)
  BY <1>3 DEF KnowledgeInv, KnowledgeTypes
<1>5. c.spaces # NoOne /\ c.rag # NoOne /\ (c.spaces # <<>> => c.spaces[1] \in Seq(SpaceCopy))
  BY <1>3, <1>4, PartIs DEF KnowledgeCall, IsKnowledgeRequest, IsKnowledgeAnswer, IsAsk
<1>6. KnowledgeTypes'
  <2>1. /\ knowledgeSpaces' \in Seq(SpaceCopy) /\ knowledgeDocuments' \in [Ids -> Seq(DocumentCopy) \cup {NoOne}]
        /\ \A s \in Ids : knowledgeDocuments'[s] # NoOne => s \in Known
        /\ documentSpaceId' \in Known \cup {NoOne} /\ mixed' \in BOOLEAN
    BY <1>1, <1>2, <1>4, <1>5 DEF KnowledgeTypes, ListTypes, FormTypes
  <2> QED BY <1>2, <1>3, <1>4, <2>1, <1>20, AnsweringTypes
<1>7. ASSUME Straight, Settled
      PROVE  /\ \A d \in calls \ {c} :
                  /\ Unloaded(d, knowledgeDocuments') => Unloaded(d, knowledgeDocuments)
                  /\ Landed(d, {"createSpace"}) /\ SpacesHeardNext(d.reply.id) => SpaceHeard(d.reply.id)
                  /\ Landed(d, DocumentCreates) /\ DocumentsHeardNext(d.reply.id) => DocumentHeard(d.reply.id)
             /\ SpacesShown' /\ DocumentsShown' /\ RagShown'
             /\ ~reopened => SpaceAfter(c) /\ DocumentAfter(c)
  <2>1. \A d \in calls : d # c => Carried(d)
    BY <1>3, RestCarried
  <2>2. \A d \in calls : ~Landed(d, SpaceWrites \cup {"rag"})
    BY <1>3, <1>7 DEF Settled, Apart, Conflict, Loads, Landed, SpaceWrites
  <2>3. StillTrue(c)
    BY <1>3, <1>7 DEF Settled
  <2>4. SpacesShown'
    <3>1. CASE c.spaces # <<>>
      <4>1. Exact(knowledgeSpaces', spaceRows)
        BY <1>1, <1>3, <1>5, <2>3, <3>1 DEF StillTrue
      <4>2. \A r \in spaceRows : HasId(knowledgeSpaces', r.id)
        BY <4>1 DEF Exact, ToSet, HasId
      <4> QED BY <1>2, <4>1, <4>2 DEF SpacesShown, Exact
    <3>2. CASE c.spaces = <<>>
      BY <1>1, <1>2, <1>7, <2>2, <3>2, SpacesStay DEF Settled, Landed
    <3> QED BY <3>1, <3>2
  <2>5. DocumentsShown'
    <3>1. \A d \in calls : Landed(d, DocumentWrites \cup {"deleteSpace"}) => Carried(d)
      BY <1>3, <2>1 DEF Landed, DocumentWrites, DocumentCreates, DocumentUpdates
    <3> QED BY <1>2, <1>7, <3>1, DocumentsStay DEF Settled
  <2>6. RagShown'
    <3>1. CASE c.rag # <<>>
      BY <1>1, <1>2, <1>3, <1>5, <2>3, <3>1 DEF StillTrue, RagShown
    <3>2. CASE c.rag = <<>>
      BY <1>1, <1>2, <1>7, <2>2, <3>2, RagStays DEF Settled, Landed
    <3> QED BY <3>1, <3>2
  <2>7. \A d \in calls \ {c} :
          /\ Unloaded(d, knowledgeDocuments') => Unloaded(d, knowledgeDocuments)
          /\ ~Landed(d, {"createSpace"})
          /\ Landed(d, DocumentCreates) /\ DocumentsHeardNext(d.reply.id) => DocumentHeard(d.reply.id)
    BY <1>2, <2>2 DEF Landed, SpaceWrites, DocumentsHeardNext, DocumentHeard
  <2>8. SpaceAfter(c) /\ DocumentAfter(c)
    BY <1>2, <1>3 DEF SpaceAfter, DocumentAfter, Landed
  <2> QED BY <2>4, <2>5, <2>6, <2>7, <2>8
<1>8. ~Lost(c)
  BY <1>3 DEF Lost
<1> QED BY <1>2, <1>3, <1>6, <1>7, <1>8, <1>20, AnsweringKeeps

(* The providers have changed.                                             *)
LEMMA ProvidersChangedKeeps == ASSUME KnowledgeInv, ProvidersChanged PROVE KnowledgeInv'
<1>1. PICK c \in Answered("rag") :
        /\ ragProviders' = c.reply /\ Done(c) /\ loadedParts' = loadedParts \cup {"rag"}
        /\ UNCHANGED <<serverRows, knowledgeSpaces, knowledgeDocuments, panelTab, forms, acts,
                       reopened, mixed>>
  BY DEF ProvidersChanged
<1>2. /\ UNCHANGED <<serverRows, knowledgeSpaces, knowledgeDocuments, panelTab, editingSpace, documentSpaceId,
                     editingDocument, confirmation, reopened, mixed>>
      /\ UNCHANGED <<spaceRows, documentRows, ragRows>>
  BY <1>1 DEF forms, serverRows
<1>3. c \in calls /\ c.kind = "rag" /\ c.phase = "answered" /\ calls' = (calls \ {c}) \cup {}
  BY <1>1 DEF Answered, Kind, Done
<1>20. PICK none : none = {} /\ calls' = (calls \ {c}) \cup none
  BY <1>3
<1>4. KnowledgeTypes
  BY DEF KnowledgeInv
<1>5. KnowledgeTypes'
  <2>1. /\ knowledgeSpaces' \in Seq(SpaceCopy) /\ knowledgeDocuments' \in [Ids -> Seq(DocumentCopy) \cup {NoOne}]
        /\ \A s \in Ids : knowledgeDocuments'[s] # NoOne => s \in Known
        /\ documentSpaceId' \in Known \cup {NoOne} /\ mixed' \in BOOLEAN
    BY <1>2, <1>4 DEF KnowledgeTypes, ListTypes, FormTypes
  <2> QED BY <1>2, <1>3, <1>4, <2>1, <1>20, AnsweringTypes
<1>6. ASSUME Straight, Settled
      PROVE  /\ \A d \in calls \ {c} :
                  /\ Unloaded(d, knowledgeDocuments') => Unloaded(d, knowledgeDocuments)
                  /\ Landed(d, {"createSpace"}) /\ SpacesHeardNext(d.reply.id) => SpaceHeard(d.reply.id)
                  /\ Landed(d, DocumentCreates) /\ DocumentsHeardNext(d.reply.id) => DocumentHeard(d.reply.id)
             /\ SpacesShown' /\ DocumentsShown' /\ RagShown'
             /\ ~reopened => SpaceAfter(c) /\ DocumentAfter(c)
  <2>1. \A d \in calls : Landed(d, SpaceWrites \cup DocumentWrites) => Carried(d)
    BY <1>3, RestCarried DEF Landed, SpaceWrites, DocumentWrites, DocumentCreates, DocumentUpdates
  <2>2. SpacesShown'
    BY <1>1, <1>2, <1>6, <2>1, SpacesStay DEF Settled, Landed
  <2>3. DocumentsShown'
    BY <1>2, <1>6, <2>1, DocumentsStay DEF Settled, Landed, SpaceWrites
  <2>4. RagShown'
    BY <1>1, <1>2, <1>3, <1>6 DEF Settled, StillTrue, Landed, RagShown
  <2>5. \A d \in calls \ {c} :
                  /\ Unloaded(d, knowledgeDocuments') => Unloaded(d, knowledgeDocuments)
                  /\ Landed(d, {"createSpace"}) /\ SpacesHeardNext(d.reply.id) => SpaceHeard(d.reply.id)
                  /\ Landed(d, DocumentCreates) /\ DocumentsHeardNext(d.reply.id) => DocumentHeard(d.reply.id)
    BY <1>2 DEF SpacesHeardNext, SpaceHeard, DocumentsHeardNext, DocumentHeard
  <2>6. SpaceAfter(c) /\ DocumentAfter(c)
    BY <1>2, <1>3 DEF SpaceAfter, DocumentAfter, Landed
  <2> QED BY <2>2, <2>3, <2>4, <2>5, <2>6
<1>7. ~Lost(c)
  BY <1>3 DEF Lost
<1> QED BY <1>2, <1>3, <1>5, <1>6, <1>7, <1>20, AnsweringKeeps

(* A request has failed.                                                   *)
LEMMA KnowledgeErrorKeeps == ASSUME KnowledgeInv, KnowledgeError PROVE KnowledgeInv'
<1>1. PICK c \in calls :
        /\ c.phase = "failed" /\ c.kind # "deleteDocument"
        /\ confirmation' = IF c.kind = "deleteSpace" /\ c.mine THEN NoOne ELSE confirmation
        /\ mixed' = (mixed \/ c.lost)
        /\ Done(c)
        /\ UNCHANGED <<serverRows, caches, panelTab, editingSpace, documentSpaceId,
                       editingDocument, acts, histories>>
  BY DEF KnowledgeError
<1>2. /\ UNCHANGED <<serverRows, knowledgeSpaces, knowledgeDocuments, ragProviders, panelTab, editingSpace,
                     documentSpaceId, editingDocument, reopened, loadedParts>>
      /\ UNCHANGED <<spaceRows, documentRows, ragRows>>
  BY <1>1 DEF caches, histories, serverRows
<1>3. calls' = (calls \ {c}) \cup {}
  BY <1>1 DEF Done
<1>20. PICK none : none = {} /\ calls' = (calls \ {c}) \cup none
  BY <1>3
<1>4. KnowledgeTypes /\ KnowledgeCall(c)
  BY DEF KnowledgeInv, KnowledgeTypes
<1>5. mixed' \in BOOLEAN /\ (~mixed' => ~mixed /\ ~Lost(c))
  BY <1>1, <1>4 DEF KnowledgeTypes, FormTypes, KnowledgeCall, IsKnowledgeRequest, Lost
<1>6. KnowledgeTypes'
  <2>1. /\ knowledgeSpaces' \in Seq(SpaceCopy) /\ knowledgeDocuments' \in [Ids -> Seq(DocumentCopy) \cup {NoOne}]
        /\ \A s \in Ids : knowledgeDocuments'[s] # NoOne => s \in Known
        /\ documentSpaceId' \in Known \cup {NoOne}
    BY <1>2, <1>4 DEF KnowledgeTypes, ListTypes, FormTypes
  <2> QED BY <1>1, <1>2, <1>3, <1>4, <1>5, <2>1, <1>20, AnsweringTypes
<1>7. ASSUME Straight, Settled
      PROVE  /\ \A d \in calls \ {c} :
                  /\ Unloaded(d, knowledgeDocuments') => Unloaded(d, knowledgeDocuments)
                  /\ Landed(d, {"createSpace"}) /\ SpacesHeardNext(d.reply.id) => SpaceHeard(d.reply.id)
                  /\ Landed(d, DocumentCreates) /\ DocumentsHeardNext(d.reply.id) => DocumentHeard(d.reply.id)
             /\ SpacesShown' /\ DocumentsShown' /\ RagShown'
             /\ ~reopened => SpaceAfter(c) /\ DocumentAfter(c)
  <2>1. \A d \in calls : d.phase = "answered" => Carried(d)
    BY <1>1, <1>3, RestCarried
  <2>2. SpacesShown' /\ RagShown'
    BY <1>2, <1>7, <2>1, SpacesStay, RagStays DEF Settled, Landed
  <2>3. DocumentsShown'
    BY <1>2, <1>7, <2>1, DocumentsStay DEF Settled, Landed
  <2>5. \A d \in calls \ {c} :
                  /\ Unloaded(d, knowledgeDocuments') => Unloaded(d, knowledgeDocuments)
                  /\ Landed(d, {"createSpace"}) /\ SpacesHeardNext(d.reply.id) => SpaceHeard(d.reply.id)
                  /\ Landed(d, DocumentCreates) /\ DocumentsHeardNext(d.reply.id) => DocumentHeard(d.reply.id)
    BY <1>2 DEF SpacesHeardNext, SpaceHeard, DocumentsHeardNext, DocumentHeard
  <2>6. SpaceAfter(c) /\ DocumentAfter(c)
    BY <1>1, <1>2 DEF SpaceAfter, DocumentAfter, Landed
  <2> QED BY <2>2, <2>3, <2>5, <2>6
<1> QED BY <1>1, <1>2, <1>3, <1>5, <1>6, <1>7, <1>20, AnsweringKeeps

(* A list of documents takes the place of one of the cache.                *)
LEMMA CacheIs ==
  ASSUME KnowledgeTypes, NEW s \in Known, NEW list \in Seq(DocumentCopy) \cup {NoOne}
  PROVE  LET cache == [knowledgeDocuments EXCEPT ![s] = list]
         IN  /\ cache \in [Ids -> Seq(DocumentCopy) \cup {NoOne}]
             /\ \A q \in Ids : cache[q] = IF q = s THEN list ELSE knowledgeDocuments[q]
             /\ \A q \in Ids : cache[q] # NoOne => q \in Known
             /\ s \in Ids
  BY KnowledgeAssumption DEF KnowledgeTypes, ListTypes, SourceTypes, Known, Ids

(* A list that was loaded is a list.                                       *)
LEMMA NoListIsNull == ASSUME KnowledgeTypes PROVE NoOne \notin Seq(DocumentCopy)
<1>1. Known \subseteq Ids
  BY KnowledgeAssumption DEF KnowledgeTypes, SourceTypes, Known, Ids
<1>2. DocumentCopy \subseteq Documents
  BY <1>1 DEF DocumentCopy, Documents
<1>3. \A l \in Seq(DocumentCopy) : l \in Seq(Documents)
  <2> HIDE DEF DocumentCopy, Documents
  <2>1. \A S, T : S \subseteq T => \A l \in Seq(S) : l \in Seq(T)
    OBVIOUS
  <2> QED BY <1>2, <2>1
<1> QED BY <1>3, KnowledgeAssumption

(* The documents of a space have come.                                     *)
LEMMA DocumentsLoadedKeeps == ASSUME KnowledgeInv, DocumentsLoaded PROVE KnowledgeInv'
<1>1. PICK c \in Answered("documents") :
        /\ Settle(calls \ {c}, documentSpaceId, [knowledgeDocuments EXCEPT ![c.space] = c.reply])
        /\ UNCHANGED <<serverRows, knowledgeSpaces, ragProviders, panelTab, editingSpace,
                   editingDocument, confirmation, acts, histories>>
  BY DEF DocumentsLoaded
<1>2. UNCHANGED <<spaceRows, documentRows, ragRows, reopened, loadedParts>>
  BY <1>1 DEF serverRows, histories
<1>3. c \in calls /\ c.kind = "documents" /\ c.phase = "answered"
  BY <1>1 DEF Answered, Kind
<1>4. KnowledgeTypes /\ KnowledgeCall(c) /\ documentSpaceId \in Known \cup {NoOne}
  BY <1>3 DEF KnowledgeInv, KnowledgeTypes, FormTypes
<1>5. c.space \in Known /\ c.reply \in Seq(DocumentCopy)
  BY <1>3, <1>4 DEF KnowledgeCall, IsKnowledgeRequest, IsKnowledgeAnswer, IsAsk, OfSpace
<1> DEFINE cache == [knowledgeDocuments EXCEPT ![c.space] = c.reply]
           rest == calls \ {c}
<1>6. /\ cache \in [Ids -> Seq(DocumentCopy) \cup {NoOne}]
      /\ \A q \in Ids : cache[q] = IF q = c.space THEN c.reply ELSE knowledgeDocuments[q]
      /\ \A q \in Ids : cache[q] # NoOne => q \in Known
      /\ c.space \in Ids
  BY <1>4, <1>5, CacheIs
<1>7. rest \in SUBSET calls /\ Settle(rest, documentSpaceId, cache)
  BY <1>1
<1> HIDE DEF cache, rest
<1>8. UNCHANGED documentSpaceId /\ knowledgeDocuments' = cache /\ mixed' \in BOOLEAN
  BY <1>4, <1>7, EffectIs
<1>9. PICK new : /\ calls' = rest \cup new /\ Going(rest, Same(rest), new)
                 /\ \A d \in new : KnowledgeCall(d) /\ Unserved(d) /\ IsLoad(d, documentSpaceId)
                 /\ ~mixed' => /\ ~mixed
                               /\ \A d \in new, e \in calls' : ~Conflict(d, e) \/ d = e
                               /\ \A d \in new : ~Unloaded(d, knowledgeDocuments')
  BY <1>4, <1>7, EffectIs
<1>10. calls' = (calls \ {c}) \cup new
  BY <1>9 DEF rest
<1>11. KnowledgeTypes'
  <2>1. knowledgeSpaces' \in Seq(SpaceCopy)
    BY <1>1, <1>4 DEF KnowledgeTypes, ListTypes
  <2> QED BY <1>1, <1>2, <1>3, <1>4, <1>6, <1>8, <1>9, <1>10, <2>1, AnsweringTypes
<1>12. ASSUME Straight, Settled
      PROVE  /\ \A d \in calls \ {c} :
                  /\ Unloaded(d, knowledgeDocuments') => Unloaded(d, knowledgeDocuments)
                  /\ Landed(d, {"createSpace"}) /\ SpacesHeardNext(d.reply.id) => SpaceHeard(d.reply.id)
                  /\ Landed(d, DocumentCreates) /\ DocumentsHeardNext(d.reply.id) => DocumentHeard(d.reply.id)
             /\ SpacesShown' /\ DocumentsShown' /\ RagShown'
             /\ ~reopened => SpaceAfter(c) /\ DocumentAfter(c)
  <2>1. \A d \in calls : d # c => Carried(d)
    BY <1>10, RestCarried
  <2>2. StillTrue(c) /\ \A d \in calls : StillTrue(d) /\ KnowledgeCall(d)
    BY <1>3, <1>4, <1>12 DEF Settled, KnowledgeTypes
  <2>3. c.space \in IdsOf(spaceRows) /\ Exact(c.reply, DocumentsOf(c.space))
    BY <1>3, <2>2 DEF StillTrue, Landed
  <2>4. SpacesShown' /\ RagShown'
    BY <1>1, <1>2, <1>3, <1>12, <2>1, SpacesStay, RagStays DEF Settled, Landed, SpaceWrites
  <2>5. DocumentsShown'
    <3>1. \A d \in calls : Landed(d, DocumentWrites \cup {"deleteSpace"}) => Carried(d)
      BY <1>3, <2>1 DEF Landed, DocumentWrites, DocumentCreates, DocumentUpdates
    <3>2. Shows(c.space, c.reply)'
      <4>1. DocumentsOf(c.space)' = DocumentsOf(c.space)
        BY <1>2 DEF DocumentsOf
      <4>2. \A row \in DocumentsOf(c.space) : HasId(c.reply, row.id)
        BY <2>3 DEF Exact, ToSet, HasId
      <4>3. \A row \in DocumentsOf(c.space) : row \in documentRows /\ row.space = c.space
        BY DEF DocumentsOf
      <4> QED BY <1>2, <2>3, <4>1, <4>2, <4>3 DEF Shows, Exact
    <3>3. c.reply = knowledgeDocuments'[c.space]
      BY <1>6, <1>8
    <3>4. Shows(c.space, knowledgeDocuments[c.space])'
      BY <3>2, <3>3 DEF Shows, DocumentsOf, SpaceGone
    <3>5. \A s \in Ids : s # c.space => knowledgeDocuments'[s] = knowledgeDocuments[s]
      BY <1>6, <1>8
    <3> QED BY <1>2, <1>12, <3>1, <3>4, <3>5, DocumentsStay DEF Settled
  <2>6. ASSUME NEW d \in calls, d # c
        PROVE  /\ Unloaded(d, knowledgeDocuments') => Unloaded(d, knowledgeDocuments)
               /\ Landed(d, {"createSpace"}) /\ SpacesHeardNext(d.reply.id) => SpaceHeard(d.reply.id)
               /\ Landed(d, DocumentCreates) /\ DocumentsHeardNext(d.reply.id) => DocumentHeard(d.reply.id)
    <3>1. Unloaded(d, knowledgeDocuments') => Unloaded(d, knowledgeDocuments)
      <4>1. c.reply # NoOne
        BY <1>4, <1>5, NoListIsNull
      <4>2. d.kind \in DocumentWrites => d.space \in Ids
        BY <1>4, <2>2, KnowledgeAssumption
           DEF KnowledgeCall, IsKnowledgeRequest, IsAsk, OfSpace, Known, Ids, KnowledgeTypes, SourceTypes
      <4> QED BY <1>6, <1>8, <4>1, <4>2 DEF Unloaded
    <3>2. ASSUME NEW i \in Known, SpacesHeardNext(i) PROVE SpaceHeard(i)
      <4>1. i \in Ids
        BY <1>4, KnowledgeAssumption DEF Known, Ids, KnowledgeTypes, SourceTypes
      <4>2. i = c.space => SpaceHeard(i)
        BY <1>3 DEF SpaceHeard, OfSpace
      <4> QED BY <1>1, <1>6, <1>8, <3>2, <4>1, <4>2 DEF SpacesHeardNext, SpaceHeard
    <3>3. ASSUME Landed(d, DocumentCreates), DocumentsHeardNext(d.reply.id) PROVE DocumentHeard(d.reply.id)
      <4>1. PICK s \in Ids : knowledgeDocuments'[s] # NoOne /\ HasId(knowledgeDocuments'[s], d.reply.id)
        BY <3>3 DEF DocumentsHeardNext
      <4>2. s # c.space
        <5> SUFFICES ASSUME s = c.space PROVE FALSE
          OBVIOUS
        <5>1. HasId(c.reply, d.reply.id)
          BY <1>6, <1>8, <4>1
        <5>2. PICK row \in DocumentsOf(c.space) : row.id = d.reply.id
          BY <5>1, <2>3 DEF Exact, ToSet, HasId
        <5>3. d.reply \in documentRows /\ d.reply.space = d.space
          BY <2>2, <3>3 DEF StillTrue, Landed
        <5>4. d.reply = row
          BY <1>4, <5>2, <5>3 DEF KnowledgeTypes, SourceTypes, DocumentsOf
        <5>5. Conflict(c, d)
          BY <1>3, <3>3, <5>2, <5>3, <5>4 DEF Conflict, Loads, Landed, DocumentWrites, DocumentsOf
        <5> QED BY <1>3, <1>12, <2>6, <5>5 DEF Settled, Apart
      <4> QED BY <1>6, <1>8, <4>1, <4>2 DEF DocumentHeard
    <3>4. Landed(d, {"createSpace"}) => d.reply.id \in Known
      BY <2>2 DEF KnowledgeCall, IsKnowledgeAnswer, Landed, SpaceCopy
    <3> QED BY <3>1, <3>2, <3>3, <3>4
  <2>7. SpaceAfter(c) /\ DocumentAfter(c)
    BY <1>1, <1>3, <1>8 DEF SpaceAfter, DocumentAfter, Landed
  <2> QED BY <2>4, <2>5, <2>6, <2>7
<1>13. ~Lost(c)
  BY <1>3 DEF Lost
<1> QED BY <1>1, <1>2, <1>3, <1>8, <1>9, <1>10, <1>11, <1>12, <1>13, AnsweringKeeps

(* A space was saved.                                                      *)
LEMMA SpaceSavedKeeps == ASSUME KnowledgeInv, SpaceSaved PROVE KnowledgeInv'
<1>1. PICK c \in Answered("createSpace") \cup Answered("updateSpace") :
        /\ knowledgeSpaces' = IF c.kind = "createSpace" THEN <<c.reply>> \o knowledgeSpaces
                                                        ELSE Replaced(knowledgeSpaces, c.reply)
        /\ editingSpace' = IF c.mine THEN NoOne ELSE editingSpace
        /\ Settle(calls \ {c}, IF c.mine /\ c.kind = "createSpace" THEN c.reply.id ELSE documentSpaceId,
                  knowledgeDocuments)
        /\ UNCHANGED <<serverRows, ragProviders, panelTab, editingDocument, confirmation, acts,
                       histories>>
  BY DEF SpaceSaved
<1>2. UNCHANGED <<spaceRows, documentRows, ragRows, reopened, loadedParts>>
  BY <1>1 DEF serverRows, histories
<1>3. c \in calls /\ c.kind \in {"createSpace", "updateSpace"} /\ c.phase = "answered"
  BY <1>1 DEF Answered, Kind
<1> DEFINE space == IF c.mine /\ c.kind = "createSpace" THEN c.reply.id ELSE documentSpaceId
           rest == calls \ {c}
<1>4. KnowledgeTypes /\ KnowledgeCall(c) /\ knowledgeSpaces \in Seq(SpaceCopy)
      /\ knowledgeDocuments \in [Ids -> Seq(DocumentCopy) \cup {NoOne}]
      /\ \A s \in Ids : knowledgeDocuments[s] # NoOne => s \in Known
  BY <1>3 DEF KnowledgeInv, KnowledgeTypes, ListTypes
<1>5. c.reply \in SpaceCopy /\ c.reply.id \in Known /\ (c.kind = "updateSpace" => c.reply.id = c.space)
  BY <1>3, <1>4 DEF KnowledgeCall, IsKnowledgeAnswer, SpaceCopy
<1>6. space \in Known \cup {NoOne}
  BY <1>4, <1>5 DEF KnowledgeTypes, FormTypes
<1>7. rest \in SUBSET calls /\ Settle(rest, space, knowledgeDocuments)
  BY <1>1
<1>22. panelTab # "knowledge" => space = documentSpaceId
  BY <1>3, <1>4 DEF KnowledgeTypes, OffTab
<1>23. space = documentSpaceId \/ (c.kind = "createSpace" /\ space = c.reply.id)
  OBVIOUS
<1> HIDE DEF rest, space
<1>8. documentSpaceId' = space /\ UNCHANGED knowledgeDocuments /\ mixed' \in BOOLEAN
  BY <1>4, <1>6, <1>7, EffectIs
<1>9. PICK new : /\ calls' = rest \cup new /\ Going(rest, Same(rest), new)
                 /\ \A d \in new : KnowledgeCall(d) /\ Unserved(d) /\ IsLoad(d, space)
                 /\ ~mixed' => /\ ~mixed
                               /\ \A d \in new, e \in calls' : ~Conflict(d, e) \/ d = e
                               /\ \A d \in new : ~Unloaded(d, knowledgeDocuments')
  BY <1>4, <1>6, <1>7, EffectIs
<1>10. calls' = (calls \ {c}) \cup new
  BY <1>9 DEF rest
<1>11. KnowledgeTypes'
  <2>1. knowledgeSpaces' \in Seq(SpaceCopy)
    BY <1>1, <1>4, <1>5, PrependIs, ReplacedIs
  <2> QED BY <1>1, <1>2, <1>3, <1>4, <1>6, <1>8, <1>9, <1>10, <1>22, <2>1, AnsweringTypes
<1>12. ASSUME Straight, Settled
      PROVE  /\ \A d \in calls \ {c} :
                  /\ Unloaded(d, knowledgeDocuments') => Unloaded(d, knowledgeDocuments)
                  /\ Landed(d, {"createSpace"}) /\ SpacesHeardNext(d.reply.id) => SpaceHeard(d.reply.id)
                  /\ Landed(d, DocumentCreates) /\ DocumentsHeardNext(d.reply.id) => DocumentHeard(d.reply.id)
             /\ SpacesShown' /\ DocumentsShown' /\ RagShown'
             /\ ~reopened => SpaceAfter(c) /\ DocumentAfter(c)
  <2>1. \A d \in calls : d # c => Carried(d)
    BY <1>10, RestCarried
  <2>2. StillTrue(c) /\ c.reply \in spaceRows
    BY <1>3, <1>12 DEF Settled, StillTrue, Landed
  <2>3. SpacesShown /\ NewRows
    BY <1>12 DEF Settled
  <2>4. c.kind = "createSpace" => ~SpaceHeard(c.reply.id) /\ ~HasId(knowledgeSpaces, c.reply.id)
    BY <1>3, <2>3 DEF NewRows, Landed, SpaceHeard
  <2>5. /\ \A x \in ToSet(knowledgeSpaces') : x = c.reply \/ (x \in ToSet(knowledgeSpaces) /\ x.id # c.reply.id)
        /\ \A k : HasId(knowledgeSpaces', k) <=> HasId(knowledgeSpaces, k) \/ (c.kind = "createSpace" /\ k = c.reply.id)
        /\ Single(knowledgeSpaces')
    <3>1. CASE c.kind = "createSpace"
      <4>1. \A x \in ToSet(knowledgeSpaces) : x.id # c.reply.id
        BY <1>4, <2>4, <3>1, ListHas
      <4> QED BY <1>1, <1>4, <1>5, <2>3, <2>4, <3>1, <4>1, PrependIs DEF SpacesShown
    <3>2. CASE c.kind = "updateSpace"
      BY <1>1, <1>4, <1>5, <2>3, <3>2, ReplacedIs DEF SpacesShown
    <3> QED BY <1>3, <3>1, <3>2
  <2>6. SpacesShown'
    <3>1. ASSUME NEW x \in ToSet(knowledgeSpaces')
          PROVE  x \in spaceRows \/ \E d \in calls' : Landed(d, {"updateSpace", "deleteSpace"}) /\ d.space = x.id
      <4>1. CASE x = c.reply
        BY <2>2, <4>1
      <4>2. CASE x \in ToSet(knowledgeSpaces) /\ x.id # c.reply.id
        <5>1. ASSUME NEW d \in calls, Landed(d, {"updateSpace", "deleteSpace"}), d.space = x.id
              PROVE  d \in calls'
          BY <1>3, <1>5, <1>10, <4>2, <5>1 DEF Landed
        <5> QED BY <2>3, <4>2, <5>1 DEF SpacesShown
      <4> QED BY <2>5, <4>1, <4>2
    <3>2. ASSUME "spaces" \in loadedParts, NEW r \in spaceRows
          PROVE  HasId(knowledgeSpaces', r.id) \/ \E d \in calls' : Landed(d, {"createSpace"}) /\ d.reply = r
      <4>1. CASE HasId(knowledgeSpaces, r.id)
        BY <2>5, <4>1
      <4>2. ASSUME NEW d \in calls, Landed(d, {"createSpace"}), d.reply = r
            PROVE  HasId(knowledgeSpaces', r.id) \/ d \in calls'
        BY <1>10, <2>5, <4>2 DEF Landed
      <4> QED BY <2>3, <3>2, <4>1, <4>2 DEF SpacesShown
    <3> QED BY <1>2, <2>5, <3>1, <3>2 DEF SpacesShown
  <2>7. DocumentsShown' /\ RagShown'
    <3>1. \A d \in calls : Landed(d, DocumentWrites \cup {"deleteSpace"}) \/ Landed(d, {"rag"}) => Carried(d)
      BY <1>3, <2>1 DEF Landed, DocumentWrites, DocumentCreates, DocumentUpdates
    <3> QED BY <1>1, <1>2, <1>8, <1>12, <3>1, DocumentsStay, RagStays DEF Settled
  <2>8. ASSUME NEW d \in calls, d # c
        PROVE  /\ Unloaded(d, knowledgeDocuments') => Unloaded(d, knowledgeDocuments)
               /\ Landed(d, {"createSpace"}) /\ SpacesHeardNext(d.reply.id) => SpaceHeard(d.reply.id)
               /\ Landed(d, DocumentCreates) /\ DocumentsHeardNext(d.reply.id) => DocumentHeard(d.reply.id)
    <3>1. ASSUME Landed(d, {"createSpace"}), SpacesHeardNext(d.reply.id) PROVE SpaceHeard(d.reply.id)
      <4>1. c.kind = "createSpace" => d.reply.id # c.reply.id
        BY <1>3, <2>3, <2>8, <3>1 DEF NewRows, Landed
      <4> QED BY <1>8, <1>23, <2>5, <3>1, <4>1 DEF SpacesHeardNext, SpaceHeard
    <3> QED BY <1>8, <3>1 DEF DocumentsHeardNext, DocumentHeard
  <2>9. ASSUME ~reopened PROVE SpaceAfter(c) /\ DocumentAfter(c)
    <3>1. CASE space = documentSpaceId
      BY <1>1, <1>3, <1>8, <3>1 DEF SpaceAfter, DocumentAfter, Landed
    <3>2. CASE c.kind = "createSpace" /\ space = c.reply.id
      <4>1. space \in IdsOf(spaceRows)
        BY <2>2, <3>2 DEF IdsOf
      <4>2. \A d \in calls' : d.kind = "deleteSpace" => d.space # space
        BY <1>9, <1>10, <2>4, <3>2 DEF SpaceHeard, IsLoad, OfSpace
      <4>3. confirmation # NoOne => confirmation.space # space
        BY <2>4, <3>2 DEF SpaceHeard
      <4>4. SpaceFormShown'
        BY <1>1, <1>2, <1>8, <4>1, <4>2, <4>3 DEF SpaceFormShown
      <4> QED BY <1>1, <1>3, <4>4 DEF SpaceAfter, DocumentAfter, Landed
    <3> QED BY <1>23, <3>1, <3>2
  <2> QED BY <2>6, <2>7, <2>8, <2>9
<1>13. ~Lost(c)
  BY <1>3 DEF Lost
<1> QED BY <1>1, <1>2, <1>3, <1>8, <1>9, <1>10, <1>11, <1>12, <1>13, AnsweringKeeps

(* A space was deleted.                                                    *)
LEMMA SpaceDeletedKeeps == ASSUME KnowledgeInv, SpaceDeleted PROVE KnowledgeInv'
<1>1. PICK c \in Answered("deleteSpace") :
        /\ knowledgeSpaces' = Dropped(knowledgeSpaces, c.space)
        /\ Settle(calls \ {c}, IF c.mine /\ c.leavesSpace THEN NoOne ELSE documentSpaceId,
                  ClearSpaceDocuments(c.space))
        /\ editingDocument' = IF c.mine /\ c.leavesSpace THEN NoOne ELSE editingDocument
        /\ editingSpace' = IF c.mine /\ c.endsEdit THEN NoOne ELSE editingSpace
        /\ confirmation' = IF c.mine THEN NoOne ELSE confirmation
        /\ UNCHANGED <<serverRows, ragProviders, panelTab, acts, histories>>
  BY DEF SpaceDeleted
<1>2. UNCHANGED <<spaceRows, documentRows, ragRows, reopened, loadedParts>>
  BY <1>1 DEF serverRows, histories
<1>3. c \in calls /\ c.kind = "deleteSpace" /\ c.phase = "answered"
  BY <1>1 DEF Answered, Kind
<1>4. KnowledgeTypes /\ KnowledgeCall(c) /\ knowledgeSpaces \in Seq(SpaceCopy)
  BY <1>3 DEF KnowledgeInv, KnowledgeTypes, ListTypes
<1>5. c.space \in Known
  BY <1>3, <1>4 DEF KnowledgeCall, IsKnowledgeRequest, IsAsk, OfSpace
<1> DEFINE space == IF c.mine /\ c.leavesSpace THEN NoOne ELSE documentSpaceId
           cache == [knowledgeDocuments EXCEPT ![c.space] = NoOne]
           rest == calls \ {c}
<1>6. /\ cache \in [Ids -> Seq(DocumentCopy) \cup {NoOne}]
      /\ \A q \in Ids : cache[q] = IF q = c.space THEN NoOne ELSE knowledgeDocuments[q]
      /\ \A q \in Ids : cache[q] # NoOne => q \in Known
      /\ c.space \in Ids
  BY <1>4, <1>5, CacheIs
<1>7. rest \in SUBSET calls /\ Settle(rest, space, cache) /\ space \in Known \cup {NoOne}
  BY <1>1, <1>4 DEF ClearSpaceDocuments, KnowledgeTypes, FormTypes
<1>22. space \in {documentSpaceId, NoOne}
  OBVIOUS
<1>23. ~(c.mine /\ c.leavesSpace) \/ space = NoOne
  OBVIOUS
<1> HIDE DEF rest, space, cache
<1>8. documentSpaceId' = space /\ knowledgeDocuments' = cache /\ mixed' \in BOOLEAN
  BY <1>4, <1>7, EffectIs
<1>9. PICK new : /\ calls' = rest \cup new /\ Going(rest, Same(rest), new)
                 /\ \A d \in new : KnowledgeCall(d) /\ Unserved(d) /\ IsLoad(d, space)
                 /\ ~mixed' => /\ ~mixed
                               /\ \A d \in new, e \in calls' : ~Conflict(d, e) \/ d = e
                               /\ \A d \in new : ~Unloaded(d, knowledgeDocuments')
  BY <1>4, <1>7, EffectIs
<1>10. calls' = (calls \ {c}) \cup new
  BY <1>9 DEF rest
<1>24. editingSpace' \in {editingSpace, NoOne} /\ editingDocument' \in {editingDocument, NoOne}
  BY <1>1
<1>11. KnowledgeTypes'
  <2>1. knowledgeSpaces' \in Seq(SpaceCopy)
    BY <1>1, <1>4, DroppedIs
  <2> QED BY <1>1, <1>2, <1>3, <1>4, <1>6, <1>7, <1>8, <1>9, <1>10, <1>22, <1>24, <2>1, AnsweringTypes
<1>12. ASSUME Straight, Settled
      PROVE  /\ \A d \in calls \ {c} :
                  /\ Unloaded(d, knowledgeDocuments') => Unloaded(d, knowledgeDocuments)
                  /\ Landed(d, {"createSpace"}) /\ SpacesHeardNext(d.reply.id) => SpaceHeard(d.reply.id)
                  /\ Landed(d, DocumentCreates) /\ DocumentsHeardNext(d.reply.id) => DocumentHeard(d.reply.id)
             /\ SpacesShown' /\ DocumentsShown' /\ RagShown'
             /\ ~reopened => SpaceAfter(c) /\ DocumentAfter(c)
  <2>1. \A d \in calls : d # c => Carried(d)
    BY <1>10, RestCarried
  <2>2. c.space \notin IdsOf(spaceRows)
    BY <1>3, <1>12 DEF Settled, StillTrue, Landed
  <2>3. SpacesShown /\ \A d \in calls : KnowledgeCall(d)
    BY <1>4, <1>12 DEF Settled, KnowledgeTypes
  <2>5. /\ \A x : x \in ToSet(knowledgeSpaces') <=> x \in ToSet(knowledgeSpaces) /\ x.id # c.space
        /\ \A k : HasId(knowledgeSpaces', k) <=> HasId(knowledgeSpaces, k) /\ k # c.space
        /\ Single(knowledgeSpaces')
    BY <1>1, <1>4, <2>3, DroppedIs DEF SpacesShown
  <2>6. SpacesShown'
    <3>1. ASSUME NEW x \in ToSet(knowledgeSpaces')
          PROVE  x \in spaceRows \/ \E d \in calls' : Landed(d, {"updateSpace", "deleteSpace"}) /\ d.space = x.id
      <4>1. ASSUME NEW d \in calls, Landed(d, {"updateSpace", "deleteSpace"}), d.space = x.id
            PROVE  d \in calls'
        BY <1>10, <2>5, <3>1, <4>1
      <4> QED BY <2>3, <2>5, <4>1 DEF SpacesShown
    <3>2. ASSUME "spaces" \in loadedParts, NEW r \in spaceRows
          PROVE  HasId(knowledgeSpaces', r.id) \/ \E d \in calls' : Landed(d, {"createSpace"}) /\ d.reply = r
      <4>1. r.id # c.space
        BY <2>2 DEF IdsOf
      <4>2. \A d \in calls : Landed(d, {"createSpace"}) => d \in calls'
        BY <1>3, <1>10 DEF Landed
      <4> QED BY <2>3, <2>5, <3>2, <4>1, <4>2 DEF SpacesShown
    <3> QED BY <1>2, <2>5, <3>1, <3>2 DEF SpacesShown
  <2>7. DocumentsShown'
    <3>1. ASSUME NEW s \in Ids, knowledgeDocuments'[s] # NoOne
          PROVE  /\ knowledgeDocuments'[s] = knowledgeDocuments[s]
                 /\ \A d \in calls : Landed(d, DocumentWrites \cup {"deleteSpace"}) /\ d.space = s => Carried(d)
      BY <1>6, <1>8, <2>1, <3>1
    <3> QED BY <1>2, <1>12, <3>1, DocumentsStay DEF Settled
  <2>8. RagShown'
    BY <1>1, <1>2, <1>3, <1>12, <2>1, RagStays DEF Settled, Landed
  <2>9. ASSUME NEW d \in calls, d # c
        PROVE  /\ Unloaded(d, knowledgeDocuments') => Unloaded(d, knowledgeDocuments)
               /\ Landed(d, {"createSpace"}) /\ SpacesHeardNext(d.reply.id) => SpaceHeard(d.reply.id)
               /\ Landed(d, DocumentCreates) /\ DocumentsHeardNext(d.reply.id) => DocumentHeard(d.reply.id)
    <3>1. ASSUME Unloaded(d, knowledgeDocuments') PROVE Unloaded(d, knowledgeDocuments)
      <4>1. d.kind \in DocumentWrites
        BY <3>1 DEF Unloaded
      <4>2. ~Conflict(c, d)
        BY <1>3, <1>12, <2>9 DEF Settled, Apart
      <4>3. d.space # c.space
        BY <1>3, <4>1, <4>2 DEF Conflict, SameRow
      <4>4. d.space \in Ids
        BY <1>4, <2>3, <4>1, KnowledgeAssumption
           DEF KnowledgeCall, IsKnowledgeRequest, IsAsk, OfSpace, Known, Ids, KnowledgeTypes, SourceTypes
      <4> QED BY <1>6, <1>8, <3>1, <4>3, <4>4 DEF Unloaded
    <3>2. ASSUME NEW i \in Known, SpacesHeardNext(i) PROVE SpaceHeard(i)
      <4>1. i \in Ids /\ i # NoOne
        BY <1>4, KnowledgeAssumption DEF Known, Ids, KnowledgeTypes, SourceTypes
      <4> QED BY <1>6, <1>8, <1>22, <2>5, <3>2, <4>1 DEF SpacesHeardNext, SpaceHeard
    <3>3. \A j : DocumentsHeardNext(j) => DocumentHeard(j)
      BY <1>6, <1>8 DEF DocumentsHeardNext, DocumentHeard
    <3>4. Landed(d, {"createSpace"}) => d.reply.id \in Known
      BY <2>3 DEF KnowledgeCall, IsKnowledgeAnswer, Landed, SpaceCopy
    <3> QED BY <3>1, <3>2, <3>3, <3>4
  <2>10. ASSUME ~reopened PROVE SpaceAfter(c) /\ DocumentAfter(c)
    <3>1. c.space = documentSpaceId => c.mine /\ c.leavesSpace
      BY <1>3, <1>12, <2>10 DEF Settled, SpaceFormShown
    <3>2. SpaceAfter(c)
      BY <1>8, <1>22, <1>23, <3>1 DEF SpaceAfter
    <3>3. DocumentAfter(c)
      BY <1>3, <1>24 DEF DocumentAfter, Landed
    <3> QED BY <3>2, <3>3
  <2> QED BY <2>6, <2>7, <2>8, <2>9, <2>10
<1>13. ~Lost(c)
  BY <1>3 DEF Lost
<1> QED BY <1>1, <1>2, <1>3, <1>8, <1>9, <1>10, <1>11, <1>12, <1>13, <1>24, AnsweringKeeps

(* The list of a space, or none.                                           *)
LEMMA CachedIs ==
  ASSUME KnowledgeTypes, NEW s \in Known
  PROVE  /\ Cached(s) \in Seq(DocumentCopy)
         /\ knowledgeDocuments[s] # NoOne => Cached(s) = knowledgeDocuments[s]
         /\ knowledgeDocuments[s] = NoOne => \A k : ~HasId(Cached(s), k)
<1>1. s \in Ids
  BY KnowledgeAssumption DEF KnowledgeTypes, SourceTypes, Known, Ids
<1> QED BY <1>1 DEF KnowledgeTypes, ListTypes, Cached, HasId

(* Documents were saved.                                                   *)
LEMMA DocumentSavedKeeps == ASSUME KnowledgeInv, DocumentSaved PROVE KnowledgeInv'
<1>1. PICK c \in UNION {Answered(k) : k \in DocumentCreates \cup DocumentUpdates} :
        /\ Settle(calls \ {c}, documentSpaceId,
             [knowledgeDocuments EXCEPT ![c.space] =
                IF c.kind = "uploadDocuments" THEN Prepend(Cached(c.space), <<c.reply>>)
                                              ELSE Upsert(Cached(c.space), c.reply)])
        /\ editingDocument' = IF c.mine THEN NoOne ELSE editingDocument
        /\ UNCHANGED <<serverRows, knowledgeSpaces, ragProviders, panelTab, editingSpace,
                       confirmation, acts, histories>>
  BY DEF DocumentSaved
<1>2. UNCHANGED <<spaceRows, documentRows, ragRows, reopened, loadedParts>>
  BY <1>1 DEF serverRows, histories
<1>3. c \in calls /\ c.kind \in DocumentCreates \cup DocumentUpdates /\ c.phase = "answered"
  BY <1>1 DEF Answered, Kind
<1> DEFINE list == Cached(c.space)
           new == IF c.kind = "uploadDocuments" THEN Prepend(list, <<c.reply>>) ELSE Upsert(list, c.reply)
           cache == [knowledgeDocuments EXCEPT ![c.space] = new]
           rest == calls \ {c}
<1>4. KnowledgeTypes /\ KnowledgeCall(c) /\ documentSpaceId \in Known \cup {NoOne}
  BY <1>3 DEF KnowledgeInv, KnowledgeTypes, FormTypes
<1>5. /\ c.space \in Known /\ c.reply \in DocumentCopy
      /\ c.kind \in DocumentUpdates => c.reply.id = c.document
  BY <1>3, <1>4 DEF KnowledgeCall, IsKnowledgeRequest, IsKnowledgeAnswer, IsAsk, OfSpace, DocumentWrites
<1>21. list \in Seq(DocumentCopy)
  BY <1>4, <1>5, CachedIs
<1>22. /\ new \in Seq(DocumentCopy)
       /\ \A k : HasId(new, k) <=> HasId(list, k) \/ k = c.reply.id
       /\ (c.kind = "uploadDocuments" => ~HasId(list, c.reply.id)) =>
            \A x \in ToSet(new) : x = c.reply \/ (x \in ToSet(list) /\ x.id # c.reply.id)
       /\ (c.kind = "uploadDocuments" => ~HasId(list, c.reply.id)) /\ Single(list) => Single(new)
  <2> HIDE DEF list
  <2>1. CASE c.kind = "uploadDocuments"
    <3>1. new = <<c.reply>> \o list
      BY <2>1 DEF Prepend
    <3>2. ~HasId(list, c.reply.id) => \A x \in ToSet(list) : x.id # c.reply.id
      BY <1>21, ListHas
    <3> HIDE DEF new
    <3> QED BY <1>5, <1>21, <2>1, <3>1, <3>2, PrependIs
  <2>2. CASE c.kind # "uploadDocuments"
    <3>1. new = Upsert(list, c.reply)
      BY <2>2
    <3> HIDE DEF new
    <3> QED BY <1>5, <1>21, <2>2, <3>1, UpsertedIs
  <2> QED BY <2>1, <2>2
<1> HIDE DEF new
<1>6. /\ cache \in [Ids -> Seq(DocumentCopy) \cup {NoOne}]
      /\ \A q \in Ids : cache[q] = IF q = c.space THEN new ELSE knowledgeDocuments[q]
      /\ \A q \in Ids : cache[q] # NoOne => q \in Known
      /\ c.space \in Ids
  BY <1>4, <1>5, <1>22, CacheIs
<1>7. rest \in SUBSET calls /\ Settle(rest, documentSpaceId, cache)
  BY <1>1 DEF new
<1>23. editingDocument' \in {editingDocument, NoOne}
  BY <1>1
<1> HIDE DEF rest, cache
<1>8. UNCHANGED documentSpaceId /\ knowledgeDocuments' = cache /\ mixed' \in BOOLEAN
  BY <1>4, <1>7, EffectIs
<1>9. PICK loads : /\ calls' = rest \cup loads /\ Going(rest, Same(rest), loads)
                   /\ \A d \in loads : KnowledgeCall(d) /\ Unserved(d) /\ IsLoad(d, documentSpaceId)
                   /\ ~mixed' => /\ ~mixed
                                 /\ \A d \in loads, e \in calls' : ~Conflict(d, e) \/ d = e
                                 /\ \A d \in loads : ~Unloaded(d, knowledgeDocuments')
  BY <1>4, <1>7, EffectIs
<1>10. calls' = (calls \ {c}) \cup loads
  BY <1>9 DEF rest
<1>11. KnowledgeTypes'
  <2>1. knowledgeSpaces' \in Seq(SpaceCopy) /\ c.kind \notin {"deleteSpace", "deleteDocument"}
    BY <1>1, <1>3, <1>4 DEF KnowledgeTypes, ListTypes, DocumentCreates, DocumentUpdates
  <2> QED BY <1>1, <1>2, <1>3, <1>4, <1>6, <1>8, <1>9, <1>10, <1>23, <2>1, AnsweringTypes
<1>12. ASSUME Straight, Settled
      PROVE  /\ \A d \in calls \ {c} :
                  /\ Unloaded(d, knowledgeDocuments') => Unloaded(d, knowledgeDocuments)
                  /\ Landed(d, {"createSpace"}) /\ SpacesHeardNext(d.reply.id) => SpaceHeard(d.reply.id)
                  /\ Landed(d, DocumentCreates) /\ DocumentsHeardNext(d.reply.id) => DocumentHeard(d.reply.id)
             /\ SpacesShown' /\ DocumentsShown' /\ RagShown'
             /\ ~reopened => SpaceAfter(c) /\ DocumentAfter(c)
  <2>1. \A d \in calls : d # c => Carried(d)
    BY <1>10, RestCarried
  <2>2. \A d \in calls : StillTrue(d) /\ KnowledgeCall(d)
    BY <1>4, <1>12 DEF Settled, KnowledgeTypes
  <2>3. c.reply \in documentRows /\ c.reply.space = c.space
    BY <1>3, <2>2 DEF StillTrue, Landed
  <2>4. knowledgeDocuments[c.space] # NoOne /\ list = knowledgeDocuments[c.space]
    <3>1. ~Unloaded(c, knowledgeDocuments)
      BY <1>3, <1>12 DEF Settled, HaveLists
    <3> QED BY <1>3, <1>4, <1>5, <3>1, CachedIs DEF Unloaded, DocumentWrites
  <2>5. Shows(c.space, list)
    BY <1>6, <1>12, <2>4 DEF Settled, DocumentsShown
  <2>6. c.kind \in DocumentCreates => ~DocumentHeard(c.reply.id) /\ ~HasId(list, c.reply.id)
    BY <1>3, <1>6, <1>12, <2>4 DEF Settled, NewRows, Landed, DocumentHeard
  <2>7. /\ \A x \in ToSet(new) : x = c.reply \/ (x \in ToSet(list) /\ x.id # c.reply.id)
        /\ Single(new)
    BY <1>22, <2>5, <2>6 DEF Shows, DocumentCreates
  <2>13. PICK l : l = new
    OBVIOUS
  <2>8. Shows(c.space, l)'
    <3>1. DocumentsOf(c.space)' = DocumentsOf(c.space)
      BY <1>2 DEF DocumentsOf
    <3>2. SpaceGone(c.space) => SpaceGone(c.space)'
      BY <1>3, <1>10 DEF SpaceGone, Landed, DocumentCreates, DocumentUpdates
    <3>3. ASSUME NEW x \in ToSet(new)
          PROVE  \/ x \in documentRows \/ SpaceGone(c.space)'
                 \/ \E d \in calls' : Landed(d, OfDocument) /\ d.document = x.id /\ d.space = c.space
      <4>1. CASE x = c.reply
        BY <2>3, <4>1
      <4>2. CASE x \in ToSet(list) /\ x.id # c.reply.id
        <5>1. ASSUME NEW d \in calls, Landed(d, OfDocument), d.document = x.id PROVE d \in calls'
          BY <1>3, <1>5, <1>10, <4>2, <5>1
             DEF Landed, OfDocument, DocumentCreates, DocumentUpdates
        <5> QED BY <2>5, <3>2, <4>2, <5>1 DEF Shows
      <4> QED BY <2>7, <4>1, <4>2
    <3>4. ASSUME NEW row \in DocumentsOf(c.space)
          PROVE  HasId(new, row.id) \/ \E d \in calls' : Landed(d, DocumentCreates) /\ d.reply = row
      <4>1. CASE HasId(list, row.id)
        BY <1>22, <4>1
      <4>2. ASSUME NEW d \in calls, Landed(d, DocumentCreates), d.reply = row
            PROVE  HasId(new, row.id) \/ d \in calls'
        BY <1>10, <1>22, <4>2
      <4> QED BY <2>5, <4>1, <4>2 DEF Shows
    <3>5. \A x \in ToSet(new) : x.space = c.space
      BY <2>3, <2>5, <2>7 DEF Shows
    <3>6. c.space \in IdsOf(spaceRows) \/ SpaceGone(c.space)'
      BY <2>5, <3>2 DEF Shows
    <3> QED BY <1>2, <2>7, <2>13, <3>1, <3>3, <3>4, <3>5, <3>6 DEF Shows
  <2>9. DocumentsShown'
    <3>1. knowledgeDocuments'[c.space] = l
      BY <1>6, <1>8, <2>13
    <3>2. Shows(c.space, knowledgeDocuments[c.space])'
      BY <2>8, <3>1 DEF Shows, DocumentsOf, SpaceGone
    <3>3. ASSUME NEW s \in Ids, s # c.space
          PROVE  /\ knowledgeDocuments'[s] = knowledgeDocuments[s]
                 /\ \A d \in calls : Landed(d, DocumentWrites \cup {"deleteSpace"}) /\ d.space = s => Carried(d)
      BY <1>6, <1>8, <2>1, <3>3
    <3> QED BY <1>2, <1>12, <3>2, <3>3, DocumentsStay DEF Settled
  <2>10. SpacesShown' /\ RagShown'
    <3>1. \A d \in calls : Landed(d, SpaceWrites) \/ Landed(d, {"rag"}) => Carried(d)
      BY <1>3, <2>1 DEF Landed, SpaceWrites, DocumentCreates, DocumentUpdates
    <3> QED BY <1>1, <1>2, <1>12, <3>1, SpacesStay, RagStays DEF Settled
  <2>11. ASSUME NEW d \in calls, d # c
        PROVE  /\ Unloaded(d, knowledgeDocuments') => Unloaded(d, knowledgeDocuments)
               /\ Landed(d, {"createSpace"}) /\ SpacesHeardNext(d.reply.id) => SpaceHeard(d.reply.id)
               /\ Landed(d, DocumentCreates) /\ DocumentsHeardNext(d.reply.id) => DocumentHeard(d.reply.id)
    <3>1. Unloaded(d, knowledgeDocuments') => Unloaded(d, knowledgeDocuments)
      <4>1. new # NoOne
        BY <1>4, <1>22, NoListIsNull
      <4>2. d.kind \in DocumentWrites => d.space \in Ids
        BY <1>4, <2>2, KnowledgeAssumption
           DEF KnowledgeCall, IsKnowledgeRequest, IsAsk, OfSpace, Known, Ids, KnowledgeTypes, SourceTypes
      <4> QED BY <1>6, <1>8, <4>1, <4>2 DEF Unloaded
    <3>2. ASSUME NEW i \in Known, SpacesHeardNext(i) PROVE SpaceHeard(i)
      <4>1. i \in Ids
        BY <1>4, KnowledgeAssumption DEF Known, Ids, KnowledgeTypes, SourceTypes
      <4>2. i = c.space => SpaceHeard(i)
        BY <2>4 DEF SpaceHeard
      <4> QED BY <1>1, <1>6, <1>8, <3>2, <4>1, <4>2 DEF SpacesHeardNext, SpaceHeard
    <3>3. ASSUME Landed(d, DocumentCreates), DocumentsHeardNext(d.reply.id) PROVE DocumentHeard(d.reply.id)
      <4>1. PICK s \in Ids : knowledgeDocuments'[s] # NoOne /\ HasId(knowledgeDocuments'[s], d.reply.id)
        BY <3>3 DEF DocumentsHeardNext
      <4>2. CASE s # c.space
        BY <1>6, <1>8, <4>1, <4>2 DEF DocumentHeard
      <4>3. CASE s = c.space
        <5>1. HasId(list, d.reply.id) \/ d.reply.id = c.reply.id
          BY <1>6, <1>8, <1>22, <4>1, <4>3
        <5>2. HasId(list, d.reply.id) => DocumentHeard(d.reply.id)
          BY <1>6, <2>4 DEF DocumentHeard
        <5>3. CASE d.reply.id = c.reply.id /\ c.kind \in DocumentCreates
          BY <1>3, <1>12, <2>11, <3>3, <5>3 DEF Settled, NewRows, Landed
        <5>4. CASE d.reply.id = c.reply.id /\ c.kind \in DocumentUpdates
          BY <1>3, <1>5, <5>4 DEF DocumentHeard, OfDocument
        <5> QED BY <1>3, <5>1, <5>2, <5>3, <5>4
      <4> QED BY <4>2, <4>3
    <3>4. Landed(d, {"createSpace"}) => d.reply.id \in Known
      BY <2>2 DEF KnowledgeCall, IsKnowledgeAnswer, Landed, SpaceCopy
    <3> QED BY <3>1, <3>2, <3>3, <3>4
  <2>12. SpaceAfter(c) /\ DocumentAfter(c)
    BY <1>3, <1>8, <1>23 DEF SpaceAfter, DocumentAfter, Landed, DocumentCreates, DocumentUpdates
  <2> QED BY <2>9, <2>10, <2>11, <2>12
<1>13. ~Lost(c)
  BY <1>3 DEF Lost
<1> QED BY <1>1, <1>2, <1>3, <1>8, <1>9, <1>10, <1>11, <1>12, <1>13, <1>23, AnsweringKeeps

(* A document was deleted.                                                 *)
LEMMA DocumentDeletedKeeps == ASSUME KnowledgeInv, DocumentDeleted PROVE KnowledgeInv'
<1>1. PICK c \in Answered("deleteDocument") \cup Failed("deleteDocument") :
        /\ calls' = calls \ {c}
        /\ knowledgeDocuments' = IF c.phase = "failed" THEN knowledgeDocuments
              ELSE [knowledgeDocuments EXCEPT ![c.space] = Dropped(Cached(c.space), c.document)]
        /\ mixed' = (mixed \/ (c.phase = "failed" /\ c.lost))
        /\ editingDocument' = IF c.mine /\ c.endsEdit THEN NoOne ELSE editingDocument
        /\ confirmation' = IF c.mine THEN NoOne ELSE confirmation
        /\ UNCHANGED <<serverRows, knowledgeSpaces, ragProviders, panelTab, editingSpace,
                       documentSpaceId, acts, histories>>
  BY DEF DocumentDeleted
<1>2. UNCHANGED <<spaceRows, documentRows, ragRows, reopened, loadedParts>>
  BY <1>1 DEF serverRows, histories
<1>3. c \in calls /\ c.kind = "deleteDocument" /\ c.phase \in {"answered", "failed"}
  BY <1>1 DEF Answered, Failed, Kind
<1>4. KnowledgeTypes /\ KnowledgeCall(c)
  BY <1>3 DEF KnowledgeInv, KnowledgeTypes
<1>5. c.space \in Known
  BY <1>3, <1>4 DEF KnowledgeCall, IsKnowledgeRequest, IsAsk, OfSpace, DocumentWrites
<1> DEFINE list == Cached(c.space)
           new == Dropped(list, c.document)
           cache == [knowledgeDocuments EXCEPT ![c.space] = new]
<1>21. list \in Seq(DocumentCopy)
  BY <1>4, <1>5, CachedIs
<1> HIDE DEF list
<1>22. /\ new \in Seq(DocumentCopy)
       /\ \A x : x \in ToSet(new) <=> x \in ToSet(list) /\ x.id # c.document
       /\ \A k : HasId(new, k) <=> HasId(list, k) /\ k # c.document
       /\ Single(list) => Single(new)
  BY <1>21, DroppedIs
<1> HIDE DEF new
<1>6. /\ cache \in [Ids -> Seq(DocumentCopy) \cup {NoOne}]
      /\ \A q \in Ids : cache[q] = IF q = c.space THEN new ELSE knowledgeDocuments[q]
      /\ \A q \in Ids : cache[q] # NoOne => q \in Known
      /\ c.space \in Ids
  BY <1>4, <1>5, <1>22, CacheIs
<1> HIDE DEF cache
<1>7. PICK none : none = {} /\ calls' = (calls \ {c}) \cup none
  <2>1. calls' = calls \ {c}
    BY <1>1
  <2>2. calls' = (calls \ {c}) \cup {}
    BY <2>1
  <2> QED BY <2>2
<1>8. knowledgeDocuments' = IF c.phase = "failed" THEN knowledgeDocuments ELSE cache
  BY <1>1 DEF cache, new, list
<1>9. mixed' \in BOOLEAN /\ (~mixed' => ~mixed /\ ~Lost(c))
  BY <1>1, <1>4 DEF KnowledgeTypes, FormTypes, KnowledgeCall, IsKnowledgeRequest, Lost
<1>10. editingDocument' \in {editingDocument, NoOne}
  BY <1>1
<1>11. KnowledgeTypes'
  <2>1. knowledgeSpaces' \in Seq(SpaceCopy) /\ documentSpaceId' \in Known \cup {NoOne}
    BY <1>1, <1>4 DEF KnowledgeTypes, ListTypes, FormTypes
  <2>2. /\ knowledgeDocuments' \in [Ids -> Seq(DocumentCopy) \cup {NoOne}]
        /\ \A s \in Ids : knowledgeDocuments'[s] # NoOne => s \in Known
    BY <1>4, <1>6, <1>8 DEF KnowledgeTypes, ListTypes
  <2> QED BY <1>1, <1>2, <1>3, <1>4, <1>7, <1>9, <1>10, <2>1, <2>2, AnsweringTypes
<1>12. ASSUME Straight, Settled
      PROVE  /\ \A d \in calls \ {c} :
                  /\ Unloaded(d, knowledgeDocuments') => Unloaded(d, knowledgeDocuments)
                  /\ Landed(d, {"createSpace"}) /\ SpacesHeardNext(d.reply.id) => SpaceHeard(d.reply.id)
                  /\ Landed(d, DocumentCreates) /\ DocumentsHeardNext(d.reply.id) => DocumentHeard(d.reply.id)
             /\ SpacesShown' /\ DocumentsShown' /\ RagShown'
             /\ ~reopened => SpaceAfter(c) /\ DocumentAfter(c)
  <2>1. \A d \in calls : d # c => Carried(d)
    BY <1>7, RestCarried
  <2>2. \A d \in calls : StillTrue(d) /\ KnowledgeCall(d)
    BY <1>4, <1>12 DEF Settled, KnowledgeTypes
  <2>3. c.phase = "answered" => c.document \notin IdsOf(documentRows)
    BY <1>3, <2>2 DEF StillTrue, Landed
  <2>4. knowledgeDocuments[c.space] # NoOne /\ list = knowledgeDocuments[c.space]
    <3>1. ~Unloaded(c, knowledgeDocuments)
      BY <1>3, <1>12 DEF Settled, HaveLists
    <3> QED BY <1>3, <1>4, <1>5, <3>1, CachedIs DEF Unloaded, DocumentWrites, list
  <2>5. Shows(c.space, list)
    BY <1>6, <1>12, <2>4 DEF Settled, DocumentsShown
  <2>6. PICK l : l = new
    OBVIOUS
  <2>8. ASSUME c.phase = "answered" PROVE Shows(c.space, l)'
    <3>1. DocumentsOf(c.space)' = DocumentsOf(c.space)
      BY <1>2 DEF DocumentsOf
    <3>2. SpaceGone(c.space) => SpaceGone(c.space)'
      BY <1>3, <1>7 DEF SpaceGone, Landed
    <3>3. ASSUME NEW x \in ToSet(new)
          PROVE  \/ x \in documentRows \/ SpaceGone(c.space)'
                 \/ \E d \in calls' : Landed(d, OfDocument) /\ d.document = x.id /\ d.space = c.space
      <4>1. x \in ToSet(list) /\ x.id # c.document
        BY <1>22
      <4>2. ASSUME NEW d \in calls, d.document = x.id PROVE d \in calls'
        BY <1>7, <4>1, <4>2
      <4> QED BY <2>5, <3>2, <4>1, <4>2 DEF Shows
    <3>4. ASSUME NEW row \in DocumentsOf(c.space)
          PROVE  HasId(new, row.id) \/ \E d \in calls' : Landed(d, DocumentCreates) /\ d.reply = row
      <4>1. row.id # c.document
        BY <2>3, <2>8 DEF IdsOf, DocumentsOf
      <4>2. \A d \in calls : Landed(d, DocumentCreates) => d \in calls'
        BY <1>3, <1>7 DEF Landed, DocumentCreates
      <4> QED BY <1>22, <2>5, <4>1, <4>2 DEF Shows
    <3>5. c.space \in IdsOf(spaceRows) \/ SpaceGone(c.space)'
      BY <2>5, <3>2 DEF Shows
    <3> QED BY <1>2, <1>22, <2>5, <2>6, <3>1, <3>3, <3>4, <3>5 DEF Shows
  <2>9. DocumentsShown'
    <3>1. CASE c.phase = "answered"
      <4>1. knowledgeDocuments'[c.space] = l
        BY <1>6, <1>8, <2>6, <3>1
      <4>2. Shows(c.space, knowledgeDocuments[c.space])'
        BY <2>8, <3>1, <4>1 DEF Shows, DocumentsOf, SpaceGone
      <4>3. ASSUME NEW s \in Ids, s # c.space
            PROVE  /\ knowledgeDocuments'[s] = knowledgeDocuments[s]
                   /\ \A d \in calls : Landed(d, DocumentWrites \cup {"deleteSpace"}) /\ d.space = s => Carried(d)
        BY <1>6, <1>8, <2>1, <3>1, <4>3
      <4> QED BY <1>2, <1>12, <4>2, <4>3, DocumentsStay DEF Settled
    <3>2. CASE c.phase = "failed"
      <4>1. \A d \in calls : Landed(d, DocumentWrites \cup {"deleteSpace"}) => Carried(d)
        BY <2>1, <3>2 DEF Landed
      <4> QED BY <1>2, <1>8, <1>12, <3>2, <4>1, DocumentsStay DEF Settled
    <3> QED BY <1>3, <3>1, <3>2
  <2>10. SpacesShown' /\ RagShown'
    <3>1. \A d \in calls : Landed(d, SpaceWrites) \/ Landed(d, {"rag"}) => Carried(d)
      BY <1>3, <2>1 DEF Landed, SpaceWrites
    <3> QED BY <1>1, <1>2, <1>12, <3>1, SpacesStay, RagStays DEF Settled
  <2>11. ASSUME NEW d \in calls, d # c
        PROVE  /\ Unloaded(d, knowledgeDocuments') => Unloaded(d, knowledgeDocuments)
               /\ Landed(d, {"createSpace"}) /\ SpacesHeardNext(d.reply.id) => SpaceHeard(d.reply.id)
               /\ Landed(d, DocumentCreates) /\ DocumentsHeardNext(d.reply.id) => DocumentHeard(d.reply.id)
    <3>1. Unloaded(d, knowledgeDocuments') => Unloaded(d, knowledgeDocuments)
      <4>1. new # NoOne
        BY <1>4, <1>22, NoListIsNull
      <4>2. d.kind \in DocumentWrites => d.space \in Ids
        BY <1>4, <2>2, KnowledgeAssumption
           DEF KnowledgeCall, IsKnowledgeRequest, IsAsk, OfSpace, Known, Ids, KnowledgeTypes, SourceTypes
      <4> QED BY <1>6, <1>8, <4>1, <4>2 DEF Unloaded
    <3>2. ASSUME NEW i \in Known, SpacesHeardNext(i) PROVE SpaceHeard(i)
      <4>1. i \in Ids
        BY <1>4, KnowledgeAssumption DEF Known, Ids, KnowledgeTypes, SourceTypes
      <4>2. i = c.space => SpaceHeard(i)
        BY <2>4 DEF SpaceHeard
      <4> QED BY <1>1, <1>6, <1>8, <3>2, <4>1, <4>2 DEF SpacesHeardNext, SpaceHeard
    <3>3. ASSUME NEW j, DocumentsHeardNext(j) PROVE DocumentHeard(j)
      <4>1. PICK s \in Ids : knowledgeDocuments'[s] # NoOne /\ HasId(knowledgeDocuments'[s], j)
        BY <3>3 DEF DocumentsHeardNext
      <4>2. knowledgeDocuments[s] # NoOne /\ HasId(knowledgeDocuments[s], j)
        BY <1>6, <1>8, <1>22, <2>4, <4>1
      <4> QED BY <4>2 DEF DocumentHeard
    <3>4. Landed(d, {"createSpace"}) => d.reply.id \in Known
      BY <2>2 DEF KnowledgeCall, IsKnowledgeAnswer, Landed, SpaceCopy
    <3> QED BY <3>1, <3>2, <3>3, <3>4
  <2>12. SpaceAfter(c)
    BY <1>1, <1>3 DEF SpaceAfter, Landed
  <2>13. ASSUME ~reopened PROVE DocumentAfter(c)
    <3>1. editingDocument # NoOne /\ c.document = editingDocument.id => c.mine /\ c.endsEdit
      BY <1>3, <1>12, <2>13 DEF Settled, DocumentFormShown
    <3> QED BY <1>1, <3>1 DEF DocumentAfter
  <2> QED BY <2>9, <2>10, <2>11, <2>12, <2>13
<1> QED BY <1>1, <1>2, <1>3, <1>7, <1>9, <1>10, <1>11, <1>12, AnsweringKeeps

-----------------------------------------------------------------------------
(* What the server does.                                                   *)

(* A request moves on at the server.                                       *)
Serving(c, new) ==
  /\ calls' = (calls \ {c}) \cup {new} /\ Alike(new, c) /\ new.mine = c.mine
  /\ UNCHANGED <<caches, panelTab, forms, histories, mixed>>

(* The types stay.                                                         *)
LEMMA ServingTypes ==
  ASSUME KnowledgeTypes, NEW c \in calls, NEW new, Serving(c, new),
         issued' \in Nat, issued <= issued', SourceTypes', KnowledgeCall(new)'
  PROVE  KnowledgeTypes'
<1>1. UNCHANGED <<knowledgeSpaces, knowledgeDocuments, panelTab, editingSpace, documentSpaceId,
                  editingDocument, confirmation, reopened, mixed>>
  BY DEF Serving, caches, forms, histories
<1>2. /\ Known \subseteq Known' /\ DocumentCopy \subseteq DocumentCopy'
      /\ \A l \in Seq(SpaceCopy) : l \in Seq(SpaceCopy')
      /\ \A l \in Seq(DocumentCopy) : l \in Seq(DocumentCopy')
      /\ \A d : IsAsk(d) => IsAsk(d)'
      /\ \A d : KnowledgeCall(d) => KnowledgeCall(d)'
  BY KnownGrows
<1>3. ListTypes'
  <2>1. knowledgeDocuments \in [Ids -> Seq(DocumentCopy) \cup {NoOne}]
    BY DEF KnowledgeTypes, ListTypes
  <2>2. knowledgeDocuments \in [Ids -> Seq(DocumentCopy') \cup {NoOne}]
    BY <1>2, <2>1
  <2> QED BY <1>1, <1>2, <2>2 DEF KnowledgeTypes, ListTypes
<1>4. FormTypes'
  BY <1>1, <1>2 DEF KnowledgeTypes, FormTypes, IsConfirmation
<1>5. OffTab'
  <2>1. new.kind = c.kind /\ new.mine = c.mine /\ calls' = (calls \ {c}) \cup {new}
    BY DEF Serving, Alike
  <2> QED BY <1>1, <2>1 DEF KnowledgeTypes, OffTab
<1>6. (\A d \in calls : KnowledgeCall(d))'
  BY <1>2 DEF KnowledgeTypes, Serving
<1> QED BY <1>3, <1>4, <1>5, <1>6 DEF KnowledgeTypes

(* Nothing landed is undone by another request being served.               *)
LEMMA ServingCarries ==
  ASSUME NEW c \in calls, NEW new, Serving(c, new)
  PROVE  /\ \A d \in calls : d # c => Carried(d)
         /\ \A d \in calls' : Behind(d)
         /\ UNCHANGED <<knowledgeSpaces, knowledgeDocuments, ragProviders, panelTab, editingSpace,
                        documentSpaceId, editingDocument, confirmation, loadedParts, reopened, mixed>>
<1>1. \A d : Alike(d, d)
  BY DEF Alike
<1>2. \A d \in calls : d # c => Carried(d)
  BY SameCallIs DEF Carried, Serving
<1>3. \A d \in calls' : Behind(d)
  BY <1>1 DEF Behind, Serving
<1> QED BY <1>2, <1>3 DEF Serving, caches, forms, histories

(* The step keeps the invariant if what it did to the rows is right.       *)
LEMMA ServingKeeps ==
  ASSUME KnowledgeInv, KnowledgeTypes', NEW c \in calls, NEW new, Serving(c, new),
         Straight' => c.phase \in {"sent", "checked"},
         Straight /\ Settled /\ c.phase \in {"sent", "checked"} =>
           /\ StillTrue(new)' /\ \A d \in calls : d # c => StillTrue(d)'
           /\ Landed(new, {"createSpace"} \cup DocumentCreates) => new.reply.id \notin Known
           /\ SpacesShown' /\ DocumentsShown' /\ RagShown' /\ FormsShown'
  PROVE  KnowledgeInv'
<1> SUFFICES ASSUME Straight' PROVE Settled'
  BY DEF KnowledgeInv
<1>1. calls' = (calls \ {c}) \cup {new} /\ Alike(new, c) /\ c.phase \in {"sent", "checked"}
  BY DEF Serving
<1>2. UNCHANGED <<knowledgeSpaces, knowledgeDocuments, editingSpace, documentSpaceId, editingDocument,
                  confirmation, reopened, mixed>>
  BY ServingCarries
<1>3. Straight
  BY <1>1, <1>2 DEF Straight, Lost
<1>4. KnowledgeTypes /\ Settled
  BY <1>3 DEF KnowledgeInv
<1>5. Apart'
  <2>1. \A d \in calls : Conflict(d, new) \/ Conflict(new, d) => d = c
    <3>1. ASSUME NEW d \in calls, Conflict(d, new) \/ Conflict(new, d) PROVE d = c
      <4>1. Conflict(d, c)
        BY <1>1, <3>1, AlikeConflict, ConflictBoth DEF Alike
      <4> QED BY <1>4, <4>1 DEF Settled, Apart
    <3> QED BY <3>1
  <2> QED BY <1>1, <1>4, <2>1 DEF Settled, Apart
<1>6. HaveLists'
  BY <1>1, <1>2, <1>4, AlikeUnloaded DEF Settled, HaveLists
<1>7. /\ StillTrue(new)' /\ \A d \in calls : d # c => StillTrue(d)'
      /\ Landed(new, {"createSpace"} \cup DocumentCreates) => new.reply.id \notin Known
      /\ SpacesShown' /\ DocumentsShown' /\ RagShown' /\ FormsShown'
  BY <1>1, <1>3, <1>4
<1>8. \A i : (SpaceHeard(i)' => SpaceHeard(i)) /\ (DocumentHeard(i)' => DocumentHeard(i))
  BY <1>1, <1>2 DEF SpaceHeard, DocumentHeard, Alike
<1>9. ASSUME NEW d \in calls, Landed(d, {"createSpace"} \cup DocumentCreates) PROVE d.reply.id \in Known
  <2>1. KnowledgeCall(d)
    BY <1>4 DEF KnowledgeTypes
  <2> QED BY <1>9, <2>1 DEF KnowledgeCall, IsKnowledgeAnswer, Landed, SpaceCopy, DocumentCopy
<1>10. Landed(new, {"createSpace"} \cup DocumentCreates) => new.reply.id \in Ids
  <2>1. KnowledgeCall(new)' /\ Known' \subseteq Ids
    BY <1>1, KnowledgeAssumption DEF KnowledgeTypes, SourceTypes, Known, Ids
  <2> QED BY <2>1 DEF KnowledgeCall, IsKnowledgeAnswer, Landed, SpaceCopy, DocumentCopy
<1>11. NewRows'
  <2>1. Landed(new, {"createSpace"} \cup DocumentCreates) =>
          ~SpaceHeard(new.reply.id)' /\ ~DocumentHeard(new.reply.id)'
    BY <1>4, <1>7, <1>8, <1>10, HeardIsKnown
  <2>2. \A d : /\ Landed(d, {"createSpace"}) => Landed(d, {"createSpace"} \cup DocumentCreates)
               /\ Landed(d, DocumentCreates) => Landed(d, {"createSpace"} \cup DocumentCreates)
    BY DEF Landed
  <2>3. (\A d \in calls : /\ Landed(d, {"createSpace"}) => ~SpaceHeard(d.reply.id)
                          /\ Landed(d, DocumentCreates) => ~DocumentHeard(d.reply.id))'
    BY <1>1, <1>4, <1>8, <2>1, <2>2 DEF Settled, NewRows, Landed
  <2>4. ASSUME NEW d \in calls', NEW e \in calls', d.reply.id = e.reply.id,
               \/ Landed(d, {"createSpace"}) /\ Landed(e, {"createSpace"})
               \/ Landed(d, DocumentCreates) /\ Landed(e, DocumentCreates)
        PROVE  d = e
    <3>1. CASE d \in calls /\ e \in calls
      BY <1>4, <2>4, <3>1 DEF Settled, NewRows
    <3>2. CASE d = new /\ e \in calls
      BY <1>7, <1>9, <2>2, <2>4, <3>2
    <3>3. CASE e = new /\ d \in calls
      BY <1>7, <1>9, <2>2, <2>4, <3>3
    <3> QED BY <1>1, <3>1, <3>2, <3>3
  <2> QED BY <2>3, <2>4 DEF NewRows, Landed
<1>12. (\A d \in calls : StillTrue(d))'
  BY <1>1, <1>7
<1> QED BY <1>2, <1>5, <1>6, <1>7, <1>11, <1>12 DEF Settled, FormsShown

(* A request served without a change to the rows.                          *)
LEMMA ReadingKeeps ==
  ASSUME KnowledgeInv, NEW c \in calls, NEW new, Serving(c, new), UNCHANGED serverRows,
         KnowledgeCall(new), Straight' => c.phase \in {"sent", "checked"},
         ~Landed(new, {"createSpace"} \cup DocumentCreates),
         Settled /\ c.phase \in {"sent", "checked"} => StillTrue(new)
  PROVE  KnowledgeInv'
<1>1. KnowledgeTypes /\ UNCHANGED <<spaceRows, documentRows, ragRows, issued>>
  BY DEF KnowledgeInv, serverRows
<1>2. KnowledgeTypes'
  <2>1. issued \in Nat /\ SourceTypes
    BY <1>1, KnowledgeAssumption DEF KnowledgeTypes, SourceTypes
  <2>2. issued' \in Nat /\ issued <= issued' /\ KnowledgeCall(new)'
    BY <1>1, <2>1, KnownStays
  <2>3. SourceTypes'
    BY <1>1, <2>1 DEF SourceTypes, SpaceCopy, DocumentCopy, Known
  <2> QED BY <1>1, <2>2, <2>3, ServingTypes
<1>3. \A d : StillTrue(d) => StillTrue(d)'
  BY <1>1, SameCallIs, StillTrueSame
<1>4. ASSUME Settled, c.phase \in {"sent", "checked"}
      PROVE  SpacesShown' /\ DocumentsShown' /\ RagShown' /\ FormsShown'
  <2>1. /\ \A d \in calls : d # c => Carried(d)
        /\ \A d \in calls' : Behind(d)
        /\ UNCHANGED <<knowledgeSpaces, knowledgeDocuments, ragProviders, panelTab, editingSpace,
                       documentSpaceId, editingDocument, confirmation, loadedParts, reopened, mixed>>
    BY ServingCarries
  <2>2. \A d \in calls : d.phase = "answered" => Carried(d)
    BY <1>4, <2>1
  <2>3. SpacesShown' /\ RagShown'
    BY <1>1, <1>4, <2>1, <2>2, SpacesStay, RagStays DEF Settled, Landed
  <2>4. DocumentsShown'
    BY <1>1, <1>4, <2>1, <2>2, DocumentsStay DEF Settled, Landed
  <2>5. FormsShown'
    BY <1>1, <1>4, <2>1, <2>2, SpaceFormStays, DocumentFormStays, DocumentKeptStays
       DEF Settled, FormsShown, Landed
  <2> QED BY <2>3, <2>4, <2>5
<1> QED BY <1>2, <1>3, <1>4, ServingKeeps DEF Settled

(* A request is refused.                                                   *)
LEMMA RefusingKeeps ==
  ASSUME KnowledgeInv, NEW c \in calls, Become(c, Broken(c)), c.kind # "workspace",
         UNCHANGED <<serverRows, caches, panelTab, forms, histories, mixed>>,
         c.phase \in {"sent", "checked", "answered"}
  PROVE  KnowledgeInv'
<1>1. KnowledgeCall(c)
  BY DEF KnowledgeInv, KnowledgeTypes
<1>2. PICK new : new = Broken(c)
  OBVIOUS
<1>3. /\ Alike(new, c) /\ new.mine = c.mine /\ new.phase = "failed" /\ new.lost = (c.phase # "sent")
      /\ KnowledgeCall(new)
  BY <1>1, <1>2, KnowledgeBrokenIs
<1>4. Serving(c, new)
  BY <1>2, <1>3 DEF Serving, Become
<1>5. new \in calls' /\ new.kind # "workspace"
  BY <1>3, <1>4 DEF Serving, Alike
<1>6. Straight' => c.phase \in {"sent", "checked"}
  BY <1>3, <1>5 DEF Straight, Lost
<1>7. StillTrue(new) /\ ~Landed(new, {"createSpace"} \cup DocumentCreates)
  BY <1>3, <1>5 DEF StillTrue, Landed
<1> QED BY <1>3, <1>4, <1>6, <1>7, ReadingKeeps

(* A request fails, or its answer is lost.                                 *)
LEMMA KnowledgeFailKeeps == ASSUME KnowledgeInv, KnowledgeFail PROVE KnowledgeInv'
<1>1. PICK c \in calls :
        /\ c.kind # "workspace" /\ c.phase \in {"sent", "answered"} /\ Become(c, Broken(c))
        /\ UNCHANGED <<serverRows, caches, panelTab, forms, acts, histories, mixed>>
  BY DEF KnowledgeFail
<1> QED BY <1>1, RefusingKeeps

(* The row a document is looked up by.                                     *)
LEMMA RowIs ==
  ASSUME KnowledgeTypes, NEW c, c.kind \in DocumentUpdates \cup {"deleteDocument"}, Writable(c)
  PROVE  Row(c) \in documentRows /\ Row(c).id = c.document /\ Row(c).space = c.space
<1>1. PICK d \in documentRows : d.id = c.document /\ d.space = c.space
  BY DEF Writable, IdsOf, DocumentsOf, DocumentCreates, DocumentUpdates
<1>2. Row(c) \in documentRows /\ Row(c).id = c.document
  BY <1>1 DEF Row
<1>3. Row(c) = d
  BY <1>1, <1>2 DEF KnowledgeTypes, SourceTypes
<1> QED BY <1>1, <1>3

(* The server looks up what a write is about.                              *)
LEMMA CheckDocumentKeeps == ASSUME KnowledgeInv, CheckDocument PROVE KnowledgeInv'
<1>1. PICK c \in calls :
        /\ c.phase = "sent" /\ c.kind \in DocumentCreates \cup DocumentUpdates
        /\ IF Writable(c)
           THEN Become(c, Beside([phase |-> "checked"],
                             IF c.kind \in DocumentUpdates THEN Beside([row |-> Row(c)], c) ELSE c))
           ELSE Refuse(c)
        /\ UNCHANGED <<serverRows, caches, panelTab, forms, acts, histories, mixed>>
  BY DEF CheckDocument
<1>2. KnowledgeTypes /\ KnowledgeCall(c)
  BY <1>1 DEF KnowledgeInv, KnowledgeTypes
<1>3. c.kind # "workspace" /\ c.kind \notin {"rag"}
  BY <1>1 DEF DocumentCreates, DocumentUpdates
<1>4. CASE ~Writable(c)
  BY <1>1, <1>3, <1>4, RefusingKeeps DEF Refuse
<1>5. CASE Writable(c)
  <2>1. PICK f, g : f = [phase |-> "checked"] /\ g = [row |-> Row(c)]
    OBVIOUS
  <2>2. DOMAIN f = {"phase"} /\ f.phase = "checked" /\ DOMAIN g = {"row"} /\ g.row = Row(c)
    BY <2>1
  <2>3. PICK e : e = IF c.kind \in DocumentUpdates THEN Beside(g, c) ELSE c
    OBVIOUS
  <2>4. PICK new : new = Beside(f, e)
    OBVIOUS
  <2>5. IsBeside(new, f, e) /\ (c.kind \in DocumentUpdates => IsBeside(e, g, c))
        /\ (c.kind \notin DocumentUpdates => e = c)
    BY <2>3, <2>4, BesideIs
  <2>6. Become(c, new)
    BY <1>1, <1>5, <2>1, <2>3, <2>4
  <2>7. IsAsk(c) /\ {"n", "phase", "lost"} \subseteq DOMAIN c /\ c.lost \in BOOLEAN
    BY <1>2 DEF KnowledgeCall, IsKnowledgeRequest
  <2>8. /\ IsAsk(e) /\ Alike(e, c) /\ e.mine = c.mine /\ {"n", "phase", "lost"} \subseteq DOMAIN e
        /\ e.lost = c.lost /\ (c.kind \in DocumentUpdates => "row" \in DOMAIN e /\ e.row = Row(c))
    <3>1. CASE c.kind \in DocumentUpdates
      <4>1. IsAsk(e) /\ Alike(e, c) /\ e.mine = c.mine /\ {"n", "phase", "lost"} \subseteq DOMAIN e
        BY <2>2, <2>5, <2>7, <3>1, BesideAlike
      <4>2. e.lost = c.lost /\ "row" \in DOMAIN e /\ e.row = Row(c)
        BY <2>2, <2>5, <2>7, <3>1 DEF IsBeside
      <4> QED BY <4>1, <4>2
    <3>2. CASE c.kind \notin DocumentUpdates
      BY <2>5, <2>7, <3>2 DEF Alike
    <3> QED BY <3>1, <3>2
  <2>9. /\ IsAsk(new) /\ Alike(new, e) /\ new.mine = e.mine /\ {"n", "phase", "lost"} \subseteq DOMAIN new
    BY <2>2, <2>5, <2>8, BesideAlike
  <2>10. /\ new.phase = "checked" /\ new.lost = c.lost
         /\ c.kind \in DocumentUpdates => "row" \in DOMAIN new /\ new.row = Row(c)
    BY <2>2, <2>5, <2>8 DEF IsBeside
  <2>11. Alike(new, c) /\ new.mine = c.mine /\ new.kind = c.kind
    BY <2>8, <2>9 DEF Alike
  <2>12. c.kind \in DocumentUpdates =>
           /\ Row(c) \in documentRows /\ Row(c).id = c.document /\ Row(c).space = c.space
           /\ Row(c) \in DocumentCopy /\ new.document = c.document /\ new.space = c.space
    BY <1>2, <1>5, <2>11, RowIs
       DEF KnowledgeTypes, SourceTypes, Alike, OfDocument, OfSpace, DocumentWrites
  <2>13. KnowledgeCall(new)
    BY <1>1, <1>3, <2>7, <2>9, <2>10, <2>11, <2>12
       DEF KnowledgeCall, IsKnowledgeRequest, IsKnowledgeAnswer
  <2>14. StillTrue(new) /\ ~Landed(new, {"createSpace"} \cup DocumentCreates)
    BY <1>3, <2>10, <2>11, <2>12 DEF StillTrue, Landed
  <2>15. Serving(c, new)
    BY <1>1, <2>6, <2>11 DEF Serving, Become
  <2> QED BY <1>1, <2>13, <2>14, <2>15, ReadingKeeps
<1> QED BY <1>4, <1>5

(* The list of documents as it is answered.                                *)
LEMMA ServeListKeeps ==
  ASSUME KnowledgeInv, NEW c \in calls, c.phase = "sent", c.kind = "documents", SpaceExists(c),
         Answer(c, Listing(DocumentsOf(c.space))),
         UNCHANGED <<serverRows, caches, panelTab, forms, histories, mixed>>
  PROVE  KnowledgeInv'
<1>1. KnowledgeTypes /\ KnowledgeCall(c)
  BY DEF KnowledgeInv, KnowledgeTypes
<1>2. PICK list : list = Listing(DocumentsOf(c.space))
  OBVIOUS
<1>3. list \in Seq(DocumentCopy) /\ Exact(list, DocumentsOf(c.space))
  <2>1. /\ DocumentsOf(c.space) \in SUBSET DocumentCopy
        /\ DocumentsOf(c.space) \in SUBSET documentRows /\ IsFiniteSet(documentRows)
        /\ \A d, e \in DocumentsOf(c.space) : d.id = e.id => d = e
    BY <1>1 DEF DocumentsOf, KnowledgeTypes, SourceTypes
  <2>2. IsFiniteSet(DocumentsOf(c.space))
    BY <2>1, FS_Subset
  <2> QED BY <1>2, <2>1, <2>2, ListingIs
<1>4. PICK new : new = Reply(c, list)
  OBVIOUS
<1>5. /\ Alike(new, c) /\ new.mine = c.mine /\ new.phase = "answered" /\ new.reply = list
      /\ IsKnowledgeRequest(new) /\ "reply" \in DOMAIN new
  BY <1>1, <1>4, RepliedIs
<1>6. new.kind = "documents" /\ new.space = c.space
  BY <1>5 DEF Alike, OfSpace
<1>7. KnowledgeCall(new)
  BY <1>3, <1>5, <1>6 DEF KnowledgeCall, IsKnowledgeAnswer, DocumentCreates, DocumentUpdates
<1>8. StillTrue(new) /\ ~Landed(new, {"createSpace"} \cup DocumentCreates)
  BY <1>3, <1>5, <1>6 DEF StillTrue, Landed, SpaceExists, DocumentCreates, DocumentUpdates
<1>9. Serving(c, new)
  BY <1>2, <1>4, <1>5 DEF Serving, Answer, Become
<1> QED BY <1>7, <1>8, <1>9, ReadingKeeps

(* A half of the workspace.                                                *)
LEMMA HalfIs ==
  ASSUME KnowledgeTypes, NEW c \in calls, c.kind = "workspace", c.phase = "sent",
         NEW part \in {"spaces", "rag"}, NEW value, Half(c, part, value)
  PROVE  \E new : /\ Become(c, new) /\ Alike(new, c) /\ new.mine = c.mine /\ new.kind = "workspace"
                  /\ {"n", "phase", "lost", "kind", "mine", "spaces", "rag"} \subseteq DOMAIN new
                  /\ new.lost = c.lost
                  /\ new.spaces = (IF part = "spaces" THEN value ELSE c.spaces)
                  /\ new.rag = (IF part = "rag" THEN value ELSE c.rag)
                  /\ new.phase = (IF new.spaces # NoOne /\ new.rag # NoOne THEN "answered" ELSE "sent")
<1>1. PICK f, g : f = [spaces |-> value] /\ g = [rag |-> value]
  OBVIOUS
<1>2. DOMAIN f = {"spaces"} /\ f.spaces = value /\ DOMAIN g = {"rag"} /\ g.rag = value
  BY <1>1
<1>3. PICK n : n = IF part = "spaces" THEN Beside(f, c) ELSE Beside(g, c)
  OBVIOUS
<1>4. PICK p : p = IF n.spaces # NoOne /\ n.rag # NoOne THEN "answered" ELSE "sent"
  OBVIOUS
<1>5. PICK h : h = [phase |-> p]
  OBVIOUS
<1>6. DOMAIN h = {"phase"} /\ h.phase = p
  BY <1>5
<1>7. PICK new : new = Beside(h, n)
  OBVIOUS
<1>8. Become(c, new)
  BY <1>1, <1>3, <1>4, <1>5, <1>7 DEF Half
<1>9. /\ IsBeside(new, h, n) /\ (part = "spaces" => IsBeside(n, f, c)) /\ (part = "rag" => IsBeside(n, g, c))
  BY <1>3, <1>7, BesideIs
<1>10. {"n", "phase", "lost", "kind", "mine", "spaces", "rag"} \subseteq DOMAIN c
  BY DEF KnowledgeTypes, KnowledgeCall, IsKnowledgeRequest, IsAsk
<1>11. /\ {"n", "phase", "lost", "kind", "mine", "spaces", "rag"} \subseteq DOMAIN n
       /\ n.kind = c.kind /\ n.mine = c.mine /\ n.lost = c.lost
       /\ n.spaces = (IF part = "spaces" THEN value ELSE c.spaces)
       /\ n.rag = (IF part = "rag" THEN value ELSE c.rag)
  BY <1>2, <1>9, <1>10 DEF IsBeside
<1>12. /\ {"n", "phase", "lost", "kind", "mine", "spaces", "rag"} \subseteq DOMAIN new
       /\ new.kind = n.kind /\ new.mine = n.mine /\ new.lost = n.lost /\ new.phase = p
       /\ new.spaces = n.spaces /\ new.rag = n.rag
  BY <1>6, <1>9, <1>11 DEF IsBeside
<1>13. Alike(new, c)
  BY <1>11, <1>12 DEF Alike, OfSpace, OfDocument, DocumentWrites, DocumentCreates, DocumentUpdates
<1> QED BY <1>4, <1>8, <1>11, <1>12, <1>13

(* A half of the workspace is read.                                        *)
LEMMA ServeWorkspaceKeeps == ASSUME KnowledgeInv, ServeWorkspace PROVE KnowledgeInv'
<1>1. PICK c \in calls :
        /\ c.kind = "workspace" /\ c.phase = "sent"
        /\ \/ c.spaces = NoOne /\ \E v \in {<<Listing(spaceRows)>>, <<>>} : Half(c, "spaces", v)
           \/ c.rag = NoOne /\ \E v \in {<<ragRows>>, <<>>} : Half(c, "rag", v)
        /\ UNCHANGED <<serverRows, caches, panelTab, forms, acts, histories, mixed>>
  BY DEF ServeWorkspace, Kind
<1>2. KnowledgeTypes /\ KnowledgeCall(c)
  BY DEF KnowledgeInv, KnowledgeTypes
<1>3. PICK part, value :
        /\ part \in {"spaces", "rag"}
        /\ Half(c, part, value)
        /\ part = "spaces" => value \in {<<Listing(spaceRows)>>, <<>>}
        /\ part = "rag" => value \in {<<ragRows>>, <<>>}
  BY <1>1
<1>4. PICK new : /\ Become(c, new) /\ Alike(new, c) /\ new.mine = c.mine /\ new.kind = "workspace"
                 /\ {"n", "phase", "lost", "kind", "mine", "spaces", "rag"} \subseteq DOMAIN new
                 /\ new.lost = c.lost
                 /\ new.spaces = (IF part = "spaces" THEN value ELSE c.spaces)
                 /\ new.rag = (IF part = "rag" THEN value ELSE c.rag)
                 /\ new.phase = (IF new.spaces # NoOne /\ new.rag # NoOne THEN "answered" ELSE "sent")
  BY <1>1, <1>2, <1>3, HalfIs
<1>5. PICK list : list = Listing(spaceRows)
  OBVIOUS
<1>6. list \in Seq(SpaceCopy) /\ Exact(list, spaceRows)
  BY <1>2, <1>5, ListingIs DEF KnowledgeTypes, SourceTypes
<1>7. new.spaces \in {c.spaces, <<list>>, <<>>}
  BY <1>3, <1>4, <1>5
<1>8. IsAsk(new)
  <2>1. IsPart(new.spaces)
    <3>1. IsPart(c.spaces)
      BY <1>1, <1>2 DEF KnowledgeCall, IsKnowledgeRequest, IsAsk
    <3>2. IsPart(<<list>>) /\ IsPart(<<>>)
      BY <1>6 DEF IsPart
    <3> QED BY <1>7, <3>1, <3>2
  <2>2. c.mine \in BOOLEAN
    BY <1>2 DEF KnowledgeCall, IsKnowledgeRequest, IsAsk
  <2> QED BY <1>4, <2>1, <2>2
         DEF IsAsk, KnowledgeKinds, OfSpace, OfDocument, DocumentWrites, DocumentCreates, DocumentUpdates
<1>9. KnowledgeCall(new)
  <2>1. c.lost \in BOOLEAN
    BY <1>2 DEF KnowledgeCall, IsKnowledgeRequest
  <2> QED BY <1>4, <1>8, <2>1
         DEF KnowledgeCall, IsKnowledgeRequest, IsKnowledgeAnswer, DocumentCreates, DocumentUpdates
<1>10. ASSUME Settled PROVE StillTrue(new)
  <2>1. StillTrue(c)
    BY <1>10 DEF Settled
  <2>2. new.spaces # NoOne /\ new.spaces # <<>> => Exact(new.spaces[1], spaceRows)
    <3>1. CASE new.spaces = <<list>>
      BY <1>6, <3>1
    <3>2. CASE new.spaces = c.spaces
      BY <1>1, <2>1, <3>2 DEF StillTrue
    <3> QED BY <1>7, <3>1, <3>2
  <2>3. new.rag # NoOne /\ new.rag # <<>> => new.rag[1] = ragRows
    <3>1. CASE part = "rag"
      <4>1. new.rag \in {<<ragRows>>, <<>>}
        BY <1>3, <1>4, <3>1
      <4>2. <<ragRows>>[1] = ragRows
        OBVIOUS
      <4> QED BY <4>1, <4>2
    <3>2. CASE part # "rag"
      BY <1>1, <1>4, <2>1, <3>2 DEF StillTrue
    <3> QED BY <3>1, <3>2
  <2> QED BY <1>4, <2>2, <2>3 DEF StillTrue, Landed, DocumentCreates, DocumentUpdates
<1>11. ~Landed(new, {"createSpace"} \cup DocumentCreates)
  BY <1>4 DEF Landed, DocumentCreates
<1>12. Serving(c, new)
  BY <1>1, <1>4 DEF Serving, Become
<1> QED BY <1>1, <1>9, <1>10, <1>11, <1>12, ReadingKeeps

(* What a request that was answered, or that is under way, tells of the    *)
(* others.                                                                 *)
LEMMA NoneCrosses ==
  ASSUME Settled, NEW c \in calls, NEW d \in calls, d # c
  PROVE  ~Conflict(d, c) /\ ~Conflict(c, d)
  BY DEF Settled, Apart

(* A space is created,                                                     *)
LEMMA CreateSpaceKeeps ==
  ASSUME KnowledgeInv, NEW c \in calls, c.phase = "sent", c.kind = "createSpace", issued < MaxRows,
         NEW row, row = [id |-> issued + 1, rev |-> 0],
         spaceRows' = spaceRows \cup {row}, Answer(c, row), issued' = issued + 1,
         UNCHANGED <<documentRows, ragRows, caches, panelTab, forms, histories, mixed>>
  PROVE  KnowledgeInv'
<1>1. KnowledgeTypes /\ KnowledgeCall(c)
  BY DEF KnowledgeInv, KnowledgeTypes
<1>2. PICK new : new = Reply(c, row)
  OBVIOUS
<1>3. /\ Alike(new, c) /\ new.mine = c.mine /\ new.phase = "answered" /\ new.reply = row
      /\ IsKnowledgeRequest(new) /\ "reply" \in DOMAIN new
  BY <1>1, <1>2, RepliedIs
<1>4. Serving(c, new) /\ calls' = (calls \ {c}) \cup {new} /\ new.kind = "createSpace"
  BY <1>2, <1>3 DEF Serving, Answer, Become, Alike
<1>5. /\ issued \in Nat /\ issued' \in Nat /\ issued <= issued' /\ MaxRows \in Nat
      /\ row.id = issued + 1 /\ row.id \notin Known /\ row \in SpaceCopy' /\ issued' \in 0 .. MaxRows
  BY <1>1, KnowledgeAssumption DEF KnowledgeTypes, SourceTypes, Known, SpaceCopy
<1>6. SourceTypes'
  <2>1. SpaceCopy \subseteq SpaceCopy' /\ DocumentCopy \subseteq DocumentCopy'
    BY <1>1, <1>5, KnownGrows
  <2>2. IsFiniteSet(spaceRows \cup {row})
    BY <1>1, FS_AddElement DEF KnowledgeTypes, SourceTypes
  <2>3. \A r \in spaceRows : r.id # row.id
    BY <1>1, <1>5 DEF KnowledgeTypes, SourceTypes, SpaceCopy
  <2> QED BY <1>1, <1>5, <2>1, <2>2, <2>3 DEF KnowledgeTypes, SourceTypes
<1>7. KnowledgeTypes'
  <2>1. KnowledgeCall(new)'
    <3>1. IsKnowledgeRequest(new)'
      <4>1. IsAsk(new)'
        BY <1>1, <1>3, <1>5, KnownGrows DEF IsKnowledgeRequest
      <4> QED BY <1>3, <1>4, <4>1 DEF IsKnowledgeRequest
    <3>2. IsKnowledgeAnswer(new)'
      BY <1>3, <1>4, <1>5 DEF IsKnowledgeAnswer, DocumentCreates, DocumentUpdates
    <3> QED BY <3>1, <3>2 DEF KnowledgeCall
  <2> QED BY <1>1, <1>4, <1>5, <1>6, <2>1, ServingTypes
<1>8. ASSUME Settled
      PROVE  /\ StillTrue(new)' /\ \A d \in calls : d # c => StillTrue(d)'
             /\ SpacesShown' /\ DocumentsShown' /\ RagShown' /\ FormsShown'
  <2>1. /\ \A d \in calls : d # c => Carried(d)
        /\ \A d \in calls' : Behind(d)
        /\ UNCHANGED <<knowledgeSpaces, knowledgeDocuments, ragProviders, panelTab, editingSpace,
                       documentSpaceId, editingDocument, confirmation, loadedParts, reopened, mixed>>
    BY <1>4, ServingCarries
  <2>2. \A d \in calls : Landed(d, DocumentWrites \cup SpaceWrites \cup {"rag"}) => Carried(d) /\ d # c
    BY <2>1 DEF Landed
  <2>3. \A i : i \in IdsOf(spaceRows') <=> i \in IdsOf(spaceRows) \/ i = row.id
    BY DEF IdsOf
  <2>4. \A s : DocumentsOf(s)' = DocumentsOf(s)
    BY DEF DocumentsOf
  <2>5. StillTrue(new)'
    BY <1>3, <1>4 DEF StillTrue, Landed, DocumentCreates, DocumentUpdates
  <2>6. ASSUME NEW d \in calls, d # c PROVE StillTrue(d)'
    <3>1. StillTrue(d) /\ KnowledgeCall(d)
      BY <1>1, <1>8 DEF Settled, KnowledgeTypes
    <3>2. d.kind # "workspace"
      BY <1>8, <2>6, NoneCrosses DEF Conflict, Loads, SpaceWrites
    <3>3. Landed(d, {"deleteSpace"}) => d.space \notin IdsOf(spaceRows')
      BY <1>5, <2>3, <3>1 DEF StillTrue, KnowledgeCall, IsKnowledgeRequest, IsAsk, OfSpace, Landed
    <3> QED BY <2>3, <2>4, <3>1, <3>2, <3>3 DEF StillTrue
  <2>7. SpacesShown'
    <3>1. \A copy \in ToSet(knowledgeSpaces) :
            copy \in spaceRows' \/ \E d \in calls' : Landed(d, {"updateSpace", "deleteSpace"}) /\ d.space = copy.id
      BY <1>4, <1>8 DEF Settled, SpacesShown, Landed
    <3>2. "spaces" \in loadedParts => \A r \in spaceRows' :
            HasId(knowledgeSpaces, r.id) \/ \E d \in calls' : Landed(d, {"createSpace"}) /\ d.reply = r
      BY <1>3, <1>4, <1>8 DEF Settled, SpacesShown, Landed
    <3> QED BY <1>8, <2>1, <3>1, <3>2 DEF Settled, SpacesShown
  <2>8. DocumentsShown'
    <3> SUFFICES ASSUME NEW s \in Ids, knowledgeDocuments[s] # NoOne PROVE Shows(s, knowledgeDocuments[s])'
      BY <2>1 DEF DocumentsShown
    <3>1. PICK list : list = knowledgeDocuments[s]
      OBVIOUS
    <3>2. Shows(s, list)
      BY <1>8, <3>1 DEF Settled, DocumentsShown
    <3>3. \A d \in calls : Landed(d, DocumentWrites \cup {"deleteSpace"}) /\ d.space = s => Carried(d)
      BY <2>2 DEF Landed, SpaceWrites
    <3>4. Shows(s, list)'
      BY <1>8, <2>3, <2>4, <3>2, <3>3, ShowsStay DEF Settled
    <3> QED BY <2>1, <3>1, <3>4
  <2>9. RagShown'
    BY <1>8, <2>1, <2>2, RagStays DEF Settled, Landed
  <2>10. FormsShown'
    <3> SUFFICES ASSUME ~reopened PROVE SpaceFormShown' /\ DocumentFormShown'
      BY <2>1 DEF FormsShown
    <3>1. SpaceFormShown /\ DocumentFormShown
      BY <1>8 DEF Settled
    <3>2. SpaceFormShown'
      BY <2>1, <2>2, <2>3, <3>1, SpaceFormStays DEF Landed, SpaceWrites
    <3>3. ASSUME editingDocument # NoOne, DocumentKept(editingDocument.id, editingDocument.space)
          PROVE  DocumentKept(editingDocument.id, editingDocument.space)'
      <4>1. editingDocument.space \in Known
        BY <1>1, <3>3 DEF KnowledgeTypes, FormTypes, DocumentCopy
      <4>2. PICK j, s : j = editingDocument.id /\ s = editingDocument.space
        OBVIOUS
      <4>3. s \notin IdsOf(spaceRows) => s \notin IdsOf(spaceRows')
        BY <1>5, <2>3, <4>1, <4>2
      <4>4. DocumentKept(j, s)'
        BY <1>4, <3>3, <4>2, <4>3 DEF DocumentKept, Landed
      <4> QED BY <2>1, <4>2, <4>4
    <3> QED BY <2>1, <3>1, <3>2, <3>3, DocumentFormStays
  <2> QED BY <2>5, <2>6, <2>7, <2>8, <2>9, <2>10
<1>9. Landed(new, {"createSpace"} \cup DocumentCreates) => new.reply.id \notin Known
  BY <1>3, <1>5
<1> QED BY <1>4, <1>7, <1>8, <1>9, ServingKeeps

(* changed,                                                                *)
LEMMA UpdateSpaceKeeps ==
  ASSUME KnowledgeInv, NEW c \in calls, c.phase = "sent", c.kind = "updateSpace",
         NEW row \in spaceRows, row.id = c.space, NEW saved, saved = [row EXCEPT !.rev = @ + 1],
         spaceRows' = (spaceRows \ {row}) \cup {saved}, Answer(c, saved),
         UNCHANGED <<documentRows, ragRows, issued, caches, panelTab, forms, histories, mixed>>
  PROVE  KnowledgeInv'
<1>1. KnowledgeTypes /\ KnowledgeCall(c)
  BY DEF KnowledgeInv, KnowledgeTypes
<1>2. PICK new : new = Reply(c, saved)
  OBVIOUS
<1>3. /\ Alike(new, c) /\ new.mine = c.mine /\ new.phase = "answered" /\ new.reply = saved
      /\ IsKnowledgeRequest(new) /\ "reply" \in DOMAIN new
  BY <1>1, <1>2, RepliedIs
<1>4. /\ Serving(c, new) /\ calls' = (calls \ {c}) \cup {new} /\ new.kind = "updateSpace"
      /\ new.space = c.space
  BY <1>2, <1>3 DEF Serving, Answer, Become, Alike, OfSpace
<1>5. /\ issued \in Nat /\ saved \in SpaceCopy /\ saved.id = c.space
      /\ SpaceCopy' = SpaceCopy /\ DocumentCopy' = DocumentCopy /\ Known' = Known
  BY <1>1, KnowledgeAssumption DEF KnowledgeTypes, SourceTypes, Known, SpaceCopy, DocumentCopy
<1>6. SourceTypes'
  <2>1. IsFiniteSet(spaceRows \ {row})
    BY <1>1, FS_RemoveElement DEF KnowledgeTypes, SourceTypes
  <2>2. IsFiniteSet((spaceRows \ {row}) \cup {saved})
    BY <2>1, FS_AddElement
  <2>3. \A r \in spaceRows \ {row} : r.id # saved.id
    BY <1>1, <1>5 DEF KnowledgeTypes, SourceTypes
  <2> QED BY <1>1, <1>5, <2>2, <2>3 DEF KnowledgeTypes, SourceTypes
<1>7. KnowledgeTypes'
  <2>1. KnowledgeCall(new)
    BY <1>3, <1>4, <1>5 DEF KnowledgeCall, IsKnowledgeAnswer, DocumentCreates, DocumentUpdates
  <2>2. KnowledgeCall(new)' /\ issued' \in Nat /\ issued <= issued'
    BY <1>1, <1>5, <2>1, KnownStays
  <2> QED BY <1>1, <1>4, <1>6, <2>2, ServingTypes
<1>8. ASSUME Settled
      PROVE  /\ StillTrue(new)' /\ \A d \in calls : d # c => StillTrue(d)'
             /\ SpacesShown' /\ DocumentsShown' /\ RagShown' /\ FormsShown'
  <2>1. /\ \A d \in calls : d # c => Carried(d)
        /\ \A d \in calls' : Behind(d)
        /\ UNCHANGED <<knowledgeSpaces, knowledgeDocuments, ragProviders, panelTab, editingSpace,
                       documentSpaceId, editingDocument, confirmation, loadedParts, reopened, mixed>>
    BY <1>4, ServingCarries
  <2>2. \A d \in calls : Landed(d, DocumentWrites \cup SpaceWrites \cup {"rag"}) => Carried(d) /\ d # c
    BY <2>1 DEF Landed
  <2>3. IdsOf(spaceRows') = IdsOf(spaceRows)
    BY <1>5 DEF IdsOf
  <2>4. \A s : DocumentsOf(s)' = DocumentsOf(s)
    BY DEF DocumentsOf
  <2>5. StillTrue(new)'
    BY <1>3, <1>4 DEF StillTrue, Landed, DocumentCreates, DocumentUpdates
  <2>11. \A d \in calls : Landed(d, {"createSpace"}) => d.reply.id # c.space
    <3>1. SpaceHeard(c.space)
      BY DEF SpaceHeard, OfSpace
    <3> QED BY <1>8, <3>1 DEF Settled, NewRows
  <2>6. ASSUME NEW d \in calls, d # c PROVE StillTrue(d)'
    <3>1. StillTrue(d) /\ KnowledgeCall(d)
      BY <1>1, <1>8 DEF Settled, KnowledgeTypes
    <3>2. d.kind # "workspace" /\ (d.kind = "updateSpace" => d.space # c.space)
      BY <1>8, <2>6, NoneCrosses DEF Conflict, Loads, SameRow, SpaceWrites
    <3>3. Landed(d, {"updateSpace"}) => d.reply.id # c.space
      BY <3>1, <3>2 DEF KnowledgeCall, IsKnowledgeAnswer, Landed
    <3>4. Landed(d, {"createSpace", "updateSpace"}) => d.reply \in spaceRows'
      BY <2>11, <3>1, <3>3 DEF StillTrue, Landed
    <3> QED BY <2>3, <2>4, <3>1, <3>2, <3>4 DEF StillTrue
  <2>7. SpacesShown'
    <3>1. \A copy \in ToSet(knowledgeSpaces) :
            copy \in spaceRows' \/ \E d \in calls' : Landed(d, {"updateSpace", "deleteSpace"}) /\ d.space = copy.id
      BY <1>3, <1>4, <1>8 DEF Settled, SpacesShown, Landed
    <3>2. ASSUME "spaces" \in loadedParts, NEW r \in spaceRows'
          PROVE  HasId(knowledgeSpaces, r.id) \/ \E d \in calls' : Landed(d, {"createSpace"}) /\ d.reply = r
      <4>1. CASE r = saved
        BY <1>5, <1>8, <2>11, <3>2, <4>1 DEF Settled, SpacesShown, Landed
      <4>2. CASE r \in spaceRows
        BY <1>4, <1>8, <3>2, <4>2 DEF Settled, SpacesShown, Landed
      <4> QED BY <4>1, <4>2
    <3> QED BY <1>8, <2>1, <3>1, <3>2 DEF Settled, SpacesShown
  <2>8. DocumentsShown'
    <3> SUFFICES ASSUME NEW s \in Ids, knowledgeDocuments[s] # NoOne PROVE Shows(s, knowledgeDocuments[s])'
      BY <2>1 DEF DocumentsShown
    <3>1. PICK list : list = knowledgeDocuments[s]
      OBVIOUS
    <3>2. Shows(s, list)
      BY <1>8, <3>1 DEF Settled, DocumentsShown
    <3>3. \A d \in calls : Landed(d, DocumentWrites \cup {"deleteSpace"}) /\ d.space = s => Carried(d)
      BY <2>2 DEF Landed, SpaceWrites
    <3>4. Shows(s, list)'
      BY <1>8, <2>3, <2>4, <3>2, <3>3, ShowsStay DEF Settled
    <3> QED BY <2>1, <3>1, <3>4
  <2>9. RagShown'
    BY <1>8, <2>1, <2>2, RagStays DEF Settled, Landed
  <2>10. FormsShown'
    <3> SUFFICES ASSUME ~reopened PROVE SpaceFormShown' /\ DocumentFormShown'
      BY <2>1 DEF FormsShown
    <3>1. SpaceFormShown /\ DocumentFormShown
      BY <1>8 DEF Settled
    <3>2. SpaceFormShown'
      BY <2>1, <2>2, <2>3, <3>1, SpaceFormStays DEF Landed, SpaceWrites
    <3>3. \A j, s : DocumentKept(j, s) => DocumentKept(j, s)'
      BY <1>4, <2>3 DEF DocumentKept, Landed
    <3> QED BY <2>1, <3>1, <3>2, <3>3, DocumentFormStays
  <2> QED BY <2>5, <2>6, <2>7, <2>8, <2>9, <2>10
<1>9. ~Landed(new, {"createSpace"} \cup DocumentCreates)
  BY <1>4 DEF Landed, DocumentCreates
<1> QED BY <1>4, <1>7, <1>8, <1>9, ServingKeeps

(* deleted with its documents.                                             *)
LEMMA DeleteSpaceKeeps ==
  ASSUME KnowledgeInv, NEW c \in calls, c.phase = "sent", c.kind = "deleteSpace",
         spaceRows' = {r \in spaceRows : r.id # c.space},
         documentRows' = documentRows \ DocumentsOf(c.space), Answer(c, NoOne),
         UNCHANGED <<ragRows, issued, caches, panelTab, forms, histories, mixed>>
  PROVE  KnowledgeInv'
<1>1. KnowledgeTypes /\ KnowledgeCall(c)
  BY DEF KnowledgeInv, KnowledgeTypes
<1>2. PICK new : new = Reply(c, NoOne)
  OBVIOUS
<1>3. /\ Alike(new, c) /\ new.mine = c.mine /\ new.phase = "answered"
      /\ IsKnowledgeRequest(new) /\ "reply" \in DOMAIN new
  BY <1>1, <1>2, RepliedIs
<1>4. /\ Serving(c, new) /\ calls' = (calls \ {c}) \cup {new} /\ new.kind = "deleteSpace"
      /\ new.space = c.space
  BY <1>2, <1>3 DEF Serving, Answer, Become, Alike, OfSpace
<1>5. /\ issued \in Nat /\ SpaceCopy' = SpaceCopy /\ DocumentCopy' = DocumentCopy
  BY <1>1, KnowledgeAssumption DEF KnowledgeTypes, SourceTypes, Known, SpaceCopy, DocumentCopy
<1>10. spaceRows' \subseteq spaceRows /\ documentRows' \subseteq documentRows
  OBVIOUS
<1>6. SourceTypes'
  <2>1. IsFiniteSet(spaceRows') /\ IsFiniteSet(documentRows')
    BY <1>1, <1>10, FS_Subset DEF KnowledgeTypes, SourceTypes
  <2> QED BY <1>1, <1>5, <1>10, <2>1 DEF KnowledgeTypes, SourceTypes
<1>7. KnowledgeTypes'
  <2>1. KnowledgeCall(new)
    BY <1>3, <1>4, <1>5 DEF KnowledgeCall, IsKnowledgeAnswer, DocumentCreates, DocumentUpdates
  <2>2. KnowledgeCall(new)' /\ issued' \in Nat /\ issued <= issued'
    BY <1>1, <1>5, <2>1, KnownStays
  <2> QED BY <1>1, <1>4, <1>6, <2>2, ServingTypes
<1>8. ASSUME Settled
      PROVE  /\ StillTrue(new)' /\ \A d \in calls : d # c => StillTrue(d)'
             /\ SpacesShown' /\ DocumentsShown' /\ RagShown' /\ FormsShown'
  <2>1. /\ \A d \in calls : d # c => Carried(d)
        /\ \A d \in calls' : Behind(d)
        /\ UNCHANGED <<knowledgeSpaces, knowledgeDocuments, ragProviders, panelTab, editingSpace,
                       documentSpaceId, editingDocument, confirmation, loadedParts, reopened, mixed>>
    BY <1>4, ServingCarries
  <2>2. \A d \in calls : Landed(d, DocumentWrites \cup SpaceWrites \cup {"rag"}) => Carried(d) /\ d # c
    BY <2>1 DEF Landed
  <2>3. /\ \A i : i \in IdsOf(spaceRows') <=> i \in IdsOf(spaceRows) /\ i # c.space
        /\ \A i : i \in IdsOf(documentRows') => i \in IdsOf(documentRows)
    BY <1>10 DEF IdsOf
  <2>4. /\ \A s : s # c.space => DocumentsOf(s)' = DocumentsOf(s)
        /\ \A d \in documentRows : d.space # c.space => d \in documentRows'
        /\ \A d \in documentRows' : d.space # c.space
    BY DEF DocumentsOf
  <2>12. SpaceGone(c.space)'
    BY <1>3, <1>4 DEF SpaceGone, Landed
  <2>5. StillTrue(new)'
    BY <1>3, <1>4, <2>3 DEF StillTrue, Landed, DocumentCreates, DocumentUpdates
  <2>11. \A d \in calls : Landed(d, {"createSpace"}) => d.reply.id # c.space
    <3>1. SpaceHeard(c.space)
      BY DEF SpaceHeard, OfSpace
    <3> QED BY <1>8, <3>1 DEF Settled, NewRows
  <2>6. ASSUME NEW d \in calls, d # c PROVE StillTrue(d)'
    <3>1. StillTrue(d) /\ KnowledgeCall(d)
      BY <1>1, <1>8 DEF Settled, KnowledgeTypes
    <3>2. /\ d.kind # "workspace" /\ (d.kind = "updateSpace" => d.space # c.space)
          /\ d.kind \in DocumentWrites \cup {"documents"} => d.space # c.space
      BY <1>8, <2>6, NoneCrosses DEF Conflict, Loads, SameRow, SpaceWrites
    <3>3. Landed(d, {"updateSpace"}) => d.reply.id # c.space
      BY <3>1, <3>2 DEF KnowledgeCall, IsKnowledgeAnswer, Landed
    <3>4. Landed(d, {"createSpace", "updateSpace"}) => d.reply \in spaceRows'
      BY <2>11, <3>1, <3>3 DEF StillTrue, Landed
    <3>5. d.phase = "checked" /\ d.kind \in DocumentUpdates => d.row \in documentRows' /\ d.row.space = d.space
      BY <2>4, <3>1, <3>2 DEF StillTrue, DocumentWrites
    <3>6. Landed(d, DocumentCreates \cup DocumentUpdates) => d.reply \in documentRows' /\ d.reply.space = d.space
      BY <2>4, <3>1, <3>2 DEF StillTrue, DocumentWrites, Landed
    <3>7. Landed(d, {"documents"}) => d.space \in IdsOf(spaceRows') /\ Exact(d.reply, DocumentsOf(d.space)')
      BY <2>3, <2>4, <3>1, <3>2 DEF StillTrue, Landed
    <3>8. /\ Landed(d, {"deleteSpace"}) => d.space \notin IdsOf(spaceRows')
          /\ Landed(d, {"deleteDocument"}) => d.document \notin IdsOf(documentRows')
          /\ Landed(d, {"rag"}) => d.reply = ragRows'
      BY <2>3, <3>1 DEF StillTrue
    <3>9. DocumentsOf(d.space)' = {r \in documentRows' : r.space = d.space}
      BY DEF DocumentsOf
    <3> QED BY <3>2, <3>4, <3>5, <3>6, <3>7, <3>8, <3>9 DEF StillTrue, DocumentsOf
  <2>7. SpacesShown'
    <3>1. \A copy \in ToSet(knowledgeSpaces) :
            copy \in spaceRows' \/ \E d \in calls' : Landed(d, {"updateSpace", "deleteSpace"}) /\ d.space = copy.id
      BY <1>3, <1>4, <1>8 DEF Settled, SpacesShown, Landed
    <3>2. "spaces" \in loadedParts => \A r \in spaceRows' :
            HasId(knowledgeSpaces, r.id) \/ \E d \in calls' : Landed(d, {"createSpace"}) /\ d.reply = r
      BY <1>4, <1>8, <1>10 DEF Settled, SpacesShown, Landed
    <3> QED BY <1>8, <2>1, <3>1, <3>2 DEF Settled, SpacesShown
  <2>8. DocumentsShown'
    <3> SUFFICES ASSUME NEW s \in Ids, knowledgeDocuments[s] # NoOne PROVE Shows(s, knowledgeDocuments[s])'
      BY <2>1 DEF DocumentsShown
    <3>1. PICK list : list = knowledgeDocuments[s]
      OBVIOUS
    <3>2. Shows(s, list)
      BY <1>8, <3>1 DEF Settled, DocumentsShown
    <3>3. \A d \in calls : Landed(d, DocumentWrites \cup {"deleteSpace"}) /\ d.space = s => Carried(d)
      BY <2>2 DEF Landed, SpaceWrites
    <3>4. CASE s # c.space
      <4>1. Shows(s, list)'
        BY <1>8, <2>3, <2>4, <3>2, <3>3, <3>4, ShowsStay DEF Settled
      <4> QED BY <2>1, <3>1, <4>1
    <3>5. CASE s = c.space
      <4>1. DocumentsOf(s)' = {}
        BY <3>5 DEF DocumentsOf
      <4>2. SpaceGone(s)'
        BY <2>12, <3>5
      <4>3. Shows(s, list)'
        BY <3>2, <4>1, <4>2 DEF Shows
      <4> QED BY <2>1, <3>1, <4>3
    <3> QED BY <3>4, <3>5
  <2>9. RagShown'
    BY <1>8, <2>1, <2>2, RagStays DEF Settled, Landed
  <2>10. FormsShown'
    <3> SUFFICES ASSUME ~reopened PROVE SpaceFormShown' /\ DocumentFormShown'
      BY <2>1 DEF FormsShown
    <3>1. SpaceFormShown /\ DocumentFormShown
      BY <1>8 DEF Settled
    <3>4. documentSpaceId = c.space => SpaceGone(documentSpaceId)'
      BY <1>3, <1>4, <2>1 DEF SpaceGone, Landed
    <3>2. SpaceFormShown'
      BY <2>1, <2>2, <2>3, <3>1, <3>4, SpaceFormStays DEF Landed, SpaceWrites
    <3>3. ASSUME NEW j, NEW s, DocumentKept(j, s) PROVE DocumentKept(j, s)'
      <4>1. ASSUME NEW d \in documentRows, d.id = j, d.space = s PROVE DocumentKept(j, s)'
        BY <2>3, <2>4, <4>1 DEF DocumentKept
      <4>2. \A d \in calls : Landed(d, {"deleteDocument"}) => d \in calls'
        BY <1>4 DEF Landed
      <4>3. s \notin IdsOf(spaceRows) => s \notin IdsOf(spaceRows')
        BY <2>3
      <4> QED BY <3>3, <4>1, <4>2, <4>3 DEF DocumentKept
    <3> QED BY <2>1, <3>1, <3>2, <3>3, DocumentFormStays
  <2> QED BY <2>5, <2>6, <2>7, <2>8, <2>9, <2>10
<1>9. ~Landed(new, {"createSpace"} \cup DocumentCreates)
  BY <1>4 DEF Landed, DocumentCreates
<1> QED BY <1>4, <1>7, <1>8, <1>9, ServingKeeps

(* Any of these.                                                           *)
LEMMA ServeSpacesKeeps == ASSUME KnowledgeInv, ServeSpaces PROVE KnowledgeInv'
<1>1. PICK c \in calls :
    /\ c.phase = "sent"
    /\ \/ /\ c.kind = "createSpace" /\ issued < MaxRows
          /\ LET row == [id |-> issued + 1, rev |-> 0]
             IN  spaceRows' = spaceRows \cup {row} /\ Answer(c, row)
          /\ issued' = issued + 1 /\ UNCHANGED documentRows
       \/ /\ c.kind = "updateSpace" /\ SpaceExists(c)
          /\ LET row == CHOOSE r \in spaceRows : r.id = c.space
                 new == [row EXCEPT !.rev = @ + 1]
             IN  spaceRows' = (spaceRows \ {row}) \cup {new} /\ Answer(c, new)
          /\ UNCHANGED <<documentRows, issued>>
       \/ /\ c.kind = "deleteSpace" /\ SpaceExists(c)
          /\ spaceRows' = {r \in spaceRows : r.id # c.space}
          /\ documentRows' = documentRows \ DocumentsOf(c.space)
          /\ Answer(c, NoOne) /\ UNCHANGED issued
       \/ /\ c.kind \in {"updateSpace", "deleteSpace"} /\ ~SpaceExists(c)
          /\ Refuse(c) /\ UNCHANGED <<spaceRows, documentRows, issued>>
    /\ UNCHANGED <<ragRows, caches, panelTab, forms, acts, histories, mixed>>
  BY DEF ServeSpaces
<1>2. CASE c.kind = "createSpace"
  <2>1. PICK row : row = [id |-> issued + 1, rev |-> 0]
    OBVIOUS
  <2> QED BY <1>1, <1>2, <2>1, CreateSpaceKeeps
<1>3. CASE c.kind = "updateSpace" /\ SpaceExists(c)
  <2>1. PICK row : row = CHOOSE r \in spaceRows : r.id = c.space
    OBVIOUS
  <2>2. row \in spaceRows /\ row.id = c.space
    BY <1>3, <2>1 DEF SpaceExists, IdsOf
  <2>3. PICK saved : saved = [row EXCEPT !.rev = @ + 1]
    OBVIOUS
  <2>4. /\ spaceRows' = (spaceRows \ {row}) \cup {saved} /\ Answer(c, saved)
        /\ UNCHANGED <<documentRows, issued>>
    BY <1>1, <1>3, <2>1, <2>3
  <2> QED BY <1>1, <1>3, <2>2, <2>3, <2>4, UpdateSpaceKeeps
<1>4. CASE c.kind = "deleteSpace" /\ SpaceExists(c)
  BY <1>1, <1>4, DeleteSpaceKeeps
<1>5. CASE ~SpaceExists(c) /\ c.kind # "createSpace"
  <2>1. c.kind \in {"updateSpace", "deleteSpace"} /\ Refuse(c) /\ UNCHANGED serverRows
    BY <1>1, <1>5 DEF serverRows
  <2> QED BY <1>1, <2>1, RefusingKeeps DEF Refuse
<1> QED BY <1>1, <1>2, <1>3, <1>4, <1>5

(* One document of the space of a request is changed.  What the others     *)
(* were told is still so.                                                  *)
Touches(c, j) ==
  /\ c.kind \in DocumentWrites
  /\ (c.kind \in OfDocument /\ j = c.document) \/ j \notin Known
  /\ \A s : s # c.space => {d \in documentRows' : d.space = s} = DocumentsOf(s)
  /\ \A r \in documentRows : r.id # j => r \in documentRows'
  /\ \A r \in documentRows' : r.id \in IdsOf(documentRows) \/ (j \notin Known /\ r.id = j)

(* What others were told is still so.                                      *)
LEMMA TouchedElse ==
  ASSUME KnowledgeTypes, Settled, NEW c \in calls, NEW j, Touches(c, j), UNCHANGED <<spaceRows, ragRows>>,
         NEW d \in calls, d # c
  PROVE  StillTrue(d)'
<1>1. StillTrue(d) /\ KnowledgeCall(d) /\ c.kind \in DocumentWrites
  BY DEF Settled, KnowledgeTypes, Touches
<1>2. /\ d.kind = "documents" => d.space # c.space
      /\ c.kind \in OfDocument /\ d.kind \in OfDocument => d.document # c.document
  BY <1>1, NoneCrosses DEF Conflict, Loads, SameRow, OfDocument
<1>3. Landed(d, DocumentCreates) => d.reply.id # j
  <2>1. ASSUME Landed(d, DocumentCreates), c.kind \in OfDocument PROVE d.reply.id # c.document
    <3>1. DocumentHeard(c.document)
      BY <2>1 DEF DocumentHeard
    <3> QED BY <2>1, <3>1 DEF Settled, NewRows
  <2>2. Landed(d, DocumentCreates) => d.reply.id \in Known
    BY <1>1 DEF KnowledgeCall, IsKnowledgeAnswer, Landed, DocumentCopy
  <2> QED BY <2>1, <2>2 DEF Touches
<1>4. ASSUME d.kind \in OfDocument PROVE d.document # j
  <2>1. d.document \in Known
    BY <1>1, <1>4 DEF KnowledgeCall, IsKnowledgeRequest, IsAsk
  <2> QED BY <1>2, <1>4, <2>1 DEF Touches
<1>5. d.phase = "checked" /\ d.kind \in DocumentUpdates => d.row \in documentRows' /\ d.row.space = d.space
  <2>1. d.phase = "checked" /\ d.kind \in DocumentUpdates => d.row.id # j
    BY <1>1, <1>4 DEF KnowledgeCall, IsKnowledgeRequest, OfDocument
  <2> QED BY <1>1, <2>1 DEF StillTrue, Touches
<1>6. Landed(d, DocumentCreates \cup DocumentUpdates) => d.reply \in documentRows' /\ d.reply.space = d.space
  <2>1. Landed(d, DocumentUpdates) => d.reply.id # j
    BY <1>1, <1>4 DEF KnowledgeCall, IsKnowledgeAnswer, Landed, OfDocument
  <2> QED BY <1>1, <1>3, <2>1 DEF StillTrue, Touches, Landed
<1>7. Landed(d, {"deleteDocument"}) => d.document \notin IdsOf(documentRows')
  <2>1. ASSUME Landed(d, {"deleteDocument"}), NEW r \in documentRows', r.id = d.document PROVE FALSE
    <3>1. d.document \notin IdsOf(documentRows) /\ d.document # j
      BY <1>1, <1>4, <2>1 DEF StillTrue, Landed, OfDocument
    <3> QED BY <2>1, <3>1 DEF Touches
  <2> QED BY <2>1 DEF IdsOf
<1>8. Landed(d, {"documents"}) =>
        d.space \in IdsOf(spaceRows) /\ Exact(d.reply, {r \in documentRows' : r.space = d.space})
  <2>1. Landed(d, {"documents"}) => {r \in documentRows' : r.space = d.space} = DocumentsOf(d.space)
    BY <1>2 DEF Touches, Landed
  <2> QED BY <1>1, <2>1 DEF StillTrue
<1>9. DocumentsOf(d.space)' = {r \in documentRows' : r.space = d.space}
  BY DEF DocumentsOf
<1> QED BY <1>1, <1>5, <1>6, <1>7, <1>8, <1>9 DEF StillTrue

(* The step keeps the invariant if the list of that space is right.        *)
LEMMA TouchingKeeps ==
  ASSUME KnowledgeInv, KnowledgeTypes', NEW c \in calls, NEW new, NEW j, Serving(c, new), Touches(c, j),
         UNCHANGED <<spaceRows, ragRows>>, c.phase \in {"sent", "checked"},
         Landed(new, DocumentCreates) => new.reply.id \notin Known,
         Settled =>
           /\ StillTrue(new)'
           /\ \A list : Shows(c.space, list) => Shows(c.space, list)'
           /\ \A i, s : DocumentKept(i, s) => DocumentKept(i, s)'
  PROVE  KnowledgeInv'
<1>1. KnowledgeTypes /\ calls' = (calls \ {c}) \cup {new} /\ c.kind \in DocumentWrites /\ new.kind = c.kind
  BY DEF KnowledgeInv, Serving, Touches, Alike
<1>2. ASSUME Settled PROVE SpacesShown' /\ DocumentsShown' /\ RagShown' /\ FormsShown'
  <2>1. /\ \A d \in calls : d # c => Carried(d)
        /\ \A d \in calls' : Behind(d)
        /\ UNCHANGED <<knowledgeSpaces, knowledgeDocuments, ragProviders, panelTab, editingSpace,
                       documentSpaceId, editingDocument, confirmation, loadedParts, reopened, mixed>>
    BY ServingCarries
  <2>2. \A d \in calls : Landed(d, DocumentWrites \cup SpaceWrites \cup {"rag"}) => Carried(d)
    BY <2>1 DEF Landed
  <2>3. SpacesShown' /\ RagShown'
    BY <1>2, <2>1, <2>2, SpacesStay, RagStays DEF Settled, Landed
  <2>4. DocumentsShown'
    <3> SUFFICES ASSUME NEW s \in Ids, knowledgeDocuments[s] # NoOne PROVE Shows(s, knowledgeDocuments[s])'
      BY <2>1 DEF DocumentsShown
    <3>1. PICK list : list = knowledgeDocuments[s]
      OBVIOUS
    <3>2. Shows(s, list)
      BY <1>2, <3>1 DEF Settled, DocumentsShown
    <3>3. \A d \in calls : Landed(d, DocumentWrites \cup {"deleteSpace"}) /\ d.space = s => Carried(d)
      BY <2>2 DEF Landed, SpaceWrites
    <3>4. ASSUME s # c.space PROVE Shows(s, list)'
      <4>1. DocumentsOf(s)' = DocumentsOf(s)
        <5>1. DocumentsOf(s)' = {d \in documentRows' : d.space = s}
          BY DEF DocumentsOf
        <5> QED BY <3>4, <5>1 DEF Touches
      <4> QED BY <1>2, <3>2, <3>3, <4>1, ShowsStay DEF Settled
    <3>5. ASSUME s = c.space PROVE Shows(s, list)'
      BY <1>2, <3>2, <3>5
    <3> QED BY <2>1, <3>1, <3>4, <3>5
  <2>5. FormsShown'
    BY <1>2, <2>1, <2>2, SpaceFormStays, DocumentFormStays DEF Settled, FormsShown, Landed, SpaceWrites
  <2> QED BY <2>3, <2>4, <2>5
<1>3. Landed(new, {"createSpace"} \cup DocumentCreates) => new.reply.id \notin Known
  BY <1>1 DEF Landed, DocumentWrites, DocumentCreates, DocumentUpdates
<1> QED BY <1>1, <1>2, <1>3, TouchedElse, ServingKeeps

(* A document is created,                                                  *)
LEMMA CreateDocumentKeeps ==
  ASSUME KnowledgeInv, NEW c \in calls, c.phase = "checked", c.kind \in DocumentCreates, issued < MaxRows,
         NEW kind \in Kinds, NEW row, row = NewDocument(c, kind),
         documentRows' = documentRows \cup {row}, Answer(c, row), issued' = issued + 1,
         UNCHANGED <<spaceRows, ragRows, caches, panelTab, forms, histories, mixed>>
  PROVE  KnowledgeInv'
<1>1. KnowledgeTypes /\ KnowledgeCall(c)
  BY DEF KnowledgeInv, KnowledgeTypes
<1>2. PICK new : new = Reply(c, row)
  OBVIOUS
<1>3. /\ Alike(new, c) /\ new.mine = c.mine /\ new.phase = "answered" /\ new.reply = row
      /\ IsKnowledgeRequest(new) /\ "reply" \in DOMAIN new
  BY <1>1, <1>2, RepliedIs
<1>4. /\ Serving(c, new) /\ calls' = (calls \ {c}) \cup {new} /\ new.kind \in DocumentCreates
      /\ new.space = c.space
  BY <1>2, <1>3 DEF Serving, Answer, Become, Alike, OfSpace, DocumentWrites
<1>5. /\ issued \in Nat /\ issued' \in Nat /\ issued <= issued' /\ issued' \in 0 .. MaxRows
      /\ c.space \in Known
      /\ row.id = issued + 1 /\ row.space = c.space /\ row.id \notin Known /\ row \in DocumentCopy'
  <2>1. issued \in Nat /\ issued' \in Nat /\ issued <= issued' /\ issued' \in 0 .. MaxRows
    BY <1>1, KnowledgeAssumption DEF KnowledgeTypes, SourceTypes
  <2>2. c.space \in Known
    BY <1>1 DEF KnowledgeCall, IsKnowledgeRequest, IsAsk, OfSpace, DocumentWrites
  <2> QED BY <2>1, <2>2 DEF Known, DocumentCopy, NewDocument
<1>6. SourceTypes'
  <2>1. SpaceCopy \subseteq SpaceCopy' /\ DocumentCopy \subseteq DocumentCopy'
    BY <1>1, <1>5, KnownGrows
  <2>2. IsFiniteSet(documentRows \cup {row})
    BY <1>1, FS_AddElement DEF KnowledgeTypes, SourceTypes
  <2>3. \A r \in documentRows : r.id # row.id
    BY <1>1, <1>5 DEF KnowledgeTypes, SourceTypes, DocumentCopy
  <2> QED BY <1>1, <1>5, <2>1, <2>2, <2>3 DEF KnowledgeTypes, SourceTypes
<1>7. KnowledgeTypes'
  <2>1. KnowledgeCall(new)'
    <3>1. IsKnowledgeRequest(new)'
      <4>1. IsAsk(new)'
        BY <1>1, <1>3, <1>5, KnownGrows DEF IsKnowledgeRequest
      <4> QED BY <1>3, <1>4, <4>1 DEF IsKnowledgeRequest
    <3>2. IsKnowledgeAnswer(new)'
      BY <1>3, <1>4, <1>5 DEF IsKnowledgeAnswer, DocumentCreates, DocumentUpdates
    <3> QED BY <3>1, <3>2 DEF KnowledgeCall
  <2> QED BY <1>1, <1>4, <1>5, <1>6, <2>1, ServingTypes
<1>8. Touches(c, row.id)
  BY <1>5 DEF Touches, DocumentWrites, DocumentsOf, IdsOf
<1>9. StillTrue(new)'
  BY <1>3, <1>4, <1>5 DEF StillTrue, Landed, DocumentCreates, DocumentUpdates
<1>10. ASSUME NEW list, Shows(c.space, list) PROVE Shows(c.space, list)'
  <2>1. \A d \in calls : d.phase = "answered" => d \in calls'
    BY <1>4
  <2>2. SpaceGone(c.space) => SpaceGone(c.space)'
    BY <2>1 DEF SpaceGone, Landed
  <2>3. /\ \A copy \in ToSet(list) :
             \/ copy \in documentRows' \/ SpaceGone(c.space)'
             \/ \E d \in calls' : Landed(d, OfDocument) /\ d.document = copy.id /\ d.space = c.space
        /\ c.space \in IdsOf(spaceRows) \/ SpaceGone(c.space)'
    BY <1>10, <2>1, <2>2 DEF Shows, Landed
  <2>4. ASSUME NEW r \in documentRows', r.space = c.space
        PROVE  HasId(list, r.id) \/ \E d \in calls' : Landed(d, DocumentCreates) /\ d.reply = r
    <3>1. CASE r = row
      BY <1>3, <1>4, <3>1 DEF Landed
    <3>2. CASE r \in documentRows
      BY <1>10, <2>1, <2>4, <3>2 DEF Shows, Landed, DocumentsOf
    <3> QED BY <3>1, <3>2
  <2>5. \A r \in DocumentsOf(c.space)' : r \in documentRows' /\ r.space = c.space
    BY DEF DocumentsOf
  <2> QED BY <1>10, <2>3, <2>4, <2>5 DEF Shows
<1>11. \A i, s : DocumentKept(i, s) => DocumentKept(i, s)'
  BY <1>4 DEF DocumentKept, Landed
<1>12. Landed(new, DocumentCreates) => new.reply.id \notin Known
  BY <1>3, <1>5
<1> QED BY <1>4, <1>7, <1>8, <1>9, <1>10, <1>11, <1>12, TouchingKeeps

(* changed,                                                                *)
LEMMA UpdateDocumentKeeps ==
  ASSUME KnowledgeInv, NEW c \in calls, c.phase = "checked", c.kind \in DocumentUpdates,
         NEW row, row = [c.row EXCEPT !.rev = @ + 1],
         documentRows' = {d \in documentRows : d.id # row.id} \cup {row}, Answer(c, row),
         UNCHANGED <<spaceRows, ragRows, issued, caches, panelTab, forms, histories, mixed>>
  PROVE  KnowledgeInv'
<1>1. KnowledgeTypes /\ KnowledgeCall(c)
  BY DEF KnowledgeInv, KnowledgeTypes
<1>2. PICK new : new = Reply(c, row)
  OBVIOUS
<1>3. /\ Alike(new, c) /\ new.mine = c.mine /\ new.phase = "answered" /\ new.reply = row
      /\ IsKnowledgeRequest(new) /\ "reply" \in DOMAIN new
  BY <1>1, <1>2, RepliedIs
<1>4. /\ Serving(c, new) /\ calls' = (calls \ {c}) \cup {new} /\ new.kind \in DocumentUpdates
      /\ new.space = c.space /\ new.document = c.document
      /\ c.kind \in DocumentWrites /\ c.kind \in OfDocument /\ new.kind \notin DocumentCreates
  BY <1>2, <1>3 DEF Serving, Answer, Become, Alike, OfSpace, OfDocument, DocumentWrites,
                    DocumentCreates, DocumentUpdates
<1>5. /\ issued \in Nat /\ c.row \in DocumentCopy /\ c.row.id = c.document
      /\ row \in DocumentCopy /\ row.id = c.document /\ row.space = c.row.space
      /\ SpaceCopy' = SpaceCopy /\ DocumentCopy' = DocumentCopy
  <2>1. c.row \in DocumentCopy /\ c.row.id = c.document
    BY <1>1 DEF KnowledgeCall, IsKnowledgeRequest
  <2> QED BY <1>1, <2>1, KnowledgeAssumption DEF KnowledgeTypes, SourceTypes, Known, SpaceCopy, DocumentCopy
<1>6. SourceTypes'
  <2>1. {d \in documentRows : d.id # row.id} \in SUBSET documentRows
    OBVIOUS
  <2>2. IsFiniteSet({d \in documentRows : d.id # row.id})
    BY <1>1, <2>1, FS_Subset DEF KnowledgeTypes, SourceTypes
  <2>3. IsFiniteSet(documentRows')
    BY <2>2, FS_AddElement
  <2>4. documentRows' \subseteq DocumentCopy /\ \A d, e \in documentRows' : d.id = e.id => d = e
    BY <1>1, <1>5 DEF KnowledgeTypes, SourceTypes
  <2> QED BY <1>1, <1>5, <2>3, <2>4 DEF KnowledgeTypes, SourceTypes
<1>7. KnowledgeTypes'
  <2>1. KnowledgeCall(new)
    BY <1>3, <1>4, <1>5 DEF KnowledgeCall, IsKnowledgeAnswer, DocumentUpdates
  <2>2. KnowledgeCall(new)' /\ issued' \in Nat /\ issued <= issued'
    BY <1>1, <1>5, <2>1, KnownStays
  <2> QED BY <1>1, <1>4, <1>6, <2>2, ServingTypes
<1>8. CASE ~Straight
  <2>1. ~Straight'
    <3>1. UNCHANGED mixed
      BY <1>4, ServingCarries
    <3> QED BY <1>4, <1>8, <3>1 DEF Straight, Lost
  <2> QED BY <1>7, <2>1 DEF KnowledgeInv
<1>9. CASE Straight
  <2>1. Settled /\ c.row \in documentRows /\ c.row.space = c.space
    BY <1>9 DEF KnowledgeInv, Settled, StillTrue
  <2>2. /\ \A d \in documentRows : d.id = c.document => d = c.row
        /\ \A d \in documentRows' : d = row \/ (d \in documentRows /\ d.id # c.document)
        /\ \A d \in documentRows : d = c.row \/ d \in documentRows'
        /\ row.space = c.space /\ row \in documentRows'
    BY <1>1, <1>5, <2>1 DEF KnowledgeTypes, SourceTypes
  <2>3. Touches(c, c.document)
    <3>1. \A s : s # c.space => {d \in documentRows' : d.space = s} = DocumentsOf(s)
      BY <1>5, <2>1, <2>2 DEF DocumentsOf
    <3> QED BY <1>4, <1>5, <2>1, <2>2, <3>1 DEF Touches, IdsOf
  <2>4. StillTrue(new)'
    BY <1>3, <1>4, <2>2 DEF StillTrue, Landed, DocumentCreates, DocumentUpdates
  <2>5. ASSUME NEW list, Shows(c.space, list) PROVE Shows(c.space, list)'
    <3>1. \A d \in calls : d.phase = "answered" => d \in calls'
      BY <1>4
    <3>2. SpaceGone(c.space) => SpaceGone(c.space)'
      BY <3>1 DEF SpaceGone, Landed
    <3>3. ASSUME NEW copy \in ToSet(list)
          PROVE  \/ copy \in documentRows' \/ SpaceGone(c.space)'
                 \/ \E d \in calls' : Landed(d, OfDocument) /\ d.document = copy.id /\ d.space = c.space
      <4>1. CASE copy = c.row
        BY <1>3, <1>4, <1>5, <4>1 DEF Landed, OfDocument
      <4>2. CASE copy # c.row
        BY <2>2, <2>5, <3>1, <3>2, <4>2 DEF Shows, Landed
      <4> QED BY <4>1, <4>2
    <3>4. ASSUME NEW r \in documentRows', r.space = c.space
          PROVE  HasId(list, r.id) \/ \E d \in calls' : Landed(d, DocumentCreates) /\ d.reply = r
      <4>1. CASE r = row
        <5>1. DocumentHeard(c.document)
          BY <1>4 DEF DocumentHeard
        <5>2. \A d \in calls : Landed(d, DocumentCreates) => d.reply # c.row
          BY <1>5, <2>1, <5>1 DEF Settled, NewRows
        <5>3. c.row \in DocumentsOf(c.space)
          BY <2>1 DEF DocumentsOf
        <5> QED BY <1>5, <2>5, <4>1, <5>2, <5>3 DEF Shows
      <4>2. CASE r \in documentRows
        BY <2>5, <3>1, <3>4, <4>2 DEF Shows, Landed, DocumentsOf
      <4> QED BY <2>2, <4>1, <4>2
    <3>5. \A r \in DocumentsOf(c.space)' : r \in documentRows' /\ r.space = c.space
      BY DEF DocumentsOf
    <3>6. c.space \in IdsOf(spaceRows) \/ SpaceGone(c.space)'
      BY <2>5, <3>2 DEF Shows
    <3> QED BY <2>5, <3>3, <3>4, <3>5, <3>6 DEF Shows
  <2>6. ASSUME NEW i, NEW s, DocumentKept(i, s) PROVE DocumentKept(i, s)'
    <3>1. (\E d \in documentRows : d.id = i /\ d.space = s) => \E d \in documentRows' : d.id = i /\ d.space = s
      BY <1>5, <2>1, <2>2
    <3>2. \A d \in calls : Landed(d, {"deleteDocument"}) => d \in calls'
      BY <1>4 DEF Landed
    <3> QED BY <2>6, <3>1, <3>2 DEF DocumentKept
  <2>7. ~Landed(new, DocumentCreates)
    BY <1>4 DEF Landed
  <2> QED BY <1>4, <1>7, <2>3, <2>4, <2>5, <2>6, <2>7, TouchingKeeps
<1> QED BY <1>8, <1>9

(* deleted.                                                                *)
LEMMA DeleteDocumentKeeps ==
  ASSUME KnowledgeInv, NEW c \in calls, c.phase = "sent", c.kind = "deleteDocument",
         NEW row \in documentRows, row.id = c.document, row.space = c.space,
         documentRows' = documentRows \ {row}, Answer(c, NoOne),
         UNCHANGED <<spaceRows, ragRows, issued, caches, panelTab, forms, histories, mixed>>
  PROVE  KnowledgeInv'
<1>1. KnowledgeTypes /\ KnowledgeCall(c)
  BY DEF KnowledgeInv, KnowledgeTypes
<1>2. PICK new : new = Reply(c, NoOne)
  OBVIOUS
<1>3. /\ Alike(new, c) /\ new.mine = c.mine /\ new.phase = "answered"
      /\ IsKnowledgeRequest(new) /\ "reply" \in DOMAIN new
  BY <1>1, <1>2, RepliedIs
<1>4. /\ Serving(c, new) /\ calls' = (calls \ {c}) \cup {new} /\ new.kind = "deleteDocument"
      /\ new.space = c.space /\ new.document = c.document
      /\ c.kind \in DocumentWrites /\ c.kind \in OfDocument
  BY <1>2, <1>3 DEF Serving, Answer, Become, Alike, OfSpace, OfDocument, DocumentWrites
<1>5. /\ issued \in Nat /\ SpaceCopy' = SpaceCopy /\ DocumentCopy' = DocumentCopy
  BY <1>1, KnowledgeAssumption DEF KnowledgeTypes, SourceTypes, Known, SpaceCopy, DocumentCopy
<1>6. SourceTypes'
  <2>1. documentRows' \in SUBSET documentRows
    OBVIOUS
  <2>2. IsFiniteSet(documentRows')
    BY <1>1, <2>1, FS_Subset DEF KnowledgeTypes, SourceTypes
  <2> QED BY <1>1, <1>5, <2>1, <2>2 DEF KnowledgeTypes, SourceTypes
<1>7. KnowledgeTypes'
  <2>1. KnowledgeCall(new)
    BY <1>3, <1>4, <1>5 DEF KnowledgeCall, IsKnowledgeAnswer, DocumentCreates, DocumentUpdates
  <2>2. KnowledgeCall(new)' /\ issued' \in Nat /\ issued <= issued'
    BY <1>1, <1>5, <2>1, KnownStays
  <2> QED BY <1>1, <1>4, <1>6, <2>2, ServingTypes
<1>8. \A d \in documentRows : d.id # c.document <=> d # row
  BY <1>1 DEF KnowledgeTypes, SourceTypes
<1>9. Touches(c, c.document)
  BY <1>4, <1>8 DEF Touches, IdsOf, DocumentsOf
<1>10. StillTrue(new)'
  BY <1>3, <1>4, <1>8 DEF StillTrue, Landed, DocumentCreates, DocumentUpdates, IdsOf
<1>11. ASSUME NEW list, Shows(c.space, list) PROVE Shows(c.space, list)'
  <2>1. \A d \in calls : d.phase = "answered" => d \in calls'
    BY <1>4
  <2>2. SpaceGone(c.space) => SpaceGone(c.space)'
    BY <2>1 DEF SpaceGone, Landed
  <2>3. ASSUME NEW copy \in ToSet(list)
        PROVE  \/ copy \in documentRows' \/ SpaceGone(c.space)'
               \/ \E d \in calls' : Landed(d, OfDocument) /\ d.document = copy.id /\ d.space = c.space
    <3>1. CASE copy = row
      BY <1>3, <1>4, <3>1 DEF Landed
    <3>2. CASE copy # row
      BY <1>11, <2>1, <2>2, <3>2 DEF Shows, Landed
    <3> QED BY <3>1, <3>2
  <2>4. \A r \in DocumentsOf(c.space)' : r \in DocumentsOf(c.space)
    BY DEF DocumentsOf
  <2>5. c.space \in IdsOf(spaceRows) \/ SpaceGone(c.space)'
    BY <1>11, <2>2 DEF Shows
  <2> QED BY <1>11, <2>1, <2>3, <2>4, <2>5 DEF Shows, Landed
<1>12. \A i, s : DocumentKept(i, s) => DocumentKept(i, s)'
  <2>1. \A d \in documentRows : d.id = c.document \/ d \in documentRows'
    BY <1>8
  <2>2. \A d \in calls : Landed(d, {"deleteDocument"}) => d \in calls'
    BY <1>4 DEF Landed
  <2>3. new \in calls' /\ Landed(new, {"deleteDocument"}) /\ new.document = c.document
    BY <1>3, <1>4 DEF Landed
  <2> QED BY <2>1, <2>2, <2>3 DEF DocumentKept
<1>13. ~Landed(new, DocumentCreates)
  BY <1>4 DEF Landed, DocumentCreates
<1> QED BY <1>4, <1>7, <1>9, <1>10, <1>11, <1>12, <1>13, TouchingKeeps

(* A document that was looked up is written.                               *)
LEMMA WriteDocumentKeeps == ASSUME KnowledgeInv, WriteDocument PROVE KnowledgeInv'
<1>1. PICK c \in calls :
    /\ c.phase = "checked"
    /\ \/ /\ c.kind \in DocumentCreates /\ issued < MaxRows
          /\ LET row == NewDocument(c, IF c.kind = "createDocument" THEN "text" ELSE "attachment")
             IN  documentRows' = documentRows \cup {row} /\ Answer(c, row)
          /\ issued' = issued + 1
       \/ /\ c.kind \in DocumentUpdates
          /\ LET row == [c.row EXCEPT !.rev = @ + 1]
             IN  documentRows' = {d \in documentRows : d.id # row.id} \cup {row} /\ Answer(c, row)
          /\ UNCHANGED issued
    /\ UNCHANGED <<spaceRows, ragRows, caches, panelTab, forms, acts, histories, mixed>>
  BY DEF WriteDocument
<1>2. CASE c.kind \in DocumentCreates
  <2>1. c.kind \notin DocumentUpdates
    BY <1>2 DEF DocumentCreates, DocumentUpdates
  <2>2. PICK kind : kind = IF c.kind = "createDocument" THEN "text" ELSE "attachment"
    OBVIOUS
  <2>3. PICK row : row = NewDocument(c, kind)
    OBVIOUS
  <2>4. kind \in Kinds
    BY <2>2 DEF Kinds
  <2>5. issued < MaxRows /\ documentRows' = documentRows \cup {row} /\ Answer(c, row) /\ issued' = issued + 1
    BY <1>1, <2>1, <2>2, <2>3
  <2> QED BY <1>1, <1>2, <2>3, <2>4, <2>5, CreateDocumentKeeps
<1>3. CASE c.kind \in DocumentUpdates
  <2>1. c.kind \notin DocumentCreates
    BY <1>3 DEF DocumentCreates, DocumentUpdates
  <2>2. PICK row : row = [c.row EXCEPT !.rev = @ + 1]
    OBVIOUS
  <2>3. /\ documentRows' = {d \in documentRows : d.id # row.id} \cup {row} /\ Answer(c, row)
        /\ UNCHANGED issued
    BY <1>1, <2>1, <2>2
  <2> QED BY <1>1, <1>3, <2>2, <2>3, UpdateDocumentKeeps
<1> QED BY <1>1, <1>2, <1>3

(* A document is deleted, or the documents are read.                       *)
LEMMA ServeDocumentsKeeps == ASSUME KnowledgeInv, ServeDocuments PROVE KnowledgeInv'
<1>1. PICK c \in calls :
    /\ c.phase = "sent"
    /\ \/ /\ c.kind = "deleteDocument"
          /\ IF Writable(c) THEN documentRows' = documentRows \ {Row(c)} /\ Answer(c, NoOne)
                            ELSE Refuse(c) /\ UNCHANGED documentRows
       \/ /\ c.kind = "documents"
          /\ IF SpaceExists(c) THEN Answer(c, Listing(DocumentsOf(c.space))) ELSE Refuse(c)
          /\ UNCHANGED documentRows
    /\ UNCHANGED <<spaceRows, ragRows, issued, caches, panelTab, forms, acts, histories, mixed>>
  BY DEF ServeDocuments
<1>2. CASE c.kind = "deleteDocument" /\ Writable(c)
  <2>1. KnowledgeTypes
    BY DEF KnowledgeInv
  <2>2. PICK row : row = Row(c)
    OBVIOUS
  <2>3. row \in documentRows /\ row.id = c.document /\ row.space = c.space
    BY <1>2, <2>1, <2>2, RowIs
  <2>4. documentRows' = documentRows \ {row} /\ Answer(c, NoOne)
    BY <1>1, <1>2, <2>2
  <2> QED BY <1>1, <1>2, <2>3, <2>4, DeleteDocumentKeeps
<1>3. CASE c.kind = "documents" /\ SpaceExists(c)
  <2>1. Answer(c, Listing(DocumentsOf(c.space))) /\ UNCHANGED serverRows
    BY <1>1, <1>3 DEF serverRows
  <2> QED BY <1>1, <1>3, <2>1, ServeListKeeps
<1>4. CASE ~(c.kind = "deleteDocument" /\ Writable(c)) /\ ~(c.kind = "documents" /\ SpaceExists(c))
  <2>1. c.kind \in {"deleteDocument", "documents"} /\ Refuse(c) /\ UNCHANGED serverRows
    BY <1>1, <1>4 DEF serverRows
  <2> QED BY <1>1, <2>1, RefusingKeeps DEF Refuse
<1> QED BY <1>2, <1>3, <1>4

(* A preset of the retrieval providers is added or chosen.                 *)
LEMMA ServeProvidersKeeps == ASSUME KnowledgeInv, ServeProviders PROVE KnowledgeInv'
<1>1. PICK c, rows :
        /\ c \in calls
        /\ c.kind = "rag" /\ c.phase = "sent" /\ ragRows' = rows /\ Answer(c, rows)
        /\ UNCHANGED <<spaceRows, documentRows, issued, caches, panelTab, forms, acts, histories, mixed>>
  BY DEF ServeProviders, Kind
<1>2. KnowledgeTypes /\ KnowledgeCall(c)
  BY <1>1 DEF KnowledgeInv, KnowledgeTypes
<1>3. PICK new : new = Reply(c, rows)
  OBVIOUS
<1>4. /\ Alike(new, c) /\ new.mine = c.mine /\ new.phase = "answered" /\ new.reply = rows
      /\ IsKnowledgeRequest(new) /\ "reply" \in DOMAIN new
  BY <1>2, <1>3, RepliedIs
<1>5. /\ Serving(c, new) /\ calls' = (calls \ {c}) \cup {new} /\ new.kind = "rag"
  BY <1>1, <1>3, <1>4 DEF Serving, Answer, Become, Alike
<1>6. KnowledgeTypes'
  <2>1. /\ issued \in Nat /\ SpaceCopy' = SpaceCopy /\ DocumentCopy' = DocumentCopy
    BY <1>1, <1>2, KnowledgeAssumption DEF KnowledgeTypes, SourceTypes, Known, SpaceCopy, DocumentCopy
  <2>2. SourceTypes'
    BY <1>1, <1>2, <2>1 DEF KnowledgeTypes, SourceTypes
  <2>3. KnowledgeCall(new)
    BY <1>4, <1>5 DEF KnowledgeCall, IsKnowledgeAnswer, DocumentCreates, DocumentUpdates
  <2>4. KnowledgeCall(new)' /\ issued' \in Nat /\ issued <= issued'
    BY <1>1, <1>2, <2>1, <2>3, KnownStays
  <2> QED BY <1>1, <1>2, <1>5, <2>2, <2>4, ServingTypes
<1>7. ASSUME Settled
      PROVE  /\ StillTrue(new)' /\ \A d \in calls : d # c => StillTrue(d)'
             /\ SpacesShown' /\ DocumentsShown' /\ RagShown' /\ FormsShown'
  <2>1. /\ \A d \in calls : d # c => Carried(d)
        /\ \A d \in calls' : Behind(d)
        /\ UNCHANGED <<knowledgeSpaces, knowledgeDocuments, ragProviders, panelTab, editingSpace,
                       documentSpaceId, editingDocument, confirmation, loadedParts, reopened, mixed>>
    BY <1>1, <1>5, ServingCarries
  <2>2. \A d \in calls : d.phase = "answered" => Carried(d)
    BY <1>1, <2>1
  <2>3. StillTrue(new)'
    BY <1>1, <1>4, <1>5 DEF StillTrue, Landed, DocumentCreates, DocumentUpdates
  <2>4. \A s : DocumentsOf(s)' = DocumentsOf(s)
    BY <1>1 DEF DocumentsOf
  <2>5. ASSUME NEW d \in calls, d # c PROVE StillTrue(d)'
    <3>1. StillTrue(d) /\ d.kind \notin {"rag", "workspace"}
      BY <1>1, <1>7, <2>5, NoneCrosses DEF Settled, Conflict, Loads, SameRow
    <3> QED BY <1>1, <2>4, <3>1 DEF StillTrue, Landed
  <2>6. SpacesShown' /\ DocumentsShown'
    BY <1>1, <1>7, <2>1, <2>2, SpacesStay, DocumentsStay DEF Settled, Landed
  <2>7. RagShown'
    BY <1>4, <1>5 DEF RagShown, Landed
  <2>8. FormsShown'
    BY <1>1, <1>7, <2>1, <2>2, SpaceFormStays, DocumentFormStays, DocumentKeptStays
       DEF Settled, FormsShown, Landed
  <2> QED BY <2>3, <2>5, <2>6, <2>7, <2>8
<1>8. ~Landed(new, {"createSpace"} \cup DocumentCreates)
  BY <1>5 DEF Landed, DocumentCreates
<1> QED BY <1>1, <1>5, <1>6, <1>7, <1>8, ServingKeeps

(* The tab as it opens: one space, one document, and the workspace asked   *)
(* for.                                                                    *)
LEMMA KnowledgeInitHolds == KnowledgeStart /\ calls = KnowledgeFirst => KnowledgeInv
<1> SUFFICES ASSUME KnowledgeStart, calls = KnowledgeFirst PROVE KnowledgeInv
  OBVIOUS
<1>1. PICK body : body = Workspace
  OBVIOUS
<1>2. /\ DOMAIN body = {"kind", "spaces", "rag", "mine"} /\ body.kind = "workspace"
      /\ body.spaces = NoOne /\ body.rag = NoOne /\ body.mine = FALSE
  BY <1>1 DEF Workspace
<1>3. PICK f : f = [n |-> 0, phase |-> "sent", lost |-> FALSE]
  OBVIOUS
<1>4. DOMAIN f = {"n", "phase", "lost"} /\ f.phase = "sent" /\ f.lost = FALSE
  BY <1>3
<1>5. PICK c : c = Request(0, body)
  OBVIOUS
<1>6. IsBeside(c, f, body)
  BY <1>3, <1>5, BesideIs DEF Request
<1>7. IsAsked(c, body)
  BY <1>4, <1>6 DEF IsBeside, IsAsked
<1>8. IsAsk(body)
  BY <1>2 DEF IsAsk, IsPart, KnowledgeKinds, OfSpace, OfDocument, DocumentWrites, DocumentCreates, DocumentUpdates
<1>9. calls = {c}
  BY <1>1, <1>5 DEF KnowledgeFirst
<1>10. KnowledgeCall(c) /\ c.kind = "workspace" /\ c.mine = FALSE /\ c.phase = "sent" /\ ~c.lost
       /\ c.spaces = NoOne /\ c.rag = NoOne
  BY <1>2, <1>7, <1>8, AskedIs
<1>11. Known = 1 .. 2 /\ issued = 2
  BY DEF Known, KnowledgeStart
<1>12. KnowledgeTypes
  <2>1. PICK r : r = [id |-> 1, rev |-> 0]
    OBVIOUS
  <2>2. PICK d : d = [id |-> 2, space |-> 1, kind |-> "attachment", rev |-> 0]
    OBVIOUS
  <2>3. spaceRows = {r} /\ documentRows = {d}
    BY <2>1, <2>2 DEF KnowledgeStart
  <2>4. r \in SpaceCopy /\ d \in DocumentCopy
    BY <1>11, <2>1, <2>2 DEF SpaceCopy, DocumentCopy, Kinds
  <2>5. IsFiniteSet({r}) /\ IsFiniteSet({d})
    BY FS_Singleton
  <2>6. SourceTypes
    BY <1>11, <2>3, <2>4, <2>5, KnowledgeAssumption DEF SourceTypes
  <2>7. ListTypes
    <3>1. knowledgeSpaces \in Seq(SpaceCopy)
      BY DEF KnowledgeStart
    <3> QED BY <3>1 DEF ListTypes, KnowledgeStart
  <2>8. FormTypes /\ OffTab
    BY DEF FormTypes, OffTab, KnowledgeStart
  <2> QED BY <1>9, <1>10, <2>6, <2>7, <2>8 DEF KnowledgeTypes
<1>13. Settled
  <2>1. Apart
    BY <1>9 DEF Apart
  <2>2. HaveLists
    BY <1>9, <1>10 DEF HaveLists, Unloaded, DocumentWrites, DocumentCreates, DocumentUpdates
  <2>3. (\A d \in calls : StillTrue(d)) /\ NewRows
    BY <1>9, <1>10 DEF StillTrue, NewRows, Landed
  <2>4. ToSet(knowledgeSpaces) = {} /\ Single(knowledgeSpaces)
    BY DEF KnowledgeStart, ToSet, Single
  <2>5. SpacesShown /\ DocumentsShown /\ RagShown
    BY <2>4 DEF SpacesShown, DocumentsShown, RagShown, KnowledgeStart
  <2>6. SpaceFormShown /\ DocumentFormShown
    BY <1>9, <1>10 DEF SpaceFormShown, DocumentFormShown, KnowledgeStart
  <2> QED BY <2>1, <2>2, <2>3, <2>5, <2>6 DEF Settled
<1> QED BY <1>12, <1>13 DEF KnowledgeInv

(* Any step of the knowledge base.                                         *)
LEMMA KnowledgeNextKeeps == ASSUME KnowledgeInv, KnowledgeNext PROVE KnowledgeInv'
<1>1. CASE KnowledgeActs
  BY <1>1, ChangeTabKeeps, SelectSpaceKeeps, EditRowKeeps, RefreshDocumentsKeeps, SaveSpaceKeeps,
     SaveDocumentKeeps, AskDeleteKeeps, ConfirmKeeps, CancelDeleteKeeps, ChooseProviderKeeps
     DEF KnowledgeActs
<1>2. CASE ServeSpaces \/ CheckDocument \/ WriteDocument \/ ServeDocuments \/ ServeProviders
           \/ ServeWorkspace \/ KnowledgeFail
  BY <1>2, ServeSpacesKeeps, CheckDocumentKeeps, WriteDocumentKeeps, ServeDocumentsKeeps,
     ServeProvidersKeeps, ServeWorkspaceKeeps, KnowledgeFailKeeps
<1>3. CASE WorkspaceLoaded \/ DocumentsLoaded \/ SpaceSaved \/ SpaceDeleted
  BY <1>3, WorkspaceLoadedKeeps, DocumentsLoadedKeeps, SpaceSavedKeeps, SpaceDeletedKeeps
<1>4. CASE DocumentSaved \/ DocumentDeleted \/ ProvidersChanged \/ KnowledgeError
  BY <1>4, DocumentSavedKeeps, DocumentDeletedKeeps, ProvidersChangedKeeps, KnowledgeErrorKeeps
<1> QED BY <1>1, <1>2, <1>3, <1>4 DEF KnowledgeNext

(* With nothing under way nothing stands for a row but the row.            *)
LEMMA SettledIsExact == ASSUME KnowledgeInv PROVE KnowledgeExact
<1> SUFFICES ASSUME calls = {}, ~mixed PROVE KnowledgeExact
  BY DEF KnowledgeExact
<1>1. Settled /\ KnowledgeTypes
  BY DEF KnowledgeInv, Straight
<1>2. ASSUME "spaces" \in loadedParts PROVE Mirrors(knowledgeSpaces, spaceRows)
  <2>1. knowledgeSpaces \in Seq(SpaceCopy) /\ IsFiniteSet(spaceRows)
    BY <1>1 DEF KnowledgeTypes, ListTypes, SourceTypes
  <2>2. /\ Single(knowledgeSpaces) /\ ToSet(knowledgeSpaces) \subseteq spaceRows
        /\ \A r \in spaceRows : HasId(knowledgeSpaces, r.id)
    BY <1>1, <1>2 DEF Settled, SpacesShown
  <2>3. \A r \in spaceRows : \E x \in ToSet(knowledgeSpaces) : x.id = r.id
    BY <2>1, <2>2, ListHas
  <2>4. ToSet(knowledgeSpaces) = spaceRows
    <3>1. \A r, q \in spaceRows : r.id = q.id => r = q
      BY <1>1 DEF KnowledgeTypes, SourceTypes
    <3>2. PICK members : members = ToSet(knowledgeSpaces)
      OBVIOUS
    <3>3. members = spaceRows
      BY <2>2, <2>3, <3>1, <3>2
    <3> QED BY <3>2, <3>3
  <2> QED BY <2>1, <2>2, <2>4, ExactMirrors DEF Exact
<1>3. ASSUME NEW s \in Ids, knowledgeDocuments[s] # NoOne
      PROVE  s \in IdsOf(spaceRows) /\ Mirrors(knowledgeDocuments[s], DocumentsOf(s))
  <2>1. PICK list : list = knowledgeDocuments[s]
    OBVIOUS
  <2>2. list \in Seq(DocumentCopy)
    BY <1>1, <1>3, <2>1 DEF KnowledgeTypes, ListTypes
  <2>3. Shows(s, list) /\ ~SpaceGone(s)
    BY <1>1, <1>3, <2>1 DEF Settled, DocumentsShown, SpaceGone
  <2>4. /\ Single(list) /\ ToSet(list) \subseteq DocumentsOf(s) /\ s \in IdsOf(spaceRows)
        /\ \A r \in DocumentsOf(s) : HasId(list, r.id)
    BY <2>3 DEF Shows, DocumentsOf
  <2>5. \A r \in DocumentsOf(s) : \E x \in ToSet(list) : x.id = r.id
    BY <2>2, <2>4, ListHas
  <2>6. DocumentsOf(s) \in SUBSET documentRows
    BY DEF DocumentsOf
  <2>7. IsFiniteSet(DocumentsOf(s)) /\ \A d, e \in DocumentsOf(s) : d.id = e.id => d = e
    BY <1>1, <2>6, FS_Subset DEF KnowledgeTypes, SourceTypes
  <2>8. ToSet(list) = DocumentsOf(s)
    BY <2>4, <2>5, <2>7
  <2>9. Mirrors(list, DocumentsOf(s))
    BY <2>2, <2>4, <2>7, <2>8, ExactMirrors DEF Exact
  <2> QED BY <2>1, <2>4, <2>9
<1>4. "rag" \in loadedParts => ragProviders = ragRows
  BY <1>1 DEF Settled, RagShown
<1>5. ASSUME ~reopened
      PROVE  /\ documentSpaceId # NoOne => documentSpaceId \in IdsOf(spaceRows)
             /\ editingDocument # NoOne /\ editingDocument.space = documentSpaceId
                  => editingDocument.id \in IdsOf(documentRows)
  <2>1. SpaceFormShown /\ DocumentFormShown
    BY <1>1, <1>5 DEF Settled
  <2>2. documentSpaceId # NoOne => documentSpaceId \in IdsOf(spaceRows)
    BY <2>1 DEF SpaceFormShown, SpaceGone
  <2>3. ASSUME editingDocument # NoOne, editingDocument.space = documentSpaceId
        PROVE  editingDocument.id \in IdsOf(documentRows)
    <3>1. editingDocument.space # NoOne
      BY <1>1, <2>3, KnowledgeAssumption DEF KnowledgeTypes, FormTypes, DocumentCopy, Known
    <3>2. editingDocument.space \in IdsOf(spaceRows)
      BY <2>2, <2>3, <3>1
    <3> QED BY <2>1, <2>3, <3>2 DEF DocumentFormShown, IdsOf
  <2> QED BY <2>2, <2>3
<1> QED BY <1>2, <1>3, <1>4, <1>5 DEF KnowledgeExact

(* The invariant has the types.                                            *)
LEMMA KnowledgeIsOK == ASSUME KnowledgeInv PROVE KnowledgeOK
<1>1. Known \subseteq Ids
  BY KnowledgeAssumption DEF KnowledgeInv, KnowledgeTypes, SourceTypes, Known, Ids
<1>2. IdsOf(spaceRows) \subseteq Known /\ IdsOf(documentRows) \subseteq Known
  BY DEF KnowledgeInv, KnowledgeTypes, SourceTypes, IdsOf, SpaceCopy, DocumentCopy
<1> QED BY <1>1, <1>2 DEF KnowledgeInv, KnowledgeTypes, FormTypes, OffTab, KnowledgeOK

(* The inductive invariant of the knowledge base, in the part alone.       *)
THEOREM KnowledgeInvariance == KnowledgeSpec => []KnowledgeInv
<1>1. KnowledgeInit => KnowledgeInv
  BY KnowledgeInitHolds DEF KnowledgeInit
<1>2. KnowledgeInv /\ [KnowledgeNext]_knowledgeVars => KnowledgeInv'
  BY KnowledgeNextKeeps, KnowledgeStutterKeeps DEF knowledgeVars, requestVars
<1> QED BY <1>1, <1>2, PTL DEF KnowledgeSpec

=============================================================================
