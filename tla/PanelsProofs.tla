------------------------------ MODULE PanelsProofs ------------------------------
(***************************************************************************)
(* Proofs about Panels: what its parts keep true, for any sizes.           *)
(***************************************************************************)
EXTENDS Panels, KnowledgeProofs, ChatSettingsProofs

-----------------------------------------------------------------------------
(* The pages of messages.                                                  *)
(*                                                                         *)
(* The argument is about intervals.  A page, shown or in an answer that is *)
(* under way, is an interval of its conversation's rows, and stays one     *)
(* while replies end: they remove the newest row at most, and add one      *)
(* beyond every other.  An older page that still continues what is shown   *)
(* is the interval before it.                                              *)

-----------------------------------------------------------------------------
(* Requests: what the operators of Requests keep of a request.             *)

PageFields == {"n", "phase", "lost", "kind", "chat", "before", "after"}
PagePhases == {"sent", "answered", "failed"}

(* What an answer is,                                                      *)
LEMMA ReplyIs ==
  ASSUME NEW c, NEW body, PageFields \subseteq DOMAIN c
  PROVE  LET d == Reply(c, body)
         IN  /\ d.kind = c.kind /\ d.chat = c.chat /\ d.before = c.before /\ d.after = c.after
             /\ d.phase = "answered" /\ d.reply = body
             /\ PageFields \cup {"reply"} \subseteq DOMAIN d
  BY DEF Reply, Beside, PageFields

(* and what a failure is.                                                  *)
LEMMA BrokenIs ==
  ASSUME NEW c, PageFields \subseteq DOMAIN c
  PROVE  LET d == Broken(c)
         IN  /\ d.kind = c.kind /\ d.chat = c.chat /\ d.before = c.before /\ d.after = c.after
             /\ d.phase = "failed" /\ PageFields \subseteq DOMAIN d
  BY DEF Broken, Beside, PageFields

(* A request that was overtaken is the one it was, but for its page.       *)
LEMMA OvertakenIs ==
  ASSUME NEW cs, \A c \in cs : PageFields \subseteq DOMAIN c, NEW d \in Overtaken(cs)
  PROVE  /\ ~(d.kind = "older" /\ d.after)
         /\ \E c \in cs :
              /\ d.kind = c.kind /\ d.chat = c.chat /\ d.before = c.before
              /\ d.phase = c.phase /\ PageFields \subseteq DOMAIN d
              /\ "reply" \in DOMAIN c => "reply" \in DOMAIN d /\ d.reply = c.reply
  BY DEF Overtaken, PageFields

-----------------------------------------------------------------------------
(* Intervals of a conversation's rows.                                     *)

(* Keys are numbers, and finitely many.                                    *)
LEMMA IdsAreNumbers ==
  /\ MaxMessages \in Nat /\ IsFiniteSet(MessageIds)
  /\ \A d \in MessageIds : d \in Nat /\ d <= MaxMessages
  /\ \A ids \in SUBSET MessageIds : \A d \in ids : d \in Nat
BY PagesAssumption, FS_Interval DEF MessageIds

(* The smallest of some numbers.                                           *)
LEMMA Least ==
  ASSUME NEW S \in SUBSET Nat, S # {}
  PROVE  \E x \in S : \A y \in S : x <= y
<1> DEFINE Below == OpToRel(<, Nat)
<1>1. \E x \in S : \A y \in S : ~ (<<y, x>> \in Below)
  BY NatLessThanWellFounded, WFMin
<1>2. \A x, y \in Nat : y < x => <<y, x>> \in Below
  BY DEF OpToRel
<1> HIDE DEF Below
<1>3. PICK x \in S : \A y \in S : ~ (<<y, x>> \in Below)
  BY <1>1
<1>4. \A y \in S : ~(y < x)
  BY <1>2, <1>3
<1>5. \A y \in S : x <= y
  BY <1>4
<1> QED BY <1>5

(* The oldest and the newest of some messages.                             *)
LEMMA OldestAndNewest ==
  ASSUME NEW ids \in SUBSET MessageIds, ids # {}
  PROVE  /\ Oldest(ids) \in ids /\ \A d \in ids : Oldest(ids) <= d
         /\ Newest(ids) \in ids /\ \A d \in ids : d <= Newest(ids)
         /\ Oldest(ids) \in Nat /\ Newest(ids) \in Nat /\ Oldest(ids) <= Newest(ids)
<1>1. PICK a \in ids : \A d \in ids : a <= d
  BY Least, IdsAreNumbers
<1> DEFINE Mirror == {MaxMessages - d : d \in ids}
<1>2. Mirror \in SUBSET Nat /\ Mirror # {}
  BY PagesAssumption, IdsAreNumbers
<1>3. PICK m \in Mirror : \A y \in Mirror : m <= y
  <2> HIDE DEF Mirror
  <2> QED BY <1>2, Least
<1>4. PICK b \in ids : m = MaxMessages - b
  BY <1>3
<1>5. \A d \in ids : b \in Nat /\ d \in Nat /\ MaxMessages - b <= MaxMessages - d
  BY <1>3, <1>4, IdsAreNumbers
<1>6. \A d \in ids : b >= d
  BY <1>5, PagesAssumption
<1>7. Oldest(ids) \in ids /\ \A d \in ids : Oldest(ids) <= d
  BY <1>1 DEF Oldest
<1>8. Newest(ids) \in ids /\ \A d \in ids : Newest(ids) >= d
  BY <1>6 DEF Newest
<1> QED BY <1>7, <1>8, IdsAreNumbers

(* What a page says of a conversation with these rows: it is an interval   *)
(* of them, and tells whether there are older ones and where.              *)
IsPage(ids, more, next, rows) ==
  /\ ids \in SUBSET MessageIds /\ ids # {}
  /\ \A id \in rows : id \in ids \/ id < Oldest(ids) \/ id > Newest(ids)
  /\ \E id \in rows : id >= Newest(ids)
  /\ more = (\E id \in rows : id < Oldest(ids))
  /\ more => next = Oldest(ids)

(* The same of a page of what is before a message.                         *)
IsOlderPage(ids, more, next, before, rows) ==
  /\ ids \in SUBSET MessageIds /\ \A id \in ids : id < before
  /\ \A id \in rows : id < before => id \in ids \/ (ids # {} /\ id < Oldest(ids))
  /\ more = (\E id \in rows : id < before /\ id \notin ids)
  /\ more => ids # {} /\ next = Oldest(ids)

(* The last page of some messages is not empty and ends with the newest.   *)
LEMMA LastPageIs ==
  ASSUME NEW ids \in SUBSET MessageIds, ids # {}
  PROVE  /\ LastPage(ids) \in SUBSET MessageIds /\ Newest(ids) \in LastPage(ids)
         /\ LastPage(ids) \subseteq ids
         /\ \A d \in LastPage(ids), e \in ids : e > d => e \in LastPage(ids)
<1> DEFINE Beyond(d) == {e \in ids : e > d}
<1>1. IsFiniteSet(ids)
  BY FS_Interval, FS_Subset, PagesAssumption, IdsAreNumbers
<1>2. Beyond(Newest(ids)) = {}
  <2>1. \A d \in ids : d \in Nat /\ d <= Newest(ids)
    BY OldestAndNewest, IdsAreNumbers
  <2> QED BY <2>1, OldestAndNewest
<1>3. Cardinality(Beyond(Newest(ids))) < PageSize
  <2>1. Cardinality(Beyond(Newest(ids))) = 0
    BY <1>2, FS_EmptySet
  <2> QED BY <2>1, PagesAssumption
<1>4. Newest(ids) \in LastPage(ids)
  BY <1>3, OldestAndNewest DEF LastPage
<1>5. ASSUME NEW d \in LastPage(ids), NEW e \in ids, e > d
      PROVE  e \in LastPage(ids)
  <2>1. d \in ids /\ Cardinality(Beyond(d)) < PageSize
    BY <1>5 DEF LastPage
  <2>2. Beyond(e) \in SUBSET Beyond(d)
    <3>1. \A x \in ids : x \in Nat
      BY IdsAreNumbers
    <3> QED BY <1>5, <2>1, <3>1
  <2>3. IsFiniteSet(Beyond(d))
    BY <1>1, FS_Subset
  <2>4. Cardinality(Beyond(e)) <= Cardinality(Beyond(d))
    BY <2>2, <2>3, FS_Subset
  <2>5. Cardinality(Beyond(e)) \in Nat /\ Cardinality(Beyond(d)) \in Nat
    BY <2>2, <2>3, FS_Subset, FS_CardinalityType
  <2>6. Cardinality(Beyond(e)) < PageSize
    BY <2>1, <2>4, <2>5, PagesAssumption
  <2> QED BY <2>6 DEF LastPage
<1> QED BY <1>4, <1>5 DEF LastPage

(* What ListMessagesPage answers for the newest page.                      *)
LEMMA NewestPage ==
  ASSUME NEW rows \in SUBSET MessageIds, rows # {}
  PROVE  IsPage(LastPage(rows), rows # LastPage(rows), Cursor(rows), rows)
<1>1. /\ LastPage(rows) \in SUBSET MessageIds /\ LastPage(rows) # {}
      /\ LastPage(rows) \subseteq rows
      /\ \A d \in LastPage(rows), e \in rows : e > d => e \in LastPage(rows)
  BY LastPageIs
<1> DEFINE ids == LastPage(rows)
<1>0. \A d \in rows : d \in Nat
  BY IdsAreNumbers
<1>2. /\ Oldest(ids) \in ids /\ \A d \in ids : Oldest(ids) <= d
      /\ Newest(ids) \in ids
  BY <1>1, OldestAndNewest
<1>3. \A id \in rows : id \in ids \/ id < Oldest(ids)
  BY <1>0, <1>1, <1>2
<1>4. (rows # ids) = (\E id \in rows : id < Oldest(ids))
  <2>1. \A id \in ids : id \in rows /\ ~(id < Oldest(ids))
    BY <1>0, <1>1, <1>2
  <2>2. rows # ids => \E id \in rows : id \notin ids
    BY <1>1
  <2> HIDE DEF ids
  <2> QED BY <1>3, <2>1, <2>2
<1>5. rows # ids => Cursor(rows) = Oldest(ids)
  BY DEF Cursor
<1>6. \E id \in rows : id >= Newest(ids)
  BY <1>0, <1>1, <1>2
<1> QED
  BY <1>1, <1>3, <1>4, <1>5, <1>6 DEF IsPage

(* What it answers for a page before a message.                            *)
LEMMA PageBefore ==
  ASSUME NEW rows \in SUBSET MessageIds, NEW before \in MessageIds
  PROVE  LET ids == Older(rows, before)
         IN  IsOlderPage(LastPage(ids), ids # LastPage(ids), Cursor(ids), before, rows)
<1> DEFINE old == Older(rows, before)
           ids == LastPage(old)
<1> SUFFICES IsOlderPage(ids, old # ids, Cursor(old), before, rows)
  OBVIOUS
<1>1. old = {id \in rows : id < before}
  BY PagesAssumption, IdsAreNumbers DEF Older
<1>2. CASE old = {}
  <2>1. ids = {}
    BY <1>2 DEF LastPage
  <2> QED BY <1>1, <1>2, <2>1 DEF IsOlderPage
<1>3. CASE old # {}
  <2>1. /\ ids \in SUBSET MessageIds /\ ids # {} /\ ids \subseteq old
        /\ \A d \in ids, e \in old : e > d => e \in ids
    BY <1>1, <1>3, LastPageIs
  <2>2. Oldest(ids) \in ids /\ \A d \in ids : Oldest(ids) <= d
    BY <2>1, OldestAndNewest
  <2>0. \A d \in old : d \in Nat
    BY <1>1, IdsAreNumbers
  <2>3. \A id \in old : id \in ids \/ id < Oldest(ids)
    BY <2>0, <2>1, <2>2
  <2>4. old # ids => Cursor(old) = Oldest(ids)
    BY DEF Cursor
  <2>5. (old # ids) = (\E id \in rows : id < before /\ id \notin ids)
    BY <1>1, <2>1
  <2> HIDE DEF ids, old
  <2> QED BY <1>1, <2>1, <2>3, <2>4, <2>5 DEF IsOlderPage
<1> QED BY <1>2, <1>3

(* Pages stay right when a reply ends.                                     *)
AfterReply(rows, gone, new) == (rows \ gone) \cup {new}

(* A page is one of the messages there are, also after more of them came.  *)
LEMMA PageSurvives ==
  ASSUME NEW rows \in SUBSET MessageIds, rows # {}, NEW gone \in {{}, {Newest(rows)}},
         NEW new \in MessageIds, \A id \in rows : id < new,
         NEW ids, NEW more, NEW next, IsPage(ids, more, next, rows)
  PROVE  IsPage(ids, more, next, AfterReply(rows, gone, new))
<1> DEFINE rest == AfterReply(rows, gone, new)
<1>1. /\ Oldest(ids) \in Nat /\ Newest(ids) \in Nat /\ Oldest(ids) <= Newest(ids)
      /\ ids \in SUBSET MessageIds /\ ids # {}
  BY OldestAndNewest DEF IsPage
<1>2. Newest(rows) \in rows /\ \A id \in rows : id <= Newest(rows)
  BY OldestAndNewest
<1>3. PICK top \in rows : top >= Newest(ids)
  BY DEF IsPage
<1>0. \A d \in rows : d \in Nat
  BY IdsAreNumbers
<1>4. new \in Nat /\ new > Newest(ids)
  BY <1>0, <1>1, <1>3, IdsAreNumbers
<1>5. \A id \in rest : id \in ids \/ id < Oldest(ids) \/ id > Newest(ids)
  BY <1>0, <1>4 DEF IsPage, AfterReply
<1>6. \E id \in rest : id >= Newest(ids)
  BY <1>1, <1>4 DEF AfterReply
<1>7. Newest(rows) >= Oldest(ids)
  BY <1>0, <1>1, <1>2, <1>3
<1>8. \A id \in rows : id < Oldest(ids) => id \in rest
  BY <1>0, <1>1, <1>4, <1>7 DEF AfterReply
<1>9. \A id \in rest : id < Oldest(ids) => id \in rows
  BY <1>0, <1>1, <1>4 DEF AfterReply
<1> HIDE DEF rest
<1> QED
  BY <1>1, <1>5, <1>6, <1>8, <1>9 DEF IsPage, rest

(* So is a page of older messages.                                         *)
LEMMA OlderPageSurvives ==
  ASSUME NEW rows \in SUBSET MessageIds, rows # {}, NEW gone \in {{}, {Newest(rows)}},
         NEW new \in MessageIds, \A id \in rows : id < new,
         NEW before \in MessageIds, \E id \in rows : id >= before,
         NEW ids, NEW more, NEW next, IsOlderPage(ids, more, next, before, rows)
  PROVE  IsOlderPage(ids, more, next, before, AfterReply(rows, gone, new))
<1> DEFINE rest == AfterReply(rows, gone, new)
<1>1. Newest(rows) \in rows /\ \A id \in rows : id <= Newest(rows)
  BY OldestAndNewest
<1>0. \A d \in rows : d \in Nat
  BY IdsAreNumbers
<1>2. new \in Nat /\ before \in Nat /\ new > before
  BY <1>0, IdsAreNumbers
<1>3. Newest(rows) >= before
  <2>1. PICK top \in rows : top >= before
    OBVIOUS
  <2>2. Newest(rows) \in Nat /\ top \in Nat /\ top <= Newest(rows)
    BY <1>0, <1>1
  <2> QED BY <1>2, <2>1, <2>2
<1>4. \A id : (id \in rest /\ id < before) <=> (id \in rows /\ id < before)
  <2>1. \A id \in gone : ~(id < before)
    <3>1. \A id \in gone : id = Newest(rows)
      OBVIOUS
    <3>2. Newest(rows) \in Nat
      BY <1>0, <1>1
    <3>3. ~(Newest(rows) < before)
      BY <1>2, <1>3, <3>2
    <3> QED BY <3>1, <3>3
  <2>2. ~(new < before)
    BY <1>2
  <2> QED BY <2>1, <2>2 DEF AfterReply
<1> HIDE DEF rest
<1> QED BY <1>4 DEF IsOlderPage, rest

(* An older page and the page it continues make a page.                    *)
LEMMA Joined ==
  ASSUME NEW rows \in SUBSET MessageIds,
         NEW shown, NEW m, NEW n, IsPage(shown, m, n, rows),
         NEW ids, NEW more, NEW next, IsOlderPage(ids, more, next, Oldest(shown), rows)
  PROVE  IsPage(ids \cup shown, more, next, rows)
<1> DEFINE all == ids \cup shown
<1>1. /\ Oldest(shown) \in shown /\ \A d \in shown : Oldest(shown) <= d
      /\ Newest(shown) \in shown /\ \A d \in shown : d <= Newest(shown)
      /\ Oldest(shown) \in Nat /\ Newest(shown) \in Nat /\ shown \in SUBSET MessageIds
  BY OldestAndNewest DEF IsPage
<1>2. /\ all \in SUBSET MessageIds /\ all # {}
  BY <1>1 DEF IsOlderPage
<1>3. /\ Oldest(all) \in all /\ \A d \in all : Oldest(all) <= d
      /\ Newest(all) \in all /\ \A d \in all : d <= Newest(all)
      /\ Oldest(all) \in Nat /\ Newest(all) \in Nat
  <2> HIDE DEF all
  <2> QED BY <1>2, OldestAndNewest
<1>0. \A d \in all \cup rows : d \in Nat
  BY <1>2, IdsAreNumbers
<1>4. \A d \in ids : d < Oldest(shown)
  BY DEF IsOlderPage
<1>5. Newest(all) = Newest(shown)
  BY <1>1, <1>3, <1>4, IdsAreNumbers DEF IsOlderPage
<1>6. CASE ids = {}
  <2>1. all = shown
    BY <1>6
  <2>2. more = (\E id \in rows : id < Oldest(shown))
    BY <1>6 DEF IsOlderPage
  <2>3. ~more
    BY <1>6 DEF IsOlderPage
  <2> QED BY <2>1, <2>2, <2>3 DEF IsPage
<1>7. CASE ids # {}
  <2>1. /\ Oldest(ids) \in ids /\ \A d \in ids : Oldest(ids) <= d
        /\ ids \in SUBSET MessageIds
    BY <1>7, OldestAndNewest DEF IsOlderPage
  <2>2. Oldest(all) = Oldest(ids)
    BY <1>0, <1>1, <1>3, <1>4, <2>1
  <2>3. \A id \in rows : id \in all \/ id < Oldest(all) \/ id > Newest(all)
    BY <1>5, <2>2, IdsAreNumbers DEF IsPage, IsOlderPage
  <2>4. \E id \in rows : id >= Newest(all)
    BY <1>5 DEF IsPage
  <2>5. \A id \in rows : id < Oldest(all) => id < Oldest(shown) /\ id \notin ids
    BY <1>0, <1>1, <1>4, <2>1, <2>2
  <2>6. \A id \in rows : id < Oldest(shown) /\ id \notin ids => id < Oldest(all)
    BY <2>2 DEF IsOlderPage
  <2>7. more = (\E id \in rows : id < Oldest(all))
    BY <2>5, <2>6 DEF IsOlderPage
  <2>8. more => next = Oldest(all)
    BY <2>2 DEF IsOlderPage
  <2> HIDE DEF all
  <2> QED BY <1>2, <2>3, <2>4, <2>7, <2>8 DEF IsPage, all
<1> QED BY <1>6, <1>7

-----------------------------------------------------------------------------
(* The inductive invariant.                                                *)

IsPageRequest(c) ==
  /\ PageFields \subseteq DOMAIN c /\ c.phase \in PagePhases /\ c.chat \in Chats /\ c.after \in BOOLEAN
  /\ c.kind \in {"sync", "older", "reconcile"}
  /\ IF c.kind = "older" THEN c.before \in MessageIds ELSE c.before = NoChat

(* An answer is a page of its conversation as that is by now.              *)
IsPageAnswer(c) ==
  c.phase = "answered" =>
    /\ "reply" \in DOMAIN c /\ c.reply.ids \in SUBSET MessageIds
    /\ c.reply.next \in MessageIds \cup {NoChat}
    /\ c.reply.hasMore \in BOOLEAN /\ c.reply.hasMore = (c.reply.next # NoChat)
    /\ c.kind # "older" =>
         IsPage(c.reply.ids, c.reply.hasMore, c.reply.next, messageRows[c.chat])

(* An older page that was not overtaken continues what is shown.           *)
Continues(c) ==
  c.kind = "older" /\ c.after /\ ~torn =>
    /\ openChat # NoChat /\ c.chat = openChat /\ ~isLoadingMessages
    /\ messages # {} /\ c.before = Oldest(messages)
    /\ c.phase = "answered" =>
         IsOlderPage(c.reply.ids, c.reply.hasMore, c.reply.next, c.before, messageRows[c.chat])

PageExpected(c) ==
  /\ IsPageRequest(c) /\ IsPageAnswer(c) /\ Continues(c)
  /\ c.kind = "sync" => c.chat = openChat

(* What is shown is a page.                                                *)
ShownIsPage ==
  (openChat # NoChat /\ ~isLoadingMessages /\ messages # {} /\ ~torn) =>
    IsPage(messages, hasMoreMessages, nextBeforeMessageId, messageRows[openChat])

PagesInv ==
  /\ PagesOK
  /\ isLoadingMessages \in BOOLEAN /\ torn \in BOOLEAN
  /\ \A ch \in Chats : messageRows[ch] # {}
  /\ ShownIsPage
  /\ \A c \in calls : PageExpected(c)

(* No conversation is open at the start.                                   *)
LEMMA PagesInitHolds == PagesStart /\ calls = PagesFirst => PagesInv
  BY PagesAssumption
     DEF PagesStart, PagesFirst, PagesInv, PagesOK, ShownIsPage

(* A page on the screen is what PagesContiguous says.                      *)
LEMMA Contiguous == PagesInv => PagesContiguous
<1> SUFFICES ASSUME PagesInv, openChat # NoChat, ~isLoadingMessages, messages # {}, ~torn
             PROVE  PagesContiguous
  BY DEF PagesContiguous
<1>1. IsPage(messages, hasMoreMessages, nextBeforeMessageId, messageRows[openChat])
  BY DEF PagesInv, ShownIsPage
<1>2. \A id \in messageRows[openChat] : id \in Nat
  BY IdsAreNumbers DEF PagesInv, PagesOK
<1>3. Oldest(messages) \in Nat /\ Newest(messages) \in Nat
  BY OldestAndNewest DEF PagesInv, PagesOK
<1>4. \A id \in messageRows[openChat] :
        id < Oldest(messages) \/ id > Newest(messages) =>
          ~(Oldest(messages) <= id /\ id <= Newest(messages))
  BY <1>2, <1>3
<1> QED BY <1>1, <1>4 DEF PagesContiguous, IsPage

-----------------------------------------------------------------------------
(* What is done.                                                           *)

(* Requests that were overtaken are as expected wherever the tab is.       *)
LEMMA OvertakenExpected ==
  ASSUME PagesInv, NEW cs \in SUBSET calls, NEW d \in Overtaken(cs),
         messageRows' = messageRows, d.kind # "sync" \/ openChat' = openChat
  PROVE  PageExpected(d)'
<1>1. \A c \in cs : PageFields \subseteq DOMAIN c
  BY DEF PagesInv, PageExpected, IsPageRequest
<1>2. PICK c \in cs : /\ d.kind = c.kind /\ d.chat = c.chat /\ d.before = c.before
                      /\ d.phase = c.phase /\ PageFields \subseteq DOMAIN d
                      /\ "reply" \in DOMAIN c => "reply" \in DOMAIN d /\ d.reply = c.reply
  BY <1>1, OvertakenIs
<1>3. ~(d.kind = "older" /\ d.after)
  BY <1>1, OvertakenIs
<1>4. d.after \in BOOLEAN
  BY DEF PagesInv, PageExpected, IsPageRequest, Overtaken, PageFields
<1>5. PageExpected(c)
  BY DEF PagesInv
<1>6. IsPageRequest(d)
  BY <1>2, <1>4, <1>5 DEF PageExpected, IsPageRequest
<1>7. IsPageAnswer(d)'
  BY <1>2, <1>5 DEF PageExpected, IsPageAnswer
<1>8. Continues(d)'
  BY <1>3 DEF Continues
<1> QED BY <1>2, <1>5, <1>6, <1>7, <1>8 DEF PageExpected, IsPageRequest

(* A request that was not answered yet.                                    *)
LEMMA NewExpected ==
  ASSUME NEW cs, NEW kind \in {"sync", "reconcile"}, NEW chat \in Chats,
         kind = "sync" => chat = openChat', NEW d,
         d = AsNext(cs, [kind |-> kind, chat |-> chat, before |-> NoChat, after |-> TRUE])
  PROVE  PageExpected(d)'
<1>1. /\ d.kind = kind /\ d.chat = chat /\ d.before = NoChat /\ d.after = TRUE
      /\ d.phase = "sent" /\ PageFields \subseteq DOMAIN d
  BY DEF AsNext, Request, Beside, PageFields
<1> QED
  BY <1>1 DEF PageExpected, IsPageRequest, IsPageAnswer, Continues, PagePhases

(* A conversation is opened, and asked for.                                *)
LEMMA OpenAtKeeps ==
  ASSUME PagesInv, NEW ch \in Chats \cup {NoChat}, NEW cs \in SUBSET calls, OpenAt(ch, cs),
         UNCHANGED <<messageRows, torn>>
  PROVE  PagesInv'
<1> PICK rest : rest = Overtaken({c \in cs : c.kind # "sync"})
  OBVIOUS
<1>1. \A d \in rest : PageExpected(d)'
  <2> SUFFICES ASSUME NEW d \in rest PROVE PageExpected(d)'
    OBVIOUS
  <2>1. \A c \in {c \in cs : c.kind # "sync"} : PageFields \subseteq DOMAIN c
    BY DEF PagesInv, PageExpected, IsPageRequest
  <2>2. d.kind # "sync"
    BY <2>1, OvertakenIs
  <2> QED BY <2>2, OvertakenExpected
<1>2. CASE ch = NoChat
  BY <1>1, <1>2 DEF OpenAt, PagesInv, PagesOK, ShownIsPage
<1>3. CASE ch # NoChat
  <2> PICK new : new = AsNext(rest, [kind |-> "sync", chat |-> ch, before |-> NoChat, after |-> TRUE])
    OBVIOUS
  <2>1. PageExpected(new)'
    BY <1>3, NewExpected DEF OpenAt
  <2>2. \A d \in calls' : PageExpected(d)'
    BY <1>1, <1>3, <2>1 DEF OpenAt
  <2>3. /\ openChat' = ch /\ isLoadingMessages' = TRUE
        /\ UNCHANGED <<messages, pagination, isLoadingOlderMessages>>
    BY <1>3 DEF OpenAt
  <2>4. PagesOK'
    BY <1>3, <2>3 DEF PagesInv, PagesOK, pagination
  <2> QED BY <2>2, <2>3, <2>4 DEF PagesInv, ShownIsPage
<1> QED BY <1>2, <1>3

(* A request that goes on while nothing it is about changes.               *)
LEMMA StaysExpected ==
  ASSUME PagesInv, NEW c \in calls,
         UNCHANGED <<messageRows, openChat, messages, isLoadingMessages, torn>>
  PROVE  PageExpected(c)'
  BY DEF PagesInv, PageExpected, IsPageRequest, IsPageAnswer, Continues

(* The same, by the user.                                                  *)
LEMMA OpenChatKeeps == ASSUME PagesInv, OpenChat PROVE PagesInv'
<1>1. PICK ch \in Chats \cup {NoChat} : OpenAt(ch, calls) /\ UNCHANGED <<messageRows, torn>>
  BY DEF OpenChat
<1> QED BY <1>1, OpenAtKeeps

(* Older messages are asked for.                                           *)
LEMMA LoadOlderKeeps == ASSUME PagesInv, LoadOlder PROVE PagesInv'
<1> PICK d : d = AsNext(calls, [kind |-> "older", chat |-> openChat, after |-> TRUE,
                                before |-> nextBeforeMessageId])
  OBVIOUS
<1>1. /\ d.kind = "older" /\ d.chat = openChat /\ d.before = nextBeforeMessageId /\ d.after = TRUE
      /\ d.phase = "sent" /\ PageFields \subseteq DOMAIN d
  BY DEF AsNext, Request, Beside, PageFields
<1>2. /\ UNCHANGED <<messageRows, openChat, messages, hasMoreMessages, nextBeforeMessageId,
                     isLoadingMessages, torn>>
      /\ isLoadingOlderMessages' = TRUE /\ calls' = calls \cup {d}
  BY DEF LoadOlder, pagination
<1>3. /\ openChat # NoChat /\ ~isLoadingMessages /\ messages # {} /\ hasMoreMessages
      /\ nextBeforeMessageId # NoChat
  BY DEF LoadOlder
<1>4. ~torn => nextBeforeMessageId = Oldest(messages)
  BY <1>3 DEF PagesInv, ShownIsPage, IsPage
<1>5. PageExpected(d)'
  <2>1. IsPageRequest(d)
    BY <1>1, <1>3 DEF PagesInv, PagesOK, IsPageRequest, PagePhases
  <2>2. IsPageAnswer(d)'
    BY <1>1 DEF IsPageAnswer
  <2>3. Continues(d)'
    BY <1>1, <1>2, <1>3, <1>4 DEF Continues
  <2> QED BY <1>1, <2>1, <2>2, <2>3 DEF PageExpected, IsPageRequest
<1>6. \A c \in calls' : PageExpected(c)'
  <2>1. \A c \in calls : PageExpected(c)'
    BY <1>2, StaysExpected
  <2> QED BY <1>2, <1>5, <2>1
<1>7. PagesOK'
  BY <1>2 DEF PagesInv, PagesOK
<1> QED BY <1>2, <1>6, <1>7 DEF PagesInv, ShownIsPage

(* The key of a new message is beyond every other.                         *)
LEMMA NewKey ==
  ASSUME PagesInv, NEW ch \in Chats, Newest(AllIds) < MaxMessages
  PROVE  /\ Newest(AllIds) + 1 \in MessageIds
         /\ \A id \in messageRows[ch] : id < Newest(AllIds) + 1
<1>1. AllIds \in SUBSET MessageIds /\ messageRows[ch] \subseteq AllIds /\ AllIds # {}
  BY DEF AllIds, PagesInv, PagesOK
<1>2. Newest(AllIds) \in Nat /\ Newest(AllIds) \in AllIds /\ \A d \in AllIds : d <= Newest(AllIds)
  BY <1>1, OldestAndNewest
<1>3. \A d \in AllIds : d \in Nat
  BY <1>1, IdsAreNumbers
<1>4. \A d \in AllIds : d < Newest(AllIds) + 1
  BY <1>2, <1>3
<1>5. Newest(AllIds) + 1 \in MessageIds
  BY <1>2, PagesAssumption DEF MessageIds
<1> QED BY <1>1, <1>4, <1>5

(* A reply ends.                                                           *)
LEMMA EndReplyKeeps == ASSUME PagesInv, EndReply PROVE PagesInv'
<1>0. PICK ch \in Chats : \E gone \in {{}, {Newest(messageRows[ch])}} :
        /\ Newest(AllIds) < MaxMessages
        /\ messageRows' = [messageRows EXCEPT ![ch] = (@ \ gone) \cup {Newest(AllIds) + 1}]
        /\ calls' = calls \cup {AsNext(calls, [kind |-> "reconcile", chat |-> ch, after |-> TRUE,
                                                before |-> NoChat])}
        /\ UNCHANGED <<openChat, messages, pagination, isLoadingMessages, isLoadingOlderMessages,
                       torn>>
  BY DEF EndReply
<1>1. PICK gone \in {{}, {Newest(messageRows[ch])}} :
        /\ Newest(AllIds) < MaxMessages
        /\ messageRows' = [messageRows EXCEPT ![ch] = (@ \ gone) \cup {Newest(AllIds) + 1}]
        /\ calls' = calls \cup {AsNext(calls, [kind |-> "reconcile", chat |-> ch, after |-> TRUE,
                                                before |-> NoChat])}
        /\ UNCHANGED <<openChat, messages, pagination, isLoadingMessages, isLoadingOlderMessages,
                       torn>>
  BY <1>0
<1> PICK d : d = AsNext(calls, [kind |-> "reconcile", chat |-> ch, before |-> NoChat, after |-> TRUE])
  OBVIOUS
<1> PICK new : new = Newest(AllIds) + 1
  OBVIOUS
<1>2. PageExpected(d)'
  BY NewExpected
<1>3. calls' = calls \cup {d}
  BY <1>1
<1>4. new \in MessageIds /\ \A id \in messageRows[ch] : id < new
  BY <1>1, NewKey
<1>5. /\ messageRows[ch] \in SUBSET MessageIds /\ messageRows[ch] # {}
      /\ messageRows' \in [Chats -> SUBSET MessageIds]
      /\ messageRows'[ch] = AfterReply(messageRows[ch], gone, new)
      /\ \A x \in Chats : x # ch => messageRows'[x] = messageRows[x]
  BY <1>1, <1>4 DEF PagesInv, PagesOK, AfterReply
<1>6. ASSUME NEW x \in Chats, NEW ids, NEW more, NEW next,
             IsPage(ids, more, next, messageRows[x])
      PROVE  IsPage(ids, more, next, messageRows'[x])
  <2>1. CASE x = ch
    <3>1. IsPage(ids, more, next, messageRows[ch])
      BY <1>6, <2>1
    <3>2. IsPage(ids, more, next, AfterReply(messageRows[ch], gone, new))
      BY <1>4, <1>5, <3>1, PageSurvives
    <3> QED BY <1>5, <2>1, <3>2
  <2>2. CASE x # ch
    BY <1>5, <1>6, <2>2
  <2> QED BY <2>1, <2>2
<1>7. ShownIsPage'
  BY <1>1, <1>6 DEF ShownIsPage, PagesInv, PagesOK, pagination
<1>8. ASSUME NEW c \in calls
      PROVE  PageExpected(c)'
  <2>1. PageExpected(c)
    BY DEF PagesInv
  <2>2. IsPageAnswer(c)'
    BY <1>6, <2>1 DEF IsPageAnswer, PageExpected, IsPageRequest
  <2>3. ASSUME c.kind = "older", c.after, ~torn, c.phase = "answered"
        PROVE  IsOlderPage(c.reply.ids, c.reply.hasMore, c.reply.next, c.before, messageRows'[c.chat])
    <3>1. /\ openChat # NoChat /\ c.chat = openChat /\ ~isLoadingMessages
          /\ messages # {} /\ c.before = Oldest(messages) /\ c.before \in MessageIds
          /\ IsOlderPage(c.reply.ids, c.reply.hasMore, c.reply.next, c.before, messageRows[c.chat])
          /\ c.chat \in Chats
      BY <2>1, <2>3 DEF PageExpected, Continues, IsPageRequest
    <3>2. IsPage(messages, hasMoreMessages, nextBeforeMessageId, messageRows[c.chat])
      BY <2>3, <3>1 DEF PagesInv, ShownIsPage
    <3>3. \E id \in messageRows[c.chat] : id >= c.before
      <4>1. PICK top \in messageRows[c.chat] : top >= Newest(messages)
        BY <3>2 DEF IsPage
      <4>2. top \in Nat
        BY <3>1, IdsAreNumbers DEF PagesInv, PagesOK
      <4>3. /\ Oldest(messages) \in Nat /\ Newest(messages) \in Nat
            /\ Oldest(messages) <= Newest(messages)
        BY <3>2, OldestAndNewest DEF IsPage
      <4>4. top >= c.before
        BY <3>1, <4>1, <4>2, <4>3
      <4> QED BY <4>4
    <3>4. CASE c.chat = ch
      <4>1. /\ IsOlderPage(c.reply.ids, c.reply.hasMore, c.reply.next, c.before, messageRows[ch])
            /\ \E id \in messageRows[ch] : id >= c.before
        BY <3>1, <3>3, <3>4
      <4>2. IsOlderPage(c.reply.ids, c.reply.hasMore, c.reply.next, c.before,
                        AfterReply(messageRows[ch], gone, new))
        BY <1>4, <1>5, <3>1, <4>1, OlderPageSurvives
      <4> QED BY <1>5, <3>4, <4>2
    <3>5. CASE c.chat # ch
      BY <1>5, <3>1, <3>5
    <3> QED BY <3>4, <3>5
  <2>4. Continues(c)'
    BY <1>1, <2>1, <2>3 DEF Continues, PageExpected
  <2> QED BY <1>1, <2>1, <2>2, <2>4 DEF PageExpected, IsPageRequest
<1>9. PagesOK'
  BY <1>1, <1>5 DEF PagesInv, PagesOK, pagination
<1>10. \A x \in Chats : messageRows'[x] # {}
  BY <1>5 DEF PagesInv, AfterReply
<1>11. \A c \in calls' : PageExpected(c)'
  BY <1>2, <1>3, <1>8
<1> QED BY <1>1, <1>7, <1>9, <1>10, <1>11 DEF PagesInv

-----------------------------------------------------------------------------
(* The server and its answers.                                             *)

(* The server answers with a page.                                         *)
LEMMA PagesServeKeeps == ASSUME PagesInv, PagesServe PROVE PagesInv'
<1>1. PICK c \in calls :
        LET ids == Older(messageRows[c.chat], c.before)
            d == Reply(c, [ids |-> LastPage(ids), hasMore |-> ids # LastPage(ids), next |-> Cursor(ids)])
        IN  /\ c.phase = "sent" /\ calls' = (calls \ {c}) \cup {d}
            /\ UNCHANGED <<messageRows, openChat, messages, hasMoreMessages, nextBeforeMessageId,
                           isLoadingMessages, isLoadingOlderMessages, torn>>
  BY DEF PagesServe, Become, pagination
<1> DEFINE rows == messageRows[c.chat]
           ids == Older(rows, c.before)
           reply == [ids |-> LastPage(ids), hasMore |-> ids # LastPage(ids), next |-> Cursor(ids)]
<1> PICK d : d = Reply(c, reply)
  OBVIOUS
<1>2. PageExpected(c)
  BY DEF PagesInv
<1>3. /\ d.kind = c.kind /\ d.chat = c.chat /\ d.before = c.before /\ d.after = c.after
      /\ d.phase = "answered"
      /\ d.reply.ids = LastPage(ids) /\ d.reply.hasMore = (ids # LastPage(ids))
      /\ d.reply.next = Cursor(ids)
      /\ PageFields \cup {"reply"} \subseteq DOMAIN d
  BY <1>2, ReplyIs DEF PageExpected, IsPageRequest
<1>4. rows \in SUBSET MessageIds /\ rows # {}
  BY <1>2 DEF PageExpected, IsPageRequest, PagesInv, PagesOK
<1>5. ids \in SUBSET rows /\ (c.before = NoChat => ids = rows)
  BY DEF Older
<1>6. /\ LastPage(ids) \in SUBSET MessageIds
      /\ Cursor(ids) \in MessageIds \cup {NoChat}
      /\ (ids # LastPage(ids)) = (Cursor(ids) # NoChat)
  <2>1. LastPage(ids) \subseteq ids
    BY DEF LastPage
  <2>2. ASSUME ids # LastPage(ids)
        PROVE  Cursor(ids) \in MessageIds
    <3>1. ids # {}
      BY <2>1, <2>2
    <3>2. LastPage(ids) \in SUBSET MessageIds /\ LastPage(ids) # {}
      BY <1>4, <1>5, <3>1, LastPageIs
    <3>3. Oldest(LastPage(ids)) \in LastPage(ids)
      BY <3>2, OldestAndNewest
    <3> QED BY <2>2, <3>2, <3>3 DEF Cursor
  <2>3. ids = LastPage(ids) => Cursor(ids) = NoChat
    BY DEF Cursor
  <2>4. NoChat \notin MessageIds
    BY IdsAreNumbers, PagesAssumption
  <2> QED BY <1>4, <1>5, <2>1, <2>2, <2>3, <2>4
<1>7. c.kind # "older" => IsPage(d.reply.ids, d.reply.hasMore, d.reply.next, rows)
  <2> SUFFICES ASSUME c.kind # "older"
               PROVE  IsPage(LastPage(ids), ids # LastPage(ids), Cursor(ids), rows)
    BY <1>3
  <2>1. ids = rows
    BY <1>2, <1>5 DEF PageExpected, IsPageRequest
  <2> QED BY <1>4, <2>1, NewestPage
<1>8. c.kind = "older" => IsOlderPage(d.reply.ids, d.reply.hasMore, d.reply.next, c.before, rows)
  <2> SUFFICES ASSUME c.kind = "older"
               PROVE  IsOlderPage(LastPage(ids), ids # LastPage(ids), Cursor(ids), c.before, rows)
    BY <1>3
  <2>1. c.before \in MessageIds
    BY <1>2 DEF PageExpected, IsPageRequest
  <2> QED BY <1>4, <2>1, PageBefore
<1>10. UNCHANGED <<messageRows, openChat, messages, isLoadingMessages, torn>>
  BY <1>1
<1>11. calls' = (calls \ {c}) \cup {d}
  BY <1>1
<1>12. PageExpected(d)'
  <2>1. IsPageRequest(d)
    BY <1>2, <1>3 DEF PageExpected, IsPageRequest, PagePhases
  <2>2. IsPageAnswer(d)'
    BY <1>3, <1>6, <1>7, <1>10 DEF IsPageAnswer
  <2>3. Continues(d)'
    BY <1>2, <1>3, <1>8, <1>10 DEF PageExpected, Continues
  <2> QED BY <1>2, <1>3, <1>10, <2>1, <2>2, <2>3 DEF PageExpected, IsPageRequest
<1>13. \A x \in calls : PageExpected(x)'
  BY <1>10, StaysExpected
<1>14. \A x \in calls' : PageExpected(x)'
  BY <1>11, <1>12, <1>13
<1> QED BY <1>1, <1>14 DEF PagesInv, PagesOK, ShownIsPage

(* A request fails.                                                        *)
LEMMA PagesFailKeeps == ASSUME PagesInv, PagesFail PROVE PagesInv'
<1>1. PICK c \in calls :
        /\ calls' = (calls \ {c}) \cup {Broken(c)}
        /\ UNCHANGED <<messageRows, openChat, messages, hasMoreMessages, nextBeforeMessageId,
                       isLoadingMessages, isLoadingOlderMessages, torn>>
  BY DEF PagesFail, Become, pagination
<1> PICK d : d = Broken(c)
  OBVIOUS
<1>2. PageExpected(c)
  BY DEF PagesInv
<1>3. /\ d.kind = c.kind /\ d.chat = c.chat /\ d.before = c.before /\ d.after = c.after
      /\ d.phase = "failed" /\ PageFields \subseteq DOMAIN d
  BY <1>2, BrokenIs DEF PageExpected, IsPageRequest
<1>4. calls' = (calls \ {c}) \cup {d}
  BY <1>1
<1>5. PageExpected(d)'
  BY <1>1, <1>2, <1>3 DEF PageExpected, IsPageRequest, IsPageAnswer, Continues, PagePhases
<1>6. \A x \in calls : PageExpected(x)'
  BY <1>1, StaysExpected
<1>7. \A x \in calls' : PageExpected(x)'
  BY <1>4, <1>5, <1>6
<1> QED BY <1>1, <1>7 DEF PagesInv, PagesOK, ShownIsPage

(* The first page comes.                                                   *)
LEMMA SyncedKeeps == ASSUME PagesInv, Synced PROVE PagesInv'
<1>1. PICK c \in calls :
        /\ c.kind = "sync" /\ c.phase = "answered"
        /\ messages' = c.reply.ids /\ hasMoreMessages' = c.reply.hasMore
        /\ nextBeforeMessageId' = c.reply.next /\ isLoadingMessages' = FALSE /\ torn' = FALSE
        /\ calls' = Overtaken(calls \ {c})
        /\ UNCHANGED <<messageRows, openChat, isLoadingOlderMessages>>
  BY DEF Synced, Answered, Kind, Paginate
<1>2. PageExpected(c)
  BY DEF PagesInv
<1>3. \A d \in calls' : PageExpected(d)'
  BY <1>1, OvertakenExpected
<1>4. PagesOK' /\ ShownIsPage'
  BY <1>1, <1>2, PagesAssumption
     DEF PagesInv, PagesOK, ShownIsPage, PageExpected, IsPageRequest, IsPageAnswer
<1> QED BY <1>1, <1>3, <1>4 DEF PagesInv

(* What a request that ended without a page leaves behind.                 *)
LEMMA RestExpected ==
  ASSUME PagesInv, NEW c \in calls, calls' = calls \ {c},
         UNCHANGED <<messageRows, openChat, messages, isLoadingMessages, torn>>
  PROVE  \A d \in calls' : PageExpected(d)'
  BY StaysExpected

(* The same once what is shown no longer counts.                           *)
LEMMA RestTorn ==
  ASSUME PagesInv, NEW c \in calls, calls' = calls \ {c}, torn' = TRUE,
         UNCHANGED <<messageRows, openChat>>
  PROVE  \A d \in calls' : PageExpected(d)'
  BY DEF PagesInv, PageExpected, IsPageRequest, IsPageAnswer, Continues

(* It does not come.                                                       *)
LEMMA SyncFailedKeeps == ASSUME PagesInv, SyncFailed PROVE PagesInv'
<1>1. PICK c \in calls :
        \/ OpenAt(NoChat, calls \ {c}) /\ UNCHANGED <<messageRows, torn>>
        \/ /\ messages' = {} /\ isLoadingMessages' = FALSE /\ calls' = calls \ {c} /\ torn' = TRUE
           /\ UNCHANGED <<messageRows, openChat, hasMoreMessages, nextBeforeMessageId,
                          isLoadingOlderMessages>>
  BY DEF SyncFailed, Failed, Kind, Done, pagination
<1>2. CASE OpenAt(NoChat, calls \ {c}) /\ UNCHANGED <<messageRows, torn>>
  BY <1>2, OpenAtKeeps
<1>3. CASE torn' = TRUE /\ messages' = {} /\ calls' = calls \ {c} /\ isLoadingMessages' = FALSE
           /\ UNCHANGED <<messageRows, openChat, hasMoreMessages, nextBeforeMessageId,
                          isLoadingOlderMessages>>
  BY <1>3, RestTorn DEF PagesInv, PagesOK, ShownIsPage
<1> QED BY <1>1, <1>2, <1>3

(* The page asked for after a reply comes.                                 *)
LEMMA ReconciledKeeps == ASSUME PagesInv, Reconciled PROVE PagesInv'
<1>1. PICK c \in calls :
        /\ c.kind = "reconcile" /\ c.phase = "answered"
        /\ hasMoreMessages' = c.reply.hasMore /\ nextBeforeMessageId' = c.reply.next
        /\ IF c.chat = openChat
           THEN messages' = c.reply.ids /\ torn' = FALSE /\ calls' = Overtaken(calls \ {c})
           ELSE torn' = TRUE /\ calls' = calls \ {c} /\ UNCHANGED messages
        /\ UNCHANGED <<messageRows, openChat, isLoadingMessages, isLoadingOlderMessages>>
  BY DEF Reconciled, Answered, Kind, Paginate, Done
<1>2. PageExpected(c)
  BY DEF PagesInv
<1>3. \A d \in calls' : PageExpected(d)'
  <2>1. CASE c.chat = openChat
    BY <1>1, <2>1, OvertakenExpected
  <2>2. CASE c.chat # openChat
    BY <1>1, <2>2, RestTorn
  <2> QED BY <2>1, <2>2
<1>4. PagesOK' /\ ShownIsPage'
  BY <1>1, <1>2, PagesAssumption
     DEF PagesInv, PagesOK, ShownIsPage, PageExpected, IsPageRequest, IsPageAnswer
<1> QED BY <1>1, <1>3, <1>4 DEF PagesInv

(* It does not come.                                                       *)
LEMMA ReconcileFailedKeeps == ASSUME PagesInv, ReconcileFailed PROVE PagesInv'
<1>1. PICK c \in calls :
        \/ OpenAt(NoChat, calls \ {c}) /\ UNCHANGED <<messageRows, torn>>
        \/ /\ calls' = calls \ {c}
           /\ UNCHANGED <<messageRows, openChat, messages, hasMoreMessages, nextBeforeMessageId,
                          isLoadingMessages, isLoadingOlderMessages, torn>>
  BY DEF ReconcileFailed, Failed, Kind, Done, pagination
<1>2. CASE OpenAt(NoChat, calls \ {c}) /\ UNCHANGED <<messageRows, torn>>
  BY <1>2, OpenAtKeeps
<1>3. CASE /\ calls' = calls \ {c}
           /\ UNCHANGED <<messageRows, openChat, messages, hasMoreMessages, nextBeforeMessageId,
                          isLoadingMessages, isLoadingOlderMessages, torn>>
  BY <1>3, RestExpected DEF PagesInv, PagesOK, ShownIsPage
<1> QED BY <1>1, <1>2, <1>3

(* Older messages come.                                                    *)
LEMMA OlderLoadedKeeps == ASSUME PagesInv, OlderLoaded PROVE PagesInv'
<1>1. PICK c \in calls :
        /\ c.kind = "older" /\ c.phase = "answered"
        /\ messages' = c.reply.ids \cup messages
        /\ hasMoreMessages' = c.reply.hasMore /\ nextBeforeMessageId' = c.reply.next
        /\ isLoadingOlderMessages' = FALSE /\ torn' = (torn \/ ~c.after)
        /\ calls' = Overtaken(calls \ {c})
        /\ UNCHANGED <<messageRows, openChat, isLoadingMessages>>
  BY DEF OlderLoaded, Answered, Kind, Paginate
<1>2. PageExpected(c)
  BY DEF PagesInv
<1>3. \A d \in calls' : PageExpected(d)'
  BY <1>1, OvertakenExpected
<1>4. PagesOK'
  BY <1>1, <1>2, PagesAssumption DEF PagesInv, PagesOK, PageExpected, IsPageRequest, IsPageAnswer, Continues
<1>5. ASSUME ~torn'
      PROVE  IsPage(c.reply.ids \cup messages, c.reply.hasMore, c.reply.next, messageRows[openChat])
  <2>1. ~torn /\ c.after
    BY <1>1, <1>2, <1>5 DEF PagesInv, PageExpected, IsPageRequest
  <2>2. /\ openChat # NoChat /\ c.chat = openChat /\ ~isLoadingMessages
        /\ messages # {} /\ c.before = Oldest(messages)
        /\ IsOlderPage(c.reply.ids, c.reply.hasMore, c.reply.next, Oldest(messages),
                       messageRows[openChat])
    BY <1>1, <1>2, <2>1 DEF PageExpected, Continues
  <2>3. IsPage(messages, hasMoreMessages, nextBeforeMessageId, messageRows[openChat])
    BY <2>1, <2>2 DEF PagesInv, ShownIsPage
  <2>4. messageRows[openChat] \in SUBSET MessageIds
    BY <2>2 DEF PagesInv, PagesOK
  <2> QED BY <2>2, <2>3, <2>4, Joined
<1>6. ShownIsPage'
  BY <1>1, <1>5 DEF ShownIsPage
<1>7. torn' \in BOOLEAN
  BY <1>1 DEF PagesInv
<1> QED BY <1>1, <1>3, <1>4, <1>6, <1>7 DEF PagesInv

(* They do not come.                                                       *)
LEMMA OlderFailedKeeps == ASSUME PagesInv, OlderFailed PROVE PagesInv'
<1>1. PICK c \in calls :
        /\ calls' = calls \ {c}
        /\ UNCHANGED <<messageRows, openChat, messages, hasMoreMessages, nextBeforeMessageId,
                       isLoadingMessages, torn>>
        /\ isLoadingOlderMessages' = FALSE
  BY DEF OlderFailed, Failed, Kind, Done, pagination
<1> QED BY <1>1, RestExpected DEF PagesInv, PagesOK, ShownIsPage

-----------------------------------------------------------------------------
(* The theorems.                                                           *)

(* Any step of the pages,                                                  *)
LEMMA PagesNextKeeps == ASSUME PagesInv, PagesNext PROVE PagesInv'
  BY OpenChatKeeps, LoadOlderKeeps, EndReplyKeeps, PagesServeKeeps, PagesFailKeeps, SyncedKeeps,
     SyncFailedKeeps, ReconciledKeeps, ReconcileFailedKeeps, OlderLoadedKeeps, OlderFailedKeeps
     DEF PagesNext, PagesActs

(* and none.                                                               *)
LEMMA PagesStutterKeeps == ASSUME PagesInv, UNCHANGED <<pageState, calls>> PROVE PagesInv'
<1>1. \A c \in calls : PageExpected(c)'
  BY StaysExpected DEF pageState
<1> QED BY <1>1 DEF PagesInv, PagesOK, ShownIsPage, pageState

(* The inductive invariant of the pages.                                   *)
THEOREM PagesInvariance == PagesSpec => []PagesInv
<1>1. PagesInit => PagesInv
  BY PagesInitHolds DEF PagesInit
<1>2. PagesInv /\ [PagesNext]_pageVars => PagesInv'
  BY PagesNextKeeps, PagesStutterKeeps DEF pageVars, requestVars, pageState
<1> QED BY <1>1, <1>2, PTL DEF PagesSpec

(* What is shown has no gap and its button is right, in the part alone.    *)
THEOREM PartIsContiguous == PagesSpec => []PagesContiguous
  BY PagesInvariance, Contiguous, PTL

-----------------------------------------------------------------------------
(* The pages of messages rest while another part is used.                  *)


PagesHold == /\ panel \in Panel
             /\ panel = "messages" => PagesInv
             /\ panel # "messages" => openChat = NoChat

(* Whichever part is used, what the pages keep holds.                      *)
LEMMA PagesHoldInvariance == Spec => []PagesHold
<1>1. Init => PagesHold
  <2>1. Init /\ panel = "messages" => calls = PagesFirst
    BY DEF Init, First
  <2> QED BY <2>1, PagesInitHolds DEF Init, PagesHold, PagesStart
<1>2. PagesHold /\ [Next]_vars => PagesHold'
  <2> SUFFICES ASSUME PagesHold, [Next]_vars PROVE PagesHold'
    OBVIOUS
  <2>1. CASE UsePages
    BY <2>1, PagesNextKeeps DEF UsePages, PagesHold
  <2>2. CASE UseSettings
    BY <2>2 DEF UseSettings, PagesHold, pageState
  <2>3. CASE UseKnowledge
    BY <2>3 DEF UseKnowledge, PagesHold, pageState
  <2>4. CASE UseProviders
    BY <2>4 DEF UseProviders, PagesHold, pageState
  <2>5. CASE UseAccounts
    BY <2>5 DEF UseAccounts, PagesHold, pageState
  <2>6. CASE UNCHANGED vars
    BY <2>6, PagesStutterKeeps DEF vars, PagesHold, requestVars, pageState
  <2> QED BY <2>1, <2>2, <2>3, <2>4, <2>5, <2>6 DEF Next
<1> QED BY <1>1, <1>2, PTL DEF Spec

(* What is shown of a conversation has no gap, and the button for older    *)
(* messages is there, and asks from the right place, when there are any.   *)
THEOREM ShownIsContiguous == Spec => []PagesContiguous
<1>1. PagesHold => PagesContiguous
  BY Contiguous DEF PagesHold, PagesContiguous
<1> QED BY <1>1, PagesHoldInvariance, PTL

-----------------------------------------------------------------------------
(* Provider presets.                                                       *)

Modes == {AutoEdit, New} \cup {EditOf(p) : p \in PresetIds}

(* What the server answers, and what the tab keeps of it.                  *)
IsList(state) ==
  /\ state \in [text : [PresetIds -> Texts], current : PresetIds \cup {NoPreset}]
  /\ state.current # NoPreset => state.text[state.current] # 0

(* A request of the presets, in any phase.                                 *)
IsPresetRequest(c) ==
  /\ {"n", "phase", "lost", "kind"} \subseteq DOMAIN c
  /\ c.kind \in PresetWrites \cup {"presets", "testPreset"}
  /\ c.phase \in {"sent", "answered", "failed"}
  /\ c.kind = "savePreset" =>
       /\ {"id", "mode", "text", "reuse"} \subseteq DOMAIN c
       /\ c.id \in PresetIds \cup {NoPreset} /\ c.mode \in Modes /\ c.text \in Texts \ {0}
  /\ c.kind = "activatePreset" => "id" \in DOMAIN c /\ c.id \in PresetIds
  /\ c.kind = "deletePreset" => {"id", "editing"} \subseteq DOMAIN c /\ c.id \in PresetIds

(* Its answer is a list, and the server's unless requests crossed.         *)
IsPresetAnswer(c) ==
  (c.phase = "answered" /\ c.kind # "testPreset") =>
    IsList(c.reply) /\ (~crossing => c.reply = ListState)

PresetExpected(c) == IsPresetRequest(c) /\ IsPresetAnswer(c)

(* A write the server made and the tab does not know of.                   *)
Unseen(c) ==
  c.kind \in PresetWrites /\ (c.phase = "answered" \/ (c.phase = "failed" /\ c.lost))

PresetTypes ==
  /\ presetRows \in [PresetIds -> Texts] /\ activeRow \in PresetIds \cup {NoPreset}
  /\ activeRow # NoPreset => presetRows[activeRow] # 0
  /\ presetsIssued \in 0 .. MaxPresets
  /\ providerState # NoPreset => IsList(providerState)
  /\ editor \in Modes
  /\ providerForm \in [of : PresetIds \cup {NoPreset}, text : Texts, key : BOOLEAN]
  /\ isLoadingProviders \in BOOLEAN /\ presetsOpen \in BOOLEAN /\ crossing \in BOOLEAN
  /\ toDelete # NoPreset => toDelete \in [id : PresetIds, editing : PresetIds \cup {NoPreset}]

(* One write at a time, one fetch at a time, and both only if they cross.  *)
OneAtATime ==
  /\ \A c, d \in calls : c.kind \in PresetWrites /\ d.kind \in PresetWrites => c = d
  /\ \A c, d \in calls : c.kind = "presets" /\ d.kind = "presets" => c = d
  /\ \A c, d \in calls : c.kind = "presets" /\ d.kind \in PresetWrites => crossing
  /\ \A c \in calls : c.kind = "presets" => isLoadingProviders

(* A confirmation that waits keeps every other write out, and any fetch    *)
(* until it is given.                                                      *)
Confirming ==
  toDelete # NoPreset =>
    /\ \A c \in calls : c.kind \in PresetWrites => c.kind = "deletePreset"
    /\ (\A c \in calls : c.kind # "deletePreset") => ~isLoadingProviders

FormIsTarget ==
  /\ providerForm.of = PresetOf(editor) /\ editingProviderId = PresetOf(editor)
  /\ providerState = NoPreset => PresetOf(editor) = NoPreset
  /\ (PresetOf(editor) # NoPreset /\ ~crossing) => Has(providerState, PresetOf(editor))

ListIsServers ==
  (~crossing /\ providerState # NoPreset /\ \A c \in calls : ~Unseen(c))
  => providerState = ListState

PresetsInv ==
  /\ PresetTypes /\ \A c \in calls : PresetExpected(c)
  /\ OneAtATime /\ Confirming /\ FormIsTarget /\ ListIsServers

(* The start: the list is asked for, nothing is shown.                     *)
LEMMA PresetsInitHold == PresetsStart /\ calls = PresetsFirst => PresetsInv
<1> SUFFICES ASSUME PresetsStart, calls = PresetsFirst PROVE PresetsInv
  OBVIOUS
<1>1. PICK c : c = Request(0, [kind |-> "presets"])
  OBVIOUS
<1>2. calls = {c}
  BY <1>1 DEF PresetsFirst
<1>3. /\ {"n", "phase", "lost", "kind"} \subseteq DOMAIN c
      /\ c.kind = "presets" /\ c.phase = "sent"
  BY <1>1 DEF Request, Beside
<1>4. PresetTypes
  <2>1. /\ presetRows \in [PresetIds -> Texts] /\ presetsIssued \in 0 .. MaxPresets
        /\ activeRow \in PresetIds \cup {NoPreset}
    BY PresetsAssumption DEF PresetsStart, PresetIds, Texts
  <2>2. activeRow # NoPreset => presetRows[activeRow] # 0
    BY PresetsAssumption DEF PresetsStart, PresetIds
  <2>3. providerForm \in [of : PresetIds \cup {NoPreset}, text : Texts, key : BOOLEAN]
    BY DEF PresetsStart, Texts
  <2> QED BY <2>1, <2>2, <2>3 DEF PresetsStart, PresetTypes, Modes
<1>5. PresetExpected(c)
  BY <1>3 DEF PresetExpected, IsPresetRequest, IsPresetAnswer, PresetWrites
<1>6. OneAtATime /\ Confirming /\ FormIsTarget /\ ListIsServers
  BY <1>2, <1>3 DEF PresetsStart, OneAtATime, PresetWrites, Confirming, FormIsTarget,
     ListIsServers, PresetOf, AutoEdit
<1> QED BY <1>2, <1>4, <1>5, <1>6 DEF PresetsInv

(* A request about presets as it leaves.                                   *)
LEMMA PresetRequestIs ==
  ASSUME NEW cs, NEW body, "kind" \in DOMAIN body,
         DOMAIN body \cap {"n", "phase", "lost"} = {}
  PROVE  LET d == AsNext(cs, body)
         IN  /\ {"n", "phase", "lost"} \cup DOMAIN body = DOMAIN d
             /\ d.phase = "sent" /\ \A f \in DOMAIN body : d[f] = body[f]
  BY DEF AsNext, Request, Beside

(* An answer,                                                              *)
LEMMA PresetAnswerIs ==
  ASSUME NEW c, NEW body
  PROVE  LET d == Reply(c, body)
         IN  /\ DOMAIN d = DOMAIN c \cup {"phase", "reply"}
             /\ d.phase = "answered" /\ d.reply = body
             /\ \A f \in DOMAIN c : f \notin {"phase", "reply"} => d[f] = c[f]
  BY DEF Reply, Beside

(* a failure.                                                              *)
LEMMA FailureIs ==
  ASSUME NEW c
  PROVE  LET d == Broken(c)
         IN  /\ DOMAIN d = DOMAIN c \cup {"phase", "lost"}
             /\ d.phase = "failed" /\ d.lost = (c.phase # "sent")
             /\ \A f \in DOMAIN c : f \notin {"phase", "lost"} => d[f] = c[f]
  BY DEF Broken, Beside

(* The editor a list leads to is on a preset of the list.                  *)
LEMMA TargetIs ==
  ASSUME NEW state, IsList(state), NEW mode \in Modes
  PROVE  /\ Target(state, mode) \in Modes
         /\ PresetOf(Target(state, mode)) # NoPreset => Has(state, PresetOf(Target(state, mode)))
         /\ PresetOf(Target(state, mode)) \in PresetIds \cup {NoPreset}
<1> DEFINE target == Target(state, mode)
           Good == /\ target \in Modes /\ PresetOf(target) \in PresetIds \cup {NoPreset}
                   /\ PresetOf(target) # NoPreset => Has(state, PresetOf(target))
<1>1. ASSUME target \in {New, AutoEdit}
      PROVE  Good
  <2>1. PresetOf(target) = NoPreset
    BY <1>1 DEF PresetOf, New, AutoEdit
  <2> QED BY <1>1, <2>1 DEF Modes, Good
<1>2. ASSUME NEW p \in PresetIds, target = EditOf(p), Has(state, p)
      PROVE  Good
  <2>1. PresetOf(EditOf(p)) = p
    BY DEF PresetOf, EditOf
  <2> QED BY <1>2, <2>1 DEF Modes
<1>3. target \in {New, AutoEdit} \/ \E p \in PresetIds : target = EditOf(p) /\ Has(state, p)
  <2>1. CASE mode = New
    BY <2>1 DEF Target
  <2>2. CASE mode # New /\ mode.type = "edit" /\ Has(state, mode.id)
    <3>1. PICK p \in PresetIds : mode = EditOf(p)
      BY <2>2 DEF Modes, AutoEdit
    <3>2. target = mode
      BY <2>2 DEF Target
    <3>3. mode.id = p
      BY <3>1 DEF EditOf
    <3> QED BY <2>2, <3>1, <3>2, <3>3
  <2>3. CASE mode # New /\ ~(mode.type = "edit" /\ Has(state, mode.id))
    <3>1. target = IF state.current = NoPreset THEN AutoEdit ELSE EditOf(state.current)
      BY <2>3 DEF Target
    <3> QED BY <3>1 DEF IsList, Has
  <2> QED BY <2>1, <2>2, <2>3
<1>4. Good
  <2> HIDE DEF Good
  <2> QED BY <1>1, <1>2, <1>3
<1> QED BY <1>4

-----------------------------------------------------------------------------
(* The actions of the presets.                                             *)

(* A request is what it was while the server rests.                        *)
LEMMA StaysPresetExpected ==
  ASSUME NEW d, PresetExpected(d), UNCHANGED presetServer, ~crossing' => ~crossing
  PROVE  PresetExpected(d)'
  BY DEF PresetExpected, IsPresetRequest, IsPresetAnswer, presetServer, ListState

(* A new request is expected, when it is one of the presets.               *)
LEMMA NewPresetExpected ==
  ASSUME NEW cs, NEW body, "kind" \in DOMAIN body, DOMAIN body \cap {"n", "phase", "lost"} = {},
         body.kind \in PresetWrites \cup {"presets", "testPreset"},
         body.kind = "savePreset" =>
           /\ {"id", "mode", "text", "reuse"} \subseteq DOMAIN body
           /\ body.id \in PresetIds \cup {NoPreset} /\ body.mode \in Modes
           /\ body.text \in Texts \ {0},
         body.kind = "activatePreset" => "id" \in DOMAIN body /\ body.id \in PresetIds,
         body.kind = "deletePreset" =>
           {"id", "editing"} \subseteq DOMAIN body /\ body.id \in PresetIds
  PROVE  /\ PresetExpected(AsNext(cs, body)) /\ ~Unseen(AsNext(cs, body))
         /\ AsNext(cs, body).kind = body.kind
<1>1. PICK d : d = AsNext(cs, body)
  OBVIOUS
<1>2. /\ {"n", "phase", "lost"} \cup DOMAIN body = DOMAIN d
      /\ d.phase = "sent" /\ \A f \in DOMAIN body : d[f] = body[f]
  <2>1. LET e == AsNext(cs, body)
        IN  /\ {"n", "phase", "lost"} \cup DOMAIN body = DOMAIN e
            /\ e.phase = "sent" /\ \A f \in DOMAIN body : e[f] = body[f]
    BY PresetRequestIs
  <2> QED BY <1>1, <2>1
<1>3. d.kind = body.kind
  BY <1>2
<1>4. body.kind = "savePreset" => d.id = body.id /\ d.mode = body.mode /\ d.text = body.text
  BY <1>2
<1>5. body.kind \in {"activatePreset", "deletePreset"} => d.id = body.id
  BY <1>2
<1>6. IsPresetRequest(d)
  BY <1>2, <1>3, <1>4, <1>5 DEF IsPresetRequest
<1>7. IsPresetAnswer(d) /\ ~Unseen(d)
  BY <1>2 DEF IsPresetAnswer, Unseen
<1> QED BY <1>1, <1>3, <1>6, <1>7 DEF PresetExpected

(* The editor after a list was applied.                                    *)
LEMMA ApplyEditorIs ==
  ASSUME NEW state, IsList(state), NEW mode \in Modes, ApplyEditor(state, mode)
  PROVE  /\ editor' \in Modes
         /\ providerForm' \in [of : PresetIds \cup {NoPreset}, text : Texts, key : BOOLEAN]
         /\ providerForm'.of = PresetOf(editor') /\ editingProviderId' = PresetOf(editor')
         /\ PresetOf(editor') # NoPreset => Has(state, PresetOf(editor'))
<1>1. PICK t \in Modes : /\ t = Target(state, mode) /\ PresetOf(t) \in PresetIds \cup {NoPreset}
                         /\ PresetOf(t) # NoPreset => Has(state, PresetOf(t))
  BY TargetIs
<1>2. editor' = t /\ editingProviderId' = PresetOf(t) /\ providerForm' = CreateForm(state, PresetOf(t))
  BY <1>1 DEF ApplyEditor
<1>3. /\ CreateForm(state, PresetOf(t)) \in [of : PresetIds \cup {NoPreset}, text : Texts, key : BOOLEAN]
      /\ CreateForm(state, PresetOf(t)).of = PresetOf(t)
  BY <1>1 DEF CreateForm, IsList, Texts
<1> QED BY <1>1, <1>2, <1>3

(* The preset of an editor.                                                *)
LEMMA PresetOfIs ==
  /\ AutoEdit \in Modes /\ New \in Modes /\ PresetOf(AutoEdit) = NoPreset /\ PresetOf(New) = NoPreset
  /\ \A p \in PresetIds : EditOf(p) \in Modes /\ PresetOf(EditOf(p)) = p
  /\ \A m \in Modes : PresetOf(m) \in PresetIds \cup {NoPreset}
<1>1. PresetOf(AutoEdit) = NoPreset /\ PresetOf(New) = NoPreset
  BY DEF PresetOf, AutoEdit, New
<1>2. \A p \in PresetIds : PresetOf(EditOf(p)) = p
  BY DEF PresetOf, EditOf
<1> QED BY <1>1, <1>2 DEF Modes

(* The user leaves the presets and comes back.                             *)
LEMMA SwitchPresetsKeeps == ASSUME PresetsInv, SwitchPresets PROVE PresetsInv'
<1>1. PICK new : new = AsNext(CancelFetches(calls), [kind |-> "presets"])
  OBVIOUS
<1>2. /\ calls' = {d \in calls : d.kind # "presets"} \cup {new}
      /\ presetsOpen' = ~presetsOpen /\ isLoadingProviders' = TRUE
      /\ crossing' = (crossing \/ Writing) /\ UNCHANGED <<presetServer, providerState>>
      /\ toDelete' = IF Kind("deletePreset") = {} THEN NoPreset ELSE toDelete
  BY <1>1 DEF SwitchPresets, CancelFetches
<1>3. PresetExpected(new) /\ ~Unseen(new) /\ new.kind = "presets"
  BY <1>1, NewPresetExpected
<1>4. \A d \in calls' : PresetExpected(d)'
  <2>1. \A d \in calls' : PresetExpected(d)
    BY <1>2, <1>3 DEF PresetsInv
  <2> QED BY <2>1, <1>2, StaysPresetExpected
<1>5. OneAtATime'
  BY <1>2, <1>3 DEF PresetsInv, OneAtATime, PresetWrites, Writing
<1>6. Confirming'
  <2>1. toDelete' # NoPreset => toDelete # NoPreset /\ \E d \in calls : d.kind = "deletePreset"
    BY <1>2 DEF Kind
  <2> QED BY <2>1, <1>2, <1>3 DEF PresetsInv, Confirming, PresetWrites
<1>7. /\ editor' \in Modes
      /\ providerForm' \in [of : PresetIds \cup {NoPreset}, text : Texts, key : BOOLEAN]
      /\ FormIsTarget'
  <2>1. CASE ~presetsOpen /\ providerState # NoPreset
    <3>1. ApplyEditor(providerState, AutoEdit) /\ IsList(providerState)
      BY <2>1 DEF SwitchPresets, PresetsInv, PresetTypes
    <3> QED BY <3>1, <2>1, <1>2, ApplyEditorIs, PresetOfIs DEF FormIsTarget
  <2>2. CASE presetsOpen
    <3>1. UNCHANGED presetForm
      BY <2>2 DEF SwitchPresets, presetForm
    <3> QED BY <3>1, <1>2 DEF presetForm, PresetsInv, PresetTypes, FormIsTarget
  <2>3. CASE ~presetsOpen /\ providerState = NoPreset
    <3>1. editor' = AutoEdit /\ UNCHANGED <<editingProviderId, providerForm>>
      BY <2>3 DEF SwitchPresets
    <3> QED BY <3>1, <2>3, <1>2, PresetOfIs DEF PresetsInv, PresetTypes, FormIsTarget
  <2> QED BY <2>1, <2>2, <2>3 DEF PresetsInv, PresetTypes
<1>8. PresetTypes'
  BY <1>2, <1>7 DEF PresetsInv, PresetTypes, presetServer, Writing
<1>9. ListIsServers'
  <2>1. \A d \in calls : Unseen(d) => d \in calls'
    BY <1>2 DEF Unseen, PresetWrites
  <2> QED BY <1>2, <2>1 DEF PresetsInv, ListIsServers, presetServer, ListState, Unseen
<1> QED BY <1>4, <1>5, <1>6, <1>7, <1>8, <1>9 DEF PresetsInv

(* What changes the editor alone.                                          *)
LEMMA EditorKeeps ==
  ASSUME PresetsInv,
         UNCHANGED <<presetServer, providerState, isLoadingProviders, presetsOpen, calls, crossing>>,
         editor' \in Modes, FormIsTarget',
         providerForm' \in [of : PresetIds \cup {NoPreset}, text : Texts, key : BOOLEAN],
         toDelete' # NoPreset => toDelete' \in [id : PresetIds, editing : PresetIds \cup {NoPreset}],
         Confirming'
  PROVE  PresetsInv'
<1>1. \A d \in calls' : PresetExpected(d)'
  BY StaysPresetExpected DEF PresetsInv
<1>2. PresetTypes' /\ OneAtATime' /\ ListIsServers'
  BY DEF PresetsInv, PresetTypes, OneAtATime, ListIsServers, presetServer, ListState, Unseen
<1> QED BY <1>1, <1>2 DEF PresetsInv

(* The form is for a new preset.                                           *)
LEMMA StartNewProviderKeeps == ASSUME PresetsInv, StartNewProvider PROVE PresetsInv'
<1>1. /\ editor' = New /\ editingProviderId' = NoPreset
      /\ providerForm' = CreateForm(providerState, NoPreset)
      /\ UNCHANGED <<presetServer, providerState, presetDialog, calls, crossing>>
  BY DEF StartNewProvider
<1>2. providerForm' = [of |-> NoPreset, text |-> 0, key |-> FALSE]
  BY <1>1 DEF CreateForm
<1>3. FormIsTarget' /\ editor' \in Modes
  BY <1>1, <1>2, PresetOfIs DEF FormIsTarget
<1>4. providerForm' \in [of : PresetIds \cup {NoPreset}, text : Texts, key : BOOLEAN]
  BY <1>2 DEF Texts
<1>5. Confirming'
  BY <1>1 DEF PresetsInv, Confirming, presetDialog
<1> QED BY <1>1, <1>3, <1>4, <1>5, EditorKeeps DEF presetDialog, PresetsInv, PresetTypes

(* It is for one of the list.                                              *)
LEMMA EditProviderKeeps == ASSUME PresetsInv, EditProvider PROVE PresetsInv'
<1>1. PICK p \in ListedPresets :
        /\ editor' = EditOf(p) /\ editingProviderId' = p
        /\ providerForm' = CreateForm(providerState, p)
        /\ UNCHANGED <<presetServer, providerState, presetDialog, calls, crossing>>
  BY DEF EditProvider
<1>2. p \in PresetIds /\ providerState # NoPreset /\ Has(providerState, p)
  BY <1>1 DEF ListedPresets
<1>3. /\ providerForm' \in [of : PresetIds \cup {NoPreset}, text : Texts, key : BOOLEAN]
      /\ providerForm'.of = p
  BY <1>1, <1>2 DEF CreateForm, PresetsInv, PresetTypes, IsList, Texts
<1>4. FormIsTarget' /\ editor' \in Modes
  BY <1>1, <1>2, <1>3, PresetOfIs DEF FormIsTarget
<1>5. Confirming'
  BY <1>1 DEF PresetsInv, Confirming, presetDialog
<1> QED BY <1>1, <1>3, <1>4, <1>5, EditorKeeps DEF presetDialog, PresetsInv, PresetTypes

(* Something is typed in it.                                               *)
LEMMA TypeProviderKeeps == ASSUME PresetsInv, TypeProvider PROVE PresetsInv'
<1>1. /\ \/ \E t \in Texts : providerForm' = [providerForm EXCEPT !.text = t]
         \/ providerForm' = [providerForm EXCEPT !.key = ~@]
      /\ UNCHANGED <<presetServer, providerState, editor, editingProviderId, presetDialog,
                     calls, crossing>>
  BY DEF TypeProvider
<1>2. providerForm \in [of : PresetIds \cup {NoPreset}, text : Texts, key : BOOLEAN]
  BY DEF PresetsInv, PresetTypes
<1>3. /\ providerForm' \in [of : PresetIds \cup {NoPreset}, text : Texts, key : BOOLEAN]
      /\ providerForm'.of = providerForm.of
  BY <1>1, <1>2
<1>4. FormIsTarget' /\ editor' \in Modes
  BY <1>1, <1>3 DEF PresetsInv, PresetTypes, FormIsTarget
<1>5. Confirming'
  BY <1>1 DEF PresetsInv, Confirming, presetDialog
<1> QED BY <1>1, <1>3, <1>4, <1>5, EditorKeeps DEF presetDialog, PresetsInv, PresetTypes

(* A deletion waits to be confirmed.                                       *)
LEMMA AskDeleteProviderKeeps == ASSUME PresetsInv, AskDeleteProvider PROVE PresetsInv'
<1>1. PICK p \in ListedPresets :
        /\ ~Writing /\ toDelete' = [id |-> p, editing |-> editingProviderId]
        /\ UNCHANGED <<presetServer, providerState, presetForm, presetsOpen,
                       isLoadingProviders, calls, crossing>>
  BY DEF AskDeleteProvider
<1>2. p \in PresetIds /\ ~isLoadingProviders
  BY <1>1 DEF ListedPresets
<1>3. editingProviderId \in PresetIds \cup {NoPreset}
  BY PresetOfIs DEF PresetsInv, FormIsTarget, PresetTypes
<1>4. toDelete' \in [id : PresetIds, editing : PresetIds \cup {NoPreset}]
  BY <1>1, <1>2, <1>3
<1>5. Confirming'
  BY <1>1, <1>2 DEF Confirming, Writing, PresetWrites
<1>6. FormIsTarget'
  BY <1>1 DEF PresetsInv, FormIsTarget, presetForm
<1> QED BY <1>1, <1>4, <1>5, <1>6, EditorKeeps DEF presetForm, PresetsInv, PresetTypes

(* It is not confirmed.                                                    *)
LEMMA CancelDeleteProviderKeeps == ASSUME PresetsInv, CancelDeleteProvider PROVE PresetsInv'
<1>1. /\ toDelete' = NoPreset
      /\ UNCHANGED <<presetServer, providerState, presetForm, presetsOpen,
                     isLoadingProviders, calls, crossing>>
  BY DEF CancelDeleteProvider
<1>2. FormIsTarget' /\ Confirming'
  BY <1>1 DEF PresetsInv, FormIsTarget, presetForm, Confirming
<1> QED BY <1>1, <1>2, EditorKeeps DEF presetForm, PresetsInv, PresetTypes

(* A request that leaves.                                                  *)
LEMMA SendKeeps ==
  ASSUME PresetsInv, NEW new, PresetExpected(new), ~Unseen(new), new.kind # "presets",
         calls' = calls \cup {new},
         UNCHANGED <<presetServer, providerState, presetForm, presetDialog, crossing>>,
         new.kind \in PresetWrites =>
           /\ ~Writing /\ ~isLoadingProviders
           /\ toDelete # NoPreset => new.kind = "deletePreset"
  PROVE  PresetsInv'
<1>1. \A d \in calls' : PresetExpected(d)'
  BY StaysPresetExpected DEF PresetsInv
<1>2. PresetTypes' /\ FormIsTarget'
  BY DEF PresetsInv, PresetTypes, FormIsTarget, presetServer, presetForm, presetDialog
<1>3. ListIsServers'
  BY DEF PresetsInv, ListIsServers, presetServer, ListState, Unseen
<1>4. OneAtATime'
  BY DEF PresetsInv, OneAtATime, presetDialog, Writing, PresetWrites
<1>5. Confirming'
  BY DEF PresetsInv, Confirming, presetDialog
<1> QED BY <1>1, <1>2, <1>3, <1>4, <1>5 DEF PresetsInv

(* The form is saved,                                                      *)
LEMMA SaveProviderKeeps == ASSUME PresetsInv, SaveProvider PROVE PresetsInv'
<1>1. PICK body :
        body = [kind |-> "savePreset", id |-> PresetOf(editor), mode |-> editor,
                text |-> providerForm.text,
                reuse |-> editor.type # "edit" /\ CanReuse /\ ~providerForm.key]
  OBVIOUS
<1>2. PICK new : new = AsNext(calls, body)
  OBVIOUS
<1>3. /\ ~isLoadingProviders /\ ~Writing /\ toDelete = NoPreset /\ providerForm.text # 0
      /\ calls' = calls \cup {new}
      /\ UNCHANGED <<presetServer, providerState, presetForm, presetDialog, crossing>>
  BY <1>1, <1>2 DEF SaveProvider, Send, Valid, InPresets
<1>4. /\ PresetOf(editor) \in PresetIds \cup {NoPreset} /\ editor \in Modes
      /\ providerForm.text \in Texts \ {0}
  BY <1>3, PresetOfIs DEF PresetsInv, PresetTypes
<1>5. /\ "kind" \in DOMAIN body /\ DOMAIN body \cap {"n", "phase", "lost"} = {}
      /\ body.kind = "savePreset" /\ {"id", "mode", "text", "reuse"} \subseteq DOMAIN body
      /\ body.id \in PresetIds \cup {NoPreset} /\ body.mode \in Modes
      /\ body.text \in Texts \ {0}
  BY <1>1, <1>4
<1>6. PresetExpected(new) /\ ~Unseen(new) /\ new.kind = "savePreset"
  BY <1>2, <1>5, NewPresetExpected DEF PresetWrites
<1> QED BY <1>3, <1>6, SendKeeps

(* or tested.                                                              *)
LEMMA TestProviderKeeps == ASSUME PresetsInv, TestProvider PROVE PresetsInv'
<1>1. PICK body : body = [kind |-> "testPreset"]
  OBVIOUS
<1>2. PICK new : new = AsNext(calls, body)
  OBVIOUS
<1>3. /\ calls' = calls \cup {new}
      /\ UNCHANGED <<presetServer, providerState, presetForm, presetDialog, crossing>>
  BY <1>1, <1>2 DEF TestProvider, Send
<1>4. PresetExpected(new) /\ ~Unseen(new) /\ new.kind = "testPreset"
  BY <1>1, <1>2, NewPresetExpected
<1> QED BY <1>3, <1>4, SendKeeps DEF PresetWrites

(* A preset is made the one in use.                                        *)
LEMMA ActivateProviderKeeps == ASSUME PresetsInv, ActivateProvider PROVE PresetsInv'
<1>1. PICK p \in ListedPresets :
        /\ ~Writing /\ toDelete = NoPreset /\ Send([kind |-> "activatePreset", id |-> p])
        /\ UNCHANGED <<presetServer, providerState, presetForm, presetDialog, crossing>>
  BY DEF ActivateProvider, InPresets
<1>2. PICK body : body = [kind |-> "activatePreset", id |-> p]
  OBVIOUS
<1>3. PICK new : new = AsNext(calls, body)
  OBVIOUS
<1>4. p \in PresetIds /\ ~isLoadingProviders /\ calls' = calls \cup {new}
  BY <1>1, <1>2, <1>3 DEF ListedPresets, Send
<1>5. PresetExpected(new) /\ ~Unseen(new) /\ new.kind = "activatePreset"
  BY <1>2, <1>3, <1>4, NewPresetExpected DEF PresetWrites
<1> QED BY <1>1, <1>4, <1>5, SendKeeps

(* One is deleted.                                                         *)
LEMMA ConfirmDeleteProviderKeeps == ASSUME PresetsInv, ConfirmDeleteProvider PROVE PresetsInv'
<1>1. /\ toDelete # NoPreset /\ Kind("deletePreset") = {}
      /\ Send(Beside([kind |-> "deletePreset"], toDelete))
      /\ UNCHANGED <<presetServer, providerState, presetForm, presetDialog, crossing>>
  BY DEF ConfirmDeleteProvider
<1>2. PICK body : body = Beside([kind |-> "deletePreset"], toDelete)
  OBVIOUS
<1>3. PICK new : new = AsNext(calls, body)
  OBVIOUS
<1>4. toDelete \in [id : PresetIds, editing : PresetIds \cup {NoPreset}]
  BY <1>1 DEF PresetsInv, PresetTypes
<1>5. /\ DOMAIN body = {"kind", "id", "editing"} /\ body.kind = "deletePreset"
      /\ body.id \in PresetIds
  BY <1>2, <1>4 DEF Beside
<1>6. PresetExpected(new) /\ ~Unseen(new) /\ new.kind = "deletePreset"
  BY <1>3, <1>5, NewPresetExpected DEF PresetWrites
<1>7. ~Writing /\ ~isLoadingProviders
  BY <1>1 DEF PresetsInv, Confirming, Writing, Kind
<1>8. calls' = calls \cup {new}
  BY <1>1, <1>2, <1>3 DEF Send
<1> QED BY <1>1, <1>6, <1>7, <1>8, SendKeeps

(* What the server does with a request, and what it becomes.               *)
LEMMA PresetServedIs ==
  ASSUME PresetsInv, ServePresets
  PROVE  \E c \in calls : \E d :
           /\ c.phase = "sent" /\ calls' = (calls \ {c}) \cup {d}
           /\ IsPresetRequest(d) /\ d.kind = c.kind /\ d.phase = "answered" /\ d.reply = ListState'
           /\ c.kind \notin PresetWrites => UNCHANGED presetServer
           /\ presetRows' \in [PresetIds -> Texts] /\ activeRow' \in PresetIds \cup {NoPreset}
           /\ activeRow' # NoPreset => presetRows'[activeRow'] # 0
           /\ presetsIssued' \in 0 .. MaxPresets
<1>1. PICK c \in calls :
        /\ c.phase = "sent" /\ Become(c, Reply(c, ListState'))
        /\ \/ /\ c.kind \in {"presets", "testPreset"}
              /\ UNCHANGED presetServer
           \/ /\ c.kind = "savePreset" /\ c.id = NoPreset
              /\ presetsIssued < MaxPresets
              /\ presetsIssued' = presetsIssued + 1
              /\ presetRows' = [presetRows EXCEPT ![presetsIssued'] = c.text]
              /\ activeRow' = presetsIssued'
           \/ /\ c.kind = "savePreset" /\ c.id # NoPreset /\ presetRows[c.id] # 0
              /\ presetRows' = [presetRows EXCEPT ![c.id] = c.text]
              /\ UNCHANGED <<activeRow, presetsIssued>>
           \/ /\ c.kind = "activatePreset" /\ presetRows[c.id] # 0
              /\ activeRow' = c.id /\ UNCHANGED <<presetRows, presetsIssued>>
           \/ /\ c.kind = "deletePreset" /\ presetRows[c.id] # 0
              /\ presetRows' = [presetRows EXCEPT ![c.id] = 0]
              /\ activeRow' = IF activeRow = c.id THEN NoPreset ELSE activeRow
              /\ UNCHANGED presetsIssued
  BY DEF ServePresets
<1>2. PICK d : d = Reply(c, ListState')
  OBVIOUS
<1>3. calls' = (calls \ {c}) \cup {d}
  BY <1>1, <1>2 DEF Become
<1>4. IsPresetRequest(c)
  BY <1>1 DEF PresetsInv, PresetExpected
<1>5. /\ DOMAIN d = DOMAIN c \cup {"phase", "reply"}
      /\ d.phase = "answered" /\ d.reply = ListState'
      /\ \A f \in DOMAIN c : f \notin {"phase", "reply"} => d[f] = c[f]
  <2>1. LET e == Reply(c, ListState')
        IN  /\ DOMAIN e = DOMAIN c \cup {"phase", "reply"}
            /\ e.phase = "answered" /\ e.reply = ListState'
            /\ \A f \in DOMAIN c : f \notin {"phase", "reply"} => e[f] = c[f]
    BY PresetAnswerIs
  <2> QED BY <1>2, <2>1
<1>6. IsPresetRequest(d) /\ d.kind = c.kind
  BY <1>4, <1>5 DEF IsPresetRequest
<1>7. /\ presetRows \in [PresetIds -> Texts] /\ activeRow \in PresetIds \cup {NoPreset}
      /\ activeRow # NoPreset => presetRows[activeRow] # 0
      /\ presetsIssued \in 0 .. MaxPresets
  BY DEF PresetsInv, PresetTypes
<1>8. c.kind \notin PresetWrites => UNCHANGED presetServer
  BY <1>1 DEF PresetWrites
<1>9. /\ presetRows' \in [PresetIds -> Texts] /\ activeRow' \in PresetIds \cup {NoPreset}
      /\ activeRow' # NoPreset => presetRows'[activeRow'] # 0
      /\ presetsIssued' \in 0 .. MaxPresets
  <2>1. CASE UNCHANGED presetServer
    BY <2>1, <1>7 DEF presetServer
  <2>2. CASE /\ c.kind = "savePreset" /\ c.id = NoPreset
             /\ presetsIssued < MaxPresets
             /\ presetsIssued' = presetsIssued + 1
             /\ presetRows' = [presetRows EXCEPT ![presetsIssued'] = c.text]
             /\ activeRow' = presetsIssued'
    <3>1. presetsIssued' \in PresetIds /\ presetsIssued' \in 0 .. MaxPresets
      BY <2>2, <1>7, PresetsAssumption DEF PresetIds
    <3>2. c.text \in Texts \ {0}
      BY <2>2, <1>4 DEF IsPresetRequest
    <3> QED BY <2>2, <3>1, <3>2, <1>7
  <2>3. CASE /\ c.kind = "savePreset" /\ c.id # NoPreset
             /\ presetRows' = [presetRows EXCEPT ![c.id] = c.text]
             /\ UNCHANGED <<activeRow, presetsIssued>>
    <3>1. c.text \in Texts \ {0} /\ c.id \in PresetIds
      BY <2>3, <1>4 DEF IsPresetRequest
    <3> QED BY <2>3, <3>1, <1>7
  <2>4. CASE /\ c.kind = "activatePreset" /\ presetRows[c.id] # 0
             /\ activeRow' = c.id /\ UNCHANGED <<presetRows, presetsIssued>>
    BY <2>4, <1>4, <1>7 DEF IsPresetRequest
  <2>5. CASE /\ c.kind = "deletePreset"
             /\ presetRows' = [presetRows EXCEPT ![c.id] = 0]
             /\ activeRow' = IF activeRow = c.id THEN NoPreset ELSE activeRow
             /\ UNCHANGED presetsIssued
    <3>1. c.id \in PresetIds
      BY <2>5, <1>4 DEF IsPresetRequest
    <3>2. presetRows' \in [PresetIds -> Texts]
      BY <2>5, <3>1, <1>7 DEF Texts
    <3> QED BY <2>5, <3>1, <3>2, <1>7
  <2> QED BY <1>1, <2>1, <2>2, <2>3, <2>4, <2>5
<1> QED BY <1>1, <1>3, <1>5, <1>6, <1>8, <1>9

(* The server answers.                                                     *)
LEMMA ServePresetsKeeps == ASSUME PresetsInv, ServePresets PROVE PresetsInv'
<1>0. PICK c \in calls : \E d :
        /\ c.phase = "sent" /\ calls' = (calls \ {c}) \cup {d}
        /\ IsPresetRequest(d) /\ d.kind = c.kind /\ d.phase = "answered" /\ d.reply = ListState'
        /\ c.kind \notin PresetWrites => UNCHANGED presetServer
        /\ presetRows' \in [PresetIds -> Texts] /\ activeRow' \in PresetIds \cup {NoPreset}
        /\ activeRow' # NoPreset => presetRows'[activeRow'] # 0
        /\ presetsIssued' \in 0 .. MaxPresets
  BY PresetServedIs
<1>1. PICK d :
        /\ c.phase = "sent" /\ calls' = (calls \ {c}) \cup {d}
        /\ IsPresetRequest(d) /\ d.kind = c.kind /\ d.phase = "answered" /\ d.reply = ListState'
        /\ c.kind \notin PresetWrites => UNCHANGED presetServer
        /\ presetRows' \in [PresetIds -> Texts] /\ activeRow' \in PresetIds \cup {NoPreset}
        /\ activeRow' # NoPreset => presetRows'[activeRow'] # 0
        /\ presetsIssued' \in 0 .. MaxPresets
  BY <1>0
<1>2. UNCHANGED <<providerState, presetForm, presetDialog, crossing>>
  BY DEF ServePresets
<1>3. PresetTypes' /\ FormIsTarget'
  BY <1>1, <1>2 DEF PresetsInv, PresetTypes, FormIsTarget, presetForm, presetDialog
<1>4. OneAtATime'
  BY <1>1, <1>2 DEF PresetsInv, OneAtATime, presetDialog
<1>5. Confirming'
  BY <1>1, <1>2 DEF PresetsInv, Confirming, presetDialog
<1>6. PresetExpected(d)'
  <2>1. IsList(ListState)'
    BY <1>1 DEF IsList, ListState
  <2>2. IsPresetRequest(d)'
    BY <1>1 DEF IsPresetRequest
  <2> QED BY <1>1, <2>1, <2>2 DEF PresetExpected, IsPresetAnswer
<1>7. ASSUME NEW e \in calls, e # c
      PROVE  PresetExpected(e)'
  <2>1. PresetExpected(e)
    BY DEF PresetsInv
  <2>2. CASE c.kind \notin PresetWrites
    BY <1>1, <1>2, <2>1, <2>2, StaysPresetExpected
  <2>3. CASE c.kind \in PresetWrites
    <3>1. e.kind \notin PresetWrites /\ (e.kind = "presets" => crossing)
      BY <1>7, <2>3 DEF PresetsInv, OneAtATime
    <3>2. e.kind = "presets" \/ e.kind = "testPreset"
      BY <2>1, <3>1 DEF PresetExpected, IsPresetRequest
    <3> QED BY <1>2, <2>1, <3>1, <3>2 DEF PresetExpected, IsPresetRequest, IsPresetAnswer
  <2> QED BY <2>2, <2>3
<1>8. ListIsServers'
  <2>1. CASE c.kind \in PresetWrites
    BY <1>1, <2>1 DEF ListIsServers, Unseen
  <2>2. CASE c.kind \notin PresetWrites
    <3>1. ListState' = ListState
      BY <1>1, <2>2 DEF ListState, presetServer
    <3>2. \A e \in calls : Unseen(e) => e \in calls'
      BY <1>1, <2>2 DEF Unseen
    <3> QED BY <3>1, <3>2, <1>2 DEF PresetsInv, ListIsServers, Unseen
  <2> QED BY <2>1, <2>2
<1> QED BY <1>1, <1>3, <1>4, <1>5, <1>6, <1>7, <1>8 DEF PresetsInv

(* A request fails.                                                        *)
LEMMA PresetsFailKeeps == ASSUME PresetsInv, PresetsFail PROVE PresetsInv'
<1>1. PICK c \in calls :
        /\ c.phase = "sent" \/ (c.phase = "answered" /\ c.kind \in PresetWrites)
        /\ Become(c, Broken(c))
        /\ UNCHANGED <<presetServer, providerState, presetForm, presetDialog, crossing>>
  BY DEF PresetsFail
<1>2. PICK d : d = Broken(c)
  OBVIOUS
<1>3. /\ DOMAIN d = DOMAIN c \cup {"phase", "lost"}
      /\ d.phase = "failed" /\ d.lost = (c.phase # "sent")
      /\ \A f \in DOMAIN c : f \notin {"phase", "lost"} => d[f] = c[f]
  <2>1. LET e == Broken(c)
        IN  /\ DOMAIN e = DOMAIN c \cup {"phase", "lost"}
            /\ e.phase = "failed" /\ e.lost = (c.phase # "sent")
            /\ \A f \in DOMAIN c : f \notin {"phase", "lost"} => e[f] = c[f]
    BY FailureIs
  <2> QED BY <1>2, <2>1
<1>4. calls' = (calls \ {c}) \cup {d}
  BY <1>1, <1>2 DEF Become
<1>5. IsPresetRequest(c)
  BY <1>1 DEF PresetsInv, PresetExpected
<1>6. IsPresetRequest(d) /\ d.kind = c.kind
  BY <1>3, <1>5 DEF IsPresetRequest
<1>7. PresetExpected(d)
  BY <1>3, <1>6 DEF PresetExpected, IsPresetAnswer
<1>8. \A e \in calls' : PresetExpected(e)'
  <2>1. \A e \in calls' : PresetExpected(e)
    BY <1>4, <1>7 DEF PresetsInv
  <2> QED BY <2>1, <1>1, StaysPresetExpected
<1>9. PresetTypes' /\ FormIsTarget' /\ Confirming' /\ OneAtATime'
  BY <1>1, <1>4, <1>6 DEF PresetsInv, PresetTypes, FormIsTarget, Confirming, OneAtATime, presetServer,
     presetForm, presetDialog
<1>10. ListIsServers'
  <2>1. Unseen(c) => Unseen(d)
    BY <1>3, <1>6 DEF Unseen
  <2>2. (\A e \in calls' : ~Unseen(e)) => \A e \in calls : ~Unseen(e)
    BY <1>4, <2>1
  <2> QED BY <2>2, <1>1 DEF PresetsInv, ListIsServers, presetServer, ListState, Unseen
<1> QED BY <1>8, <1>9, <1>10 DEF PresetsInv

(* A list is something.                                                    *)
LEMMA ListIsNoNull == \A state : IsList(state) => state # NoPreset
  BY PresetsAssumption DEF IsList

(* What ends a request, after its answer came.                             *)
LEMMA RestPresetExpected ==
  ASSUME PresetsInv, NEW c, calls' = calls \ {c}, UNCHANGED presetServer, ~crossing' => ~crossing
  PROVE  \A d \in calls' : PresetExpected(d)'
<1>1. \A d \in calls' : PresetExpected(d)
  BY DEF PresetsInv
<1> QED BY <1>1, StaysPresetExpected

(* The list comes.                                                         *)
LEMMA PresetsFetchedKeeps == ASSUME PresetsInv, PresetsFetched PROVE PresetsInv'
<1>1. PICK c \in calls :
        /\ c.kind = "presets" /\ c.phase = "answered"
        /\ providerState' = c.reply
        /\ IF editor = AutoEdit THEN ApplyEditor(c.reply, AutoEdit) ELSE UNCHANGED presetForm
        /\ isLoadingProviders' = FALSE
        /\ calls' = calls \ {c}
        /\ UNCHANGED <<presetServer, presetsOpen, toDelete, crossing>>
  BY DEF PresetsFetched, Answered, Kind, Done
<1>2. IsList(c.reply) /\ (~crossing => c.reply = ListState)
  BY <1>1 DEF PresetsInv, PresetExpected, IsPresetAnswer
<1>3. providerState' # NoPreset
  BY <1>1, <1>2, ListIsNoNull
<1>4. /\ FormIsTarget' /\ editor' \in Modes
      /\ providerForm' \in [of : PresetIds \cup {NoPreset}, text : Texts, key : BOOLEAN]
  <2>1. CASE editor = AutoEdit
    BY <1>1, <1>2, <1>3, <2>1, ApplyEditorIs, PresetOfIs DEF FormIsTarget
  <2>2. CASE editor # AutoEdit
    <3>1. UNCHANGED presetForm
      BY <1>1, <2>2
    <3>2. (PresetOf(editor) # NoPreset /\ ~crossing) => providerState = ListState
      <4>1. ~crossing => \A d \in calls : ~Unseen(d)
        BY <1>1 DEF PresetsInv, OneAtATime, Unseen
      <4> QED BY <4>1 DEF PresetsInv, FormIsTarget, ListIsServers
    <3> QED BY <1>1, <1>2, <1>3, <3>1, <3>2 DEF PresetsInv, PresetTypes, FormIsTarget, presetForm
  <2> QED BY <2>1, <2>2
<1>5. PresetTypes'
  BY <1>1, <1>2, <1>4 DEF PresetsInv, PresetTypes, presetServer
<1>6. OneAtATime' /\ Confirming'
  BY <1>1 DEF PresetsInv, OneAtATime, Confirming
<1>7. ListIsServers'
  BY <1>1, <1>2 DEF ListIsServers, ListState, presetServer
<1>8. \A d \in calls' : PresetExpected(d)'
  BY <1>1, RestPresetExpected
<1> QED BY <1>4, <1>5, <1>6, <1>7, <1>8 DEF PresetsInv

(* The answer to a write comes, with the list.                             *)
LEMMA PresetWrittenKeeps == ASSUME PresetsInv, PresetWritten PROVE PresetsInv'
<1>1. PICK c \in calls :
        /\ c.kind \in PresetWrites /\ c.phase = "answered"
        /\ providerState' = c.reply /\ ApplyEditor(c.reply, ModeAfter(c))
        /\ toDelete' = IF c.kind = "deletePreset" THEN NoPreset ELSE toDelete
        /\ calls' = calls \ {c}
        /\ UNCHANGED <<presetServer, presetsOpen, isLoadingProviders, crossing>>
  BY DEF PresetWritten, ApplyProviderState, Answered, Kind, Done
<1>2. /\ IsList(c.reply) /\ (~crossing => c.reply = ListState)
      /\ IsPresetRequest(c)
  BY <1>1 DEF PresetsInv, PresetExpected, IsPresetAnswer, PresetWrites
<1>3. providerState' # NoPreset
  BY <1>1, <1>2, ListIsNoNull
<1>4. ModeAfter(c) \in Modes
  <2>1. CASE c.kind = "savePreset"
    BY <2>1, <1>2, PresetOfIs DEF ModeAfter, IsPresetRequest, IsList
  <2>2. CASE c.kind = "activatePreset"
    BY <2>2, <1>2, PresetOfIs DEF ModeAfter, IsPresetRequest
  <2>3. CASE c.kind = "deletePreset"
    BY <2>3, PresetOfIs DEF ModeAfter, PresetsInv, PresetTypes
  <2> QED BY <1>1, <2>1, <2>2, <2>3 DEF PresetWrites
<1>5. /\ FormIsTarget' /\ editor' \in Modes
      /\ providerForm' \in [of : PresetIds \cup {NoPreset}, text : Texts, key : BOOLEAN]
  BY <1>1, <1>2, <1>3, <1>4, ApplyEditorIs DEF FormIsTarget
<1>6. toDelete' = NoPreset
  BY <1>1 DEF PresetsInv, Confirming
<1>7. PresetTypes'
  BY <1>1, <1>2, <1>5, <1>6 DEF PresetsInv, PresetTypes, presetServer
<1>8. OneAtATime' /\ Confirming'
  BY <1>1, <1>6 DEF PresetsInv, OneAtATime, Confirming
<1>9. ListIsServers'
  BY <1>1, <1>2 DEF ListIsServers, ListState, presetServer
<1>10. \A d \in calls' : PresetExpected(d)'
  BY <1>1, RestPresetExpected
<1> QED BY <1>5, <1>7, <1>8, <1>9, <1>10 DEF PresetsInv

(* A request ends with a message at most.                                  *)
LEMMA PresetMessageKeeps == ASSUME PresetsInv, PresetMessage PROVE PresetsInv'
<1>1. PICK c \in calls :
        /\ \/ c.kind \in PresetWrites \cup {"presets"} /\ c.phase = "failed"
           \/ c.kind = "testPreset" /\ c.phase # "sent"
        /\ toDelete' = IF c.kind = "deletePreset" THEN NoPreset ELSE toDelete
        /\ crossing' = (crossing \/ (c.phase = "failed" /\ c.lost))
        /\ isLoadingProviders' = (isLoadingProviders /\ c.kind # "presets")
        /\ calls' = calls \ {c}
        /\ UNCHANGED <<presetServer, providerState, presetForm, presetsOpen>>
  BY DEF PresetMessage, Done
<1>2. PresetTypes' /\ FormIsTarget'
  BY <1>1 DEF PresetsInv, PresetTypes, FormIsTarget, presetServer, presetForm
<1>3. OneAtATime' /\ Confirming'
  BY <1>1 DEF PresetsInv, OneAtATime, Confirming
<1>4. ListIsServers'
  <2>1. ~crossing' => ~Unseen(c)
    BY <1>1 DEF Unseen, PresetWrites
  <2>2. (~crossing' /\ \A e \in calls' : ~Unseen(e)) => \A e \in calls : ~Unseen(e)
    BY <1>1, <2>1
  <2> QED BY <2>2, <1>1 DEF PresetsInv, ListIsServers, presetServer, ListState, Unseen
<1>5. \A d \in calls' : PresetExpected(d)'
  BY <1>1, RestPresetExpected
<1> QED BY <1>2, <1>3, <1>4, <1>5 DEF PresetsInv

(* Any step of the presets,                                                *)
LEMMA PresetsNextKeeps == ASSUME PresetsInv, PresetsNext PROVE PresetsInv'
  BY SwitchPresetsKeeps, StartNewProviderKeeps, EditProviderKeeps, TypeProviderKeeps,
     SaveProviderKeeps, TestProviderKeeps, ActivateProviderKeeps, AskDeleteProviderKeeps,
     ConfirmDeleteProviderKeeps, CancelDeleteProviderKeeps, ServePresetsKeeps, PresetsFailKeeps,
     PresetsFetchedKeeps, PresetWrittenKeeps, PresetMessageKeeps DEF PresetsNext, PresetsActs

(* and none.                                                               *)
LEMMA PresetsStutterKeeps ==
  ASSUME PresetsInv, UNCHANGED <<presetState, calls>> PROVE PresetsInv'
<1>1. \A d \in calls : PresetExpected(d)'
  BY StaysPresetExpected DEF PresetsInv, presetState
<1>2. PresetTypes' /\ OneAtATime' /\ Confirming' /\ FormIsTarget' /\ ListIsServers'
  BY DEF PresetsInv, PresetTypes, OneAtATime, Confirming, FormIsTarget, ListIsServers, presetState,
     presetServer, presetForm, presetDialog, ListState, Unseen
<1> QED BY <1>1, <1>2 DEF PresetsInv, presetState

(* What the presets keep while another part is used.                       *)
PresetsRest ==
  /\ providerState = NoPreset /\ editor = AutoEdit /\ editingProviderId = NoPreset
  /\ providerForm.of = NoPreset

PresetsHold ==
  /\ panel \in Panel
  /\ panel = "providers" => PresetsInv
  /\ panel # "providers" => PresetsRest

(* Whichever part is used, what the presets keep holds.                    *)
LEMMA PresetsHoldInvariance == Spec => []PresetsHold
<1>1. Init => PresetsHold
  <2>1. Init /\ panel = "providers" => calls = PresetsFirst
    BY DEF Init, First
  <2> QED BY <2>1, PresetsInitHold DEF Init, PresetsHold, PresetsStart, PresetsRest
<1>2. PresetsHold /\ [Next]_vars => PresetsHold'
  <2> SUFFICES ASSUME PresetsHold, [Next]_vars PROVE PresetsHold'
    OBVIOUS
  <2>1. CASE UseProviders
    BY <2>1, PresetsNextKeeps DEF UseProviders, PresetsHold
  <2>2. CASE panel # "providers" /\ UNCHANGED <<panel, presetState>>
    BY <2>2 DEF PresetsHold, PresetsRest, presetState, presetForm
  <2>3. CASE UNCHANGED vars
    BY <2>3, PresetsStutterKeeps
       DEF vars, PresetsHold, PresetsRest, requestVars, presetState, presetForm
  <2> QED BY <2>1, <2>2, <2>3 DEF Next, UseSettings, UseKnowledge, UseAccounts, UsePages
<1> QED BY <1>1, <1>2, PTL DEF Spec

(* The form, the preset marked in the list and the one a save would be     *)
(* sent for are the same, and it is in the list.                           *)
THEOREM FormStaysOnTarget == Spec => []FormOnTarget
<1>1. PresetsHold => FormOnTarget
  BY PresetOfIs DEF PresetsHold, PresetsInv, FormIsTarget, PresetsRest, FormOnTarget
<1> QED BY <1>1, PresetsHoldInvariance, PTL

(* With no request under way the list shown is the server's.               *)
THEOREM ShownPresetsAreStored == Spec => []PresetsShown
<1>1. PresetsHold => PresetsShown
  BY DEF PresetsHold, PresetsInv, ListIsServers, PresetsRest, PresetsShown
<1> QED BY <1>1, PresetsHoldInvariance, PTL

-----------------------------------------------------------------------------
(* Accounts.                                                               *)

AccountKinds == NeedAdmin \cup Public \cup RowWrites \cup {"me", "api", "logout"}
AccountPhases == {"sent", "checked", "answered", "failed", "refused"}
Codes == {"unauthorized", "account_disabled", "session_revoked"}
Exists(u) == userRows[u] # NoUser

(* A request of the accounts, in any phase.  Rows are never removed.       *)
IsAccountRequest(c) ==
  /\ {"n", "phase", "lost", "kind", "cookie", "mine", "by"} \subseteq DOMAIN c
  /\ c.kind \in AccountKinds /\ c.phase \in AccountPhases
  /\ c.mine \in BOOLEAN /\ c.lost \in BOOLEAN
  /\ c.cookie # NoUser => c.cookie \in Cookie /\ Exists(c.cookie.user)
  /\ c.by # NoUser => c.kind \in {"saveUser", "resetPassword"} /\ c.phase \in {"sent", "checked"}
  /\ c.kind \in {"saveUser", "resetPassword"} =>
       "target" \in DOMAIN c /\ c.target \in UserIds /\ Exists(c.target)
  /\ c.kind = "saveUser" => {"role", "status"} \subseteq DOMAIN c /\ c.role \in Roles /\ c.status \in Statuses
  /\ c.kind = "login" => "target" \in DOMAIN c /\ c.target \in UserIds
  /\ c.kind = "createUser" => "role" \in DOMAIN c /\ c.role \in Roles
  /\ c.kind = "savePolicy" => "policy" \in DOMAIN c /\ c.policy \in Policies
  /\ c.phase = "checked" =>
       /\ c.kind \in RowWrites /\ "row" \in DOMAIN c /\ c.row \in UserRow
       /\ c.kind \in {"changePassword", "logoutAll"} => c.cookie # NoUser
  /\ c.phase = "refused" => "code" \in DOMAIN c /\ c.code \in Codes

IsAccountAnswer(c) ==
  c.phase = "answered" =>
    /\ "reply" \in DOMAIN c
    /\ c.kind = "me" => /\ c.reply \in SignedIn /\ c.cookie # NoUser
                        /\ c.reply.id = c.cookie.user
    /\ c.kind = "login" => /\ c.reply \in [user : UserIds, version : Nat, role : Roles]
                           /\ Exists(c.reply.user)
    /\ c.kind \in {"bootstrap", "changePassword"} => c.reply \in Cookie /\ Exists(c.reply.user)
    /\ c.kind = "bootstrapStatus" => c.reply \in BOOLEAN
    /\ c.kind = "adminLoad" =>
         /\ c.reply \in [users : [UserIds -> UserRow \cup {NoUser}], policy : Policies]
         /\ \A u \in UserIds : c.reply.users[u] # NoUser => Exists(u)
    /\ c.kind = "saveUser" => c.reply \in UserRow
    /\ c.kind = "createUser" => /\ c.reply \in [row : UserRow, id : UserIds]
                                /\ Exists(c.reply.id)
    /\ c.kind = "savePolicy" => c.reply \in Policies

AccountExpected(c) == IsAccountRequest(c) /\ IsAccountAnswer(c)

ServerTypes ==
  /\ userRows \in [UserIds -> UserRow \cup {NoUser}] /\ policyRow \in Policies
  /\ (\E u \in UserIds : Exists(u)) => Exists(1)

TabTypes ==
  /\ cookie # NoUser => cookie \in Cookie /\ Exists(cookie.user)
  /\ user \in SignedIn \cup {NoUser}
  /\ isLoadingUser \in BOOLEAN /\ unreachable \in BOOLEAN /\ bootstrapRequired \in BOOLEAN
  /\ stale \in BOOLEAN /\ crossed \in BOOLEAN
  /\ location \in {"login", "chat", "admin"}
  /\ Page \in {"chat", "admin"} => user # NoUser
  /\ Page = "admin" => user.role = "admin"

AdminTypes ==
  /\ Page # "admin" => adminUsers = NoUser
  /\ adminUsers # NoUser =>
       /\ adminUsers \in [UserIds -> UserCopy \cup {NoUser}]
       /\ userDrafts \in [UserIds -> UserCopy \cup {NoUser}]
       /\ adminPolicy \in Policies /\ policyDraft \in Policies
       /\ \A u \in UserIds : adminUsers[u] # NoUser => userDrafts[u] # NoUser /\ Exists(u)

(* Nobody is signed in while the tab learns who it is, or makes the first  *)
(* account, and it asks for nothing else.                                  *)
Starting ==
  \A c \in calls : c.kind \in {"me", "bootstrap"} =>
    /\ user = NoUser /\ c.mine
    /\ \A d \in calls : d.by = NoUser => d = c
    /\ c.kind = "me" => c.cookie = cookie

(* Nor was anybody ever, while the tab or the server believes so.          *)
KnownEmpty(c) == c.kind = "bootstrapStatus" /\ c.phase = "answered" /\ c.reply
Fresh ==
  (bootstrapRequired \/ (\A u \in UserIds : ~Exists(u)) \/ \E c \in calls : KnownEmpty(c)) =>
    /\ user = NoUser
    /\ \A c \in calls : c.by # NoUser \/ (c.mine /\ c.kind \in {"me", "bootstrap", "bootstrapStatus"})

(* The tab and the browser agree, or a logout is on its way that will make *)
(* the tab forget its user however it ends.                                *)
SameUser ==
  (user # NoUser /\ ~crossed) =>
    (cookie # NoUser /\ cookie.user = user.id) \/ \E c \in calls : c.kind = "logout"

(* The admin page was not overtaken.  What this browser writes of what it  *)
(* shows was asked on it, and no two requests are about the same.          *)
Watching == Page = "admin" /\ ~stale
Undisturbed ==
  Watching =>
    /\ \A c \in calls : c.kind \in PageWrites => c.mine \/ c.by # NoUser
    /\ \A c, d \in calls :
         (c.kind = "saveUser" /\ c.by = NoUser /\ d.kind = "saveUser" /\ d.by = NoUser /\
          c.target = d.target) => c = d
    /\ \A c, d \in calls : c.kind = "savePolicy" /\ d.kind = "savePolicy" => c = d
    /\ \A c, d \in calls : c.kind = "createUser" /\ d.kind = "createUser" => c = d

(* While the page loads nothing else happens to what it loads.             *)
Loading ==
  \A c \in calls : (c.kind = "adminLoad" /\ c.mine) =>
    /\ Page = "admin" /\ adminUsers = NoUser
    /\ \A d \in calls : d.kind = "adminLoad" /\ d.mine => d = c
    /\ ~stale => /\ \A d \in calls : d.kind \in PageWrites => d.by # NoUser
                 /\ c.phase = "answered" =>
                      /\ \A u \in UserIds : Copy(c.reply.users[u]) = Copy(userRows[u])
                      /\ c.reply.policy = policyRow

(* The rows as the page will show them once the answers there are came.    *)
LostWrite(c) == c.kind \in PageWrites /\ c.phase = "failed" /\ c.lost
UpToDate(c) ==
  /\ (c.kind = "saveUser" /\ c.by = NoUser) => adminUsers[c.target] # NoUser
  /\ c.phase = "answered" =>
       /\ c.kind = "saveUser" => Copy(c.reply) = Copy(userRows[c.target])
       /\ c.kind = "createUser" =>
            Copy(c.reply.row) = Copy(userRows[c.reply.id]) /\ adminUsers[c.reply.id] = NoUser
       /\ c.kind = "savePolicy" => c.reply = policyRow
Told(c, u) ==
  c.phase = "answered" /\ \/ c.kind = "saveUser" /\ c.target = u
                          \/ c.kind = "createUser" /\ c.reply.id = u
PageAgrees ==
  (Watching /\ adminUsers # NoUser /\ \A c \in calls : ~LostWrite(c)) =>
    /\ \A c \in calls : UpToDate(c)
    /\ \A u \in UserIds : (\A c \in calls : ~Told(c, u)) => adminUsers[u] = Copy(userRows[u])
    /\ (\A c \in calls : ~(c.kind = "savePolicy" /\ c.phase = "answered")) => adminPolicy = policyRow

(* What the page asked to write, it asked with its lists before it.        *)
OnItsPage ==
  \A c \in calls : (c.kind \in AdminWrites /\ c.mine) => Page = "admin" /\ adminUsers # NoUser

AccountsInv ==
  /\ ServerTypes /\ TabTypes /\ AdminTypes /\ \A c \in calls : AccountExpected(c)
  /\ Starting /\ Fresh /\ SameUser /\ OnItsPage /\ Undisturbed /\ Loading /\ PageAgrees

(* Nothing forgets a user.                                                 *)
LEMMA StaysAccountExpected ==
  ASSUME NEW d, AccountExpected(d), \A u \in UserIds : Exists(u) => Exists(u)'
  PROVE  AccountExpected(d)'
<1>1. IsAccountRequest(d)'
  BY DEF AccountExpected, IsAccountRequest, Cookie
<1>2. IsAccountAnswer(d)'
  BY DEF AccountExpected, IsAccountAnswer, Cookie
<1> QED BY <1>1, <1>2 DEF AccountExpected

(* A request as it leaves.                                                 *)
IsSent(d, jar, body) ==
  /\ DOMAIN d = {"n", "phase", "lost", "cookie", "mine", "by"} \cup DOMAIN body
  /\ d.phase = "sent" /\ d.lost = FALSE /\ d.cookie = jar
  /\ "mine" \notin DOMAIN body => d.mine = TRUE
  /\ "by" \notin DOMAIN body => d.by = NoUser
  /\ \A f \in DOMAIN body : d[f] = body[f]

(* Its fields.                                                             *)
LEMMA SentIs ==
  ASSUME NEW cs, NEW jar, NEW body, "kind" \in DOMAIN body,
         DOMAIN body \cap {"n", "phase", "lost", "cookie"} = {}
  PROVE  IsSent(Sent(cs, jar, body), jar, body)
<1>1. PICK b : b = Beside(body, [cookie |-> jar, mine |-> TRUE, by |-> NoUser])
  OBVIOUS
<1>2. /\ DOMAIN b = {"cookie", "mine", "by"} \cup DOMAIN body
      /\ b.cookie = jar /\ ("mine" \notin DOMAIN body => b.mine = TRUE)
      /\ "by" \notin DOMAIN body => b.by = NoUser
      /\ \A f \in DOMAIN body : b[f] = body[f]
  BY <1>1 DEF Beside
<1>3. PICK d : d = Sent(cs, jar, body)
  OBVIOUS
<1>4. d = Request(Unused({c \in cs : c.kind = b.kind}), b)
  BY <1>1, <1>3 DEF Sent, AsNext
<1>5. /\ DOMAIN d = {"n", "phase", "lost"} \cup DOMAIN b /\ d.phase = "sent" /\ d.lost = FALSE
      /\ \A f \in DOMAIN b : f \notin {"n", "phase", "lost"} => d[f] = b[f]
  BY <1>4 DEF Request, Beside
<1>6. /\ d.cookie = jar /\ ("mine" \notin DOMAIN body => d.mine = TRUE)
      /\ "by" \notin DOMAIN body => d.by = NoUser
  BY <1>2, <1>5
<1>7. \A f \in DOMAIN body : d[f] = body[f]
  BY <1>2, <1>5
<1> QED BY <1>2, <1>3, <1>5, <1>6, <1>7 DEF IsSent

(* One without a target, a row and the like, from this tab.                *)
PlainSent(d, jar, k) ==
  AccountExpected(d) /\ d.kind = k /\ d.phase = "sent" /\ d.cookie = jar /\ d.mine = TRUE /\ d.by = NoUser

(* It is one.                                                              *)
LEMMA PlainSentIs ==
  ASSUME NEW cs, NEW jar, NEW k \in AccountKinds \ (AdminWrites \cup {"login"}),
         jar # NoUser => jar \in Cookie /\ Exists(jar.user)
  PROVE  PlainSent(Sent(cs, jar, [kind |-> k]), jar, k)
<1>1. PICK body : body = [kind |-> k]
  OBVIOUS
<1>2. PICK d : d = Sent(cs, jar, body)
  OBVIOUS
<1>3. "kind" \in DOMAIN body /\ DOMAIN body \cap {"n", "phase", "lost", "cookie"} = {}
  BY <1>1
<1>4. IsSent(d, jar, body)
  BY <1>2, <1>3, SentIs
<1>5. /\ {"n", "phase", "lost", "kind", "cookie", "mine", "by"} \subseteq DOMAIN d
      /\ d.kind = k /\ d.mine = TRUE /\ d.by = NoUser /\ d.phase = "sent" /\ d.lost = FALSE
      /\ d.cookie = jar
  BY <1>1, <1>4 DEF IsSent
<1>6. AccountExpected(d)
  BY <1>5 DEF AccountExpected, IsAccountRequest, IsAccountAnswer, AccountPhases, AdminWrites
<1> QED BY <1>1, <1>2, <1>5, <1>6 DEF PlainSent

(* The start: the tab asks who it is.                                      *)
LEMMA AccountsInitHold == AccountsStart /\ calls = AccountsFirst => AccountsInv
<1> SUFFICES ASSUME AccountsStart, calls = AccountsFirst PROVE AccountsInv
  OBVIOUS
<1>1. PICK n \in {0, 2} : userRows = [u \in UserIds |-> IF u <= n THEN Admin ELSE NoUser]
  BY DEF AccountsStart
<1>2. 1 \in UserIds /\ \A u \in UserIds : u \in Int /\ u >= 1
  BY UsersAssumption DEF UserIds
<1>3. ServerTypes
  <2>1. Admin \in UserRow
    BY DEF Admin, UserRow, Roles, Statuses
  <2>2. userRows \in [UserIds -> UserRow \cup {NoUser}]
    BY <1>1, <2>1
  <2>3. (\E u \in UserIds : Exists(u)) => Exists(1)
    <3>1. CASE n = 0
      BY <1>1, <1>2, <3>1 DEF Exists
    <3>2. CASE n = 2
      BY <1>1, <1>2, <3>2, <2>1, UsersAssumption DEF Exists
    <3> QED BY <3>1, <3>2
  <2>4. policyRow \in Policies
    BY DEF AccountsStart, Policies
  <2> QED BY <2>2, <2>3, <2>4 DEF ServerTypes
<1>4. cookie # NoUser => cookie \in Cookie /\ Exists(cookie.user)
  BY <1>2 DEF AccountsStart, Cookie, Exists
<1>5. "me" \in AccountKinds \ (AdminWrites \cup {"login"})
  BY DEF AccountKinds, AdminWrites
<1>6. PICK c : c = Sent({}, cookie, [kind |-> "me"])
  OBVIOUS
<1>7. PlainSent(c, cookie, "me")
  BY <1>4, <1>5, <1>6, PlainSentIs
<1>8. calls = {c}
  BY <1>6 DEF AccountsFirst
<1>9. TabTypes /\ AdminTypes
  BY <1>4 DEF AccountsStart, TabTypes, AdminTypes, Page
<1>10. Starting /\ Fresh /\ SameUser
  BY <1>7, <1>8 DEF PlainSent, AccountsStart, Starting, Fresh, SameUser, KnownEmpty
<1>11. OnItsPage /\ Undisturbed /\ Loading /\ PageAgrees
  BY <1>7, <1>8 DEF PlainSent, AccountsStart, OnItsPage, AdminWrites, Undisturbed, Watching, Page, Loading, PageAgrees
<1> QED BY <1>3, <1>7, <1>8, <1>9, <1>10, <1>11 DEF AccountsInv, PlainSent

-----------------------------------------------------------------------------
(* What happens to the requests while the tab and the rows stay.           *)

AccountsRest ==
  UNCHANGED <<accountRows, cookie, authVars, location, bootstrapRequired, adminUsers, userDrafts,
              adminPolicy, policyDraft, crossed>>

(* The tab's types do not depend on the requests.                          *)
LEMMA AccountsRestTypes ==
  ASSUME AccountsInv, AccountsRest, stale' \in BOOLEAN
  PROVE  /\ ServerTypes' /\ TabTypes' /\ AdminTypes' /\ Page' = Page
         /\ \A c : AccountExpected(c) => AccountExpected(c)'
<1>1. Page' = Page
  BY DEF AccountsRest, authVars, Page
<1>2. \A u \in UserIds : Exists(u)' = Exists(u)
  BY DEF AccountsRest, accountRows, Exists
<1>3. ServerTypes'
  BY <1>2 DEF AccountsInv, ServerTypes, AccountsRest, accountRows, Exists
<1>4. TabTypes'
  BY <1>1 DEF AccountsInv, TabTypes, AccountsRest, accountRows, authVars, Exists
<1>5. AdminTypes'
  BY <1>1 DEF AccountsInv, AdminTypes, AccountsRest, accountRows, Exists
<1> QED BY <1>1, <1>2, <1>3, <1>4, <1>5, StaysAccountExpected

(* A request becomes another phase of itself.                              *)
SameRequest(c, new) ==
  /\ new.kind = c.kind /\ new.mine = c.mine /\ new.by = c.by /\ new.cookie = c.cookie
  /\ c.kind \in {"saveUser", "resetPassword"} => new.target = c.target

(* Nothing is written, and what it says is so.                             *)
LEMMA BecomesKeeps ==
  ASSUME AccountsInv, AccountsRest, UNCHANGED stale,
         NEW c \in calls, NEW new, SameRequest(c, new), AccountExpected(new),
         calls' = (calls \ {c}) \cup {new},
         KnownEmpty(new) => \A u \in UserIds : ~Exists(u),
         (new.kind = "adminLoad" /\ new.phase = "answered") =>
           new.reply = [users |-> userRows, policy |-> policyRow],
         new.phase = "answered" => new.kind \notin PageWrites,
         LostWrite(c) \/ (c.kind \in PageWrites /\ c.phase = "answered") => LostWrite(new)
  PROVE  AccountsInv'
<1>1. /\ ServerTypes' /\ TabTypes' /\ AdminTypes' /\ Page' = Page
      /\ \A d \in calls' : AccountExpected(d)'
  <2>1. \A d \in calls' : AccountExpected(d)
    BY DEF AccountsInv
  <2> QED BY <2>1, AccountsRestTypes DEF AccountsInv, TabTypes
<1>2. /\ new.kind = c.kind /\ new.mine = c.mine /\ new.by = c.by /\ new.cookie = c.cookie
      /\ c.kind \in {"saveUser", "resetPassword"} => new.target = c.target
  BY DEF SameRequest
<1>3. Starting'
  <2>1. Starting
    BY DEF AccountsInv
  <2> QED BY <1>2, <2>1 DEF Starting, AccountsRest, authVars
<1>4. Fresh'
  <2>1. Fresh
    BY DEF AccountsInv
  <2>2. \A u \in UserIds : Exists(u)' = Exists(u)
    BY DEF Exists, AccountsRest, accountRows
  <2>3. (\E d \in calls' : KnownEmpty(d)) =>
          (\A u \in UserIds : ~Exists(u)) \/ \E d \in calls : KnownEmpty(d)
    OBVIOUS
  <2> QED BY <1>2, <2>1, <2>2, <2>3 DEF Fresh, AccountsRest, authVars, KnownEmpty
<1>5. SameUser'
  <2>1. (\E d \in calls : d.kind = "logout") => \E d \in calls' : d.kind = "logout"
    BY <1>2
  <2> QED BY <2>1 DEF AccountsInv, SameUser, AccountsRest, authVars
<1>20. OnItsPage'
  BY <1>1, <1>2 DEF AccountsInv, OnItsPage, AccountsRest
<1>6. Watching' = Watching
  BY <1>1 DEF Watching
<1>7. Undisturbed'
  <2>1. Undisturbed
    BY DEF AccountsInv
  <2> QED BY <1>2, <1>6, <2>1 DEF Undisturbed
<1>8. Loading'
  <2>1. Loading
    BY DEF AccountsInv
  <2> QED BY <1>1, <1>2, <2>1 DEF Loading, AccountsRest, accountRows
<1>9. PageAgrees'
  <2> SUFFICES ASSUME Watching', adminUsers' # NoUser, \A d \in calls' : ~LostWrite(d)
               PROVE  /\ \A d \in calls' : UpToDate(d)'
                      /\ \A u \in UserIds :
                           (\A d \in calls' : ~Told(d, u)) => adminUsers'[u] = Copy(userRows'[u])
                      /\ (\A d \in calls' : ~(d.kind = "savePolicy" /\ d.phase = "answered"))
                         => adminPolicy' = policyRow'
    BY DEF PageAgrees, LostWrite, Told
  <2>1. Watching /\ adminUsers # NoUser /\ ~LostWrite(new)
    BY <1>6 DEF AccountsRest
  <2>2. \A d \in calls : ~LostWrite(d)
    BY <2>1
  <2>3. /\ \A d \in calls : UpToDate(d)
        /\ \A u \in UserIds : (\A d \in calls : ~Told(d, u)) => adminUsers[u] = Copy(userRows[u])
        /\ (\A d \in calls : ~(d.kind = "savePolicy" /\ d.phase = "answered")) => adminPolicy = policyRow
    BY <2>1, <2>2 DEF AccountsInv, PageAgrees
  <2>4. ~(c.kind \in PageWrites /\ c.phase = "answered")
    BY <2>1
  <2>5. UpToDate(new)
    BY <1>2, <2>3 DEF UpToDate, PageWrites, AdminWrites
  <2>6. \A d : UpToDate(d)' = UpToDate(d)
    BY DEF UpToDate, AccountsRest, accountRows
  <2>7. \A u : ~Told(c, u)
    BY <2>4 DEF Told, PageWrites, AdminWrites
  <2>8. \A d \in calls' : UpToDate(d)'
    BY <2>3, <2>5, <2>6
  <2>9. \A u \in UserIds : (\A d \in calls' : ~Told(d, u)) => \A d \in calls : ~Told(d, u)
    BY <2>7
  <2>10. (\A d \in calls' : ~(d.kind = "savePolicy" /\ d.phase = "answered"))
         => \A d \in calls : ~(d.kind = "savePolicy" /\ d.phase = "answered")
    BY <2>4 DEF PageWrites, AdminWrites
  <2> QED BY <2>3, <2>8, <2>9, <2>10 DEF AccountsRest, accountRows
<1> QED BY <1>1, <1>3, <1>4, <1>5, <1>20, <1>7, <1>8, <1>9 DEF AccountsInv

(* A request ends, and nothing else changes.                               *)
LEMMA LeavesKeeps ==
  ASSUME AccountsInv, AccountsRest, stale' \in BOOLEAN, stale => stale',
         NEW c \in calls, calls' = calls \ {c}, c.kind # "logout",
         ~Watching' \/ (~LostWrite(c) /\ ~(c.kind \in PageWrites /\ c.phase = "answered"))
  PROVE  AccountsInv'
<1>1. /\ ServerTypes' /\ TabTypes' /\ AdminTypes' /\ Page' = Page
      /\ \A d \in calls' : AccountExpected(d)'
  <2>1. \A d \in calls' : AccountExpected(d)
    BY DEF AccountsInv
  <2> QED BY <2>1, AccountsRestTypes
<1>2. Watching' => Watching
  BY <1>1 DEF Watching
<1>3. Starting' /\ SameUser' /\ OnItsPage'
  BY <1>1 DEF AccountsInv, Starting, SameUser, OnItsPage, AccountsRest, authVars
<1>4. Fresh'
  BY DEF AccountsInv, Fresh, KnownEmpty, Exists, AccountsRest, authVars, accountRows
<1>5. Undisturbed'
  BY <1>2 DEF AccountsInv, Undisturbed
<1>6. Loading'
  BY <1>1 DEF AccountsInv, Loading, AccountsRest, accountRows
<1>7. PageAgrees'
  <2> SUFFICES ASSUME Watching', adminUsers' # NoUser, \A d \in calls' : ~LostWrite(d)
               PROVE  /\ \A d \in calls' : UpToDate(d)'
                      /\ \A u \in UserIds :
                           (\A d \in calls' : ~Told(d, u)) => adminUsers'[u] = Copy(userRows'[u])
                      /\ (\A d \in calls' : ~(d.kind = "savePolicy" /\ d.phase = "answered"))
                         => adminPolicy' = policyRow'
    BY DEF PageAgrees, LostWrite, Told
  <2>1. /\ Watching /\ adminUsers # NoUser /\ ~LostWrite(c)
        /\ ~(c.kind \in PageWrites /\ c.phase = "answered")
    BY <1>2 DEF AccountsRest
  <2>2. /\ \A d \in calls : UpToDate(d)
        /\ \A u \in UserIds : (\A d \in calls : ~Told(d, u)) => adminUsers[u] = Copy(userRows[u])
        /\ (\A d \in calls : ~(d.kind = "savePolicy" /\ d.phase = "answered")) => adminPolicy = policyRow
    BY <2>1 DEF AccountsInv, PageAgrees
  <2>3. \A d : UpToDate(d)' = UpToDate(d)
    BY DEF UpToDate, AccountsRest, accountRows
  <2>4. \A u : ~Told(c, u)
    BY <2>1 DEF Told, PageWrites, AdminWrites
  <2>5. \A u \in UserIds : (\A d \in calls' : ~Told(d, u)) => \A d \in calls : ~Told(d, u)
    BY <2>4
  <2>6. (\A d \in calls' : ~(d.kind = "savePolicy" /\ d.phase = "answered"))
        => \A d \in calls : ~(d.kind = "savePolicy" /\ d.phase = "answered")
    BY <2>1 DEF PageWrites, AdminWrites
  <2> QED BY <2>2, <2>3, <2>5, <2>6 DEF AccountsRest, accountRows
<1> QED BY <1>1, <1>3, <1>4, <1>5, <1>6, <1>7 DEF AccountsInv

(* A request leaves, and nothing else changes.                             *)
LEMMA AsksKeeps ==
  ASSUME AccountsInv, AccountsRest, stale' \in BOOLEAN, stale => stale',
         NEW new, AccountExpected(new), new.phase = "sent", calls' = calls \cup {new},
         new.kind \notin {"me", "adminLoad"},
         new.by = NoUser => \A d \in calls : d.kind \notin {"me", "bootstrap"},
         new.kind = "bootstrap" => user = NoUser /\ new.mine /\ \A d \in calls : d.by # NoUser,
         (new.kind \in AdminWrites /\ new.mine) => Page = "admin" /\ adminUsers # NoUser,
         (user # NoUser \/ new.by # NoUser \/ (new.mine /\ new.kind = "bootstrap") \/
           (~bootstrapRequired /\ (\E u \in UserIds : Exists(u)) /\ \A d \in calls : ~KnownEmpty(d))),
         Watching' =>
           /\ new.kind \in PageWrites => new.mine \/ new.by # NoUser
           /\ (new.kind = "saveUser" /\ new.by = NoUser) =>
                /\ \A d \in calls : (d.kind = "saveUser" /\ d.by = NoUser) => d.target # new.target
                /\ adminUsers # NoUser => adminUsers[new.target] # NoUser
           /\ new.kind \in {"savePolicy", "createUser"} => \A d \in calls : d.kind # new.kind
           /\ (new.kind \in PageWrites /\ new.by = NoUser) =>
                \A d \in calls : ~(d.kind = "adminLoad" /\ d.mine)
  PROVE  AccountsInv'
<1>1. /\ ServerTypes' /\ TabTypes' /\ AdminTypes' /\ Page' = Page
      /\ \A d \in calls' : AccountExpected(d)'
  <2>1. \A d \in calls' : AccountExpected(d)
    BY DEF AccountsInv
  <2> QED BY <2>1, AccountsRestTypes
<1>2. Watching' => Watching
  BY <1>1 DEF Watching
<1>3. Starting'
  <2>1. Starting
    BY DEF AccountsInv
  <2> QED BY <2>1 DEF Starting, AccountsRest, authVars
<1>4. SameUser' /\ OnItsPage'
  BY <1>1 DEF AccountsInv, SameUser, OnItsPage, AccountsRest, authVars
<1>5. Fresh'
  <2>1. Fresh
    BY DEF AccountsInv
  <2>2. \A u \in UserIds : Exists(u)' = Exists(u)
    BY DEF Exists, AccountsRest, accountRows
  <2>3. (\E d \in calls' : KnownEmpty(d)) => \E d \in calls : KnownEmpty(d)
    BY DEF KnownEmpty
  <2> QED BY <2>1, <2>2, <2>3 DEF Fresh, AccountsRest, authVars, KnownEmpty
<1>6. Undisturbed'
  <2>1. Watching' => Undisturbed /\ Watching
    BY <1>2 DEF AccountsInv
  <2> QED BY <2>1 DEF Undisturbed
<1>7. Loading'
  <2>1. Loading
    BY DEF AccountsInv
  <2>2. ASSUME NEW d \in calls', d.kind = "adminLoad", d.mine
        PROVE  /\ d \in calls /\ Page' = "admin" /\ adminUsers' = NoUser
               /\ \A e \in calls' : e.kind = "adminLoad" /\ e.mine => e = d
               /\ ~stale' => (new.kind \in PageWrites => new.by # NoUser)
    <3>1. d \in calls
      BY <2>2
    <3>2. ~stale' => Watching'
      BY <1>1, <2>1, <2>2, <3>1 DEF Loading, Watching
    <3> QED BY <1>1, <2>1, <2>2, <3>1, <3>2 DEF Loading, AccountsRest
  <2> QED BY <2>1, <2>2 DEF Loading, AccountsRest, accountRows
<1>8. PageAgrees'
  <2> SUFFICES ASSUME Watching', adminUsers' # NoUser, \A d \in calls' : ~LostWrite(d)
               PROVE  /\ \A d \in calls' : UpToDate(d)'
                      /\ \A u \in UserIds :
                           (\A d \in calls' : ~Told(d, u)) => adminUsers'[u] = Copy(userRows'[u])
                      /\ (\A d \in calls' : ~(d.kind = "savePolicy" /\ d.phase = "answered"))
                         => adminPolicy' = policyRow'
    BY DEF PageAgrees, LostWrite, Told
  <2>1. Watching /\ adminUsers # NoUser
    BY <1>2 DEF AccountsRest
  <2>2. /\ \A d \in calls : UpToDate(d)
        /\ \A u \in UserIds : (\A d \in calls : ~Told(d, u)) => adminUsers[u] = Copy(userRows[u])
        /\ (\A d \in calls : ~(d.kind = "savePolicy" /\ d.phase = "answered")) => adminPolicy = policyRow
    BY <2>1 DEF AccountsInv, PageAgrees
  <2>3. UpToDate(new)
    BY <2>1 DEF UpToDate
  <2>4. \A d : UpToDate(d)' = UpToDate(d)
    BY DEF UpToDate, AccountsRest, accountRows
  <2> QED BY <2>2, <2>3, <2>4 DEF AccountsRest, accountRows
<1> QED BY <1>1, <1>3, <1>4, <1>5, <1>6, <1>7, <1>8 DEF AccountsInv

-----------------------------------------------------------------------------
(* The tab lands on a page.                                                *)

(* A page that goes is not told what its requests end with.                *)
LEMMA ForgottenIs ==
  ASSUME NEW cs, \A d \in cs : AccountExpected(d)
  PROVE  /\ \A d \in Forgotten(cs) :
              AccountExpected(d) /\ d.mine = FALSE /\ d.kind # "bootstrapStatus"
         /\ \A d \in Forgotten(cs) : \E c \in cs : d.kind = c.kind /\ d.by = c.by
         /\ (\E c \in cs : c.kind = "logout") => \E d \in Forgotten(cs) : d.kind = "logout"
<1>1. ASSUME NEW c \in cs, c.kind # "bootstrapStatus", NEW d, d = [c EXCEPT !.mine = FALSE]
      PROVE  AccountExpected(d) /\ d.mine = FALSE /\ d.kind = c.kind /\ d.by = c.by
  <2>1. IsAccountRequest(c) /\ IsAccountAnswer(c)
    BY DEF AccountExpected
  <2>2. "mine" \in DOMAIN c /\ DOMAIN d = DOMAIN c
    BY <1>1, <2>1 DEF IsAccountRequest
  <2>3. /\ d.mine = FALSE /\ d.kind = c.kind /\ d.phase = c.phase /\ d.lost = c.lost
        /\ d.cookie = c.cookie /\ d.by = c.by /\ d.n = c.n
        /\ d.target = c.target /\ d.role = c.role /\ d.status = c.status /\ d.policy = c.policy
        /\ d.row = c.row /\ d.code = c.code /\ d.reply = c.reply
    BY <1>1, <2>2
  <2>4. IsAccountRequest(d)
    BY <2>1, <2>2, <2>3 DEF IsAccountRequest
  <2>5. IsAccountAnswer(d)
    BY <2>1, <2>2, <2>3 DEF IsAccountAnswer
  <2> QED BY <2>3, <2>4, <2>5 DEF AccountExpected
<1>2. \A d \in Forgotten(cs) : \E c \in cs : c.kind # "bootstrapStatus" /\ d = [c EXCEPT !.mine = FALSE]
  BY DEF Forgotten
<1>3. \A c \in cs : c.kind # "bootstrapStatus" => [c EXCEPT !.mine = FALSE] \in Forgotten(cs)
  BY DEF Forgotten
<1>4. \A d \in Forgotten(cs) : AccountExpected(d) /\ d.mine = FALSE /\ d.kind # "bootstrapStatus"
  BY <1>1, <1>2
<1>5. ASSUME NEW d \in Forgotten(cs)
      PROVE  \E c \in cs : d.kind = c.kind /\ d.by = c.by
  <2>1. PICK c \in cs : c.kind # "bootstrapStatus" /\ d = [c EXCEPT !.mine = FALSE]
    BY <1>2
  <2> QED BY <1>1, <2>1
<1>6. (\E c \in cs : c.kind = "logout") => \E d \in Forgotten(cs) : d.kind = "logout"
  BY <1>1, <1>3
<1> QED BY <1>4, <1>5, <1>6

(* Where the tab is then, and what it asks for.                            *)
LEMMA LandIs ==
  ASSUME NEW loc \in {"login", "chat", "admin"}, NEW u \in SignedIn \cup {NoUser},
         NEW waits \in BOOLEAN, NEW notice \in BOOLEAN, NEW jar, NEW cs,
         \A d \in cs : AccountExpected(d), jar # NoUser => jar \in Cookie /\ Exists(jar.user),
         Land(loc, u, waits, notice, jar, cs)
  PROVE  /\ user' = u /\ cookie' = jar /\ isLoadingUser' = waits /\ unreachable' = notice
         /\ location' \in {"login", "chat", "admin"}
         /\ Page' \in {"chat", "admin"} => u # NoUser
         /\ Page' = "admin" => u.role = "admin"
         /\ u # NoUser => Page' # "login"
         /\ bootstrapRequired' = (bootstrapRequired /\ Page' = Page)
         /\ Page' = Page => calls' = cs /\ UNCHANGED <<adminVars, stale>>
         /\ Page' # Page =>
              /\ adminUsers' = NoUser
              /\ stale' = (Page' = "admin" /\ \E c \in Forgotten(cs) : c.kind \in PageWrites /\ c.by = NoUser)
              /\ \/ calls' = Forgotten(cs)
                 \/ \E new : /\ calls' = Forgotten(cs) \cup {new}
                             /\ PlainSent(new, jar, "bootstrapStatus") /\ Page' = "login"
                 \/ \E new : /\ calls' = Forgotten(cs) \cup {new}
                             /\ PlainSent(new, jar, "adminLoad") /\ Page' = "admin"
<1> DEFINE where == IF waits \/ notice THEN loc ELSE Route(loc, u)
           page == IF waits \/ notice THEN "notice" ELSE where
           rest == IF page = Page THEN cs ELSE Forgotten(cs)
           load == CASE page # Page /\ page = "login" -> {Sent(rest, jar, [kind |-> "bootstrapStatus"])}
                     [] page # Page /\ page = "admin" -> {Sent(rest, jar, [kind |-> "adminLoad"])}
                     [] OTHER -> {}
<1>1. /\ location' = where /\ user' = u /\ isLoadingUser' = waits /\ unreachable' = notice
      /\ cookie' = jar /\ calls' = rest \cup load
      /\ bootstrapRequired' = (bootstrapRequired /\ page = Page)
      /\ IF page = Page THEN UNCHANGED <<adminVars, stale>>
         ELSE /\ adminUsers' = NoUser
              /\ stale' = (page = "admin" /\ \E c \in rest : c.kind \in PageWrites /\ c.by = NoUser)
  BY DEF Land
<1>2. Page' = page
  BY <1>1 DEF Page
<1>3. Route(loc, u) \in {"login", "chat", "admin"}
  BY DEF Route
<1>4. /\ Route(loc, u) \in {"chat", "admin"} => u # NoUser
      /\ Route(loc, u) = "admin" => u.role = "admin"
      /\ u # NoUser => Route(loc, u) # "login"
  BY DEF Route
<1>5. /\ location' \in {"login", "chat", "admin"}
      /\ page \in {"chat", "admin"} => u # NoUser
      /\ page = "admin" => u.role = "admin"
      /\ u # NoUser => page # "login"
  BY <1>1, <1>3, <1>4
<1>6. page = Page => calls' = cs
  BY <1>1
<1>7. ASSUME page # Page
      PROVE  \/ calls' = Forgotten(cs)
             \/ \E new : /\ calls' = Forgotten(cs) \cup {new}
                         /\ PlainSent(new, jar, "bootstrapStatus") /\ page = "login"
             \/ \E new : /\ calls' = Forgotten(cs) \cup {new}
                         /\ PlainSent(new, jar, "adminLoad") /\ page = "admin"
  <2>1. rest = Forgotten(cs)
    BY <1>7
  <2>2. {"bootstrapStatus", "adminLoad"} \subseteq AccountKinds \ (AdminWrites \cup {"login"})
    BY DEF AccountKinds, AdminWrites, NeedAdmin, Public
  <2>3. CASE page = "login"
    <3>1. load = {Sent(rest, jar, [kind |-> "bootstrapStatus"])}
      BY <1>7, <2>3
    <3>2. PlainSent(Sent(rest, jar, [kind |-> "bootstrapStatus"]), jar, "bootstrapStatus")
      BY <2>2, PlainSentIs
    <3> HIDE DEF page, rest, load, where
    <3> QED BY <1>1, <2>1, <2>3, <3>1, <3>2
  <2>4. CASE page = "admin"
    <3>1. load = {Sent(rest, jar, [kind |-> "adminLoad"])}
      BY <1>7, <2>4
    <3>2. PlainSent(Sent(rest, jar, [kind |-> "adminLoad"]), jar, "adminLoad")
      BY <2>2, PlainSentIs
    <3> HIDE DEF page, rest, load, where
    <3> QED BY <1>1, <2>1, <2>4, <3>1, <3>2
  <2>5. CASE page \notin {"login", "admin"}
    <3>1. load = {}
      BY <2>5
    <3> HIDE DEF page, rest, load, where
    <3> QED BY <1>1, <2>1, <3>1
  <2> QED BY <2>3, <2>4, <2>5
<1> HIDE DEF page, load, where
<1> QED BY <1>1, <1>2, <1>5, <1>6, <1>7

(* A page that goes forgets what it showed, and one that comes asks for it.*)
LEMMA LandKeeps ==
  ASSUME AccountsInv,
         NEW loc \in {"login", "chat", "admin"}, NEW u \in SignedIn \cup {NoUser},
         NEW waits \in BOOLEAN, NEW notice \in BOOLEAN, NEW jar, NEW cs \in SUBSET calls,
         jar # NoUser => jar \in Cookie /\ Exists(jar.user),
         Land(loc, u, waits, notice, jar, cs), UNCHANGED <<accountRows, crossed>>,
         \A d \in cs : d.kind \notin {"me", "bootstrap"},
         u # NoUser => /\ ~waits /\ ~notice /\ \E v \in UserIds : Exists(v)
                       /\ \A d \in cs : ~KnownEmpty(d),
         (u # NoUser /\ ~crossed) =>
           (jar # NoUser /\ jar.user = u.id) \/ \E c \in cs : c.kind = "logout",
         \A d \in calls \ cs : d.phase = "refused" \/ d.kind \notin PageWrites
  PROVE  AccountsInv'
<1>1. \A d \in cs : AccountExpected(d)
  BY DEF AccountsInv
<1>2. /\ user' = u /\ cookie' = jar /\ isLoadingUser' = waits /\ unreachable' = notice
      /\ location' \in {"login", "chat", "admin"}
      /\ Page' \in {"chat", "admin"} => u # NoUser
      /\ Page' = "admin" => u.role = "admin"
      /\ u # NoUser => Page' # "login"
      /\ bootstrapRequired' = (bootstrapRequired /\ Page' = Page)
      /\ Page' = Page => calls' = cs /\ UNCHANGED <<adminVars, stale>>
      /\ Page' # Page =>
           /\ adminUsers' = NoUser
           /\ stale' = (Page' = "admin" /\ \E c \in Forgotten(cs) : c.kind \in PageWrites /\ c.by = NoUser)
           /\ \/ calls' = Forgotten(cs)
              \/ \E new : /\ calls' = Forgotten(cs) \cup {new}
                          /\ PlainSent(new, jar, "bootstrapStatus") /\ Page' = "login"
              \/ \E new : /\ calls' = Forgotten(cs) \cup {new}
                          /\ PlainSent(new, jar, "adminLoad") /\ Page' = "admin"
  BY <1>1, LandIs
<1>3. /\ \A d \in Forgotten(cs) :
           AccountExpected(d) /\ d.mine = FALSE /\ d.kind # "bootstrapStatus"
      /\ \A d \in Forgotten(cs) : \E c \in cs : d.kind = c.kind /\ d.by = c.by
      /\ (\E c \in cs : c.kind = "logout") => \E d \in Forgotten(cs) : d.kind = "logout"
  BY <1>1, ForgottenIs
<1>4. \A v \in UserIds : Exists(v)' = Exists(v)
  BY DEF Exists, accountRows
<1>5. \A d \in calls' :
        \/ Page' = Page /\ d \in cs
        \/ Page' # Page /\ d \in Forgotten(cs)
        \/ Page' = "login" /\ Page' # Page /\ PlainSent(d, jar, "bootstrapStatus")
        \/ Page' = "admin" /\ Page' # Page /\ PlainSent(d, jar, "adminLoad")
  BY <1>2
<1>6. \A d \in calls' : AccountExpected(d)'
  <2>1. \A d \in calls' : AccountExpected(d)
    BY <1>1, <1>3, <1>5 DEF PlainSent
  <2> QED BY <2>1, <1>4, StaysAccountExpected
<1>7. ServerTypes'
  BY <1>4 DEF AccountsInv, ServerTypes, accountRows, Exists
<1>8. TabTypes'
  <2>1. cookie' # NoUser => cookie' \in Cookie /\ userRows'[cookie'.user] # NoUser
    BY <1>2 DEF Exists, accountRows
  <2>2. bootstrapRequired' \in BOOLEAN /\ stale' \in BOOLEAN /\ crossed' \in BOOLEAN
    BY <1>2 DEF AccountsInv, TabTypes
  <2> QED BY <1>2, <2>1, <2>2 DEF TabTypes, Exists
<1>9. AdminTypes'
  <2>1. CASE Page' = Page
    BY <1>2, <1>4, <2>1 DEF AccountsInv, AdminTypes, adminVars
  <2>2. CASE Page' # Page
    BY <1>2, <2>2 DEF AdminTypes
  <2> QED BY <2>1, <2>2
<1>10. \A d \in calls' : d.kind \notin {"me", "bootstrap"}
  BY <1>3, <1>5 DEF PlainSent
<1>11. Starting'
  BY <1>10 DEF Starting
<1>12. Fresh'
  <2> SUFFICES ASSUME bootstrapRequired' \/ (\A v \in UserIds : ~Exists(v)') \/ \E c \in calls' : KnownEmpty(c)
               PROVE  /\ user' = NoUser
                      /\ \A c \in calls' :
                           c.by # NoUser \/ (c.mine /\ c.kind \in {"me", "bootstrap", "bootstrapStatus"})
    BY DEF Fresh, KnownEmpty
  <2>1. \A c \in calls' : KnownEmpty(c) => c \in cs
    BY <1>3, <1>5 DEF KnownEmpty, PlainSent
  <2>2. bootstrapRequired \/ (\A v \in UserIds : ~Exists(v)) \/ \E c \in calls : KnownEmpty(c)
    BY <1>2, <1>4, <2>1
  <2>3. /\ user = NoUser
        /\ \A c \in calls :
             c.by # NoUser \/ (c.mine /\ c.kind \in {"me", "bootstrap", "bootstrapStatus"})
    BY <2>2 DEF AccountsInv, Fresh
  <2>4. u = NoUser
    <3> SUFFICES ASSUME u # NoUser PROVE FALSE
      OBVIOUS
    <3>1. bootstrapRequired' /\ Page' = Page
      BY <1>2, <1>4, <2>1
    <3>2. Page' \in {"chat", "admin"}
      BY <1>2 DEF Page
    <3> QED BY <2>3, <3>1, <3>2 DEF AccountsInv, TabTypes
  <2>5. \A c \in calls' : c.by # NoUser \/ (c.mine /\ c.kind \in {"me", "bootstrap", "bootstrapStatus"})
    BY <1>2, <1>3, <1>5, <2>3, <2>4 DEF PlainSent
  <2> QED BY <1>2, <2>4, <2>5
<1>13. SameUser'
  <2>1. (\E c \in cs : c.kind = "logout") => \E c \in calls' : c.kind = "logout"
    BY <1>2, <1>3
  <2> QED BY <1>2, <2>1 DEF SameUser
<1>20. OnItsPage'
  BY <1>2, <1>3, <1>5 DEF AccountsInv, OnItsPage, PlainSent, AdminWrites, adminVars
<1>14. Undisturbed'
  <2>1. CASE Page' = Page
    BY <1>2, <2>1 DEF AccountsInv, Undisturbed, Watching
  <2>2. CASE Page' # Page
    <3>1. Watching' => \A c \in calls' : c.kind \in PageWrites => c.by # NoUser
      BY <1>2, <1>5, <2>2 DEF Watching, PlainSent, PageWrites, AdminWrites
    <3>2. \A c \in calls' : c.by # NoUser => c.kind \notin {"savePolicy", "createUser"}
      BY <1>6 DEF AccountExpected, IsAccountRequest
    <3> QED BY <3>1, <3>2 DEF Undisturbed, PageWrites, AdminWrites
  <2> QED BY <2>1, <2>2
<1>15. Loading'
  <2>1. CASE Page' = Page
    <3>1. Loading
      BY DEF AccountsInv
    <3> QED BY <1>2, <2>1, <3>1 DEF Loading, accountRows, adminVars
  <2>2. CASE Page' # Page
    <3>1. \A c \in calls' : (c.kind = "adminLoad" /\ c.mine) => c.phase = "sent" /\ Page' = "admin"
      BY <1>3, <1>5, <2>2 DEF PlainSent
    <3>2. \A c, d \in calls' : (c.kind = "adminLoad" /\ c.mine /\ d.kind = "adminLoad" /\ d.mine) => d = c
      BY <1>2, <1>3, <2>2 DEF PlainSent
    <3>3. (Page' = "admin" /\ ~stale') => \A c \in calls' : c.kind \in PageWrites => c.by # NoUser
      BY <1>2, <1>5, <2>2 DEF PlainSent, PageWrites, AdminWrites
    <3> QED BY <1>2, <2>2, <3>1, <3>2, <3>3 DEF Loading
  <2> QED BY <2>1, <2>2
<1>16. PageAgrees'
  <2>1. CASE Page' # Page
    BY <1>2, <2>1 DEF PageAgrees
  <2>2. CASE Page' = Page
    <3> SUFFICES ASSUME Watching', adminUsers' # NoUser, \A d \in calls' : ~LostWrite(d)
                 PROVE  /\ \A d \in calls' : UpToDate(d)'
                        /\ \A v \in UserIds :
                             (\A d \in calls' : ~Told(d, v)) => adminUsers'[v] = Copy(userRows'[v])
                        /\ (\A d \in calls' : ~(d.kind = "savePolicy" /\ d.phase = "answered"))
                           => adminPolicy' = policyRow'
      BY DEF PageAgrees, LostWrite, Told
    <3>1. calls' = cs /\ UNCHANGED <<adminVars, stale>> /\ Watching
      BY <1>2, <2>2 DEF Watching
    <3>2. \A d \in calls \ cs : ~LostWrite(d) /\ (\A v : ~Told(d, v)) /\ ~(d.kind = "savePolicy" /\ d.phase = "answered")
      BY DEF LostWrite, Told, PageWrites, AdminWrites
    <3>3. \A d \in calls : ~LostWrite(d)
      BY <3>1, <3>2
    <3>4. /\ \A d \in calls : UpToDate(d)
          /\ \A v \in UserIds : (\A d \in calls : ~Told(d, v)) => adminUsers[v] = Copy(userRows[v])
          /\ (\A d \in calls : ~(d.kind = "savePolicy" /\ d.phase = "answered")) => adminPolicy = policyRow
      BY <3>1, <3>3 DEF AccountsInv, PageAgrees, adminVars
    <3>5. \A d : UpToDate(d)' = UpToDate(d)
      BY <3>1 DEF UpToDate, accountRows, adminVars
    <3> QED BY <3>1, <3>2, <3>4, <3>5 DEF accountRows, adminVars
  <2> QED BY <2>1, <2>2
<1> QED BY <1>6, <1>7, <1>8, <1>9, <1>11, <1>12, <1>13, <1>20, <1>14, <1>15, <1>16
DEF AccountsInv

-----------------------------------------------------------------------------
(* The server of the accounts.                                             *)

(* What becomes of a request in its next phase.                            *)
LEMMA NextPhaseIs ==
  ASSUME NEW c, IsAccountRequest(c), NEW f, NEW d, IsBeside(d, f, c),
         "phase" \in DOMAIN f, DOMAIN f \subseteq {"phase", "reply", "lost", "row", "code"},
         f.phase \in AccountPhases, c.by # NoUser => f.phase = "checked",
         "lost" \in DOMAIN f => f.lost \in BOOLEAN,
         f.phase = "checked" =>
           /\ c.kind \in RowWrites /\ "row" \in DOMAIN f /\ f.row \in UserRow
           /\ c.kind \in {"changePassword", "logoutAll"} => c.cookie # NoUser,
         f.phase = "refused" => "code" \in DOMAIN f /\ f.code \in Codes
  PROVE  /\ IsAccountRequest(d) /\ SameRequest(c, d) /\ d.phase = f.phase
         /\ "lost" \in DOMAIN f => d.lost = f.lost
         /\ "row" \in DOMAIN f => d.row = f.row
         /\ "reply" \in DOMAIN f => "reply" \in DOMAIN d /\ d.reply = f.reply
<1>1. /\ {"n", "phase", "lost", "kind", "cookie", "mine", "by"} \subseteq DOMAIN d
      /\ d.n = c.n /\ d.kind = c.kind /\ d.cookie = c.cookie /\ d.mine = c.mine /\ d.by = c.by
      /\ d.phase = f.phase /\ d.lost = (IF "lost" \in DOMAIN f THEN f.lost ELSE c.lost)
      /\ "row" \in DOMAIN f => "row" \in DOMAIN d /\ d.row = f.row
      /\ "reply" \in DOMAIN f => "reply" \in DOMAIN d /\ d.reply = f.reply
      /\ "code" \in DOMAIN f => "code" \in DOMAIN d /\ d.code = f.code
  BY DEF IsAccountRequest, IsBeside
<1>2. /\ "target" \in DOMAIN c => "target" \in DOMAIN d /\ d.target = c.target
      /\ "role" \in DOMAIN c => "role" \in DOMAIN d /\ d.role = c.role
      /\ "status" \in DOMAIN c => "status" \in DOMAIN d /\ d.status = c.status
      /\ "policy" \in DOMAIN c => "policy" \in DOMAIN d /\ d.policy = c.policy
  BY DEF IsBeside
<1>3. SameRequest(c, d)
  BY <1>1, <1>2 DEF SameRequest, IsAccountRequest
<1>4. IsAccountRequest(d)
  BY <1>1, <1>2 DEF IsAccountRequest
<1> QED BY <1>1, <1>3, <1>4

(* A request that failed.                                                  *)
LEMMA AccountFailedIs ==
  ASSUME NEW c, IsAccountRequest(c), c.by = NoUser
  PROVE  /\ AccountExpected(Broken(c)) /\ SameRequest(c, Broken(c)) /\ Broken(c).phase = "failed"
         /\ c.phase # "sent" => Broken(c).lost
<1>1. PICK b : b = (c.phase # "sent")
  OBVIOUS
<1>2. PICK f : f = [phase |-> "failed", lost |-> b]
  OBVIOUS
<1>3. DOMAIN f = {"phase", "lost"} /\ f.phase = "failed" /\ f.lost = b
  BY <1>2
<1>4. PICK d : d = Broken(c)
  OBVIOUS
<1>5. IsBeside(d, f, c)
  BY <1>1, <1>2, <1>4, BesideIs DEF Broken
<1>6. "failed" \in AccountPhases /\ b \in BOOLEAN
  BY <1>1 DEF AccountPhases
<1>7. IsAccountRequest(d) /\ SameRequest(c, d) /\ d.phase = f.phase /\ d.lost = f.lost
  BY <1>3, <1>5, <1>6, NextPhaseIs
<1>8. AccountExpected(d)
  BY <1>3, <1>7 DEF AccountExpected, IsAccountAnswer
<1> QED BY <1>1, <1>3, <1>4, <1>7, <1>8

(* The server checks a request.                                            *)
LEMMA CheckRequestKeeps ==
  ASSUME AccountsInv, CheckRequest, UNCHANGED crossed PROVE AccountsInv'
<1>1. PICK c \in calls :
        /\ c.phase = "sent" /\ c.kind \notin Public
        /\ \/ /\ SessionError(c) # "none"
              /\ IF c.by # NoUser THEN Done(c)
                 ELSE Become(c, Beside([phase |-> "refused", code |-> SessionError(c)], c))
           \/ SessionError(c) = "none" /\ ~Admitted(c) /\ Rejects(c)
           \/ /\ SessionError(c) = "none" /\ Admitted(c) /\ c.kind \in RowWrites
              /\ Become(c, Beside([phase |-> "checked", row |-> userRows[RowOf(c)]], c))
  BY DEF CheckRequest
<1>2. AccountsRest /\ UNCHANGED stale /\ stale \in BOOLEAN
  BY DEF CheckRequest, AccountsRest, adminVars, AccountsInv, TabTypes
<1>3. AccountExpected(c) /\ IsAccountRequest(c)
  BY DEF AccountsInv, AccountExpected
<1>4. CASE c.by # NoUser /\ Done(c)
  <2>1. calls' = calls \ {c} /\ c.kind # "logout"
    BY <1>3, <1>4 DEF Done, IsAccountRequest
  <2> QED BY <1>1, <1>2, <2>1, LeavesKeeps DEF LostWrite
<1>5. CASE c.by = NoUser /\ Become(c, Beside([phase |-> "refused", code |-> SessionError(c)], c))
           /\ SessionError(c) # "none"
  <2>1. PICK f : f = [phase |-> "refused", code |-> SessionError(c)]
    OBVIOUS
  <2>2. PICK d : d = Beside(f, c)
    OBVIOUS
  <2>3. SessionError(c) \in Codes
    BY <1>5 DEF SessionError, Codes
  <2>4. /\ DOMAIN f = {"phase", "code"} /\ f.phase = "refused" /\ f.code \in Codes
    BY <2>1, <2>3
  <2>5. IsAccountRequest(d) /\ SameRequest(c, d) /\ d.phase = "refused"
    BY <1>3, <1>5, <2>2, <2>4, BesideIs, NextPhaseIs DEF AccountPhases
  <2>6. AccountExpected(d) /\ ~KnownEmpty(d)
    BY <2>5 DEF AccountExpected, IsAccountAnswer, KnownEmpty
  <2>7. calls' = (calls \ {c}) \cup {d}
    BY <1>5, <2>1, <2>2 DEF Become
  <2> QED BY <1>1, <1>2, <2>5, <2>6, <2>7, BecomesKeeps DEF LostWrite
<1>6. CASE c.by = NoUser /\ Become(c, Broken(c))
  <2>1. PICK d : d = Broken(c)
    OBVIOUS
  <2>2. AccountExpected(d) /\ SameRequest(c, d) /\ d.phase = "failed"
    BY <1>3, <1>6, <2>1, AccountFailedIs
  <2>3. calls' = (calls \ {c}) \cup {d}
    BY <1>6, <2>1 DEF Become
  <2> QED BY <1>1, <1>2, <2>2, <2>3, BecomesKeeps DEF LostWrite, KnownEmpty
<1>7. CASE /\ SessionError(c) = "none" /\ c.kind \in RowWrites
           /\ Become(c, Beside([phase |-> "checked", row |-> userRows[RowOf(c)]], c))
  <2>1. PICK f : f = [phase |-> "checked", row |-> userRows[RowOf(c)]]
    OBVIOUS
  <2>2. PICK d : d = Beside(f, c)
    OBVIOUS
  <2>3. c.cookie # NoUser
    BY <1>7 DEF SessionError
  <2>4. RowOf(c) \in UserIds /\ Exists(RowOf(c))
    BY <1>3, <1>7, <2>3 DEF RowOf, IsAccountRequest, Cookie, RowWrites
  <2>5. userRows[RowOf(c)] \in UserRow
    BY <2>4 DEF AccountsInv, ServerTypes, Exists
  <2>6. DOMAIN f = {"phase", "row"} /\ f.phase = "checked" /\ f.row \in UserRow
    BY <2>1, <2>5
  <2>7. IsAccountRequest(d) /\ SameRequest(c, d) /\ d.phase = "checked"
    BY <1>3, <1>7, <2>2, <2>3, <2>6, BesideIs, NextPhaseIs DEF AccountPhases
  <2>8. AccountExpected(d) /\ ~KnownEmpty(d)
    BY <2>7 DEF AccountExpected, IsAccountAnswer, KnownEmpty
  <2>9. calls' = (calls \ {c}) \cup {d}
    BY <1>7, <2>1, <2>2 DEF Become
  <2> QED BY <1>1, <1>2, <2>7, <2>8, <2>9, BecomesKeeps DEF LostWrite
<1> QED BY <1>1, <1>4, <1>5, <1>6, <1>7 DEF Rejects

(* The network loses one.                                                  *)
LEMMA AccountsFailKeeps ==
  ASSUME AccountsInv, AccountsFail, UNCHANGED crossed PROVE AccountsInv'
<1>1. PICK c \in calls :
        /\ c.by = NoUser /\ (c.phase = "sent" \/ (c.phase = "answered" /\ c.kind \in TabWrites))
        /\ Become(c, Broken(c))
  BY DEF AccountsFail
<1>2. AccountsRest /\ UNCHANGED stale /\ stale \in BOOLEAN
  BY DEF AccountsFail, AccountsRest, adminVars, AccountsInv, TabTypes
<1>3. AccountExpected(c) /\ IsAccountRequest(c)
  BY DEF AccountsInv, AccountExpected
<1>4. PICK d : d = Broken(c)
  OBVIOUS
<1>5. /\ AccountExpected(d) /\ SameRequest(c, d) /\ d.phase = "failed"
      /\ c.phase # "sent" => d.lost
  BY <1>1, <1>3, <1>4, AccountFailedIs
<1>6. calls' = (calls \ {c}) \cup {d}
  BY <1>1, <1>4 DEF Become
<1>7. (c.kind \in PageWrites /\ c.phase = "answered") => LostWrite(d)
  BY <1>5 DEF LostWrite, SameRequest
<1> QED BY <1>1, <1>2, <1>5, <1>6, <1>7, BecomesKeeps DEF LostWrite, KnownEmpty

(* A request that is answered.                                             *)
LEMMA AnsweredIs ==
  ASSUME NEW c, IsAccountRequest(c), c.by = NoUser, NEW body, NEW d, d = Reply(c, body)
  PROVE  /\ IsAccountRequest(d) /\ SameRequest(c, d) /\ d.phase = "answered"
         /\ "reply" \in DOMAIN d /\ d.reply = body
<1>1. PICK f : f = [phase |-> "answered", reply |-> body]
  OBVIOUS
<1>2. DOMAIN f = {"phase", "reply"} /\ f.phase = "answered" /\ f.reply = body
  BY <1>1
<1>3. IsBeside(d, f, c)
  BY <1>1, BesideIs DEF Reply
<1> QED BY <1>2, <1>3, NextPhaseIs DEF AccountPhases

(* One that only asks.                                                     *)
LEMMA ReadIs ==
  ASSUME AccountsInv, NEW c \in calls, c.kind \in {"me", "api", "logout", "adminLoad"},
         c.phase = "sent", c.cookie # NoUser,
         NEW body, c.kind = "me" => body = [id |-> c.cookie.user, role |-> userRows[c.cookie.user].role],
         c.kind = "adminLoad" => body = [users |-> userRows, policy |-> policyRow],
         Answers(c, body), AccountsRest, UNCHANGED stale
  PROVE  AccountsInv'
<1>1. IsAccountRequest(c) /\ c.by = NoUser
  BY DEF AccountsInv, AccountExpected, IsAccountRequest
<1>2. PICK d : d = Reply(c, body)
  OBVIOUS
<1>3. IsAccountRequest(d) /\ SameRequest(c, d) /\ d.phase = "answered" /\ "reply" \in DOMAIN d /\ d.reply = body
  BY <1>1, <1>2, AnsweredIs
<1>4. IsAccountAnswer(d)
  <2>1. CASE c.kind = "me"
    <3>1. c.cookie \in Cookie /\ Exists(c.cookie.user)
      BY <1>1 DEF IsAccountRequest
    <3>2. userRows[c.cookie.user] \in UserRow /\ c.cookie.user \in UserIds
      BY <3>1 DEF AccountsInv, ServerTypes, Exists, Cookie
    <3>3. userRows[c.cookie.user].role \in Roles
      BY <3>2 DEF UserRow
    <3>4. body \in SignedIn /\ body.id = c.cookie.user
      BY <2>1, <3>2, <3>3 DEF SignedIn
    <3> QED BY <1>3, <2>1, <3>4 DEF IsAccountAnswer, SameRequest
  <2>2. CASE c.kind = "adminLoad"
    <3>1. body \in [users : [UserIds -> UserRow \cup {NoUser}], policy : Policies]
      BY <2>2 DEF AccountsInv, ServerTypes
    <3>2. \A u \in UserIds : body.users[u] # NoUser => Exists(u)
      BY <2>2 DEF Exists
    <3> QED BY <1>3, <2>2, <3>1, <3>2 DEF IsAccountAnswer, SameRequest
  <2>3. CASE c.kind \in {"api", "logout"}
    BY <1>3, <2>3 DEF IsAccountAnswer, SameRequest
  <2> QED BY <2>1, <2>2, <2>3
<1>5. calls' = (calls \ {c}) \cup {d}
  BY <1>2 DEF Answers, Become
<1>6. d.kind = c.kind /\ ~KnownEmpty(d)
  BY <1>3 DEF SameRequest, KnownEmpty
<1>7. c.kind \notin PageWrites
  BY DEF PageWrites, AdminWrites
<1> QED BY <1>3, <1>4, <1>5, <1>6, <1>7, BecomesKeeps DEF AccountExpected, LostWrite

(* A write that the server does, but for what the admin page will show.    *)
TabRests ==
  UNCHANGED <<cookie, authVars, location, bootstrapRequired, adminVars, crossed>>

(* What the page shows is as it was.                                       *)
SameShown ==
  /\ \A u \in UserIds : Copy(userRows'[u]) = Copy(userRows[u])
  /\ policyRow' = policyRow

(* The page may be told of it, is out of date, or shows nothing of it.     *)
LEMMA WriteKeeps ==
  ASSUME AccountsInv, TabRests, stale' \in BOOLEAN, stale => stale',
         ServerTypes', \A u \in UserIds : Exists(u) => Exists(u)',
         NEW c \in calls, c.kind \notin {"adminLoad", "logout"},
         NEW new, SameRequest(c, new), AccountExpected(new)', ~KnownEmpty(new),
         calls' = (calls \ {c}) \cup {new} \/ calls' = calls \ {c},
         (c.kind \in PageWrites /\ c.by = NoUser) \/ ~Watching' \/ SameShown
  PROVE  /\ TabTypes' /\ AdminTypes' /\ \A d \in calls' : AccountExpected(d)'
         /\ Starting' /\ Fresh' /\ SameUser' /\ OnItsPage' /\ Undisturbed' /\ Loading'
         /\ Watching' => Watching
<1>1. Page' = Page
  BY DEF TabRests, authVars, Page
<1>2. /\ new.kind = c.kind /\ new.mine = c.mine /\ new.by = c.by /\ new.cookie = c.cookie
      /\ c.kind \in {"saveUser", "resetPassword"} => new.target = c.target
  BY DEF SameRequest
<1>3. Watching' => Watching
  BY <1>1 DEF Watching
<1>4. TabTypes'
  <2>1. cookie' # NoUser => cookie' \in Cookie /\ Exists(cookie.user)'
    BY DEF TabRests, AccountsInv, TabTypes, Cookie
  <2> QED BY <1>1, <2>1 DEF AccountsInv, TabTypes, TabRests, authVars
<1>5. AdminTypes'
  BY <1>1 DEF AccountsInv, AdminTypes, TabRests, adminVars
<1>6. \A d \in calls' : AccountExpected(d)'
  BY StaysAccountExpected DEF AccountsInv
<1>7. Starting'
  <2>1. Starting
    BY DEF AccountsInv
  <2> QED BY <1>2, <2>1 DEF Starting, TabRests, authVars
<1>8. Fresh'
  <2>1. Fresh
    BY DEF AccountsInv
  <2>2. (\E d \in calls' : KnownEmpty(d)) => \E d \in calls : KnownEmpty(d)
    OBVIOUS
  <2>3. (\A u \in UserIds : ~Exists(u)') => \A u \in UserIds : ~Exists(u)
    OBVIOUS
  <2> QED BY <1>2, <2>1, <2>2, <2>3 DEF Fresh, TabRests, authVars, KnownEmpty
<1>9. SameUser'
  <2>1. (\E d \in calls : d.kind = "logout") => \E d \in calls' : d.kind = "logout"
    OBVIOUS
  <2> QED BY <2>1 DEF AccountsInv, SameUser, TabRests, authVars
<1>20. OnItsPage'
  BY <1>1, <1>2 DEF AccountsInv, OnItsPage, TabRests, adminVars
<1>10. Undisturbed'
  <2>1. Watching' => Undisturbed /\ Watching
    BY <1>3 DEF AccountsInv
  <2> QED BY <1>2, <2>1 DEF Undisturbed
<1>11. Loading'
  <2>1. Loading
    BY DEF AccountsInv
  <2>2. ASSUME NEW d \in calls', d.kind = "adminLoad", d.mine
        PROVE  /\ d \in calls /\ Page' = "admin" /\ adminUsers' = NoUser
               /\ \A e \in calls' : e.kind = "adminLoad" /\ e.mine => e = d
               /\ stale' \/ SameShown
               /\ ~stale' => ~stale /\ \A e \in calls' : e.kind \in PageWrites => e.by # NoUser
    <3>1. d \in calls
      BY <1>2, <2>2
    <3>2. Page = "admin" /\ adminUsers = NoUser
      BY <2>1, <2>2, <3>1 DEF Loading
    <3>3. \A e \in calls' : e.kind = "adminLoad" /\ e.mine => e = d
      BY <1>2, <2>1, <2>2, <3>1 DEF Loading
    <3>4. ~stale' => Watching' /\ ~stale
      BY <1>1, <3>2 DEF Watching
    <3>5. ~stale => \A e \in calls : e.kind \in PageWrites => e.by # NoUser
      BY <2>1, <2>2, <3>1 DEF Loading
    <3>6. ~stale' => \A e \in calls' : e.kind \in PageWrites => e.by # NoUser
      BY <1>2, <3>4, <3>5
    <3> QED BY <1>1, <3>1, <3>2, <3>3, <3>4, <3>5, <3>6 DEF TabRests, adminVars
  <2>3. ASSUME NEW d \in calls', d.kind = "adminLoad", d.mine, ~stale', d.phase = "answered"
        PROVE  /\ \A u \in UserIds : Copy(d.reply.users[u]) = Copy(userRows'[u])
               /\ d.reply.policy = policyRow'
    BY <2>1, <2>2, <2>3 DEF Loading, SameShown
  <2> QED BY <2>2, <2>3 DEF Loading
<1> QED BY <1>3, <1>4, <1>5, <1>6, <1>7, <1>8, <1>9, <1>20, <1>10, <1>11

(* One that nobody watches.                                                *)
LEMMA UnwatchedKeeps ==
  ASSUME AccountsInv, TabRests, stale' \in BOOLEAN, stale => stale',
         ServerTypes', \A u \in UserIds : Exists(u) => Exists(u)',
         NEW c \in calls, c.kind \notin {"adminLoad", "logout"},
         NEW new, SameRequest(c, new), AccountExpected(new)', ~KnownEmpty(new),
         calls' = (calls \ {c}) \cup {new} \/ calls' = calls \ {c},
         ~Watching'
  PROVE  AccountsInv'
<1>1. PageAgrees'
  BY DEF PageAgrees
<1>2. /\ TabTypes' /\ AdminTypes' /\ \A d \in calls' : AccountExpected(d)'
      /\ Starting' /\ Fresh' /\ SameUser' /\ OnItsPage' /\ Undisturbed' /\ Loading'
  BY WriteKeeps
<1> QED BY <1>1, <1>2 DEF AccountsInv

(* One that changes nothing the page shows.                                *)
LEMMA UnshownKeeps ==
  ASSUME AccountsInv, TabRests, stale' = stale, ServerTypes', SameShown,
         \A u \in UserIds : Exists(u) => Exists(u)',
         NEW c \in calls, c.kind \in RowWrites \ {"saveUser"},
         NEW new, SameRequest(c, new), AccountExpected(new)', ~KnownEmpty(new),
         calls' = (calls \ {c}) \cup {new} \/ calls' = calls \ {c}
  PROVE  AccountsInv'
<1>1. c.kind \notin PageWrites /\ c.kind \notin {"adminLoad", "logout", "savePolicy", "createUser", "saveUser"}
  BY DEF RowWrites, PageWrites, AdminWrites
<1>2. new.kind = c.kind /\ stale' \in BOOLEAN
  BY DEF SameRequest, AccountsInv, TabTypes
<1>3. /\ TabTypes' /\ AdminTypes' /\ \A d \in calls' : AccountExpected(d)'
      /\ Starting' /\ Fresh' /\ SameUser' /\ OnItsPage' /\ Undisturbed' /\ Loading'
      /\ Watching' => Watching
  BY <1>1, <1>2, WriteKeeps
<1>4. PageAgrees'
  <2> SUFFICES ASSUME Watching', adminUsers' # NoUser, \A d \in calls' : ~LostWrite(d)
               PROVE  /\ \A d \in calls' : UpToDate(d)'
                      /\ \A u \in UserIds :
                           (\A d \in calls' : ~Told(d, u)) => adminUsers'[u] = Copy(userRows'[u])
                      /\ (\A d \in calls' : ~(d.kind = "savePolicy" /\ d.phase = "answered"))
                         => adminPolicy' = policyRow'
    BY DEF PageAgrees, LostWrite, Told
  <2>1. Watching /\ adminUsers # NoUser /\ ~LostWrite(c) /\ \A u : ~Told(c, u)
    BY <1>1, <1>3 DEF TabRests, adminVars, LostWrite, Told
  <2>2. /\ \A d \in calls : UpToDate(d)
        /\ \A u \in UserIds : (\A d \in calls : ~Told(d, u)) => adminUsers[u] = Copy(userRows[u])
        /\ (\A d \in calls : ~(d.kind = "savePolicy" /\ d.phase = "answered")) => adminPolicy = policyRow
    BY <2>1 DEF AccountsInv, PageAgrees
  <2>3. UpToDate(new)'
    BY <1>1, <1>2 DEF UpToDate
  <2>4. ASSUME NEW d \in calls
        PROVE  UpToDate(d)'
    <3>1. UpToDate(d) /\ IsAccountRequest(d) /\ IsAccountAnswer(d)
      BY <2>2 DEF AccountsInv, AccountExpected
    <3>2. d.kind = "saveUser" => d.target \in UserIds
      BY <3>1 DEF IsAccountRequest
    <3>3. (d.phase = "answered" /\ d.kind = "createUser") => d.reply.id \in UserIds
      BY <3>1 DEF IsAccountAnswer
    <3> QED BY <3>1, <3>2, <3>3 DEF UpToDate, SameShown, TabRests, adminVars
  <2>5. \A u \in UserIds : (\A d \in calls' : ~Told(d, u)) => \A d \in calls : ~Told(d, u)
    BY <2>1
  <2>6. (\A d \in calls' : ~(d.kind = "savePolicy" /\ d.phase = "answered"))
        => \A d \in calls : ~(d.kind = "savePolicy" /\ d.phase = "answered")
    BY <1>1
  <2>7. \A d \in calls' : UpToDate(d)'
    BY <2>3, <2>4
  <2> QED BY <2>2, <2>5, <2>6, <2>7 DEF TabRests, adminVars, SameShown
<1> QED BY <1>3, <1>4 DEF AccountsInv

(* A row is left, and one whose version only was written shows the same.   *)
LEMMA WrittenIs ==
  ASSUME NEW c, IsAccountRequest(c), c.phase = "checked", userRows[RowOf(c)] \in UserRow
  PROVE  /\ Written(c) \in UserRow
         /\ c.kind # "saveUser" => Copy(Written(c)) = Copy(userRows[RowOf(c)])
<1>1. c.row \in UserRow
  BY DEF IsAccountRequest
<1>2. PICK v \in Nat :
        v = IF c.kind = "saveUser" /\ c.status = "active" THEN c.row.version ELSE c.row.version + 1
  BY <1>1 DEF UserRow
<1>3. CASE c.kind = "saveUser"
  <2>1. c.role \in Roles /\ c.status \in Statuses
    BY <1>3 DEF IsAccountRequest
  <2>2. Written(c) = [role |-> c.role, status |-> c.status, version |-> v]
    BY <1>2, <1>3 DEF Written
  <2> QED BY <1>3, <2>1, <2>2 DEF UserRow
<1>4. CASE c.kind # "saveUser"
  <2>1. Written(c) = [userRows[RowOf(c)] EXCEPT !.version = v]
    BY <1>2, <1>4 DEF Written
  <2>2. PICK row \in UserRow : row = userRows[RowOf(c)]
    OBVIOUS
  <2>3. PICK new : new = [row EXCEPT !.version = v]
    OBVIOUS
  <2>4. new \in UserRow /\ new.role = row.role /\ new.status = row.status
    BY <2>3 DEF UserRow
  <2>5. Copy(new) = Copy(row)
    BY <2>4, UsersAssumption DEF Copy
  <2> QED BY <1>4, <2>1, <2>2, <2>3, <2>4, <2>5
<1> QED BY <1>3, <1>4

(* A row that is replaced by another.                                      *)
LEMMA RowReplaced ==
  ASSUME ServerTypes, NEW id \in UserIds, Exists(1) \/ id = 1, NEW row \in UserRow,
         userRows' = [userRows EXCEPT ![id] = row], policyRow' = policyRow
  PROVE  /\ ServerTypes' /\ \A u \in UserIds : Exists(u) => Exists(u)'
         /\ Exists(id)' /\ userRows'[id] = row /\ \A u \in UserIds : u # id => userRows'[u] = userRows[u]
<1>1. userRows \in [UserIds -> UserRow \cup {NoUser}]
  BY DEF ServerTypes
<1>2. /\ userRows' \in [UserIds -> UserRow \cup {NoUser}] /\ userRows'[id] = row
      /\ \A u \in UserIds : u # id => userRows'[u] = userRows[u]
  BY <1>1
<1>3. Exists(id)' /\ \A u \in UserIds : Exists(u) => Exists(u)'
  BY <1>2, UsersAssumption DEF Exists
<1>4. 1 \in UserIds
  BY UsersAssumption DEF UserIds
<1>5. Exists(1)'
  BY <1>3, <1>4
<1>6. policyRow' \in Policies
  BY DEF ServerTypes
<1> QED BY <1>2, <1>3, <1>5, <1>6 DEF ServerTypes

(* The page sees a row of its own written.                                 *)
LEMMA RowWrittenAgrees ==
  ASSUME AccountsInv, TabRests, stale' = stale, ServerTypes', policyRow' = policyRow,
         NEW c \in calls, c.kind = "saveUser", c.phase = "checked", c.by = NoUser,
         NEW row, userRows'[c.target] = row,
         \A u \in UserIds : u # c.target => userRows'[u] = userRows[u],
         NEW new, SameRequest(c, new), new.phase = "answered", new.reply = row,
         calls' = (calls \ {c}) \cup {new}
  PROVE  PageAgrees'
<1> SUFFICES ASSUME Watching', adminUsers' # NoUser, \A d \in calls' : ~LostWrite(d)
             PROVE  /\ \A d \in calls' : UpToDate(d)'
                    /\ \A u \in UserIds :
                         (\A d \in calls' : ~Told(d, u)) => adminUsers'[u] = Copy(userRows'[u])
                    /\ (\A d \in calls' : ~(d.kind = "savePolicy" /\ d.phase = "answered"))
                       => adminPolicy' = policyRow'
  BY DEF PageAgrees, LostWrite, Told
<1>1. Watching /\ adminUsers # NoUser /\ ~LostWrite(c)
  BY DEF TabRests, adminVars, authVars, Watching, Page, LostWrite
<1>2. /\ \A d \in calls : UpToDate(d)
      /\ \A u \in UserIds : (\A d \in calls : ~Told(d, u)) => adminUsers[u] = Copy(userRows[u])
      /\ (\A d \in calls : ~(d.kind = "savePolicy" /\ d.phase = "answered")) => adminPolicy = policyRow
  BY <1>1 DEF AccountsInv, PageAgrees
<1>3. \A d \in calls : (d.kind = "saveUser" /\ d.by = NoUser /\ d.target = c.target) => d = c
  BY <1>1 DEF AccountsInv, Undisturbed
<1>4. /\ new.kind = c.kind /\ new.by = c.by /\ new.target = c.target
      /\ adminUsers[c.target] # NoUser
  BY <1>2 DEF UpToDate, SameRequest
<1>5. ASSUME NEW d \in calls, d # c
      PROVE  UpToDate(d)'
  <2>1. UpToDate(d) /\ IsAccountRequest(d) /\ IsAccountAnswer(d)
    BY <1>2 DEF AccountsInv, AccountExpected
  <2>2. ASSUME d.phase = "answered", d.kind = "saveUser"
        PROVE  Copy(d.reply) = Copy(userRows'[d.target])
    <3>1. d.target \in UserIds /\ d.by = NoUser
      BY <2>1, <2>2 DEF IsAccountRequest
    <3>2. d.target # c.target
      BY <1>3, <1>5, <2>2, <3>1
    <3> QED BY <2>1, <2>2, <3>1, <3>2 DEF UpToDate
  <2>3. ASSUME d.phase = "answered", d.kind = "createUser"
        PROVE  Copy(d.reply.row) = Copy(userRows'[d.reply.id]) /\ adminUsers'[d.reply.id] = NoUser
    <3>1. Copy(d.reply.row) = Copy(userRows[d.reply.id]) /\ adminUsers[d.reply.id] = NoUser
      BY <2>1, <2>3 DEF UpToDate
    <3>2. d.reply.id \in UserIds /\ d.reply.id # c.target
      BY <1>4, <2>1, <2>3, <3>1 DEF IsAccountAnswer
    <3> QED BY <3>1, <3>2 DEF TabRests, adminVars
  <2>4. (d.kind = "saveUser" /\ d.by = NoUser) => adminUsers'[d.target] # NoUser
    BY <2>1 DEF UpToDate, TabRests, adminVars
  <2>5. (d.phase = "answered" /\ d.kind = "savePolicy") => d.reply = policyRow'
    BY <2>1 DEF UpToDate
  <2> QED BY <2>2, <2>3, <2>4, <2>5 DEF UpToDate
<1>6. UpToDate(new)'
  BY <1>4 DEF UpToDate, TabRests, adminVars
<1>7. ASSUME NEW u \in UserIds, \A d \in calls' : ~Told(d, u)
      PROVE  adminUsers'[u] = Copy(userRows'[u])
  <2>1. \A d \in calls : ~Told(d, u)
    BY <1>7 DEF Told
  <2>2. adminUsers[u] = Copy(userRows[u])
    BY <1>2, <2>1
  <2>3. CASE u # c.target
    BY <2>2, <2>3 DEF TabRests, adminVars
  <2>4. CASE u = c.target
    BY <1>4, <1>7, <2>4 DEF Told
  <2> QED BY <2>3, <2>4
<1>8. (\A d \in calls' : ~(d.kind = "savePolicy" /\ d.phase = "answered")) => adminPolicy' = policyRow'
  BY <1>2 DEF TabRests, adminVars
<1> QED BY <1>5, <1>6, <1>7, <1>8

(* It sees a new row,                                                      *)
LEMMA RowCreatedAgrees ==
  ASSUME AccountsInv, TabRests, stale' = stale, policyRow' = policyRow,
         NEW c \in calls, c.kind = "createUser", c.phase = "sent",
         NEW id \in UserIds, ~Exists(id), NEW row, userRows'[id] = row,
         \A u \in UserIds : u # id => userRows'[u] = userRows[u],
         NEW new, SameRequest(c, new), new.phase = "answered", new.reply = [row |-> row, id |-> id],
         calls' = (calls \ {c}) \cup {new}
  PROVE  PageAgrees'
<1> SUFFICES ASSUME Watching', adminUsers' # NoUser, \A d \in calls' : ~LostWrite(d)
             PROVE  /\ \A d \in calls' : UpToDate(d)'
                    /\ \A u \in UserIds :
                         (\A d \in calls' : ~Told(d, u)) => adminUsers'[u] = Copy(userRows'[u])
                    /\ (\A d \in calls' : ~(d.kind = "savePolicy" /\ d.phase = "answered"))
                       => adminPolicy' = policyRow'
  BY DEF PageAgrees, LostWrite, Told
<1>1. Watching /\ adminUsers # NoUser /\ ~LostWrite(c)
  BY DEF TabRests, adminVars, authVars, Watching, Page, LostWrite
<1>2. /\ \A d \in calls : UpToDate(d)
      /\ \A u \in UserIds : (\A d \in calls : ~Told(d, u)) => adminUsers[u] = Copy(userRows[u])
      /\ (\A d \in calls : ~(d.kind = "savePolicy" /\ d.phase = "answered")) => adminPolicy = policyRow
  BY <1>1 DEF AccountsInv, PageAgrees
<1>3. \A d \in calls : d.kind = "createUser" => d = c
  BY <1>1 DEF AccountsInv, Undisturbed
<1>4. new.kind = "createUser" /\ adminUsers[id] = NoUser
  BY <1>1 DEF SameRequest, AccountsInv, AdminTypes
<1>5. ASSUME NEW d \in calls, d # c
      PROVE  UpToDate(d)'
  <2>1. UpToDate(d) /\ IsAccountRequest(d) /\ IsAccountAnswer(d)
    BY <1>2 DEF AccountsInv, AccountExpected
  <2>2. ASSUME d.phase = "answered", d.kind = "saveUser"
        PROVE  Copy(d.reply) = Copy(userRows'[d.target])
    <3>1. d.target \in UserIds /\ Exists(d.target)
      BY <2>1, <2>2 DEF IsAccountRequest
    <3> QED BY <2>1, <2>2, <3>1 DEF UpToDate
  <2>3. d.kind # "createUser"
    BY <1>3, <1>5
  <2>4. (d.kind = "saveUser" /\ d.by = NoUser) => adminUsers'[d.target] # NoUser
    BY <2>1 DEF UpToDate, TabRests, adminVars
  <2>5. (d.phase = "answered" /\ d.kind = "savePolicy") => d.reply = policyRow'
    BY <2>1 DEF UpToDate
  <2> QED BY <2>2, <2>3, <2>4, <2>5 DEF UpToDate
<1>6. UpToDate(new)'
  BY <1>4 DEF UpToDate, TabRests, adminVars
<1>7. ASSUME NEW u \in UserIds, \A d \in calls' : ~Told(d, u)
      PROVE  adminUsers'[u] = Copy(userRows'[u])
  <2>1. u # id
    BY <1>4, <1>7 DEF Told
  <2>2. \A d \in calls : ~Told(d, u)
    BY <1>7 DEF Told
  <2> QED BY <1>2, <2>1, <2>2 DEF TabRests, adminVars
<1>8. (\A d \in calls' : ~(d.kind = "savePolicy" /\ d.phase = "answered")) => adminPolicy' = policyRow'
  BY <1>2 DEF TabRests, adminVars
<1> QED BY <1>5, <1>6, <1>7, <1>8

(* and a policy.                                                           *)
LEMMA PolicyWrittenAgrees ==
  ASSUME AccountsInv, TabRests, stale' = stale, userRows' = userRows,
         NEW c \in calls, c.kind = "savePolicy", c.phase = "sent", policyRow' = c.policy,
         NEW new, SameRequest(c, new), new.phase = "answered", new.reply = c.policy,
         calls' = (calls \ {c}) \cup {new}
  PROVE  PageAgrees'
<1> SUFFICES ASSUME Watching', adminUsers' # NoUser, \A d \in calls' : ~LostWrite(d)
             PROVE  /\ \A d \in calls' : UpToDate(d)'
                    /\ \A u \in UserIds :
                         (\A d \in calls' : ~Told(d, u)) => adminUsers'[u] = Copy(userRows'[u])
                    /\ (\A d \in calls' : ~(d.kind = "savePolicy" /\ d.phase = "answered"))
                       => adminPolicy' = policyRow'
  BY DEF PageAgrees, LostWrite, Told
<1>1. Watching /\ adminUsers # NoUser /\ ~LostWrite(c)
  BY DEF TabRests, adminVars, authVars, Watching, Page, LostWrite
<1>2. /\ \A d \in calls : UpToDate(d)
      /\ \A u \in UserIds : (\A d \in calls : ~Told(d, u)) => adminUsers[u] = Copy(userRows[u])
  BY <1>1 DEF AccountsInv, PageAgrees
<1>3. \A d \in calls : d.kind = "savePolicy" => d = c
  BY <1>1 DEF AccountsInv, Undisturbed
<1>4. new.kind = "savePolicy"
  BY DEF SameRequest
<1>5. \A d \in calls : d # c => UpToDate(d)'
  BY <1>2, <1>3 DEF UpToDate, TabRests, adminVars
<1>6. UpToDate(new)'
  BY <1>4 DEF UpToDate
<1>7. \A u \in UserIds : (\A d \in calls' : ~Told(d, u)) => \A d \in calls : ~Told(d, u)
  BY DEF Told
<1>8. \A u \in UserIds : (\A d \in calls' : ~Told(d, u)) => adminUsers'[u] = Copy(userRows'[u])
  BY <1>2, <1>7 DEF TabRests, adminVars
<1>9. ~(\A d \in calls' : ~(d.kind = "savePolicy" /\ d.phase = "answered"))
  BY <1>4
<1> QED BY <1>5, <1>6, <1>8, <1>9

(* The server does what a request asks.                                    *)
LEMMA HandleRequestKeeps ==
  ASSUME AccountsInv, HandleRequest, UNCHANGED crossed PROVE AccountsInv'
<1>1. PICK c \in calls :
        /\ \/ c.phase = "checked"
           \/ /\ c.phase = "sent" /\ c.kind \notin Public \cup RowWrites
              /\ SessionError(c) = "none"
        /\ \/ /\ c.kind \in {"me", "api", "logout"}
              /\ Answers(c, IF c.kind = "me" THEN [id |-> c.cookie.user,
                                                    role |-> userRows[c.cookie.user].role] ELSE NoUser)
              /\ UNCHANGED <<accountRows, stale>>
           \/ /\ c.kind \in {"changePassword", "logoutAll"}
              /\ userRows' = [userRows EXCEPT ![RowOf(c)] = Written(c)]
              /\ Answers(c, IF c.kind = "logoutAll" THEN NoUser
                            ELSE [user |-> c.cookie.user, version |-> Written(c).version])
              /\ UNCHANGED <<policyRow, stale>>
           \/ /\ c.kind \in {"saveUser", "resetPassword"}
              /\ userRows' = [userRows EXCEPT ![RowOf(c)] = Written(c)]
              /\ IF c.by # NoUser THEN Done(c) ELSE Answers(c, Written(c))
              /\ stale' = (stale \/ (c.kind = "saveUser" /\ c.by # NoUser))
              /\ UNCHANGED policyRow
           \/ /\ c.kind = "createUser"
              /\ \E id \in UserIds :
                   /\ userRows[id] = NoUser /\ \A d \in UserIds : d < id => userRows[d] # NoUser
                   /\ LET row == [role |-> c.role, status |-> "active", version |-> 1]
                      IN  /\ userRows' = [userRows EXCEPT ![id] = row]
                          /\ Answers(c, [row |-> row, id |-> id])
              /\ UNCHANGED <<policyRow, stale>>
           \/ /\ c.kind = "savePolicy"
              /\ policyRow' = c.policy /\ Answers(c, c.policy)
              /\ UNCHANGED <<userRows, stale>>
           \/ /\ c.kind = "adminLoad"
              /\ Answers(c, [users |-> userRows, policy |-> policyRow])
              /\ UNCHANGED <<accountRows, stale>>
  BY DEF HandleRequest
<1>2. TabRests /\ stale \in BOOLEAN
  BY DEF HandleRequest, TabRests, AccountsInv, TabTypes
<1>3. IsAccountRequest(c) /\ ServerTypes
  BY DEF AccountsInv, AccountExpected
<1>4. CASE c.kind \in {"me", "api", "logout", "adminLoad"}
  <2>1. c.phase = "sent" /\ SessionError(c) = "none"
    BY <1>1, <1>3, <1>4 DEF IsAccountRequest, RowWrites
  <2>2. c.cookie # NoUser
    BY <2>1 DEF SessionError
  <2>3. AccountsRest /\ UNCHANGED stale
    BY <1>1, <1>2, <1>4 DEF TabRests, AccountsRest, adminVars, accountRows, authVars
  <2>4. CASE c.kind = "adminLoad"
    BY <1>1, <2>1, <2>2, <2>3, <2>4, ReadIs
  <2>5. CASE c.kind # "adminLoad"
    BY <1>1, <1>4, <2>1, <2>2, <2>3, <2>5, ReadIs
  <2> QED BY <2>4, <2>5
<1>5. ASSUME c.kind \in RowWrites
      PROVE  /\ c.phase = "checked" /\ RowOf(c) \in UserIds /\ Exists(RowOf(c)) /\ Exists(1)
             /\ Written(c) \in UserRow
             /\ c.kind # "saveUser" => Copy(Written(c)) = Copy(userRows[RowOf(c)])
  <2>1. c.phase = "checked"
    BY <1>1, <1>5
  <2>2. c.kind \in {"changePassword", "logoutAll"} => c.cookie # NoUser
    BY <1>3, <2>1 DEF IsAccountRequest
  <2>3. RowOf(c) \in UserIds /\ Exists(RowOf(c))
    BY <1>3, <1>5, <2>1, <2>2 DEF RowOf, RowWrites, IsAccountRequest, Cookie
  <2>4. Exists(1)
    BY <1>3, <2>3 DEF ServerTypes
  <2>5. userRows[RowOf(c)] \in UserRow
    BY <1>3, <2>3 DEF ServerTypes, Exists
  <2> QED BY <1>3, <2>1, <2>3, <2>4, <2>5, WrittenIs
<1>6. CASE c.kind \in {"changePassword", "logoutAll"}
  <2>1. PICK body : body = IF c.kind = "logoutAll" THEN NoUser
                           ELSE [user |-> c.cookie.user, version |-> Written(c).version]
    OBVIOUS
  <2>2. PICK d : d = Reply(c, body)
    OBVIOUS
  <2>3. /\ userRows' = [userRows EXCEPT ![RowOf(c)] = Written(c)] /\ policyRow' = policyRow
        /\ stale' = stale /\ calls' = (calls \ {c}) \cup {d}
    BY <1>1, <1>6, <2>1, <2>2 DEF Answers, Become
  <2>4. /\ c.kind \in RowWrites /\ c.by = NoUser /\ c.kind \notin {"adminLoad", "logout"}
    BY <1>3, <1>6 DEF RowWrites, IsAccountRequest
  <2>5. /\ ServerTypes' /\ \A u \in UserIds : Exists(u) => Exists(u)'
        /\ userRows'[RowOf(c)] = Written(c)
        /\ \A u \in UserIds : u # RowOf(c) => userRows'[u] = userRows[u]
    BY <1>3, <1>5, <2>3, <2>4, RowReplaced
  <2>6. IsAccountRequest(d) /\ SameRequest(c, d) /\ d.phase = "answered" /\ "reply" \in DOMAIN d /\ d.reply = body
    BY <1>3, <2>2, <2>4, AnsweredIs
  <2>7. d.kind = c.kind /\ ~KnownEmpty(d)
    BY <1>6, <2>6 DEF SameRequest, KnownEmpty
  <2>8. c.kind = "changePassword" => d.reply \in Cookie /\ Exists(d.reply.user)
    <3>1. c.kind = "changePassword" => c.cookie \in Cookie /\ RowOf(c) = c.cookie.user
      BY <1>3, <1>5, <2>4 DEF IsAccountRequest, RowOf
    <3>2. Written(c).version \in Nat
      BY <1>5, <2>4 DEF UserRow
    <3> QED BY <1>5, <2>1, <2>4, <2>6, <3>1, <3>2 DEF Cookie
  <2>9. AccountExpected(d)
    BY <1>6, <2>6, <2>7, <2>8 DEF AccountExpected, IsAccountAnswer
  <2>10. AccountExpected(d)'
    BY <2>5, <2>9, StaysAccountExpected
  <2>11. SameShown
    BY <1>5, <1>6, <2>3, <2>4, <2>5 DEF SameShown
  <2>12. c.kind \in RowWrites \ {"saveUser"}
    BY <1>6, <2>4
  <2> QED BY <1>2, <2>3, <2>5, <2>6, <2>7, <2>10, <2>11, <2>12, UnshownKeeps
<1>7. CASE c.kind \in {"saveUser", "resetPassword"} /\ c.by # NoUser
  <2>1. /\ userRows' = [userRows EXCEPT ![RowOf(c)] = Written(c)] /\ policyRow' = policyRow
        /\ stale' = (stale \/ c.kind = "saveUser") /\ calls' = calls \ {c}
    BY <1>1, <1>7 DEF Done
  <2>2. c.kind \in RowWrites /\ c.kind \notin {"adminLoad", "logout"}
    BY <1>7 DEF RowWrites
  <2>3. /\ ServerTypes' /\ \A u \in UserIds : Exists(u) => Exists(u)'
        /\ userRows'[RowOf(c)] = Written(c)
        /\ \A u \in UserIds : u # RowOf(c) => userRows'[u] = userRows[u]
    BY <1>3, <1>5, <2>1, <2>2, RowReplaced
  <2>4. SameRequest(c, c) /\ ~KnownEmpty(c) /\ AccountExpected(c)
    BY <1>7 DEF SameRequest, KnownEmpty, AccountsInv
  <2>5. AccountExpected(c)'
    BY <2>3, <2>4, StaysAccountExpected
  <2>6. CASE c.kind = "saveUser"
    <3>1. ~Watching'
      BY <2>1, <2>6 DEF Watching
    <3> QED BY <1>2, <2>1, <2>2, <2>3, <2>4, <2>5, <3>1, UnwatchedKeeps
  <2>7. CASE c.kind = "resetPassword"
    <3>1. SameShown
      BY <1>5, <2>1, <2>2, <2>3, <2>7 DEF SameShown
    <3>2. c.kind \in RowWrites \ {"saveUser"} /\ stale' = stale
      BY <1>2, <2>1, <2>2, <2>7
    <3> QED BY <1>2, <2>1, <2>3, <2>4, <2>5, <3>1, <3>2, UnshownKeeps
  <2> QED BY <1>7, <2>6, <2>7
<1>8. CASE c.kind \in {"saveUser", "resetPassword"} /\ c.by = NoUser
  <2>1. PICK d : d = Reply(c, Written(c))
    OBVIOUS
  <2>2. c.kind \in RowWrites /\ c.kind \notin {"adminLoad", "logout"} /\ RowOf(c) = c.target
    BY <1>8 DEF RowWrites, RowOf
  <2>3. /\ userRows' = [userRows EXCEPT ![c.target] = Written(c)] /\ policyRow' = policyRow
        /\ stale' = stale /\ calls' = (calls \ {c}) \cup {d}
    BY <1>1, <1>2, <1>8, <2>1, <2>2 DEF Answers, Become
  <2>4. /\ ServerTypes' /\ \A u \in UserIds : Exists(u) => Exists(u)'
        /\ userRows'[c.target] = Written(c)
        /\ \A u \in UserIds : u # c.target => userRows'[u] = userRows[u]
    BY <1>3, <1>5, <2>2, <2>3, RowReplaced
  <2>5. IsAccountRequest(d) /\ SameRequest(c, d) /\ d.phase = "answered" /\ "reply" \in DOMAIN d /\ d.reply = Written(c)
    BY <1>3, <1>8, <2>1, AnsweredIs
  <2>6. d.kind = c.kind /\ ~KnownEmpty(d)
    BY <1>8, <2>5 DEF SameRequest, KnownEmpty
  <2>7. AccountExpected(d)
    BY <1>5, <1>8, <2>2, <2>5, <2>6 DEF AccountExpected, IsAccountAnswer
  <2>8. AccountExpected(d)'
    BY <2>4, <2>7, StaysAccountExpected
  <2>9. CASE c.kind = "saveUser"
    <3>1. c.kind \in PageWrites
      BY <2>9 DEF PageWrites, AdminWrites
    <3>2. PageAgrees'
      BY <1>2, <1>5, <1>8, <2>2, <2>3, <2>4, <2>5, <2>9, RowWrittenAgrees
    <3>3. /\ TabTypes' /\ AdminTypes' /\ \A e \in calls' : AccountExpected(e)'
          /\ Starting' /\ Fresh' /\ SameUser' /\ OnItsPage' /\ Undisturbed' /\ Loading'
      BY <1>2, <1>8, <2>2, <2>3, <2>4, <2>5, <2>6, <2>8, <3>1, WriteKeeps
    <3> QED BY <2>4, <3>2, <3>3 DEF AccountsInv
  <2>10. CASE c.kind = "resetPassword"
    <3>1. SameShown
      BY <1>5, <2>2, <2>3, <2>4, <2>10 DEF SameShown
    <3>2. c.kind \in RowWrites \ {"saveUser"}
      BY <2>2, <2>10
    <3> QED BY <1>2, <2>3, <2>4, <2>5, <2>6, <2>8, <3>1, <3>2, UnshownKeeps
  <2> QED BY <1>8, <2>9, <2>10
<1>9. CASE c.kind = "createUser"
  <2>1. PICK id \in UserIds :
          /\ userRows[id] = NoUser /\ \A d \in UserIds : d < id => userRows[d] # NoUser
          /\ LET row == [role |-> c.role, status |-> "active", version |-> 1]
             IN  /\ userRows' = [userRows EXCEPT ![id] = row]
                 /\ Answers(c, [row |-> row, id |-> id])
    BY <1>1, <1>9
  <2>2. PICK row : row = [role |-> c.role, status |-> "active", version |-> 1]
    OBVIOUS
  <2>3. PICK d : d = Reply(c, [row |-> row, id |-> id])
    OBVIOUS
  <2>4. /\ userRows' = [userRows EXCEPT ![id] = row] /\ policyRow' = policyRow /\ stale' = stale
        /\ calls' = (calls \ {c}) \cup {d}
    BY <1>1, <1>9, <2>1, <2>2, <2>3 DEF Answers, Become
  <2>5. row \in UserRow
    BY <1>3, <1>9, <2>2 DEF IsAccountRequest, UserRow, Statuses
  <2>6. Exists(1) \/ id = 1
    <3>1. 1 \in UserIds /\ (1 < id \/ id = 1)
      BY UsersAssumption DEF UserIds
    <3> QED BY <2>1, <3>1 DEF Exists
  <2>7. /\ ServerTypes' /\ (\A u \in UserIds : Exists(u) => Exists(u)') /\ Exists(id)'
        /\ userRows'[id] = row /\ \A u \in UserIds : u # id => userRows'[u] = userRows[u]
    BY <1>3, <2>4, <2>5, <2>6, RowReplaced
  <2>8. c.by = NoUser /\ c.phase = "sent" /\ c.kind \in PageWrites /\ c.kind \notin {"adminLoad", "logout"}
    BY <1>1, <1>3, <1>9 DEF IsAccountRequest, RowWrites, PageWrites, AdminWrites
  <2>9. /\ IsAccountRequest(d) /\ SameRequest(c, d) /\ d.phase = "answered" /\ "reply" \in DOMAIN d
        /\ d.reply = [row |-> row, id |-> id]
    BY <1>3, <2>3, <2>8, AnsweredIs
  <2>10. d.kind = "createUser" /\ ~KnownEmpty(d)
    BY <1>9, <2>9 DEF SameRequest, KnownEmpty
  <2>11. AccountExpected(d)'
    <3>1. IsAccountRequest(d)'
      BY <2>7, <2>9 DEF IsAccountRequest, Cookie
    <3>2. IsAccountAnswer(d)'
      BY <2>5, <2>7, <2>9, <2>10 DEF IsAccountAnswer
    <3> QED BY <3>1, <3>2 DEF AccountExpected
  <2>12. PageAgrees'
    BY <1>2, <1>9, <2>1, <2>4, <2>7, <2>8, <2>9, RowCreatedAgrees DEF Exists
  <2>13. /\ TabTypes' /\ AdminTypes' /\ \A e \in calls' : AccountExpected(e)'
         /\ Starting' /\ Fresh' /\ SameUser' /\ OnItsPage' /\ Undisturbed' /\ Loading'
    BY <1>2, <2>4, <2>7, <2>8, <2>9, <2>10, <2>11, WriteKeeps
  <2> QED BY <2>7, <2>12, <2>13 DEF AccountsInv
<1>10. CASE c.kind = "savePolicy"
  <2>1. PICK d : d = Reply(c, c.policy)
    OBVIOUS
  <2>2. /\ userRows' = userRows /\ policyRow' = c.policy /\ stale' = stale
        /\ calls' = (calls \ {c}) \cup {d}
    BY <1>1, <1>10, <2>1 DEF Answers, Become
  <2>3. c.policy \in Policies
    BY <1>3, <1>10 DEF IsAccountRequest
  <2>4. /\ ServerTypes' /\ \A u \in UserIds : Exists(u) => Exists(u)'
    BY <1>3, <2>2, <2>3 DEF ServerTypes, Exists
  <2>5. c.by = NoUser /\ c.phase = "sent" /\ c.kind \in PageWrites /\ c.kind \notin {"adminLoad", "logout"}
    BY <1>1, <1>3, <1>10 DEF IsAccountRequest, RowWrites, PageWrites, AdminWrites
  <2>6. IsAccountRequest(d) /\ SameRequest(c, d) /\ d.phase = "answered" /\ "reply" \in DOMAIN d /\ d.reply = c.policy
    BY <1>3, <2>1, <2>5, AnsweredIs
  <2>7. d.kind = "savePolicy" /\ ~KnownEmpty(d)
    BY <1>10, <2>6 DEF SameRequest, KnownEmpty
  <2>8. AccountExpected(d)
    BY <2>3, <2>6, <2>7 DEF AccountExpected, IsAccountAnswer
  <2>9. AccountExpected(d)'
    BY <2>4, <2>8, StaysAccountExpected
  <2>10. PageAgrees'
    BY <1>2, <1>10, <2>2, <2>5, <2>6, PolicyWrittenAgrees
  <2>11. /\ TabTypes' /\ AdminTypes' /\ \A e \in calls' : AccountExpected(e)'
         /\ Starting' /\ Fresh' /\ SameUser' /\ OnItsPage' /\ Undisturbed' /\ Loading'
    BY <1>2, <2>2, <2>4, <2>5, <2>6, <2>7, <2>9, WriteKeeps
  <2> QED BY <2>4, <2>10, <2>11 DEF AccountsInv
<1> QED BY <1>1, <1>4, <1>6, <1>7, <1>8, <1>9, <1>10

(* It does what one asks that needs no session.                            *)
LEMMA ServePublicKeeps == ASSUME AccountsInv, ServePublic, UNCHANGED crossed PROVE AccountsInv'
<1>1. PICK c \in calls :
        /\ c.phase = "sent"
        /\ \/ /\ c.kind = "login" /\ userRows[c.target] # NoUser /\ userRows[c.target].status = "active"
              /\ Answers(c, [user |-> c.target, version |-> userRows[c.target].version,
                             role |-> userRows[c.target].role])
              /\ UNCHANGED userRows
           \/ /\ c.kind = "bootstrap" /\ \A u \in UserIds : userRows[u] = NoUser
              /\ userRows' = [userRows EXCEPT ![1] = [role |-> "admin", status |-> "active",
                                                      version |-> 1]]
              /\ Answers(c, [user |-> 1, version |-> 1])
           \/ /\ c.kind = "bootstrapStatus"
              /\ Answers(c, \A u \in UserIds : userRows[u] = NoUser)
              /\ UNCHANGED userRows
  BY DEF ServePublic
<1>2. /\ TabRests /\ UNCHANGED <<policyRow, stale>> /\ stale \in BOOLEAN
      /\ UNCHANGED userRows => AccountsRest
  BY DEF ServePublic, TabRests, AccountsRest, AccountsInv, TabTypes, accountRows, adminVars, authVars
<1>3. IsAccountRequest(c) /\ ServerTypes
  BY DEF AccountsInv, AccountExpected
<1>4. c.by = NoUser /\ c.kind \notin PageWrites
  BY <1>1, <1>3 DEF IsAccountRequest, PageWrites, AdminWrites
<1>5. CASE c.kind = "login"
  <2>1. PICK body : body = [user |-> c.target, version |-> userRows[c.target].version,
                            role |-> userRows[c.target].role]
    OBVIOUS
  <2>2. PICK d : d = Reply(c, body)
    OBVIOUS
  <2>3. calls' = (calls \ {c}) \cup {d} /\ UNCHANGED userRows /\ Exists(c.target)
    BY <1>1, <1>5, <2>1, <2>2 DEF Answers, Become, Exists
  <2>4. IsAccountRequest(d) /\ SameRequest(c, d) /\ d.phase = "answered" /\ "reply" \in DOMAIN d /\ d.reply = body
    BY <1>3, <1>4, <2>2, AnsweredIs
  <2>5. d.kind = "login" /\ ~KnownEmpty(d)
    BY <1>5, <2>4 DEF SameRequest, KnownEmpty
  <2>6. c.target \in UserIds
    BY <1>3, <1>5 DEF IsAccountRequest
  <2>7. userRows[c.target] \in UserRow
    BY <1>3, <2>3, <2>6 DEF ServerTypes, Exists
  <2>8. body \in [user : UserIds, version : Nat, role : Roles] /\ body.user = c.target
    BY <2>1, <2>6, <2>7 DEF UserRow
  <2>9. AccountExpected(d)
    BY <2>3, <2>4, <2>5, <2>8 DEF AccountExpected, IsAccountAnswer
  <2> QED BY <1>1, <1>2, <1>4, <1>5, <2>3, <2>4, <2>5, <2>9, BecomesKeeps DEF LostWrite
<1>6. CASE c.kind = "bootstrap"
  <2>1. PICK row : row = [role |-> "admin", status |-> "active", version |-> 1]
    OBVIOUS
  <2>2. PICK d : d = Reply(c, [user |-> 1, version |-> 1])
    OBVIOUS
  <2>3. /\ calls' = (calls \ {c}) \cup {d} /\ userRows' = [userRows EXCEPT ![1] = row]
        /\ row \in UserRow /\ 1 \in UserIds
    BY <1>1, <1>6, <2>1, <2>2, UsersAssumption DEF Answers, Become, UserRow, Roles, Statuses, UserIds
  <2>4. ServerTypes' /\ (\A u \in UserIds : Exists(u) => Exists(u)') /\ Exists(1)'
    BY <1>2, <1>3, <2>3, RowReplaced
  <2>5. /\ IsAccountRequest(d) /\ SameRequest(c, d) /\ d.phase = "answered" /\ "reply" \in DOMAIN d
        /\ d.reply = [user |-> 1, version |-> 1]
    BY <1>3, <1>4, <2>2, AnsweredIs
  <2>6. d.kind = "bootstrap" /\ ~KnownEmpty(d)
    BY <1>6, <2>5 DEF SameRequest, KnownEmpty
  <2>7. AccountExpected(d)'
    <3>1. IsAccountRequest(d)'
      BY <2>4, <2>5 DEF IsAccountRequest, Cookie
    <3>2. IsAccountAnswer(d)'
      BY <2>3, <2>4, <2>5, <2>6 DEF IsAccountAnswer, Cookie
    <3> QED BY <3>1, <3>2 DEF AccountExpected
  <2>8. user = NoUser
    BY <1>6 DEF AccountsInv, Starting
  <2>9. ~Watching'
    BY <1>2, <2>8 DEF AccountsInv, TabTypes, Watching, Page, TabRests, authVars
  <2> QED BY <1>2, <1>6, <2>3, <2>4, <2>5, <2>6, <2>7, <2>9, UnwatchedKeeps
<1>7. CASE c.kind = "bootstrapStatus"
  <2>1. PICK b : b \in BOOLEAN /\ b = (\A u \in UserIds : userRows[u] = NoUser)
    OBVIOUS
  <2>2. PICK d : d = Reply(c, b)
    OBVIOUS
  <2>3. calls' = (calls \ {c}) \cup {d} /\ UNCHANGED userRows
    BY <1>1, <1>7, <2>1, <2>2 DEF Answers, Become
  <2>4. IsAccountRequest(d) /\ SameRequest(c, d) /\ d.phase = "answered" /\ "reply" \in DOMAIN d /\ d.reply = b
    BY <1>3, <1>4, <2>2, AnsweredIs
  <2>5. d.kind = "bootstrapStatus"
    BY <1>7, <2>4 DEF SameRequest
  <2>6. KnownEmpty(d) => \A u \in UserIds : ~Exists(u)
    BY <2>1, <2>4 DEF KnownEmpty, Exists
  <2>7. AccountExpected(d)
    BY <2>1, <2>4, <2>5 DEF AccountExpected, IsAccountAnswer
  <2> QED BY <1>1, <1>2, <1>4, <1>7, <2>3, <2>4, <2>5, <2>6, <2>7, BecomesKeeps DEF LostWrite
<1> QED BY <1>1, <1>5, <1>6, <1>7

-----------------------------------------------------------------------------
(* What is done at the tab.                                                *)

(* One who is signed in waits for no start.                                *)
LEMMA SignedInIs ==
  ASSUME AccountsInv, user # NoUser
  PROVE  /\ \A d \in calls : d.kind \notin {"me", "bootstrap"} /\ ~KnownEmpty(d)
         /\ ~bootstrapRequired /\ \E u \in UserIds : Exists(u)
<1>1. Starting /\ Fresh
  BY DEF AccountsInv
<1>2. \A d \in calls : d.kind \notin {"me", "bootstrap"}
  BY <1>1 DEF Starting
<1>3. ~bootstrapRequired /\ (\E u \in UserIds : Exists(u)) /\ \A d \in calls : ~KnownEmpty(d)
  BY <1>1 DEF Fresh
<1> QED BY <1>2, <1>3

(* Nothing but a request comes of it.                                      *)
LEMMA QuietIs ==
  ASSUME AccountsInv, Quiet, UNCHANGED crossed
  PROVE  AccountsRest /\ stale \in BOOLEAN /\ (cookie # NoUser => cookie \in Cookie /\ Exists(cookie.user))
  BY DEF Quiet, AccountsRest, adminVars, AccountsInv, TabTypes

(* Somebody signs in, or is the first to.                                  *)
LEMMA SubmitLoginKeeps == ASSUME AccountsInv, SubmitLogin, UNCHANGED crossed PROVE AccountsInv'
<1>1. AccountsRest /\ UNCHANGED stale /\ stale \in BOOLEAN /\ (cookie # NoUser => cookie \in Cookie /\ Exists(cookie.user))
  BY QuietIs DEF SubmitLogin
<1>2. /\ Page = "login"
      /\ \A d \in calls : d.kind \in {"login", "bootstrap", "me", "bootstrapStatus"} => ~d.mine
  BY DEF SubmitLogin, Mine
<1>3. \A d \in calls : d.kind \notin {"me", "bootstrap"}
  BY <1>2 DEF AccountsInv, Starting
<1>4. ~Watching'
  BY <1>1, <1>2 DEF Watching, Page, AccountsRest, authVars
<1>5. CASE bootstrapRequired
  <2>1. PICK d : d = Sent(calls, cookie, [kind |-> "bootstrap"])
    OBVIOUS
  <2>2. PlainSent(d, cookie, "bootstrap")
    BY <1>1, <2>1, PlainSentIs DEF AccountKinds, AdminWrites, Public
  <2>3. calls' = calls \cup {d}
    BY <1>5, <2>1 DEF SubmitLogin, Ask
  <2>4. /\ user = NoUser
        /\ \A e \in calls : e.by # NoUser \/ (e.mine /\ e.kind \in {"me", "bootstrap", "bootstrapStatus"})
    BY <1>5 DEF AccountsInv, Fresh
  <2>5. \A e \in calls : e.by # NoUser
    BY <1>2, <2>4
  <2> QED BY <1>1, <1>3, <1>4, <2>2, <2>3, <2>4, <2>5, AsksKeeps DEF PlainSent, AdminWrites
<1>6. CASE ~bootstrapRequired
  <2>1. PICK u \in UserIds : userRows[u] # NoUser /\ Ask([kind |-> "login", target |-> u])
    BY <1>6 DEF SubmitLogin
  <2>2. PICK body : body = [kind |-> "login", target |-> u]
    OBVIOUS
  <2>3. PICK d : d = Sent(calls, cookie, body)
    OBVIOUS
  <2>4. "kind" \in DOMAIN body /\ DOMAIN body \cap {"n", "phase", "lost", "cookie"} = {}
    BY <2>2
  <2>5. IsSent(d, cookie, body)
    BY <2>3, <2>4, SentIs
  <2>6. /\ {"n", "phase", "lost", "kind", "cookie", "mine", "by", "target"} \subseteq DOMAIN d
        /\ d.kind = "login" /\ d.mine = TRUE /\ d.by = NoUser /\ d.phase = "sent" /\ d.lost = FALSE
        /\ d.cookie = cookie /\ d.target = u
    BY <2>2, <2>5 DEF IsSent
  <2>7. AccountExpected(d)
    BY <1>1, <2>6 DEF AccountExpected, IsAccountRequest, IsAccountAnswer, AccountPhases, AccountKinds, Public
  <2>8. calls' = calls \cup {d}
    BY <2>1, <2>2, <2>3 DEF Ask
  <2>9. \A e \in calls : ~KnownEmpty(e)
    <3> SUFFICES ASSUME NEW e \in calls, KnownEmpty(e) PROVE FALSE
      OBVIOUS
    <3>1. e.by = NoUser /\ e.kind = "bootstrapStatus"
      BY DEF KnownEmpty, AccountsInv, AccountExpected, IsAccountRequest
    <3>2. e.mine
      BY <3>1 DEF AccountsInv, Fresh
    <3> QED BY <1>2, <3>1, <3>2
  <2>10. \E v \in UserIds : Exists(v)
    BY <2>1 DEF Exists
  <2> QED BY <1>1, <1>3, <1>4, <1>6, <2>6, <2>7, <2>8, <2>9, <2>10, AsksKeeps DEF AdminWrites
<1> QED BY <1>5, <1>6

(* A plain request of one who is signed in.                                *)
LEMMA PlainAskKeeps ==
  ASSUME AccountsInv, UNCHANGED <<crossed, stale>>, Quiet, user # NoUser,
         NEW k \in {"api", "logout", "changePassword", "logoutAll"}, Ask([kind |-> k])
  PROVE  AccountsInv'
<1>1. AccountsRest /\ UNCHANGED stale /\ stale \in BOOLEAN /\ (cookie # NoUser => cookie \in Cookie /\ Exists(cookie.user))
  BY QuietIs
<1>2. PICK d : d = Sent(calls, cookie, [kind |-> k])
  OBVIOUS
<1>3. PlainSent(d, cookie, k)
  BY <1>1, <1>2, PlainSentIs DEF AccountKinds, AdminWrites, RowWrites
<1>4. calls' = calls \cup {d}
  BY <1>2 DEF Ask
<1>5. \A e \in calls : e.kind \notin {"me", "bootstrap"}
  BY SignedInIs
<1>6. d.kind \notin PageWrites
  BY <1>3 DEF PlainSent, PageWrites, AdminWrites
<1>7. d.kind = k /\ d.phase = "sent" /\ AccountExpected(d)
  BY <1>3 DEF PlainSent
<1> QED BY <1>1, <1>4, <1>5, <1>6, <1>7, AsksKeeps DEF PageWrites, AdminWrites

(* The chat asks for something.                                            *)
LEMMA UseApiKeeps == ASSUME AccountsInv, UseApi, UNCHANGED crossed PROVE AccountsInv'
<1>1. user # NoUser
  BY DEF UseApi, AccountsInv, TabTypes
<1> QED BY <1>1, PlainAskKeeps DEF UseApi

(* Somebody signs out.                                                     *)
LEMMA LogoutKeeps == ASSUME AccountsInv, Logout, UNCHANGED crossed PROVE AccountsInv'
<1>1. user # NoUser
  BY DEF Logout, AccountsInv, TabTypes
<1> QED BY <1>1, PlainAskKeeps DEF Logout

(* A password is changed, or every session ended.                          *)
LEMMA SecureKeeps == ASSUME AccountsInv, Secure, UNCHANGED crossed PROVE AccountsInv'
<1>1. PICK k \in {"changePassword", "logoutAll"} :
        Page = "chat" /\ Ask([kind |-> k]) /\ Quiet /\ UNCHANGED stale
  BY DEF Secure
<1>2. user # NoUser
  BY <1>1 DEF AccountsInv, TabTypes
<1> QED BY <1>1, <1>2, PlainAskKeeps

(* A user is saved, or gets a password.                                    *)
LEMMA SaveUserKeeps == ASSUME AccountsInv, SaveUser, UNCHANGED crossed PROVE AccountsInv'
<1>1. PICK u \in UserIds, k \in {"saveUser", "resetPassword"} :
        /\ OnAdmin /\ adminUsers[u] # NoUser
        /\ Ask([kind |-> k, target |-> u, role |-> userDrafts[u].role, status |-> userDrafts[u].status])
        /\ stale' = (stale \/ (k = "saveUser" /\ \E c \in Kind(k) : c.by = NoUser /\ c.target = u))
        /\ UNCHANGED <<accountRows, cookie, authVars, location, bootstrapRequired, adminUsers,
                       userDrafts, adminPolicy, policyDraft>>
  BY DEF SaveUser
<1>2. /\ AccountsRest /\ stale' \in BOOLEAN /\ (stale => stale')
      /\ cookie # NoUser => cookie \in Cookie /\ Exists(cookie.user)
  BY <1>1 DEF AccountsRest, AccountsInv, TabTypes
<1>3. user # NoUser /\ Page = "admin" /\ adminUsers # NoUser
  BY <1>1 DEF OnAdmin, AccountsInv, TabTypes
<1>4. userDrafts[u] \in UserCopy /\ Exists(u)
  BY <1>1, <1>3 DEF AccountsInv, AdminTypes
<1>5. PICK body : body = [kind |-> k, target |-> u, role |-> userDrafts[u].role, status |-> userDrafts[u].status]
  OBVIOUS
<1>6. PICK d : d = Sent(calls, cookie, body)
  OBVIOUS
<1>7. "kind" \in DOMAIN body /\ DOMAIN body \cap {"n", "phase", "lost", "cookie"} = {}
  BY <1>5
<1>8. IsSent(d, cookie, body)
  BY <1>6, <1>7, SentIs
<1>9. /\ {"n", "phase", "lost", "kind", "cookie", "mine", "by", "target", "role", "status"} \subseteq DOMAIN d
      /\ d.kind = k /\ d.mine = TRUE /\ d.by = NoUser /\ d.phase = "sent" /\ d.lost = FALSE
      /\ d.cookie = cookie /\ d.target = u
      /\ d.role = userDrafts[u].role /\ d.status = userDrafts[u].status
  BY <1>5, <1>8 DEF IsSent
<1>10. d.role \in Roles /\ d.status \in Statuses
  BY <1>4, <1>9 DEF UserCopy
<1>11. AccountExpected(d)
  BY <1>2, <1>4, <1>9, <1>10
  DEF AccountExpected, IsAccountRequest, IsAccountAnswer, AccountPhases, AccountKinds, NeedAdmin, AdminWrites
<1>12. calls' = calls \cup {d}
  BY <1>1, <1>5, <1>6 DEF Ask
<1>13. \A e \in calls : e.kind \notin {"me", "bootstrap"}
  BY <1>3, SignedInIs
<1>14. (Watching' /\ k = "saveUser") =>
         \A e \in calls : (e.kind = "saveUser" /\ e.by = NoUser) => e.target # d.target
  BY <1>1, <1>9 DEF Watching, Kind
<1>15. \A e \in calls : ~(e.kind = "adminLoad" /\ e.mine)
  BY <1>3 DEF AccountsInv, Loading
<1> QED BY <1>1, <1>2, <1>3, <1>9, <1>11, <1>12, <1>13, <1>14, <1>15, AsksKeeps

(* One is created.                                                         *)
LEMMA CreateUserKeeps == ASSUME AccountsInv, CreateUser, UNCHANGED crossed PROVE AccountsInv'
<1>1. PICK r \in Roles :
        OnAdmin /\ ~Mine({"createUser"}) /\ Ask([kind |-> "createUser", role |-> r])
        /\ Quiet /\ UNCHANGED stale
  BY DEF CreateUser
<1>2. AccountsRest /\ UNCHANGED stale /\ stale \in BOOLEAN /\ (cookie # NoUser => cookie \in Cookie /\ Exists(cookie.user))
  BY <1>1, QuietIs
<1>3. user # NoUser /\ Page = "admin" /\ adminUsers # NoUser
  BY <1>1 DEF OnAdmin, AccountsInv, TabTypes
<1>4. PICK body : body = [kind |-> "createUser", role |-> r]
  OBVIOUS
<1>5. PICK d : d = Sent(calls, cookie, body)
  OBVIOUS
<1>6. "kind" \in DOMAIN body /\ DOMAIN body \cap {"n", "phase", "lost", "cookie"} = {}
  BY <1>4
<1>7. IsSent(d, cookie, body)
  BY <1>5, <1>6, SentIs
<1>8. /\ {"n", "phase", "lost", "kind", "cookie", "mine", "by", "role"} \subseteq DOMAIN d
      /\ d.kind = "createUser" /\ d.mine = TRUE /\ d.by = NoUser /\ d.phase = "sent" /\ d.lost = FALSE
      /\ d.cookie = cookie /\ d.role = r
  BY <1>4, <1>7 DEF IsSent
<1>9. AccountExpected(d)
  BY <1>2, <1>8
  DEF AccountExpected, IsAccountRequest, IsAccountAnswer, AccountPhases, AccountKinds, NeedAdmin, AdminWrites
<1>10. calls' = calls \cup {d}
  BY <1>1, <1>4, <1>5 DEF Ask
<1>11. \A e \in calls : e.kind \notin {"me", "bootstrap"}
  BY <1>3, SignedInIs
<1>12. Watching' => \A e \in calls : e.kind # "createUser"
  <2> SUFFICES ASSUME Watching', NEW e \in calls, e.kind = "createUser" PROVE FALSE
    OBVIOUS
  <2>1. Watching
    BY <1>2 DEF Watching, Page, AccountsRest, authVars
  <2>2. e.by = NoUser
    BY DEF AccountsInv, AccountExpected, IsAccountRequest
  <2>3. e.mine
    BY <2>1, <2>2 DEF AccountsInv, Undisturbed, PageWrites, AdminWrites
  <2> QED BY <1>1, <2>3 DEF Mine
<1>13. \A e \in calls : ~(e.kind = "adminLoad" /\ e.mine)
  BY <1>3 DEF AccountsInv, Loading
<1> QED BY <1>2, <1>3, <1>8, <1>9, <1>10, <1>11, <1>12, <1>13, AsksKeeps

(* The policy is saved.                                                    *)
LEMMA SavePolicyKeeps == ASSUME AccountsInv, SavePolicy, UNCHANGED crossed PROVE AccountsInv'
<1>1. /\ OnAdmin /\ ~Mine({"savePolicy"})
      /\ stale' = (stale \/ Kind("savePolicy") # {}) /\ Quiet
  BY DEF SavePolicy
<1>2. AccountsRest /\ stale' \in BOOLEAN /\ (stale => stale') /\ (cookie # NoUser => cookie \in Cookie /\ Exists(cookie.user))
  BY <1>1, QuietIs
<1>3. user # NoUser /\ Page = "admin" /\ adminUsers # NoUser
  BY <1>1 DEF OnAdmin, AccountsInv, TabTypes
<1>4. adminPolicy \in Policies /\ policyDraft \in Policies
  BY <1>3 DEF AccountsInv, AdminTypes
<1>5. PICK p \in Policies : Ask([kind |-> "savePolicy", policy |-> p])
  <2>1. PICK p : /\ p = [adminPolicy EXCEPT !.defaults = policyDraft.defaults]
                    \/ p = [adminPolicy EXCEPT !.days = policyDraft.days]
                 /\ Ask([kind |-> "savePolicy", policy |-> p])
    BY DEF SavePolicy
  <2>2. p \in Policies
    BY <1>4, <2>1 DEF Policies
  <2> QED BY <2>1, <2>2
<1>6. PICK body : body = [kind |-> "savePolicy", policy |-> p]
  OBVIOUS
<1>7. PICK d : d = Sent(calls, cookie, body)
  OBVIOUS
<1>8. "kind" \in DOMAIN body /\ DOMAIN body \cap {"n", "phase", "lost", "cookie"} = {}
  BY <1>6
<1>9. IsSent(d, cookie, body)
  BY <1>7, <1>8, SentIs
<1>10. /\ {"n", "phase", "lost", "kind", "cookie", "mine", "by", "policy"} \subseteq DOMAIN d
       /\ d.kind = "savePolicy" /\ d.mine = TRUE /\ d.by = NoUser /\ d.phase = "sent" /\ d.lost = FALSE
       /\ d.cookie = cookie /\ d.policy = p
  BY <1>6, <1>9 DEF IsSent
<1>11. AccountExpected(d)
  BY <1>2, <1>10
  DEF AccountExpected, IsAccountRequest, IsAccountAnswer, AccountPhases, AccountKinds, NeedAdmin, AdminWrites
<1>12. calls' = calls \cup {d}
  BY <1>5, <1>6, <1>7 DEF Ask
<1>13. \A e \in calls : e.kind \notin {"me", "bootstrap"}
  BY <1>3, SignedInIs
<1>14. Watching' => \A e \in calls : e.kind # "savePolicy"
  BY <1>1 DEF Watching, Kind
<1>15. \A e \in calls : ~(e.kind = "adminLoad" /\ e.mine)
  BY <1>3 DEF AccountsInv, Loading
<1> QED BY <1>2, <1>3, <1>10, <1>11, <1>12, <1>13, <1>14, <1>15, AsksKeeps

(* The other administrator changes the first.                              *)
LEMMA ElsewhereKeeps == ASSUME AccountsInv, Elsewhere, UNCHANGED crossed PROVE AccountsInv'
<1>1. /\ 2 \in ActiveAdmins(userRows) /\ Quiet
      /\ stale' = stale
  BY DEF Elsewhere
<1>2. AccountsRest /\ stale' \in BOOLEAN /\ (stale => stale')
  BY <1>1, QuietIs
<1>3. 2 \in UserIds /\ Exists(2) /\ 2 # NoUser
  BY <1>1, UsersAssumption DEF ActiveAdmins, Exists
<1>4. Exists(1) /\ 1 \in UserIds
  BY <1>3, UsersAssumption DEF AccountsInv, ServerTypes, UserIds
<1>5. PICK jar : jar = [user |-> 2, version |-> userRows[2].version]
  OBVIOUS
<1>6. jar \in Cookie /\ jar.user = 2 /\ Exists(jar.user)
  <2>1. userRows[2] \in UserRow
    BY <1>3 DEF AccountsInv, ServerTypes, Exists
  <2>2. userRows[2].version \in Nat
    BY <2>1 DEF UserRow
  <2> QED BY <1>3, <1>5, <2>2 DEF Cookie
<1>7. PICK new \in [kind : {"saveUser"}, role : Roles, status : Statuses] \cup [kind : {"resetPassword"}] :
        calls' = calls \cup {Sent(calls, jar, Beside(new, [target |-> 1, by |-> 2, mine |-> FALSE]))}
  BY <1>5 DEF Elsewhere
<1>8. PICK g : g = [target |-> 1, by |-> 2, mine |-> FALSE]
  OBVIOUS
<1>9. PICK body : body = Beside(new, g)
  OBVIOUS
<1>10. /\ DOMAIN body = DOMAIN new \cup {"target", "by", "mine"}
       /\ body.target = 1 /\ body.by = 2 /\ body.mine = FALSE /\ body.kind = new.kind
       /\ \/ new.kind = "saveUser" /\ DOMAIN new = {"kind", "role", "status"}
             /\ body.role \in Roles /\ body.status \in Statuses
          \/ new.kind = "resetPassword" /\ DOMAIN new = {"kind"}
  <2>1. CASE new \in [kind : {"saveUser"}, role : Roles, status : Statuses]
    BY <1>8, <1>9, <2>1 DEF Beside
  <2>2. CASE new \in [kind : {"resetPassword"}]
    BY <1>8, <1>9, <2>2 DEF Beside
  <2> QED BY <1>7, <2>1, <2>2
<1>11. PICK d : d = Sent(calls, jar, body)
  OBVIOUS
<1>12. "kind" \in DOMAIN body /\ DOMAIN body \cap {"n", "phase", "lost", "cookie"} = {}
  BY <1>10
<1>13. IsSent(d, jar, body)
  BY <1>11, <1>12, SentIs
<1>14. /\ {"n", "phase", "lost", "kind", "cookie", "mine", "by", "target"} \subseteq DOMAIN d
       /\ d.kind \in {"saveUser", "resetPassword"} /\ d.mine = FALSE /\ d.by = 2
       /\ d.phase = "sent" /\ d.lost = FALSE /\ d.cookie = jar /\ d.target = 1
  BY <1>10, <1>13 DEF IsSent
<1>15. d.kind = "saveUser" => {"role", "status"} \subseteq DOMAIN d /\ d.role \in Roles /\ d.status \in Statuses
  BY <1>10, <1>13 DEF IsSent
<1>16. AccountExpected(d)
  BY <1>4, <1>6, <1>14, <1>15
  DEF AccountExpected, IsAccountRequest, IsAccountAnswer, AccountPhases, AccountKinds, NeedAdmin, AdminWrites
<1>17. calls' = calls \cup {d}
  BY <1>7, <1>8, <1>9, <1>11
<1>18. d.by # NoUser
  BY <1>3, <1>14
<1> QED BY <1>2, <1>14, <1>16, <1>17, <1>18, AsksKeeps

(* A draft is edited.                                                      *)
LEMMA EditDraftKeeps == ASSUME AccountsInv, EditDraft, UNCHANGED crossed PROVE AccountsInv'
<1>1. adminUsers # NoUser
  BY DEF EditDraft, OnAdmin
<1>2. /\ userDrafts \in [UserIds -> UserCopy \cup {NoUser}] /\ policyDraft \in Policies
      /\ adminUsers \in [UserIds -> UserCopy \cup {NoUser}] /\ adminPolicy \in Policies
      /\ \A u \in UserIds : adminUsers[u] # NoUser => userDrafts[u] # NoUser /\ Exists(u)
  BY <1>1 DEF AccountsInv, AdminTypes
<1>3. /\ UNCHANGED <<accountRows, cookie, authVars, location, bootstrapRequired, adminUsers,
                     adminPolicy, stale, calls, crossed>>
  BY DEF EditDraft
<1>4. /\ userDrafts' \in [UserIds -> UserCopy \cup {NoUser}] /\ policyDraft' \in Policies
      /\ \A u \in UserIds : userDrafts[u] # NoUser => userDrafts'[u] # NoUser
  <2>1. CASE UNCHANGED policyDraft /\ \E u \in UserIds : /\ userDrafts[u] # NoUser
                              /\ \/ \E r \in Roles : r # userDrafts[u].role /\
                                      userDrafts' = [userDrafts EXCEPT ![u].role = r]
                                 \/ \E s \in Statuses : s # userDrafts[u].status /\
                                      userDrafts' = [userDrafts EXCEPT ![u].status = s]
    <3>1. PICK u \in UserIds : /\ userDrafts[u] # NoUser
                               /\ \/ \E r \in Roles : userDrafts' = [userDrafts EXCEPT ![u].role = r]
                                  \/ \E s \in Statuses : userDrafts' = [userDrafts EXCEPT ![u].status = s]
      BY <2>1
    <3>2. userDrafts[u] \in UserCopy
      BY <1>2, <3>1
    <3>3. PICK new \in UserCopy : userDrafts' = [userDrafts EXCEPT ![u] = new]
      <4>1. CASE \E r \in Roles : userDrafts' = [userDrafts EXCEPT ![u].role = r]
        <5>1. PICK r \in Roles : userDrafts' = [userDrafts EXCEPT ![u].role = r]
          BY <4>1
        <5>2. PICK new : new = [userDrafts[u] EXCEPT !.role = r]
          OBVIOUS
        <5>3. new \in UserCopy
          BY <3>2, <5>2 DEF UserCopy
        <5> QED BY <5>1, <5>2, <5>3
      <4>2. CASE \E s \in Statuses : userDrafts' = [userDrafts EXCEPT ![u].status = s]
        <5>1. PICK s \in Statuses : userDrafts' = [userDrafts EXCEPT ![u].status = s]
          BY <4>2
        <5>2. PICK new : new = [userDrafts[u] EXCEPT !.status = s]
          OBVIOUS
        <5>3. new \in UserCopy
          BY <3>2, <5>2 DEF UserCopy
        <5> QED BY <5>1, <5>2, <5>3
      <4> QED BY <3>1, <4>1, <4>2
    <3>4. new # NoUser
      BY UsersAssumption
    <3> QED BY <1>2, <2>1, <3>3, <3>4
  <2>2. CASE UNCHANGED userDrafts /\ \E p \in Policies : policyDraft' = p
    BY <1>2, <2>2
  <2> QED BY <2>1, <2>2 DEF EditDraft
<1>5. Page' = Page /\ \A u \in UserIds : Exists(u)' = Exists(u)
  BY <1>3 DEF Page, authVars, Exists, accountRows
<1>6. AdminTypes'
  BY <1>1, <1>2, <1>3, <1>4, <1>5 DEF AccountsInv, AdminTypes
<1>7. ServerTypes' /\ TabTypes' /\ \A d \in calls' : AccountExpected(d)'
  <2>1. ServerTypes'
    BY <1>3, <1>5 DEF AccountsInv, ServerTypes, Exists, accountRows
  <2>2. TabTypes'
    BY <1>3, <1>5 DEF AccountsInv, TabTypes, Exists, accountRows, authVars
  <2>3. \A d \in calls' : AccountExpected(d)'
    BY <1>3, <1>5, StaysAccountExpected DEF AccountsInv
  <2> QED BY <2>1, <2>2, <2>3
<1>8. Starting' /\ Fresh' /\ SameUser' /\ OnItsPage'
  BY <1>3, <1>5 DEF AccountsInv, Starting, Fresh, SameUser, OnItsPage, KnownEmpty, authVars, Exists, accountRows
<1>9. Watching' = Watching
  BY <1>3, <1>5 DEF Watching
<1>10. Undisturbed'
  BY <1>3, <1>9 DEF AccountsInv, Undisturbed
<1>11. Loading'
  BY <1>3, <1>5 DEF AccountsInv, Loading, accountRows
<1>12. PageAgrees'
  BY <1>3, <1>9 DEF AccountsInv, PageAgrees, UpToDate, LostWrite, Told, accountRows
<1> QED BY <1>6, <1>7, <1>8, <1>10, <1>11, <1>12 DEF AccountsInv

(* The user goes to another page.                                          *)
LEMMA GoToKeeps == ASSUME AccountsInv, GoTo, UNCHANGED crossed PROVE AccountsInv'
<1>1. PICK loc \in {"login", "chat", "admin"} :
        Page \in {"chat", "admin"} /\ Land(loc, user, FALSE, FALSE, cookie, calls)
  BY DEF GoTo
<1>2. user # NoUser /\ user \in SignedIn \cup {NoUser} /\ (cookie # NoUser => cookie \in Cookie /\ Exists(cookie.user))
  BY <1>1 DEF AccountsInv, TabTypes
<1>3. /\ \A d \in calls : d.kind \notin {"me", "bootstrap"} /\ ~KnownEmpty(d)
      /\ \E u \in UserIds : Exists(u)
  BY <1>2, SignedInIs
<1>4. (user # NoUser /\ ~crossed) =>
        (cookie # NoUser /\ cookie.user = user.id) \/ \E c \in calls : c.kind = "logout"
  BY DEF AccountsInv, SameUser
<1>5. UNCHANGED <<accountRows, crossed>>
  BY DEF GoTo
<1> QED BY <1>1, <1>2, <1>3, <1>4, <1>5, LandKeeps

-----------------------------------------------------------------------------
(* The answers that reach the tab.                                         *)

(* One that is not about the start of the tab comes while it is no start.  *)
LEMMA NoStart ==
  ASSUME AccountsInv, NEW c \in calls, c.kind \notin {"me", "bootstrap"}, c.by = NoUser
  PROVE  \A d \in calls : d.kind \notin {"me", "bootstrap"}
  BY DEF AccountsInv, Starting

(* What ends at the tab is the tab's.                                      *)
LEMMA EndedBy ==
  ASSUME AccountsInv, NEW c \in calls, c.phase \in {"answered", "failed", "refused"}
  PROVE  c.by = NoUser
  BY DEF AccountsInv, AccountExpected, IsAccountRequest

(* The session was not valid: nobody is signed in any more.                *)
LEMMA RefusedKeeps == ASSUME AccountsInv, Refused, UNCHANGED crossed PROVE AccountsInv'
<1>1. PICK c \in calls :
        /\ c.phase = "refused"
        /\ LET out == ShouldNotify(c.code) \/ c.kind \in {"me", "logout"}
           IN  Land(location, IF out THEN NoUser ELSE user, isLoadingUser /\ ~out,
                    unreachable /\ ~out, IF c.cookie = NoUser THEN cookie ELSE NoUser, calls \ {c})
        /\ UNCHANGED <<accountRows, acts>>
  BY DEF Refused
<1>2. IsAccountRequest(c) /\ c.by = NoUser
  BY <1>1, EndedBy DEF AccountsInv, AccountExpected
<1>3. ShouldNotify(c.code)
  BY <1>1, <1>2 DEF IsAccountRequest, Codes, ShouldNotify
<1>4. PICK jar : jar = IF c.cookie = NoUser THEN cookie ELSE NoUser
  OBVIOUS
<1>5. jar # NoUser => jar \in Cookie /\ Exists(jar.user)
  BY <1>4 DEF AccountsInv, TabTypes
<1>6. Land(location, NoUser, FALSE, FALSE, jar, calls \ {c})
  BY <1>1, <1>3, <1>4
<1>7. \A d \in calls \ {c} : d.kind \notin {"me", "bootstrap"}
  BY <1>2 DEF AccountsInv, Starting
<1>8. location \in {"login", "chat", "admin"}
  BY DEF AccountsInv, TabTypes
<1> QED BY <1>1, <1>5, <1>6, <1>7, <1>8, LandKeeps

(* The tab learns who it is,                                               *)
LEMMA UserLoadedKeeps == ASSUME AccountsInv, UserLoaded, UNCHANGED crossed PROVE AccountsInv'
<1>1. PICK c \in calls :
        /\ c.kind = "me" /\ c.phase = "answered"
        /\ Land(IF location = "login" THEN "chat" ELSE location, c.reply, FALSE, FALSE, cookie, calls \ {c})
        /\ UNCHANGED accountRows
  BY DEF UserLoaded, Answered, Kind
<1>2. IsAccountRequest(c) /\ IsAccountAnswer(c) /\ c.by = NoUser
  BY <1>1, EndedBy DEF AccountsInv, AccountExpected
<1>3. /\ c.cookie = cookie /\ \A d \in calls : d.by = NoUser => d = c
  BY <1>1 DEF AccountsInv, Starting
<1>4. c.reply \in SignedIn /\ cookie # NoUser /\ c.reply.id = cookie.user
  BY <1>1, <1>2, <1>3 DEF IsAccountAnswer
<1>5. cookie \in Cookie /\ Exists(cookie.user) /\ cookie.user \in UserIds
  BY <1>4 DEF AccountsInv, TabTypes, Cookie
<1>6. \A d \in calls \ {c} : d.kind \in {"saveUser", "resetPassword"}
  BY <1>3 DEF AccountsInv, AccountExpected, IsAccountRequest
<1>7. PICK loc \in {"login", "chat", "admin"} : loc = IF location = "login" THEN "chat" ELSE location
  BY DEF AccountsInv, TabTypes
<1>8. Land(loc, c.reply, FALSE, FALSE, cookie, calls \ {c})
  BY <1>1, <1>7
<1>9. c.kind \notin PageWrites
  BY <1>1 DEF PageWrites, AdminWrites
<1> QED BY <1>1, <1>4, <1>5, <1>6, <1>8, <1>9, LandKeeps DEF KnownEmpty

(* or does not.                                                            *)
LEMMA UserNotLoadedKeeps ==
  ASSUME AccountsInv, UserNotLoaded, UNCHANGED crossed PROVE AccountsInv'
<1>1. PICK c \in calls, network \in BOOLEAN :
        /\ c.kind = "me" /\ c.phase = "failed"
        /\ Land(location, IF network THEN user ELSE NoUser, FALSE, network, cookie, calls \ {c})
        /\ UNCHANGED accountRows
  BY DEF UserNotLoaded, Failed, Kind
<1>2. user = NoUser /\ c.by = NoUser /\ \A d \in calls : d.by = NoUser => d = c
  BY <1>1, EndedBy DEF AccountsInv, Starting
<1>3. Land(location, NoUser, FALSE, network, cookie, calls \ {c})
  BY <1>1, <1>2
<1>4. \A d \in calls \ {c} : d.kind \in {"saveUser", "resetPassword"}
  BY <1>2 DEF AccountsInv, AccountExpected, IsAccountRequest
<1>5. location \in {"login", "chat", "admin"} /\ (cookie # NoUser => cookie \in Cookie /\ Exists(cookie.user))
  BY DEF AccountsInv, TabTypes
<1>6. c.kind \notin PageWrites
  BY <1>1 DEF PageWrites, AdminWrites
<1> QED BY <1>1, <1>3, <1>4, <1>5, <1>6, LandKeeps

(* Somebody is signed in.                                                  *)
LEMMA LoggedInKeeps == ASSUME AccountsInv, LoggedIn, UNCHANGED crossed PROVE AccountsInv'
<1>1. PICK c \in calls, from \in {"login", "chat", "admin"} :
        /\ c.kind = "login" /\ c.phase = "answered"
        /\ Land(from, [id |-> c.reply.user, role |-> c.reply.role], FALSE, FALSE,
                [user |-> c.reply.user, version |-> c.reply.version], calls \ {c})
        /\ UNCHANGED accountRows
  BY DEF LoggedIn, Answered, Kind
<1>2. IsAccountAnswer(c) /\ c.by = NoUser
  BY <1>1, EndedBy DEF AccountsInv, AccountExpected
<1>3. c.reply \in [user : UserIds, version : Nat, role : Roles] /\ Exists(c.reply.user)
  BY <1>1, <1>2 DEF IsAccountAnswer
<1>4. PICK u : u = [id |-> c.reply.user, role |-> c.reply.role]
  OBVIOUS
<1>5. PICK jar : jar = [user |-> c.reply.user, version |-> c.reply.version]
  OBVIOUS
<1>6. u \in SignedIn /\ u.id = c.reply.user /\ c.reply.user \in UserIds
  BY <1>3, <1>4 DEF SignedIn
<1>7. jar \in Cookie /\ jar.user = c.reply.user /\ jar # NoUser
  BY <1>3, <1>5, UsersAssumption DEF Cookie
<1>8. Land(from, u, FALSE, FALSE, jar, calls \ {c})
  BY <1>1, <1>4, <1>5
<1>9. \A d \in calls : d.kind \notin {"me", "bootstrap"}
  BY <1>1, <1>2, NoStart
<1>10. \A d \in calls : ~KnownEmpty(d)
  BY <1>1, <1>2 DEF AccountsInv, Fresh
<1>11. c.kind \notin PageWrites
  BY <1>1 DEF PageWrites, AdminWrites
<1>12. (jar # NoUser => jar \in Cookie /\ Exists(jar.user)) /\ \E v \in UserIds : Exists(v)
  BY <1>3, <1>6, <1>7
<1>13. jar # NoUser /\ jar.user = u.id
  BY <1>6, <1>7
<1>14. UNCHANGED <<accountRows, crossed>>
  BY <1>1
<1> QED BY <1>6, <1>8, <1>9, <1>10, <1>11, <1>12, <1>13, <1>14, LandKeeps

(* Nobody is.                                                              *)
LEMMA LoggedOutKeeps == ASSUME AccountsInv, LoggedOut, UNCHANGED crossed PROVE AccountsInv'
<1>1. PICK c \in calls :
        /\ c.kind = "logout" /\ c.phase \in {"answered", "failed"}
        /\ Stay(NoUser, IF c.phase = "answered" THEN NoUser ELSE cookie, calls \ {c})
        /\ UNCHANGED accountRows
  BY DEF LoggedOut, Answered, Failed, Kind
<1>2. PICK jar : jar = IF c.phase = "answered" THEN NoUser ELSE cookie
  OBVIOUS
<1>3. jar # NoUser => jar \in Cookie /\ Exists(jar.user)
  BY <1>2 DEF AccountsInv, TabTypes
<1>4. Land(location, NoUser, FALSE, FALSE, jar, calls \ {c})
  BY <1>1, <1>2 DEF Stay
<1>5. \A d \in calls : d.kind \notin {"me", "bootstrap"}
  BY <1>1, EndedBy, NoStart
<1>6. location \in {"login", "chat", "admin"} /\ c.kind \notin PageWrites
  BY <1>1 DEF AccountsInv, TabTypes, PageWrites, AdminWrites
<1> QED BY <1>1, <1>3, <1>4, <1>5, <1>6, LandKeeps

(* The session changes while the tab stays where it is.                    *)
LEMMA JarKeeps ==
  ASSUME AccountsInv,
         UNCHANGED <<accountRows, authVars, location, bootstrapRequired, adminVars, stale>>,
         cookie' # NoUser => cookie' \in Cookie /\ Exists(cookie'.user), crossed' \in BOOLEAN,
         \A d \in calls' : d \in calls \/ (AccountExpected(d) /\ d.kind \notin NeedAdmin),
         \A d \in calls : d \in calls' \/ d.kind \notin NeedAdmin,
         Starting', Fresh', SameUser'
  PROVE  AccountsInv'
<1>1. Page' = Page /\ \A u \in UserIds : Exists(u)' = Exists(u)
  BY DEF Page, authVars, Exists, accountRows
<1>2. \A d \in calls' : AccountExpected(d)'
  <2>1. \A d \in calls' : AccountExpected(d)
    BY DEF AccountsInv
  <2> QED BY <1>1, <2>1, StaysAccountExpected
<1>3. ServerTypes'
  BY <1>1 DEF AccountsInv, ServerTypes, Exists, accountRows
<1>4. TabTypes'
  <2>1. cookie' # NoUser => cookie' \in Cookie /\ userRows'[cookie'.user] # NoUser
    BY DEF Exists, accountRows
  <2> QED BY <1>1, <2>1 DEF AccountsInv, TabTypes, Exists, authVars
<1>5. AdminTypes' /\ Watching' = Watching
  BY <1>1 DEF AccountsInv, AdminTypes, Watching, adminVars
<1>6. OnItsPage'
  BY <1>1 DEF AccountsInv, OnItsPage, adminVars, NeedAdmin
<1>7. PageWrites \subseteq NeedAdmin /\ "adminLoad" \in NeedAdmin
  BY DEF PageWrites, NeedAdmin
<1>8. \A d : (d.kind \in NeedAdmin /\ d \in calls') <=> (d.kind \in NeedAdmin /\ d \in calls)
  OBVIOUS
<1>9. Loading'
  <2>1. Loading
    BY DEF AccountsInv
  <2> QED BY <1>1, <1>7, <1>8, <2>1 DEF Loading, accountRows, adminVars
<1>10. Undisturbed'
  <2>1. Watching' => Undisturbed /\ Watching
    BY <1>5 DEF AccountsInv
  <2>2. {"saveUser", "savePolicy", "createUser"} \subseteq NeedAdmin
    BY DEF NeedAdmin, AdminWrites
  <2> QED BY <1>7, <1>8, <2>1, <2>2 DEF Undisturbed
<1>11. PageAgrees'
  <2> SUFFICES ASSUME Watching', adminUsers' # NoUser, \A d \in calls' : ~LostWrite(d)
               PROVE  /\ \A d \in calls' : UpToDate(d)'
                      /\ \A u \in UserIds :
                           (\A d \in calls' : ~Told(d, u)) => adminUsers'[u] = Copy(userRows'[u])
                      /\ (\A d \in calls' : ~(d.kind = "savePolicy" /\ d.phase = "answered"))
                         => adminPolicy' = policyRow'
    BY DEF PageAgrees, LostWrite, Told
  <2>1. Watching /\ adminUsers # NoUser /\ \A d \in calls : ~LostWrite(d)
    BY <1>5, <1>7 DEF adminVars, LostWrite
  <2>2. /\ \A d \in calls : UpToDate(d)
        /\ \A u \in UserIds : (\A d \in calls : ~Told(d, u)) => adminUsers[u] = Copy(userRows[u])
        /\ (\A d \in calls : ~(d.kind = "savePolicy" /\ d.phase = "answered")) => adminPolicy = policyRow
    BY <2>1 DEF AccountsInv, PageAgrees
  <2>3. \A d : UpToDate(d)' = UpToDate(d)
    BY DEF UpToDate, accountRows, adminVars
  <2>4. {"saveUser", "createUser", "savePolicy"} \subseteq NeedAdmin
    BY DEF NeedAdmin, AdminWrites
  <2>5. \A d \in calls' : UpToDate(d)'
    <3>1. \A d : d.kind \notin NeedAdmin => UpToDate(d)
      BY <2>4 DEF UpToDate
    <3> QED BY <2>2, <2>3, <3>1
  <2>6. \A u \in UserIds : (\A d \in calls' : ~Told(d, u)) => \A d \in calls : ~Told(d, u)
    BY <1>8, <2>4 DEF Told
  <2>7. (\A d \in calls' : ~(d.kind = "savePolicy" /\ d.phase = "answered"))
        => \A d \in calls : ~(d.kind = "savePolicy" /\ d.phase = "answered")
    BY <1>8, <2>4
  <2> QED BY <2>2, <2>5, <2>6, <2>7 DEF accountRows, adminVars
<1> QED BY <1>2, <1>3, <1>4, <1>5, <1>6, <1>9, <1>10, <1>11 DEF AccountsInv

(* The first account is there, and the tab asks who it is.                 *)
LEMMA BootstrappedKeeps ==
  ASSUME AccountsInv, Bootstrapped, UNCHANGED crossed PROVE AccountsInv'
<1>1. PICK c \in calls :
        /\ c.kind = "bootstrap" /\ c.phase = "answered" /\ cookie' = c.reply
        /\ calls' = (calls \ {c}) \cup {Sent(calls \ {c}, c.reply, [kind |-> "me", mine |-> c.mine])}
  BY DEF Bootstrapped, Answered, Kind
<1>2. UNCHANGED <<accountRows, authVars, location, bootstrapRequired, adminVars, stale>>
  BY DEF Bootstrapped
<1>3. /\ user = NoUser /\ c.mine = TRUE /\ c.by = NoUser
      /\ \A d \in calls : d.by = NoUser => d = c
  BY <1>1, EndedBy DEF AccountsInv, Starting, AccountExpected, IsAccountRequest
<1>4. c.reply \in Cookie /\ Exists(c.reply.user)
  BY <1>1 DEF AccountsInv, AccountExpected, IsAccountAnswer
<1>5. PICK body : body = [kind |-> "me", mine |-> c.mine]
  OBVIOUS
<1>6. PICK d : d = Sent(calls \ {c}, c.reply, body)
  OBVIOUS
<1>7. "kind" \in DOMAIN body /\ DOMAIN body \cap {"n", "phase", "lost", "cookie"} = {}
  BY <1>5
<1>8. IsSent(d, c.reply, body)
  BY <1>6, <1>7, SentIs
<1>9. /\ {"n", "phase", "lost", "kind", "cookie", "mine", "by"} \subseteq DOMAIN d
      /\ d.kind = "me" /\ d.mine = TRUE /\ d.by = NoUser /\ d.phase = "sent" /\ d.lost = FALSE
      /\ d.cookie = c.reply
  BY <1>3, <1>5, <1>8 DEF IsSent
<1>10. AccountExpected(d)
  BY <1>4, <1>9 DEF AccountExpected, IsAccountRequest, IsAccountAnswer, AccountPhases, AccountKinds
<1>11. calls' = (calls \ {c}) \cup {d}
  BY <1>1, <1>5, <1>6
<1>12. \A e \in calls' : e = d \/ (e.by # NoUser /\ e.kind \in {"saveUser", "resetPassword"})
  BY <1>3, <1>11 DEF AccountsInv, AccountExpected, IsAccountRequest
<1>13. user' = NoUser
  BY <1>2, <1>3 DEF authVars
<1>14. Starting' /\ Fresh' /\ SameUser'
  BY <1>1, <1>9, <1>12, <1>13 DEF Starting, Fresh, SameUser
<1>15. c.kind \notin NeedAdmin
  BY <1>1 DEF NeedAdmin, AdminWrites
<1>16. crossed' \in BOOLEAN
  BY DEF AccountsInv, TabTypes
<1>17. d.kind \notin NeedAdmin
  BY <1>9 DEF NeedAdmin, AdminWrites
<1> QED BY <1>1, <1>2, <1>4, <1>10, <1>11, <1>14, <1>15, <1>16, <1>17, JarKeeps

(* Every session ended, and the tab signs out.                             *)
LEMMA LoggedOutAllKeeps ==
  ASSUME AccountsInv, LoggedOutAll, UNCHANGED crossed PROVE AccountsInv'
<1>1. PICK c \in calls :
        /\ c.kind = "logoutAll" /\ c.phase = "answered" /\ cookie' = NoUser
        /\ calls' = (calls \ {c}) \cup {Sent(calls \ {c}, NoUser, [kind |-> "logout"])}
  BY DEF LoggedOutAll, Answered, Kind
<1>2. UNCHANGED <<accountRows, authVars, location, bootstrapRequired, adminVars, stale>>
  BY DEF LoggedOutAll
<1>3. c.by = NoUser /\ (\A d \in calls : d.kind \notin {"me", "bootstrap"})
  BY <1>1, EndedBy, NoStart
<1>4. PICK d : d = Sent(calls \ {c}, NoUser, [kind |-> "logout"])
  OBVIOUS
<1>5. "logout" \in AccountKinds \ (AdminWrites \cup {"login"}) /\ "logout" \notin NeedAdmin
  BY DEF AccountKinds, AdminWrites, NeedAdmin
<1>6. PlainSent(d, NoUser, "logout")
  BY <1>4, <1>5, PlainSentIs
<1>7. calls' = (calls \ {c}) \cup {d}
  BY <1>1, <1>4
<1>8. c.kind \notin NeedAdmin
  BY <1>1 DEF NeedAdmin, AdminWrites
<1>9. Starting' /\ SameUser'
  BY <1>3, <1>6, <1>7 DEF Starting, SameUser, PlainSent
<1>10. Fresh'
  <2>1. ~(bootstrapRequired \/ (\A u \in UserIds : ~Exists(u)) \/ \E e \in calls : KnownEmpty(e))
    BY <1>1, <1>3 DEF AccountsInv, Fresh
  <2>2. \A e \in calls' : ~KnownEmpty(e)
    BY <1>6, <1>7, <2>1 DEF KnownEmpty, PlainSent
  <2>3. ~bootstrapRequired' /\ ~\A u \in UserIds : ~Exists(u)'
    BY <1>2, <2>1 DEF Exists, accountRows
  <2> QED BY <2>2, <2>3 DEF Fresh, KnownEmpty
<1>11. crossed' \in BOOLEAN
  BY DEF AccountsInv, TabTypes
<1> QED BY <1>1, <1>2, <1>5, <1>6, <1>7, <1>8, <1>9, <1>10, <1>11, JarKeeps DEF PlainSent

(* The session is the one of who changed a password.                       *)
LEMMA PasswordChangedKeeps == ASSUME AccountsInv, PasswordChanged PROVE AccountsInv'
<1>1. PICK c \in calls :
        /\ c.kind = "changePassword" /\ c.phase = "answered" /\ cookie' = c.reply
        /\ calls' = calls \ {c}
        /\ crossed' = (user # NoUser /\ user.id # c.reply.user)
  BY DEF PasswordChanged, Answered, Kind, Done
<1>2. UNCHANGED <<accountRows, authVars, location, bootstrapRequired, adminVars, stale>>
  BY DEF PasswordChanged
<1>3. c.by = NoUser /\ (\A d \in calls : d.kind \notin {"me", "bootstrap"})
  BY <1>1, EndedBy, NoStart
<1>4. c.reply \in Cookie /\ Exists(c.reply.user) /\ c.reply # NoUser
  BY <1>1, UsersAssumption DEF AccountsInv, AccountExpected, IsAccountAnswer
<1>5. c.kind \notin NeedAdmin
  BY <1>1 DEF NeedAdmin, AdminWrites
<1>6. Starting' /\ SameUser'
  BY <1>1, <1>2, <1>3, <1>4 DEF Starting, SameUser, authVars
<1>7. Fresh'
  BY <1>1, <1>2 DEF AccountsInv, Fresh, KnownEmpty, Exists, accountRows, authVars
<1> QED BY <1>1, <1>2, <1>4, <1>5, <1>6, <1>7, JarKeeps

(* The answers the admin page is told of.                                  *)
AllButLists ==
  UNCHANGED <<accountRows, cookie, authVars, location, bootstrapRequired, stale, crossed>>

(* They change the lists and nothing else.                                 *)
LEMMA ToldKeeps ==
  ASSUME AccountsInv, AllButLists, NEW c \in calls, c.kind \in NeedAdmin, calls' = calls \ {c},
         Page = "admin", AdminTypes', OnItsPage', Loading', PageAgrees'
  PROVE  AccountsInv'
<1>1. Page' = Page /\ \A u \in UserIds : Exists(u)' = Exists(u)
  BY DEF AllButLists, Page, authVars, Exists, accountRows
<1>2. \A d \in calls' : AccountExpected(d)'
  BY <1>1, StaysAccountExpected DEF AccountsInv
<1>3. ServerTypes'
  BY <1>1 DEF AccountsInv, ServerTypes, AllButLists, Exists, accountRows
<1>4. TabTypes'
  BY <1>1 DEF AccountsInv, TabTypes, AllButLists, authVars, Exists, accountRows
<1>5. Starting' /\ Fresh'
  BY <1>1 DEF AccountsInv, Starting, Fresh, KnownEmpty, AllButLists, authVars
<1>6. SameUser'
  BY DEF AccountsInv, SameUser, AllButLists, authVars, NeedAdmin, AdminWrites
<1>7. Watching' = Watching
  BY <1>1 DEF Watching, AllButLists
<1>8. Undisturbed'
  BY <1>7 DEF AccountsInv, Undisturbed
<1> QED BY <1>2, <1>3, <1>4, <1>5, <1>6, <1>8 DEF AccountsInv

(* The copy of a row.                                                      *)
LEMMA CopyIs ==
  \A row \in UserRow \cup {NoUser} :
    /\ Copy(row) \in UserCopy \cup {NoUser}
    /\ row # NoUser => Copy(row) \in UserCopy /\ Copy(row) # NoUser
    /\ row = NoUser => Copy(row) = NoUser
<1>1. ASSUME NEW row \in UserRow
      PROVE  [role |-> row.role, status |-> row.status] \in UserCopy
  BY DEF UserRow, UserCopy
<1> QED BY <1>1, UsersAssumption DEF Copy

(* The page has its users and policy.                                      *)
LEMMA AdminLoadedKeeps == ASSUME AccountsInv, AdminLoaded, UNCHANGED crossed PROVE AccountsInv'
<1>1. PICK c \in calls :
        /\ c.kind = "adminLoad" /\ c.phase = "answered" /\ calls' = calls \ {c}
        /\ IF c.mine THEN /\ adminUsers' = Copies(c.reply.users) /\ userDrafts' = adminUsers'
                          /\ adminPolicy' = c.reply.policy /\ policyDraft' = c.reply.policy
           ELSE UNCHANGED adminVars
  BY DEF AdminLoaded, Answered, Kind, Done
<1>2. AllButLists /\ stale \in BOOLEAN
  BY DEF AdminLoaded, AllButLists, AccountsInv, TabTypes
<1>3. IsAccountAnswer(c)
  BY DEF AccountsInv, AccountExpected
<1>4. c.kind \in NeedAdmin /\ c.kind \notin PageWrites
  BY <1>1 DEF NeedAdmin, PageWrites, AdminWrites
<1>5. CASE ~c.mine
  <2>1. AccountsRest /\ UNCHANGED stale
    BY <1>1, <1>2, <1>5 DEF AllButLists, AccountsRest, adminVars
  <2> QED BY <1>1, <1>2, <1>4, <2>1, LeavesKeeps DEF LostWrite
<1>6. CASE c.mine
  <2>1. /\ adminUsers' = Copies(c.reply.users) /\ userDrafts' = adminUsers'
        /\ adminPolicy' = c.reply.policy /\ policyDraft' = c.reply.policy
    BY <1>1, <1>6
  <2>2. /\ Page = "admin" /\ adminUsers = NoUser /\ \A d \in calls : d.kind = "adminLoad" /\ d.mine => d = c
        /\ ~stale => /\ \A d \in calls : d.kind \in PageWrites => d.by # NoUser
                     /\ \A u \in UserIds : Copy(c.reply.users[u]) = Copy(userRows[u])
                     /\ c.reply.policy = policyRow
    BY <1>1, <1>6 DEF AccountsInv, Loading
  <2>3. /\ c.reply.users \in [UserIds -> UserRow \cup {NoUser}] /\ c.reply.policy \in Policies
        /\ \A u \in UserIds : c.reply.users[u] # NoUser => Exists(u)
    BY <1>1, <1>3 DEF IsAccountAnswer
  <2>4. /\ adminUsers' \in [UserIds -> UserCopy \cup {NoUser}]
        /\ \A u \in UserIds : adminUsers'[u] = Copy(c.reply.users[u])
    <3>1. \A u \in UserIds : Copy(c.reply.users[u]) \in UserCopy \cup {NoUser}
      BY <2>3, CopyIs
    <3> QED BY <2>1, <3>1 DEF Copies
  <2>5. Page' = "admin" /\ \A u \in UserIds : Exists(u)' = Exists(u)
    BY <1>2, <2>2 DEF AllButLists, Page, authVars, Exists, accountRows
  <2>6. AdminTypes'
    <3>1. \A u \in UserIds : adminUsers'[u] # NoUser => Exists(u)'
      BY <2>3, <2>4, <2>5, CopyIs
    <3> QED BY <2>1, <2>3, <2>4, <2>5, <3>1 DEF AdminTypes
  <2>7. OnItsPage'
    BY <1>1, <2>2, <2>5 DEF AccountsInv, OnItsPage
  <2>8. Loading'
    BY <1>1, <2>2 DEF Loading
  <2>9. PageAgrees'
    <3> SUFFICES ASSUME Watching'
                 PROVE  /\ \A d \in calls' : UpToDate(d)'
                        /\ \A u \in UserIds : adminUsers'[u] = Copy(userRows'[u])
                        /\ adminPolicy' = policyRow'
      BY DEF PageAgrees
    <3>1. ~stale
      BY <1>2 DEF Watching, AllButLists
    <3>2. ASSUME NEW d \in calls'
          PROVE  UpToDate(d)'
      <4>1. (d.kind \in PageWrites => d.by # NoUser) /\ IsAccountRequest(d)
        BY <1>1, <2>2, <3>1 DEF AccountsInv, AccountExpected
      <4>2. d.by # NoUser => d.phase # "answered"
        BY <4>1 DEF IsAccountRequest
      <4> QED BY <4>1, <4>2 DEF UpToDate, PageWrites, AdminWrites
    <3>3. (\A u \in UserIds : Copy(c.reply.users[u]) = Copy(userRows[u])) /\ c.reply.policy = policyRow
      BY <2>2, <3>1
    <3> QED BY <1>2, <2>1, <2>4, <3>2, <3>3 DEF AllButLists, accountRows
  <2> QED BY <1>1, <1>2, <1>4, <2>2, <2>6, <2>7, <2>8, <2>9, ToldKeeps
<1> QED BY <1>5, <1>6

(* One copy and its draft become those of a row.                           *)
LEMMA CopiedTypes ==
  ASSUME AccountsInv, AllButLists, Page = "admin", adminUsers # NoUser, UNCHANGED <<adminPolicy, policyDraft>>,
         NEW id \in UserIds, Exists(id), NEW row \in UserRow,
         adminUsers' = [adminUsers EXCEPT ![id] = Copy(row)],
         userDrafts' = [userDrafts EXCEPT ![id] = Copy(row)]
  PROVE  /\ AdminTypes' /\ adminUsers' # NoUser /\ Page' = Page
         /\ adminUsers'[id] = Copy(row) /\ Copy(row) # NoUser
         /\ \A u \in UserIds : u # id => adminUsers'[u] = adminUsers[u]
<1>1. /\ adminUsers \in [UserIds -> UserCopy \cup {NoUser}]
      /\ userDrafts \in [UserIds -> UserCopy \cup {NoUser}]
      /\ adminPolicy \in Policies /\ policyDraft \in Policies
      /\ \A u \in UserIds : adminUsers[u] # NoUser => userDrafts[u] # NoUser /\ Exists(u)
  BY DEF AccountsInv, AdminTypes
<1>2. Copy(row) \in UserCopy /\ Copy(row) # NoUser
  BY CopyIs, UsersAssumption
<1>3. Page' = Page /\ \A u \in UserIds : Exists(u)' = Exists(u)
  BY DEF AllButLists, Page, authVars, Exists, accountRows
<1>4. /\ adminUsers' \in [UserIds -> UserCopy \cup {NoUser}]
      /\ adminUsers'[id] = Copy(row) /\ \A u \in UserIds : u # id => adminUsers'[u] = adminUsers[u]
  BY <1>1, <1>2
<1>5. /\ userDrafts' \in [UserIds -> UserCopy \cup {NoUser}]
      /\ userDrafts'[id] = Copy(row) /\ \A u \in UserIds : u # id => userDrafts'[u] = userDrafts[u]
  BY <1>1, <1>2
<1>6. adminUsers' # NoUser
  BY <1>4, UsersAssumption
<1>7. \A u \in UserIds : adminUsers'[u] # NoUser => userDrafts'[u] # NoUser /\ Exists(u)'
  BY <1>1, <1>2, <1>3, <1>4, <1>5
<1>8. AdminTypes'
  BY <1>1, <1>3, <1>4, <1>5, <1>7 DEF AdminTypes
<1> QED BY <1>2, <1>3, <1>4, <1>6, <1>8

(* A write of the page is answered.                                        *)
LEMMA AdminSavedKeeps == ASSUME AccountsInv, AdminSaved, UNCHANGED crossed PROVE AccountsInv'
<1>1. PICK c \in calls :
        /\ c.kind \in AdminWrites /\ c.phase = "answered" /\ calls' = calls \ {c}
        /\ c.kind = "saveUser" /\ c.mine =>
             /\ adminUsers' = [adminUsers EXCEPT ![c.target] = Copy(c.reply)]
             /\ userDrafts' = [userDrafts EXCEPT ![c.target] = Copy(c.reply)]
             /\ UNCHANGED <<adminPolicy, policyDraft>>
        /\ c.kind = "createUser" /\ c.mine =>
             /\ adminUsers' = [adminUsers EXCEPT ![c.reply.id] = Copy(c.reply.row)]
             /\ userDrafts' = [userDrafts EXCEPT ![c.reply.id] = Copy(c.reply.row)]
             /\ UNCHANGED <<adminPolicy, policyDraft>>
        /\ c.kind = "savePolicy" /\ c.mine =>
             /\ adminPolicy' = c.reply /\ policyDraft' = c.reply
             /\ UNCHANGED <<adminUsers, userDrafts>>
        /\ (c.kind = "resetPassword" \/ ~c.mine) =>
             UNCHANGED <<adminUsers, userDrafts, adminPolicy, policyDraft>>
  BY DEF AdminSaved, Answered, Kind, Done, adminVars, AdminWrites
<1>2. AllButLists /\ stale \in BOOLEAN
  BY DEF AdminSaved, AllButLists, AccountsInv, TabTypes
<1>3. IsAccountRequest(c) /\ IsAccountAnswer(c) /\ c.by = NoUser
  BY <1>1, EndedBy DEF AccountsInv, AccountExpected
<1>4. /\ c.kind \in NeedAdmin /\ c.kind # "logout" /\ ~LostWrite(c)
      /\ c.kind \in PageWrites <=> c.kind # "resetPassword"
  BY <1>1 DEF NeedAdmin, PageWrites, AdminWrites, LostWrite
<1>5. CASE c.kind = "resetPassword" \/ ~c.mine
  <2>1. AccountsRest /\ UNCHANGED stale
    BY <1>1, <1>2, <1>5 DEF AllButLists, AccountsRest
  <2>2. (c.kind \in PageWrites /\ ~c.mine) => ~Watching
    BY <1>1, <1>3 DEF AccountsInv, Undisturbed
  <2>3. Watching' = Watching
    BY <2>1 DEF Watching, Page, AccountsRest, authVars
  <2> QED BY <1>1, <1>2, <1>4, <1>5, <2>1, <2>2, <2>3, LeavesKeeps
<1>6. CASE c.kind # "resetPassword" /\ c.mine
  <2>1. Page = "admin" /\ adminUsers # NoUser
    BY <1>1, <1>6 DEF AccountsInv, OnItsPage
  <2>2. \A d \in calls : ~(d.kind = "adminLoad" /\ d.mine)
    BY <2>1 DEF AccountsInv, Loading
  <2>3. Loading' /\ (adminUsers' # NoUser /\ Page' = Page => OnItsPage')
    BY <1>1, <2>1, <2>2 DEF Loading, OnItsPage
  <2>4. (Watching' /\ \A d \in calls' : ~LostWrite(d)) =>
          /\ Watching /\ \A d \in calls : UpToDate(d)
          /\ \A u \in UserIds : (\A d \in calls : ~Told(d, u)) => adminUsers[u] = Copy(userRows[u])
          /\ (\A d \in calls : ~(d.kind = "savePolicy" /\ d.phase = "answered")) => adminPolicy = policyRow
    <3>1. Watching' = Watching
      BY <1>2 DEF Watching, Page, AllButLists, authVars
    <3>2. (\A d \in calls' : ~LostWrite(d)) => \A d \in calls : ~LostWrite(d)
      BY <1>1, <1>4
    <3> QED BY <2>1, <3>1, <3>2 DEF AccountsInv, PageAgrees
  <2>5. UNCHANGED <<userRows, policyRow>>
    BY <1>2 DEF AllButLists, accountRows
  <2>6. CASE c.kind = "saveUser"
    <3>1. c.target \in UserIds /\ Exists(c.target) /\ c.reply \in UserRow
      BY <1>1, <1>3, <2>6 DEF IsAccountRequest, IsAccountAnswer
    <3>2. /\ AdminTypes' /\ adminUsers' # NoUser /\ Page' = Page
          /\ adminUsers'[c.target] = Copy(c.reply) /\ Copy(c.reply) # NoUser
          /\ \A u \in UserIds : u # c.target => adminUsers'[u] = adminUsers[u]
      BY <1>1, <1>2, <1>6, <2>1, <2>6, <3>1, CopiedTypes
    <3>3. PageAgrees'
      <4> SUFFICES ASSUME Watching', \A d \in calls' : ~LostWrite(d)
                   PROVE  /\ \A d \in calls' : UpToDate(d)'
                          /\ \A u \in UserIds :
                               (\A d \in calls' : ~Told(d, u)) => adminUsers'[u] = Copy(userRows'[u])
                          /\ (\A d \in calls' : ~(d.kind = "savePolicy" /\ d.phase = "answered"))
                             => adminPolicy' = policyRow'
        BY DEF PageAgrees, LostWrite, Told
      <4>1. Copy(c.reply) = Copy(userRows[c.target]) /\ adminUsers[c.target] # NoUser
        BY <1>1, <1>3, <2>4, <2>6 DEF UpToDate
      <4>2. ASSUME NEW d \in calls'
            PROVE  UpToDate(d)'
        <5>1. UpToDate(d) /\ IsAccountRequest(d) /\ IsAccountAnswer(d)
          BY <1>1, <2>4 DEF AccountsInv, AccountExpected
        <5>2. (d.kind = "saveUser" /\ d.by = NoUser) => adminUsers'[d.target] # NoUser
          BY <3>2, <5>1 DEF UpToDate, IsAccountRequest
        <5>3. (d.phase = "answered" /\ d.kind = "createUser") =>
                Copy(d.reply.row) = Copy(userRows'[d.reply.id]) /\ adminUsers'[d.reply.id] = NoUser
          BY <2>5, <3>2, <4>1, <5>1 DEF UpToDate, IsAccountAnswer
        <5> QED BY <2>5, <5>1, <5>2, <5>3 DEF UpToDate
      <4>3. ASSUME NEW u \in UserIds, \A d \in calls' : ~Told(d, u)
            PROVE  adminUsers'[u] = Copy(userRows'[u])
        <5>1. CASE u = c.target
          BY <2>5, <3>2, <4>1, <5>1
        <5>2. CASE u # c.target
          <6>1. \A d \in calls : ~Told(d, u)
            BY <1>1, <2>6, <4>3, <5>2 DEF Told
          <6> QED BY <2>4, <2>5, <3>2, <5>2, <6>1
        <5> QED BY <5>1, <5>2
      <4>4. (\A d \in calls' : ~(d.kind = "savePolicy" /\ d.phase = "answered")) => adminPolicy' = policyRow'
        BY <1>1, <1>6, <2>4, <2>5, <2>6
      <4> QED BY <4>2, <4>3, <4>4
    <3> QED BY <1>1, <1>2, <1>4, <2>1, <2>3, <3>2, <3>3, ToldKeeps
  <2>7. CASE c.kind = "createUser"
    <3>1. c.reply.id \in UserIds /\ Exists(c.reply.id) /\ c.reply.row \in UserRow
      BY <1>1, <1>3, <2>7 DEF IsAccountAnswer
    <3>2. /\ AdminTypes' /\ adminUsers' # NoUser /\ Page' = Page
          /\ adminUsers'[c.reply.id] = Copy(c.reply.row) /\ Copy(c.reply.row) # NoUser
          /\ \A u \in UserIds : u # c.reply.id => adminUsers'[u] = adminUsers[u]
      BY <1>1, <1>2, <1>6, <2>1, <2>7, <3>1, CopiedTypes
    <3>3. PageAgrees'
      <4> SUFFICES ASSUME Watching', \A d \in calls' : ~LostWrite(d)
                   PROVE  /\ \A d \in calls' : UpToDate(d)'
                          /\ \A u \in UserIds :
                               (\A d \in calls' : ~Told(d, u)) => adminUsers'[u] = Copy(userRows'[u])
                          /\ (\A d \in calls' : ~(d.kind = "savePolicy" /\ d.phase = "answered"))
                             => adminPolicy' = policyRow'
        BY DEF PageAgrees, LostWrite, Told
      <4>1. Copy(c.reply.row) = Copy(userRows[c.reply.id])
        BY <1>1, <2>4, <2>7 DEF UpToDate
      <4>2. ASSUME NEW d \in calls'
            PROVE  UpToDate(d)'
        <5>1. UpToDate(d) /\ IsAccountRequest(d)
          BY <1>1, <2>4 DEF AccountsInv, AccountExpected
        <5>2. (d.kind = "saveUser" /\ d.by = NoUser) => adminUsers'[d.target] # NoUser
          BY <3>2, <5>1 DEF UpToDate, IsAccountRequest
        <5>3. d.kind # "createUser"
          BY <1>1, <2>4, <2>7 DEF AccountsInv, Undisturbed
        <5> QED BY <2>5, <5>1, <5>2, <5>3 DEF UpToDate
      <4>3. ASSUME NEW u \in UserIds, \A d \in calls' : ~Told(d, u)
            PROVE  adminUsers'[u] = Copy(userRows'[u])
        <5>1. CASE u = c.reply.id
          BY <2>5, <3>2, <4>1, <5>1
        <5>2. CASE u # c.reply.id
          <6>1. \A d \in calls : ~Told(d, u)
            BY <1>1, <2>7, <4>3, <5>2 DEF Told
          <6> QED BY <2>4, <2>5, <3>2, <5>2, <6>1
        <5> QED BY <5>1, <5>2
      <4>4. (\A d \in calls' : ~(d.kind = "savePolicy" /\ d.phase = "answered")) => adminPolicy' = policyRow'
        BY <1>1, <1>6, <2>4, <2>5, <2>7
      <4> QED BY <4>2, <4>3, <4>4
    <3> QED BY <1>1, <1>2, <1>4, <2>1, <2>3, <3>2, <3>3, ToldKeeps
  <2>8. CASE c.kind = "savePolicy"
    <3>1. /\ adminPolicy' = c.reply /\ policyDraft' = c.reply /\ UNCHANGED <<adminUsers, userDrafts>>
          /\ c.reply \in Policies
      BY <1>1, <1>3, <1>6, <2>8 DEF IsAccountAnswer
    <3>2. Page' = Page /\ \A u \in UserIds : Exists(u)' = Exists(u)
      BY <1>2 DEF AllButLists, Page, authVars, Exists, accountRows
    <3>3. AdminTypes'
      BY <3>1, <3>2 DEF AccountsInv, AdminTypes
    <3>4. PageAgrees'
      <4> SUFFICES ASSUME Watching', \A d \in calls' : ~LostWrite(d)
                   PROVE  /\ \A d \in calls' : UpToDate(d)'
                          /\ \A u \in UserIds :
                               (\A d \in calls' : ~Told(d, u)) => adminUsers'[u] = Copy(userRows'[u])
                          /\ adminPolicy' = policyRow'
        BY DEF PageAgrees, LostWrite, Told
      <4>1. c.reply = policyRow
        BY <1>1, <2>4, <2>8 DEF UpToDate
      <4>2. \A d \in calls' : UpToDate(d)'
        BY <1>1, <2>4, <2>5, <3>1 DEF UpToDate
      <4>3. \A u \in UserIds : (\A d \in calls' : ~Told(d, u)) => \A d \in calls : ~Told(d, u)
        BY <1>1, <2>8 DEF Told
      <4> QED BY <2>4, <2>5, <3>1, <4>1, <4>2, <4>3
    <3> QED BY <1>1, <1>2, <1>4, <2>1, <2>3, <3>1, <3>2, <3>3, <3>4, ToldKeeps
  <2> QED BY <1>1, <1>6, <2>6, <2>7, <2>8 DEF AdminWrites
<1> QED BY <1>5, <1>6

(* The tab knows whether there is anybody.                                 *)
LEMMA StatusKnownKeeps == ASSUME AccountsInv, StatusKnown, UNCHANGED crossed PROVE AccountsInv'
<1>1. PICK c \in calls :
        /\ c.kind = "bootstrapStatus" /\ c.phase = "answered"
        /\ bootstrapRequired' = c.reply /\ calls' = calls \ {c}
  BY DEF StatusKnown, Answered, Kind, Done
<1>2. UNCHANGED <<accountRows, cookie, authVars, location, adminVars, stale, crossed>>
  BY DEF StatusKnown
<1>3. c.reply \in BOOLEAN
  BY <1>1 DEF AccountsInv, AccountExpected, IsAccountAnswer
<1>4. Page' = Page /\ \A u \in UserIds : Exists(u)' = Exists(u)
  BY <1>2 DEF Page, authVars, Exists, accountRows
<1>5. \A d \in calls' : AccountExpected(d)'
  BY <1>1, <1>4, StaysAccountExpected DEF AccountsInv
<1>6. ServerTypes'
  BY <1>2, <1>4 DEF AccountsInv, ServerTypes, Exists, accountRows
<1>7. TabTypes'
  BY <1>1, <1>2, <1>3, <1>4 DEF AccountsInv, TabTypes, Exists, accountRows, authVars
<1>8. AdminTypes' /\ OnItsPage'
  BY <1>1, <1>2, <1>4 DEF AccountsInv, AdminTypes, OnItsPage, adminVars
<1>9. Starting' /\ SameUser'
  BY <1>1, <1>2 DEF AccountsInv, Starting, SameUser, authVars
<1>10. Fresh'
  <2>1. c.reply => KnownEmpty(c)
    BY <1>1 DEF KnownEmpty
  <2> QED BY <1>1, <1>2, <1>4, <2>1 DEF AccountsInv, Fresh, KnownEmpty, authVars
<1>11. Watching' = Watching
  BY <1>2, <1>4 DEF Watching
<1>12. Undisturbed'
  BY <1>1, <1>11 DEF AccountsInv, Undisturbed
<1>13. Loading'
  BY <1>1, <1>2, <1>4 DEF AccountsInv, Loading, accountRows, adminVars
<1>14. PageAgrees'
  <2>1. \A d : UpToDate(d)' = UpToDate(d)
    BY <1>2 DEF UpToDate, accountRows, adminVars
  <2>2. ~LostWrite(c) /\ (\A u : ~Told(c, u)) /\ c.kind # "savePolicy"
    BY <1>1 DEF LostWrite, Told, PageWrites, AdminWrites
  <2>3. /\ (\A d \in calls' : ~LostWrite(d)) <=> (\A d \in calls : ~LostWrite(d))
        /\ \A u : (\A d \in calls' : ~Told(d, u)) <=> (\A d \in calls : ~Told(d, u))
    BY <1>1, <2>2
  <2>4. UNCHANGED <<adminUsers, adminPolicy, userRows, policyRow>>
    BY <1>2 DEF adminVars, accountRows
  <2> SUFFICES ASSUME Watching', adminUsers' # NoUser, \A d \in calls' : ~LostWrite(d)
               PROVE  /\ \A d \in calls' : UpToDate(d)'
                      /\ \A u \in UserIds :
                           (\A d \in calls' : ~Told(d, u)) => adminUsers'[u] = Copy(userRows'[u])
                      /\ (\A d \in calls' : ~(d.kind = "savePolicy" /\ d.phase = "answered"))
                         => adminPolicy' = policyRow'
    BY DEF PageAgrees, LostWrite, Told
  <2>5. /\ \A d \in calls : UpToDate(d)
        /\ \A u \in UserIds : (\A d \in calls : ~Told(d, u)) => adminUsers[u] = Copy(userRows[u])
        /\ (\A d \in calls : ~(d.kind = "savePolicy" /\ d.phase = "answered")) => adminPolicy = policyRow
    BY <1>11, <2>3, <2>4 DEF AccountsInv, PageAgrees
  <2> QED BY <1>1, <2>1, <2>2, <2>3, <2>4, <2>5
<1> QED BY <1>5, <1>6, <1>7, <1>8, <1>9, <1>10, <1>12, <1>13, <1>14 DEF AccountsInv

(* A request ends with a message at most.                                  *)
LEMMA AccountMessageKeeps ==
  ASSUME AccountsInv, AccountMessage, UNCHANGED crossed PROVE AccountsInv'
<1>1. PICK c \in calls :
        /\ \/ c.phase = "failed" /\ c.kind \notin {"me", "logout"}
           \/ c.phase = "answered" /\ c.kind = "api"
        /\ stale' = (stale \/ (c.phase = "failed" /\ c.lost /\ c.kind \in PageWrites))
        /\ calls' = calls \ {c}
        /\ UNCHANGED <<accountRows, cookie, authVars, location, bootstrapRequired, adminUsers,
                       userDrafts, adminPolicy, policyDraft>>
  BY DEF AccountMessage, Done
<1>2. AccountsRest /\ stale' \in BOOLEAN /\ (stale => stale')
  BY <1>1 DEF AccountsRest, AccountsInv, TabTypes, AccountExpected, IsAccountRequest
<1>3. c.kind # "logout" /\ (c.phase = "answered" => c.kind \notin PageWrites)
  BY <1>1 DEF PageWrites, AdminWrites
<1>4. ~Watching' \/ ~LostWrite(c)
  BY <1>1 DEF LostWrite, Watching
<1> QED BY <1>1, <1>2, <1>3, <1>4, LeavesKeeps

-----------------------------------------------------------------------------
(* The invariant, and what it says of a tab with nothing under way.        *)

(* Any step of the accounts,                                               *)
LEMMA AccountsNextKeeps == ASSUME AccountsInv, AccountsNext PROVE AccountsInv'
<1>1. CASE AccountsActs /\ UNCHANGED crossed
  BY <1>1, SubmitLoginKeeps, UseApiKeeps, LogoutKeeps, SecureKeeps, GoToKeeps, EditDraftKeeps,
     SaveUserKeeps, CreateUserKeeps, SavePolicyKeeps, ElsewhereKeeps DEF AccountsActs
<1>2. CASE (CheckRequest \/ HandleRequest \/ ServePublic \/ AccountsFail) /\ UNCHANGED crossed
  BY <1>2, CheckRequestKeeps, HandleRequestKeeps, ServePublicKeeps, AccountsFailKeeps
<1>3. CASE /\ Refused \/ UserLoaded \/ UserNotLoaded \/ LoggedIn \/ Bootstrapped \/ StatusKnown
              \/ LoggedOut \/ LoggedOutAll \/ AdminLoaded \/ AdminSaved \/ AccountMessage
           /\ UNCHANGED crossed
  BY <1>3, RefusedKeeps, UserLoadedKeeps, UserNotLoadedKeeps, LoggedInKeeps, BootstrappedKeeps,
     StatusKnownKeeps, LoggedOutKeeps, LoggedOutAllKeeps, AdminLoadedKeeps, AdminSavedKeeps,
     AccountMessageKeeps
<1> QED BY <1>1, <1>2, <1>3, PasswordChangedKeeps DEF AccountsNext

(* and none.                                                               *)
LEMMA AccountsStutterKeeps ==
  ASSUME AccountsInv, UNCHANGED <<accountState, calls>> PROVE AccountsInv'
<1>1. AccountsRest /\ UNCHANGED stale /\ stale \in BOOLEAN /\ UNCHANGED isSavingUserId
  BY DEF AccountsRest, accountState, adminVars, AccountsInv, TabTypes
<1>2. ServerTypes' /\ TabTypes' /\ AdminTypes' /\ Page' = Page /\ \A d \in calls' : AccountExpected(d)'
  BY <1>1, AccountsRestTypes DEF AccountsInv
<1>3. \A u \in UserIds : Exists(u)' = Exists(u)
  BY <1>1 DEF Exists, AccountsRest, accountRows
<1>4. Starting' /\ Fresh' /\ SameUser' /\ OnItsPage'
  BY <1>1, <1>2, <1>3 DEF AccountsInv, Starting, Fresh, SameUser, OnItsPage, KnownEmpty, AccountsRest, authVars
<1>5. Watching' = Watching
  BY <1>1, <1>2 DEF Watching
<1>6. Undisturbed' /\ Loading'
  BY <1>1, <1>2, <1>5 DEF AccountsInv, Undisturbed, Loading, AccountsRest, accountRows
<1>7. PageAgrees'
  BY <1>1, <1>5
  DEF AccountsInv, PageAgrees, UpToDate, LostWrite, Told, AccountsRest, accountRows
<1> QED BY <1>2, <1>4, <1>6, <1>7 DEF AccountsInv

(* While another part is used nobody is signed in.                         *)
AccountsHold ==
  /\ panel \in Panel
  /\ panel = "accounts" => AccountsInv
  /\ panel # "accounts" => user = NoUser /\ adminUsers = NoUser

(* Whichever part is used, what the accounts keep holds.                   *)
LEMMA AccountsHoldInvariance == Spec => []AccountsHold
<1>1. Init => AccountsHold
  <2>1. Init /\ panel = "accounts" => calls = AccountsFirst
    BY DEF Init, First
  <2> QED BY <2>1, AccountsInitHold DEF Init, AccountsHold, AccountsStart
<1>2. AccountsHold /\ [Next]_vars => AccountsHold'
  <2> SUFFICES ASSUME AccountsHold, [Next]_vars PROVE AccountsHold'
    OBVIOUS
  <2>1. CASE UseAccounts
    BY <2>1, AccountsNextKeeps DEF UseAccounts, AccountsHold
  <2>2. CASE panel # "accounts" /\ UNCHANGED <<panel, accountState>>
    BY <2>2 DEF AccountsHold, accountState, authVars, adminVars
  <2>3. CASE UNCHANGED vars
    BY <2>3, AccountsStutterKeeps DEF vars, AccountsHold, requestVars, accountState, authVars, adminVars
  <2> QED BY <2>1, <2>2, <2>3 DEF Next, UseSettings, UseKnowledge, UseProviders, UsePages
<1> QED BY <1>1, <1>2, PTL DEF Spec

(* With no request under way a user shown as signed in is the session's,   *)
(* unless a password change was answered to another user, and the admin    *)
(* page shows the roles, the statuses and the policy there are, unless it  *)
(* became stale in one of the ways AccountsAgree names.                    *)
THEOREM TabAgreesWithSession == Spec => []AccountsAgree
<1>1. AccountsInv => AccountsAgree
  <2> SUFFICES ASSUME AccountsInv, calls = {}
               PROVE  /\ (user # NoUser /\ ~crossed) => cookie # NoUser /\ cookie.user = user.id
                      /\ (adminUsers # NoUser /\ ~stale) =>
                           adminUsers = Copies(userRows) /\ adminPolicy = policyRow
    BY DEF AccountsAgree
  <2>1. (user # NoUser /\ ~crossed) => cookie # NoUser /\ cookie.user = user.id
    BY DEF AccountsInv, SameUser
  <2>2. ASSUME adminUsers # NoUser, ~stale
        PROVE  adminUsers = Copies(userRows) /\ adminPolicy = policyRow
    <3>1. Watching /\ adminUsers \in [UserIds -> UserCopy \cup {NoUser}]
      BY <2>2 DEF AccountsInv, AdminTypes, Watching
    <3>2. (\A u \in UserIds : adminUsers[u] = Copy(userRows[u])) /\ adminPolicy = policyRow
      BY <2>2, <3>1 DEF AccountsInv, PageAgrees
    <3> QED BY <3>1, <3>2 DEF Copies
  <2> QED BY <2>1, <2>2
<1>2. AccountsHold => AccountsAgree
  BY <1>1 DEF AccountsHold, AccountsAgree
<1> QED BY <1>2, AccountsHoldInvariance, PTL

-----------------------------------------------------------------------------
(* The knowledge base.                                                     *)

(* While another part is used nothing of the knowledge base is loaded or   *)
(* open.                                                                   *)
KnowledgeRest ==
  /\ loadedParts = {} /\ documentSpaceId = NoOne /\ editingDocument = NoOne
  /\ \A s \in Ids : knowledgeDocuments[s] = NoOne
KnowledgeHolds ==
  /\ panel \in Panel
  /\ panel = "knowledge" => KnowledgeInv
  /\ panel # "knowledge" => KnowledgeRest

(* Whichever part is used, what the knowledge base keeps holds.            *)
LEMMA KnowledgeHoldsInvariance == Spec => []KnowledgeHolds
<1>1. Init => KnowledgeHolds
  <2>1. Init /\ panel = "knowledge" => calls = KnowledgeFirst
    BY DEF Init, First
  <2>2. Init => KnowledgeRest
    BY DEF Init, KnowledgeStart, KnowledgeRest
  <2> QED BY <2>1, <2>2, KnowledgeInitHolds DEF Init, KnowledgeHolds
<1>2. KnowledgeHolds /\ [Next]_vars => KnowledgeHolds'
  <2> SUFFICES ASSUME KnowledgeHolds, [Next]_vars PROVE KnowledgeHolds'
    OBVIOUS
  <2>1. CASE UseKnowledge
    BY <2>1, KnowledgeNextKeeps DEF UseKnowledge, KnowledgeHolds
  <2>2. CASE UNCHANGED <<panel, knowledgeState>> /\ panel # "knowledge"
    BY <2>2 DEF KnowledgeHolds, KnowledgeRest, knowledgeState, caches, forms, histories
  <2>3. CASE UNCHANGED vars
    <3>1. UNCHANGED <<panel, knowledgeState, calls>>
      BY <2>3 DEF vars, requestVars
    <3>2. KnowledgeRest => KnowledgeRest'
      BY <3>1 DEF KnowledgeRest, knowledgeState, caches, forms, histories
    <3> QED BY <3>1, <3>2, KnowledgeStutterKeeps DEF KnowledgeHolds
  <2> QED BY <2>1, <2>2, <2>3 DEF Next, UseSettings, UseProviders, UseAccounts, UsePages
<1> QED BY <1>1, <1>2, PTL DEF Spec

(* With nothing under way the tab shows each space, document and provider  *)
(* the server has, once and as it is there, and its forms are about rows   *)
(* that are there (use-knowledge-settings-state, agent-workspace).         *)
THEOREM ListsMirrorServer == Spec => []KnowledgeExact
<1>1. KnowledgeHolds => KnowledgeExact
  BY SettledIsExact DEF KnowledgeHolds, KnowledgeRest, KnowledgeExact
<1> QED BY <1>1, KnowledgeHoldsInvariance, PTL

-----------------------------------------------------------------------------
(* The settings.                                                           *)

(* No request of another part is one of a save.                            *)
NoSave(cs) == \A c \in cs : "kind" \in DOMAIN c /\ c.kind # "save"

Confirmable == confirmation # NoOne => "kind" \in DOMAIN confirmation /\ confirmation.kind # "save"

LEMMA NewIsNoSave ==
  ASSUME NEW cs, NEW rest, NoSave(cs), NEW body, "kind" \in DOMAIN body, body.kind # "save"
  PROVE  NoSave(cs \cup {AsNext(rest, body)})
  BY DEF NoSave, AsNext, Request, Beside

LEMMA BesideIsNoSave ==
  ASSUME NEW c, "kind" \in DOMAIN c, c.kind # "save", NEW f, "kind" \notin DOMAIN f
  PROVE  "kind" \in DOMAIN Beside(f, c) /\ Beside(f, c).kind # "save"
  BY DEF Beside

LEMMA BecomesNoSave ==
  ASSUME NoSave(calls), NEW c \in calls, NEW new, Become(c, new),
         "kind" \in DOMAIN new /\ new.kind # "save"
  PROVE  NoSave(calls')
  BY DEF NoSave, Become

LEMMA SettledIsNoSave ==
  ASSUME NEW cs, NoSave(cs), NEW space, NEW cache, Settle(cs, space, cache)
  PROVE  NoSave(calls')
<1>1. ASSUME NEW c \in EffectLoads(cs, space, cache) PROVE "kind" \in DOMAIN c /\ c.kind # "save"
  BY <1>1 DEF EffectLoads, AsNext, Request, Beside
<1> QED BY <1>1 DEF Settle, NoSave

LEMMA IssuedIsNoSave ==
  ASSUME NoSave(calls), NEW body, "kind" \in DOMAIN body, body.kind # "save", Issue(body)
  PROVE  NoSave(calls')
  BY NewIsNoSave, SettledIsNoSave DEF Issue

LEMMA RestIsNoSave == \A cs : \A rest \in SUBSET cs : NoSave(cs) => NoSave(rest)
  BY DEF NoSave

(* The server answers, or a request fails or goes on,                      *)
LEMMA ServerSavesNothing ==
  ASSUME NoSave(calls),
         \/ ServeSpaces \/ CheckDocument \/ WriteDocument \/ ServeDocuments \/ ServeProviders
         \/ ServeWorkspace \/ KnowledgeFail
  PROVE  NoSave(calls)'
<1>1. \A c, body : Answer(c, body) => Become(c, Beside([phase |-> "answered", reply |-> body], c))
  BY DEF Answer, Reply
<1>2. \A c : Refuse(c) => Become(c, Beside([phase |-> "failed", lost |-> c.phase # "sent"], c))
  BY DEF Refuse, Broken
<1>3. ASSUME NEW c \in calls, NEW f, "kind" \notin DOMAIN f, Become(c, Beside(f, c))
      PROVE  NoSave(calls')
  BY <1>3, BesideIsNoSave, BecomesNoSave DEF NoSave
<1>4. ASSUME NEW c \in calls, \/ \E body : Answer(c, body)
                              \/ Refuse(c)
      PROVE  NoSave(calls')
  <2>1. CASE \E body : Answer(c, body)
    <3>1. PICK body : Become(c, Beside([phase |-> "answered", reply |-> body], c))
      BY <1>1, <2>1
    <3>2. "kind" \notin DOMAIN [phase |-> "answered", reply |-> body]
      OBVIOUS
    <3> QED BY <3>1, <3>2, <1>3
  <2>2. CASE Refuse(c)
    <3>1. Become(c, Beside([phase |-> "failed", lost |-> c.phase # "sent"], c))
      BY <1>2, <2>2
    <3>2. "kind" \notin DOMAIN [phase |-> "failed", lost |-> c.phase # "sent"]
      OBVIOUS
    <3> QED BY <3>1, <3>2, <1>3
  <2> QED BY <1>4, <2>1, <2>2
<1>5. CASE ServeSpaces \/ ServeDocuments \/ ServeProviders \/ WriteDocument
  <2>1. \E c \in calls : (\E body : Answer(c, body)) \/ Refuse(c)
    <3>1. CASE ServeSpaces
      BY <3>1 DEF ServeSpaces
    <3>2. CASE ServeDocuments
      BY <3>2 DEF ServeDocuments
    <3>3. CASE ServeProviders
      BY <3>3 DEF ServeProviders, Kind
    <3>4. CASE WriteDocument
      BY <3>4 DEF WriteDocument
    <3> QED BY <1>5, <3>1, <3>2, <3>3, <3>4
  <2> QED BY <2>1, <1>4
<1>6. CASE KnowledgeFail
  <2>1. \E c \in calls : Refuse(c)
    BY <1>6 DEF KnowledgeFail, Refuse
  <2> QED BY <2>1, <1>4
<1>7. CASE CheckDocument
  <2>1. PICK c \in calls :
          \/ Become(c, Beside([phase |-> "checked"],
                              IF c.kind \in DocumentUpdates THEN Beside([row |-> Row(c)], c) ELSE c))
          \/ Refuse(c)
    BY <1>7 DEF CheckDocument
  <2>2. DOMAIN [row |-> Row(c)] = {"row"} /\ DOMAIN [phase |-> "checked"] = {"phase"}
    OBVIOUS
  <2> DEFINE d == IF c.kind \in DocumentUpdates THEN Beside([row |-> Row(c)], c) ELSE c
  <2>3. "kind" \in DOMAIN d /\ d.kind # "save"
    BY <2>2, BesideIsNoSave DEF NoSave
  <2>4. LET e == Beside([phase |-> "checked"], d) IN "kind" \in DOMAIN e /\ e.kind # "save"
    <3> HIDE DEF d
    <3> QED BY <2>2, <2>3, BesideIsNoSave
  <2> QED BY <2>1, <2>4, <1>4, BecomesNoSave
<1>8. CASE ServeWorkspace
  <2>1. PICK c \in calls : \E part, value : Half(c, part, value)
    BY <1>8 DEF ServeWorkspace, Kind
  <2>2. PICK part, value : Half(c, part, value)
    BY <2>1
  <2> DEFINE d == IF part = "spaces" THEN Beside([spaces |-> value], c) ELSE Beside([rag |-> value], c)
             phase == IF d.spaces # NoOne /\ d.rag # NoOne THEN "answered" ELSE "sent"
  <2>3. Become(c, Beside([phase |-> phase], d))
    BY <2>2 DEF Half
  <2>4. /\ DOMAIN [spaces |-> value] = {"spaces"} /\ DOMAIN [rag |-> value] = {"rag"}
        /\ DOMAIN [phase |-> phase] = {"phase"}
    OBVIOUS
  <2>5. "kind" \in DOMAIN d /\ d.kind # "save"
    BY <2>4, BesideIsNoSave DEF NoSave
  <2> HIDE DEF d, phase
  <2>6. LET e == Beside([phase |-> phase], d) IN "kind" \in DOMAIN e /\ e.kind # "save"
    BY <2>4, <2>5, BesideIsNoSave
  <2> QED BY <2>3, <2>6, BecomesNoSave
<1> QED BY <1>5, <1>6, <1>7, <1>8

(* and nothing the user does in the knowledge base, nor its answers, is a  *)
(* save.                                                                   *)
LEMMA KnowledgeSavesNothing ==
  ASSUME NoSave(calls), Confirmable, KnowledgeNext
  PROVE  NoSave(calls)' /\ Confirmable'
<1>1. CASE ServeSpaces \/ CheckDocument \/ WriteDocument \/ ServeDocuments \/ ServeProviders
           \/ ServeWorkspace \/ KnowledgeFail
  <2>1. UNCHANGED confirmation
    BY <1>1 DEF ServeSpaces, CheckDocument, WriteDocument, ServeDocuments, ServeProviders,
                ServeWorkspace, KnowledgeFail, forms
  <2> QED BY <1>1, <2>1, ServerSavesNothing DEF Confirmable
<1>2. CASE ChangeTab
  <2> DEFINE rest == Orphaned(calls)
  <2>1. NoSave(rest)
    BY DEF NoSave, Orphaned
  <2>2. calls' = rest \/ calls' = rest \cup {AsNext(rest, Workspace)}
    BY <1>2 DEF ChangeTab
  <2>3. "kind" \in DOMAIN Workspace /\ Workspace.kind # "save"
    BY DEF Workspace
  <2>4. NoSave(calls')
    <3> HIDE DEF rest
    <3> QED BY <2>1, <2>2, <2>3, NewIsNoSave
  <2>5. confirmation' \in {confirmation, NoOne}
    BY <1>2 DEF ChangeTab
  <2> QED BY <2>4, <2>5 DEF Confirmable
<1>3. CASE SelectSpace \/ EditRow
  <2>1. UNCHANGED confirmation /\ \E space, cache : Settle(calls, space, cache)
    <3>1. CASE SelectSpace
      BY <3>1 DEF SelectSpace
    <3>2. CASE EditRow
      BY <3>2 DEF EditRow
    <3> QED BY <1>3, <3>1, <3>2
  <2> QED BY <2>1, SettledIsNoSave DEF Confirmable
<1>4. CASE RefreshDocuments \/ SaveSpace \/ SaveDocument \/ ChooseProvider
  <2>1. UNCHANGED confirmation
    BY <1>4 DEF RefreshDocuments, SaveSpace, SaveDocument, ChooseProvider
  <2>2. \E body : "kind" \in DOMAIN body /\ body.kind # "save" /\ Issue(body)
    <3>1. CASE RefreshDocuments
      BY <3>1 DEF RefreshDocuments
    <3>2. CASE SaveSpace
      BY <3>2 DEF SaveSpace
    <3>3. CASE SaveDocument
      BY <3>3 DEF SaveDocument, DocumentCreates, DocumentUpdates
    <3>4. CASE ChooseProvider
      BY <3>4 DEF ChooseProvider
    <3> QED BY <1>4, <3>1, <3>2, <3>3, <3>4
  <2> QED BY <2>1, <2>2, IssuedIsNoSave DEF Confirmable
<1>5. CASE AskDelete
  BY <1>5 DEF AskDelete, Confirmable
<1>6. CASE Confirm
  BY <1>6, IssuedIsNoSave DEF Confirm, Confirmable
<1>7. CASE CancelDelete
  BY <1>7 DEF CancelDelete, Confirmable
<1>8. CASE WorkspaceLoaded \/ DocumentDeleted \/ ProvidersChanged \/ KnowledgeError
  <2>1. confirmation' \in {confirmation, NoOne} /\ \E c : calls' = calls \ {c}
    BY <1>8 DEF WorkspaceLoaded, DocumentDeleted, ProvidersChanged, KnowledgeError, Done, forms
  <2> QED BY <2>1, RestIsNoSave DEF Confirmable
<1>9. CASE DocumentsLoaded \/ SpaceSaved \/ SpaceDeleted \/ DocumentSaved
  <2>1. confirmation' \in {confirmation, NoOne} /\ \E c, space, cache : Settle(calls \ {c}, space, cache)
    <3>1. CASE DocumentsLoaded
      BY <3>1 DEF DocumentsLoaded
    <3>2. CASE SpaceSaved
      BY <3>2 DEF SpaceSaved
    <3>3. CASE SpaceDeleted
      BY <3>3 DEF SpaceDeleted
    <3>4. CASE DocumentSaved
      BY <3>4 DEF DocumentSaved
    <3> QED BY <1>9, <3>1, <3>2, <3>3, <3>4
  <2> QED BY <2>1, RestIsNoSave, SettledIsNoSave DEF Confirmable
<1> QED BY <1>1, <1>2, <1>3, <1>4, <1>5, <1>6, <1>7, <1>8, <1>9 DEF KnowledgeNext, KnowledgeActs

(* While another part is used no save is under way, and the dialog is      *)
(* closed.                                                                 *)
SettingsHold ==
  /\ panel \in Panel /\ (panel # "settings" => ~isOpen)
  /\ panel = "settings" => SettingsInv
  /\ panel = "knowledge" => NoSave(calls) /\ Confirmable

(* Whichever part is used, what the settings keep holds.                   *)
LEMMA SettingsHoldInvariance == Spec => []SettingsHold
<1>1. Init => SettingsHold
  <2> SUFFICES ASSUME Init PROVE SettingsHold
    OBVIOUS
  <2>1. panel = "settings" => SettingsInv
    <3>1. panel = "settings" => calls = SettingsFirst
      BY DEF Init, First
    <3>2. acts \in 0 .. MaxActs
      BY BudgetAssumption, ActsAssumption DEF Init
    <3> QED BY <3>1, <3>2, SettingsStartHolds DEF Init
  <2>2. panel = "knowledge" => NoSave(calls) /\ Confirmable
    <3>1. panel = "knowledge" => calls = KnowledgeFirst /\ confirmation = NoOne
      BY DEF Init, First, KnowledgeStart
    <3> QED BY <3>1 DEF NoSave, Confirmable, KnowledgeFirst, Request, Beside, Workspace
  <2> QED BY <2>1, <2>2 DEF Init, SettingsHold
<1>2. SettingsHold /\ [Next]_vars => SettingsHold'
  <2> SUFFICES ASSUME SettingsHold, [Next]_vars PROVE SettingsHold'
    OBVIOUS
  <2>1. CASE UseSettings
    BY <2>1, SettingsNextKeeps DEF UseSettings, SettingsHold
  <2>2. CASE UseKnowledge
    BY <2>2, KnowledgeSavesNothing DEF UseKnowledge, SettingsHold, settingsState, dialog
  <2>3. CASE UseProviders \/ UseAccounts \/ UsePages
    BY <2>3 DEF UseProviders, UseAccounts, UsePages, SettingsHold, settingsState, dialog
  <2>4. CASE UNCHANGED vars
    BY <2>4, SettingsNextKeeps
       DEF vars, SettingsHold, settingsVars, requestVars, knowledgeState, forms, NoSave, Confirmable,
           settingsState, dialog
  <2> QED BY <2>1, <2>2, <2>3, <2>4 DEF Next
<1> QED BY <1>1, <1>2, PTL DEF Spec

(* Whichever part is used, a save of the settings that ends and that       *)
(* nothing crossed stored all it was given or left all as it was           *)
(* (handleSaveSettings and its rollback).                                  *)
THEOREM SavesStayWhole == Spec => SaveAllOrNothing
<1> DEFINE Whole ==
      \A c \in Kind("save") :
        (Ends(c) /\ c.alone /\ c.sure /\ ~c.lost /\ ~(c.stage = "rollback" /\ c.phase = "failed"))
        => IF isOpen' = isOpen /\ isOpen THEN AsBefore(c) ELSE Stored(c) \/ AsBefore(c)
<1>1. SettingsHold /\ PresetsHold /\ AccountsHold /\ PagesHold /\ [Next]_vars => [Whole]_settingsVars
  <2> SUFFICES ASSUME SettingsHold, PresetsHold, AccountsHold, PagesHold, Next PROVE Whole
    BY DEF vars, settingsVars
  <2>1. CASE UseSettings
    BY <2>1, SavesAreWholeStep DEF UseSettings, SettingsHold, SettingsInv
  <2>2. CASE UseKnowledge
    BY <2>2 DEF UseKnowledge, SettingsHold, NoSave, Kind
  <2>3. CASE UseProviders
    BY <2>3 DEF UseProviders, PresetsHold, PresetsInv, PresetExpected, IsPresetRequest, PresetWrites, Kind
  <2>4. CASE UseAccounts
    BY <2>4 DEF UseAccounts, AccountsHold, AccountsInv, AccountExpected, IsAccountRequest, AccountKinds,
                NeedAdmin, AdminWrites, Public, RowWrites, Kind
  <2>5. CASE UsePages
    BY <2>5 DEF UsePages, PagesHold, PagesInv, PageExpected, IsPageRequest, Kind
  <2> QED BY <2>1, <2>2, <2>3, <2>4, <2>5 DEF Next
<1>2. Spec => [][Whole]_settingsVars
  <2> HIDE DEF Whole
  <2> QED BY <1>1, SettingsHoldInvariance, PresetsHoldInvariance, AccountsHoldInvariance,
             PagesHoldInvariance, PTL DEF Spec
<1> QED BY <1>2 DEF SaveAllOrNothing

(* Whichever part is used and in whatever order switches of spaces are     *)
(* answered, once all are the dialog shows the spaces the server stores    *)
(* (toggleKnowledgeSpace and its rollback).                                *)
THEOREM ShownSpacesAreStored == Spec => []SpacesSettle
<1>1. SettingsHold => SpacesSettle
  BY SpacesAreSettled DEF SettingsHold, SettingsInv, SpacesSettle
<1> QED BY <1>1, SettingsHoldInvariance, PTL

=============================================================================
