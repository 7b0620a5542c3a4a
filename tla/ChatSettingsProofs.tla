-------------------------- MODULE ChatSettingsProofs --------------------------
(***************************************************************************)
(* Proofs about ChatSettings, for any conversations, spaces and number of  *)
(* acts: a save stores everything or nothing, and switches of spaces,      *)
(* answered in any order, leave the dialog with what the server stores.    *)
(*                                                                         *)
(* A save that nothing crosses is alone with the settings it changes, so   *)
(* each of its stages fixes what is stored.  That rests on the types, kept *)
(* by one lemma for each action (<Action>Types), and on four facts about   *)
(* requests (SavesInv), kept by another (<Action>Saves).                   *)
(*                                                                         *)
(* Switches are served in the order they were made, and each builds on the *)
(* one before, so the last says what will be stored; that it is what is    *)
(* shown, and what the list will say, is SpacesInv, kept by a third lemma  *)
(* for each action (<Action>Spaces).                                       *)
(***************************************************************************)
EXTENDS ChatSettings, FiniteSetTheorems, SequenceTheorems, WellFoundedInduction, TLAPS

-----------------------------------------------------------------------------
(* Types.                                                                  *)

(* Lists of spaces, which hold none twice, and rows.                       *)
Lists == {ids \in Seq(Spaces) : IsInjective(ids)}
CopiesOf(c) == [id : {c}, settings : Settings, meta : Values, spaces : Lists]
Home(c) == c \in Conversations \cup {None}

SettingsKinds == {"global", "row", "toggle", "model", "save", "default"}

(* A request of the settings, in any phase: what each has,                 *)
IsRequest(c) ==
  /\ {"n", "phase", "lost", "kind", "alone", "followed", "overlap"} \subseteq DOMAIN c
  /\ c.kind \in SettingsKinds /\ c.phase \in {"sent", "answered", "failed"}
  /\ c.lost \in BOOLEAN /\ c.alone \in BOOLEAN
  /\ c.followed \in BOOLEAN /\ c.overlap \in BOOLEAN

(* what it says, by its kind,                                              *)
IsBody(c) ==
  /\ c.kind = "row" => "conv" \in DOMAIN c /\ c.conv \in Conversations
  /\ c.kind = "toggle" =>
       /\ {"conv", "space", "ids", "previous", "version"} \subseteq DOMAIN c
       /\ c.n \in Nat /\ c.conv \in Conversations /\ c.space \in Spaces
       /\ c.previous \in Lists /\ c.ids = Toggled(c.previous, c.space)
  /\ c.kind = "model" =>
       /\ {"conv", "settings"} \subseteq DOMAIN c
       /\ c.conv \in Conversations /\ c.settings \in Settings
  /\ c.kind = "save" =>
       /\ {"conv", "stage", "global", "settings", "meta", "metaSent", "previousGlobal",
           "previousRow", "was", "sure"} \subseteq DOMAIN c
       /\ c.stage \in {"global", "conversation", "rollback"} /\ Home(c.conv)
       /\ c.stage # "global" => c.conv # None
       /\ c.global \in GlobalSettings /\ c.previousGlobal \in GlobalSettings
       /\ c.settings \in Settings /\ c.meta \in Values
       /\ c.previousRow # None => c.conv # None /\ c.previousRow \in CopiesOf(c.conv)
  /\ c.kind = "default" =>
       /\ {"conv", "home", "global", "prompt", "meta"} \subseteq DOMAIN c
       /\ c.global \in GlobalSettings /\ c.prompt \in Values /\ c.meta \in Values

(* and what it is answered.                                                *)
AboutRow(c) ==
  c.kind \in {"row", "toggle", "model"} \/ (c.kind = "save" /\ c.stage = "conversation")
IsAnswer(c) ==
  c.phase = "answered" =>
    /\ "reply" \in DOMAIN c
    /\ IF AboutRow(c) THEN c.reply \in CopiesOf(c.conv) ELSE c.reply \in GlobalSettings
    /\ c.kind = "toggle" => c.reply.spaces = c.ids

IsExpected(c) == IsRequest(c) /\ IsBody(c) /\ IsAnswer(c)

IsMapOfRows(f, S) == f = [c \in Conversations |-> f[c]] /\ \A c \in S : f[c] \in CopiesOf(c)

StoredTypes ==
  /\ IsMapOfRows(stored, Conversations) /\ storedGlobal \in GlobalSettings
RowTypes ==
  /\ IsMapOfRows(listed, Conversations \ Hidden) /\ \A c \in Hidden : listed[c] = None
  /\ pending # None => \E c \in Conversations : pending \in CopiesOf(c)
  /\ Home(active)
GlobalTypes == global \in GlobalSettings /\ globalDraft \in GlobalSettings
DraftTypes ==
  /\ draft \in Settings /\ metaDraft \in Values /\ spacesDraft \in Lists /\ Home(spacesOf)
  /\ newPrompt \in Values /\ newMeta \in Values
SwitchTypes ==
  /\ versions \in [Spaces -> Nat] /\ counts \in [Spaces -> 0 .. 1]
DialogTypes ==
  /\ isOpen \in BOOLEAN /\ isSaving \in BOOLEAN
  /\ known \in BOOLEAN /\ unsure \in BOOLEAN /\ behind \in BOOLEAN

(* One save at a time, and a space's switch is blocked by a request.       *)
OneSave ==
  /\ isSaving = (Kind("save") # {})
  /\ \A c, d \in Kind("save") : c = d
Blocked ==
  \A s \in Spaces : counts[s] > 0 => \E c \in Kind("toggle") : c.space = s /\ c.conv = active

(* No more switches than acts.                                             *)
Counted == acts \in 0 .. MaxActs /\ \A t \in Kind("toggle") : t.n <= acts

SettingsTypes ==
  /\ Counted /\ StoredTypes /\ RowTypes /\ GlobalTypes /\ DraftTypes /\ SwitchTypes /\ DialogTypes
  /\ OneSave /\ Blocked /\ \A c \in calls : IsExpected(c)

-----------------------------------------------------------------------------
(* A save that nothing crosses.                                            *)

(* Requests that say no write crossed them are right,                      *)
AloneAre ==
  /\ \A c \in Writes : c.alone => Writes = {c}
  /\ \A c \in Kind("global") : c.alone => Writes = {}

(* what they are answered is what is stored,                               *)
RepliesAreStored ==
  \A c \in calls : (c.alone /\ c.phase = "answered" /\ ~AboutRow(c)) => c.reply = storedGlobal

(* and so are the settings of every chat, once they are known and until    *)
(* the server takes others.                                                *)
Taken(c) == c.phase = "answered" \/ (c.phase = "failed" /\ c.lost)
KnownIsStored ==
  (known /\ \A c \in Writes : SetsGlobal(c) => ~Taken(c)) => global = storedGlobal

(* What a save knows while nothing crosses it, in each of its stages.      *)
Certain(c) == c.alone /\ c.sure
Uncrossed(c) == \A d \in calls : d.kind # "global" /\ (d # c => d.kind = "row")
RowAsBefore(c) == c.conv # None => stored[c.conv] = c.was[2]
StageIsPlain(c) ==
  /\ c.was[1] = c.previousGlobal
  /\ c.metaSent => c.previousRow # None
  /\ c.previousRow # None /\ ~c.metaSent => c.was[2].meta = c.meta
  /\ c.stage = "global" =>
       /\ RowAsBefore(c) /\ global = c.was[1]
       /\ c.phase = "sent" \/ (c.phase = "failed" /\ ~c.lost) => storedGlobal = c.was[1]
       /\ c.phase = "answered" => storedGlobal = c.global
       /\ c.phase # "failed" => ~c.lost
  /\ c.stage = "conversation" =>
       /\ storedGlobal = c.global
       /\ c.phase = "sent" \/ (c.phase = "failed" /\ ~c.lost) => RowAsBefore(c)
       /\ c.phase = "answered" => Stored(c)
       /\ c.phase # "failed" => ~c.lost
  /\ c.stage = "rollback" =>
       /\ c.phase # "failed" /\ ~c.lost => RowAsBefore(c)
       /\ c.phase = "answered" => storedGlobal = c.was[1] /\ c.reply = c.was[1]

SavesArePlain == \A c \in Kind("save") : Certain(c) => Uncrossed(c) /\ StageIsPlain(c)

SavesInv == AloneAre /\ RepliesAreStored /\ KnownIsStored /\ SavesArePlain

-----------------------------------------------------------------------------
(* Lists of spaces.                                                        *)

(* What a list is without one of its elements.                             *)
LEMMA WithoutIs ==
  ASSUME NEW ids \in Lists, NEW i \in DOMAIN ids
  PROVE  LET rest == Without(ids, ids[i])
         IN  /\ rest \in Lists /\ Len(rest) = Len(ids) - 1
             /\ \A j \in 1 .. Len(ids) - 1 : rest[j] = IF j < i THEN ids[j] ELSE ids[j + 1]
<1>1. /\ ids \in Seq(Spaces) /\ DOMAIN ids = 1 .. Len(ids) /\ Len(ids) \in Nat
      /\ \A a, b \in 1 .. Len(ids) : ids[a] = ids[b] => a = b
  BY DEF Lists, IsInjective
<1>2. (CHOOSE k \in DOMAIN ids : ids[k] = ids[i]) = i
  BY <1>1
<1>3. ids[i] \in ToSet(ids)
  BY DEF ToSet
<1>4. Without(ids, ids[i]) = SubSeq(ids, 1, i - 1) \o SubSeq(ids, i + 1, Len(ids))
  BY <1>2, <1>3 DEF Without, RemoveAt
<1> DEFINE before == SubSeq(ids, 1, i - 1)
           after == SubSeq(ids, i + 1, Len(ids))
           rest == before \o after
<1>5. i \in 1 .. Len(ids)
  BY <1>1
<1>6. /\ before \in Seq(Spaces) /\ Len(before) = i - 1
      /\ \A j \in 1 .. i - 1 : before[j] = ids[j]
  BY <1>1, <1>5
<1>7. /\ after \in Seq(Spaces) /\ Len(after) = Len(ids) - i
      /\ \A j \in 1 .. Len(ids) - i : after[j] = ids[i + j]
  BY <1>1, <1>5
<1>7a. /\ before \o after \in Seq(Spaces)
      /\ Len(before \o after) = Len(before) + Len(after)
      /\ \A j \in 1 .. Len(before) + Len(after) : (before \o after)[j] =
           IF j <= Len(before) THEN before[j] ELSE after[j - Len(before)]
  BY <1>6, <1>7, ConcatProperties
<1>8. rest \in Seq(Spaces) /\ Len(rest) = Len(ids) - 1
  <2> HIDE DEF before, after
  <2> QED BY <1>1, <1>5, <1>6, <1>7, <1>7a
<1>9. \A j \in 1 .. Len(ids) - 1 : rest[j] = IF j < i THEN ids[j] ELSE ids[j + 1]
  <2> SUFFICES ASSUME NEW j \in 1 .. Len(ids) - 1
               PROVE  rest[j] = IF j < i THEN ids[j] ELSE ids[j + 1]
    OBVIOUS
  <2> HIDE DEF before, after
  <2>1. rest[j] = IF j <= Len(before) THEN before[j] ELSE after[j - Len(before)]
    BY <1>1, <1>5, <1>6, <1>7, <1>7a
  <2>2. CASE j < i
    BY <2>1, <2>2, <1>1, <1>5, <1>6
  <2>3. CASE ~(j < i)
    <3>1. j - Len(before) \in 1 .. Len(ids) - i /\ i + (j - Len(before)) = j + 1
      BY <2>3, <1>1, <1>5, <1>6
    <3>2. ~(j <= Len(before))
      BY <2>3, <1>5, <1>6, <1>1
    <3>3. after[j - Len(before)] = ids[i + (j - Len(before))]
      BY <3>1, <1>7
    <3> QED BY <3>1, <3>2, <3>3, <2>1, <2>3
  <2> QED BY <2>2, <2>3
<1> HIDE DEF rest
<1>10. IsInjective(rest)
  <2>1. DOMAIN rest = 1 .. Len(ids) - 1
    BY <1>8
  <2> QED BY <2>1, <1>1, <1>5, <1>9 DEF IsInjective
<1> QED BY <1>4, <1>8, <1>9, <1>10 DEF rest, Lists

(* A list stays one without an element it does not have.                   *)
LEMMA WithoutIsList ==
  ASSUME NEW ids \in Lists, NEW s
  PROVE  Without(ids, s) \in Lists
<1>1. CASE s \in ToSet(ids)
  <2>1. PICK i \in DOMAIN ids : s = ids[i]
    BY <1>1 DEF ToSet
  <2> QED BY <2>1, WithoutIs
<1>2. CASE s \notin ToSet(ids)
  BY <1>2 DEF Without
<1> QED BY <1>1, <1>2

(* A list with a new last element.                                         *)
LEMMA AppendIs ==
  ASSUME NEW ids \in Lists, NEW s \in Spaces, s \notin ToSet(ids)
  PROVE  /\ Append(ids, s) \in Lists /\ Len(Append(ids, s)) = Len(ids) + 1
         /\ \A i \in 1 .. Len(ids) : Append(ids, s)[i] = ids[i]
         /\ Append(ids, s)[Len(ids) + 1] = s
<1>1. /\ ids \in Seq(Spaces) /\ DOMAIN ids = 1 .. Len(ids) /\ Len(ids) \in Nat
      /\ \A a, b \in 1 .. Len(ids) : ids[a] = ids[b] => a = b
  BY DEF Lists, IsInjective
<1>2. /\ Append(ids, s) \in Seq(Spaces) /\ Len(Append(ids, s)) = Len(ids) + 1
      /\ \A i \in 1 .. Len(ids) : Append(ids, s)[i] = ids[i]
      /\ Append(ids, s)[Len(ids) + 1] = s
  BY <1>1
<1>3. \A i \in 1 .. Len(ids) : ids[i] # s
  BY <1>1 DEF ToSet
<1>4. IsInjective(Append(ids, s))
  <2>1. DOMAIN Append(ids, s) = 1 .. Len(ids) + 1
    BY <1>2, <1>1
  <2>2. SUFFICES ASSUME NEW a \in 1 .. Len(ids) + 1, NEW b \in 1 .. Len(ids) + 1,
                        Append(ids, s)[a] = Append(ids, s)[b]
                 PROVE  a = b
    BY <2>1 DEF IsInjective
  <2>3. (a \in 1 .. Len(ids) \/ a = Len(ids) + 1) /\ (b \in 1 .. Len(ids) \/ b = Len(ids) + 1)
    BY <1>1
  <2> QED BY <2>2, <2>3, <1>1, <1>2, <1>3
<1> QED BY <1>2, <1>4 DEF Lists

(* Switching a space in a list gives a list.                               *)
LEMMA ToggledIsList ==
  ASSUME NEW ids \in Lists, NEW s \in Spaces
  PROVE  Toggled(ids, s) \in Lists
  BY WithoutIsList, AppendIs DEF Toggled

(* An element put into a list at a place.                                  *)
LEMMA InsertIs ==
  ASSUME NEW ids \in Lists, NEW s \in Spaces, s \notin ToSet(ids), NEW k \in 0 .. Len(ids)
  PROVE  LET whole == SubSeq(ids, 1, k) \o <<s>> \o SubSeq(ids, k + 1, Len(ids))
         IN  /\ whole \in Lists /\ Len(whole) = Len(ids) + 1
             /\ \A i \in 1 .. Len(ids) + 1 :
                  whole[i] = IF i <= k THEN ids[i] ELSE IF i = k + 1 THEN s ELSE ids[i - 1]
<1>1. /\ ids \in Seq(Spaces) /\ DOMAIN ids = 1 .. Len(ids) /\ Len(ids) \in Nat
      /\ \A a, b \in 1 .. Len(ids) : ids[a] = ids[b] => a = b
  BY DEF Lists, IsInjective
<1> DEFINE before == SubSeq(ids, 1, k)
           start == before \o <<s>>
           after == SubSeq(ids, k + 1, Len(ids))
           whole == start \o after
<1>2. before \in Seq(Spaces) /\ Len(before) = k /\ \A i \in 1 .. k : before[i] = ids[i]
  BY <1>1
<1>3. /\ after \in Seq(Spaces) /\ Len(after) = Len(ids) - k
      /\ \A i \in 1 .. Len(ids) - k : after[i] = ids[k + i]
  <2>1. /\ after \in Seq(Spaces)
        /\ Len(after) = IF k + 1 <= Len(ids) THEN Len(ids) - (k + 1) + 1 ELSE 0
        /\ \A i \in 1 .. Len(ids) - (k + 1) + 1 : after[i] = ids[k + 1 + i - 1]
    <3>1. \A i \in k + 1 .. Len(ids) : ids[i] \in Spaces
      BY <1>1
    <3>2. k + 1 \in Int /\ Len(ids) \in Int
      BY <1>1
    <3> HIDE DEF after
    <3> QED BY <3>1, <3>2, SubSeqProperties DEF after
  <2>2. ASSUME NEW i \in 1 .. Len(ids) - k
        PROVE  after[i] = ids[k + i]
    <3>1. k + 1 + i - 1 = k + i /\ i \in 1 .. Len(ids) - (k + 1) + 1
      BY <1>1
    <3> QED BY <3>1, <2>1
  <2>3. Len(after) = Len(ids) - k
    <3> HIDE DEF after
    <3>1. Len(after) = IF k + 1 <= Len(ids) THEN Len(ids) - (k + 1) + 1 ELSE 0
      BY <2>1
    <3>2. k \in Int /\ Len(ids) \in Int /\ k <= Len(ids)
      BY <1>1
    <3>3. CASE k = Len(ids)
      BY <3>1, <3>2, <3>3
    <3>4. CASE k # Len(ids)
      BY <3>1, <3>2, <3>4
    <3> QED BY <3>3, <3>4
  <2> QED BY <2>1, <2>2, <2>3
<1>4. start \in Seq(Spaces) /\ Len(start) = k + 1 /\ start[k + 1] = s
      /\ \A i \in 1 .. k : start[i] = ids[i]
  <2> HIDE DEF before
  <2> QED BY <1>2
<1>5. whole \in Seq(Spaces) /\ Len(whole) = Len(ids) + 1
  <2>1. ASSUME NEW p \in Seq(Spaces), NEW q \in Seq(Spaces)
        PROVE  p \o q \in Seq(Spaces) /\ Len(p \o q) = Len(p) + Len(q)
    OBVIOUS
  <2>2. k + 1 + (Len(ids) - k) = Len(ids) + 1
    BY <1>1
  <2> HIDE DEF start, after
  <2> QED BY <2>1, <2>2, <1>3, <1>4
<1>6. ASSUME NEW i \in 1 .. Len(ids) + 1
      PROVE  whole[i] = IF i <= k THEN ids[i] ELSE IF i = k + 1 THEN s ELSE ids[i - 1]
  <2> HIDE DEF start, after
  <2>1. whole[i] = IF i <= k + 1 THEN start[i] ELSE after[i - (k + 1)]
    BY <1>3, <1>4, <1>1
  <2>2. CASE i <= k + 1
    BY <2>1, <2>2, <1>4, <1>1
  <2>3. CASE ~(i <= k + 1)
    <3>1. i - (k + 1) \in 1 .. Len(ids) - k /\ k + (i - (k + 1)) = i - 1
      BY <2>3, <1>1
    <3> QED BY <3>1, <2>1, <2>3, <1>1, <1>3
  <2> QED BY <2>2, <2>3
<1>7. \A i \in 1 .. Len(ids) : ids[i] # s
  BY <1>1 DEF ToSet
<1> HIDE DEF whole
<1>8. IsInjective(whole)
  <2>1. DOMAIN whole = 1 .. Len(ids) + 1
    BY <1>5, <1>1
  <2>2. SUFFICES ASSUME NEW a \in 1 .. Len(ids) + 1, NEW b \in 1 .. Len(ids) + 1,
                        whole[a] = whole[b], a < b
                 PROVE  FALSE
    <3>1. \A a, b \in 1 .. Len(ids) + 1 : a < b \/ a = b \/ b < a
      BY <1>1
    <3> QED BY <2>1, <3>1 DEF IsInjective
  <2>3. whole[a] = IF a <= k THEN ids[a] ELSE IF a = k + 1 THEN s ELSE ids[a - 1]
    BY <1>6
  <2>4. whole[b] = IF b <= k THEN ids[b] ELSE IF b = k + 1 THEN s ELSE ids[b - 1]
    BY <1>6
  <2>5. CASE a = k + 1
    <3>1. b - 1 \in 1 .. Len(ids) /\ whole[b] = ids[b - 1] /\ whole[a] = s
      <4> HIDE DEF whole
      <4>1. k + 1 < b /\ b - 1 \in 1 .. Len(ids)
        BY <2>2, <2>5, <1>1
      <4> QED BY <4>1, <2>3, <2>4, <2>5
    <3> QED BY <3>1, <2>2, <1>7
  <2>6. CASE b = k + 1
    <3>1. a \in 1 .. Len(ids) /\ whole[a] = ids[a] /\ whole[b] = s
      <4>1. a <= k /\ a \in 1 .. Len(ids)
        BY <2>2, <2>6, <1>1
      <4> QED BY <4>1, <2>3, <2>4, <2>6
    <3> QED BY <3>1, <2>2, <1>7
  <2>7. CASE a # k + 1 /\ b # k + 1
    <3>1. \E i, j \in 1 .. Len(ids) : i # j /\ whole[a] = ids[i] /\ whole[b] = ids[j]
      <4>1. CASE b <= k
        <5>1. a <= k /\ a \in 1 .. Len(ids) /\ b \in 1 .. Len(ids) /\ a # b
          BY <4>1, <2>2, <1>1
        <5> QED BY <5>1, <4>1, <2>3, <2>4
      <4>2. CASE a <= k /\ k + 1 < b
        <5>1. b - 1 \in 1 .. Len(ids) /\ whole[b] = ids[b - 1] /\ a # b - 1
          BY <4>2, <2>4, <2>7, <1>1
        <5>2. a \in 1 .. Len(ids) /\ whole[a] = ids[a]
          BY <4>2, <2>3, <1>1
        <5> QED BY <5>1, <5>2
      <4>3. CASE k + 1 < a
        <5>1. b - 1 \in 1 .. Len(ids) /\ whole[b] = ids[b - 1] /\ a - 1 # b - 1
          BY <4>3, <2>2, <2>4, <2>7, <1>1
        <5>2. a - 1 \in 1 .. Len(ids) /\ whole[a] = ids[a - 1]
          BY <4>3, <2>3, <1>1
        <5> QED BY <5>1, <5>2
      <4> QED BY <4>1, <4>2, <4>3, <2>2, <2>7, <1>1
    <3> QED BY <3>1, <2>2, <1>1
  <2> QED BY <2>5, <2>6, <2>7
<1> QED BY <1>5, <1>6, <1>8 DEF whole, start, before, after, Lists

(* A bounded set of numbers has a greatest one.                            *)
LEMMA MaxIs ==
  ASSUME NEW N \in Nat, NEW S \in SUBSET (0 .. N), S # {}
  PROVE  Max(S) \in S /\ \A x \in S : x <= Max(S)
<1> DEFINE down == {n \in Nat : \E i \in S : n = N - i}
<1>1. down # {} /\ down \in SUBSET Nat
  <2>1. PICK x : x \in S
    OBVIOUS
  <2>2. N - x \in down
    BY <2>1
  <2> QED BY <2>2
<1>2. PICK n \in down : \A m \in down : <<m, n>> \notin OpToRel(<, Nat)
  <2> HIDE DEF down
  <2> QED BY <1>1, NatLessThanWellFounded, WFMin
<1>3. PICK i \in S : n = N - i
  BY <1>2
<1>4. \A j \in S : i >= j
  <2> SUFFICES ASSUME NEW j \in S PROVE i >= j
    OBVIOUS
  <2>1. N - j \in down
    OBVIOUS
  <2>2. ~(N - j < n)
    BY <2>1, <1>2, <1>1 DEF OpToRel
  <2> QED BY <2>2, <1>3
<1>5. Max(S) \in S /\ \A x \in S : Max(S) >= x
  BY <1>4 DEF Max
<1> QED BY <1>5

(* What a failed switch leaves is a list.                                  *)
LEMMA RolledBackIsList ==
  ASSUME NEW ids \in Lists, NEW previous \in Lists, NEW s \in Spaces
  PROVE  RolledBack(ids, previous, s) \in Lists
<1>1. CASE s \notin ToSet(previous)
  BY <1>1, WithoutIsList DEF RolledBack
<1>2. CASE s \in ToSet(previous) /\ s \in ToSet(ids)
  BY <1>2 DEF RolledBack
<1>3. CASE s \in ToSet(previous) /\ s \notin ToSet(ids)
  <2> DEFINE before == {j \in DOMAIN previous : /\ previous[j] \in ToSet(ids)
                                                /\ s \notin {previous[k] : k \in 1 .. j}}
             place == IF before = {} THEN 0
                      ELSE CHOOSE i \in DOMAIN ids : ids[i] = previous[Max(before)]
  <2>1. RolledBack(ids, previous, s) =
          SubSeq(ids, 1, place) \o <<s>> \o SubSeq(ids, place + 1, Len(ids))
    BY <1>3 DEF RolledBack, Reinserted
  <2>2. place \in 0 .. Len(ids)
    <3>1. /\ DOMAIN ids = 1 .. Len(ids) /\ Len(ids) \in Nat
          /\ DOMAIN previous = 1 .. Len(previous) /\ Len(previous) \in Nat
      BY DEF Lists
    <3>2. before \in SUBSET (0 .. Len(previous)) /\ \A j \in before : previous[j] \in ToSet(ids)
      BY <3>1
    <3> HIDE DEF before
    <3>3. CASE before = {}
      BY <3>1, <3>3
    <3>4. CASE before # {}
      <4>1. Max(before) \in before
        BY <3>1, <3>2, <3>4, MaxIs
      <4>2. \E i \in DOMAIN ids : ids[i] = previous[Max(before)]
        BY <4>1, <3>2 DEF ToSet
      <4> QED BY <4>2, <3>4, <3>1
    <3> QED BY <3>3, <3>4
  <2> HIDE DEF place
  <2> QED BY <2>1, <2>2, <1>3, InsertIs
<1> QED BY <1>1, <1>2, <1>3

-----------------------------------------------------------------------------
(* Requests.                                                               *)

Stamps == {"n", "phase", "lost", "alone", "followed", "overlap"}

(* What may change in a request that stays what it is.                     *)
Passing == {"phase", "lost", "alone", "followed", "overlap"}

LEMMA SameBody ==
  ASSUME NEW d, IsBody(d), NEW e, DOMAIN d \subseteq DOMAIN e, {"n", "kind"} \subseteq DOMAIN d,
         \A x \in DOMAIN d \ (Passing \cup {"reply"}) : e[x] = d[x]
  PROVE  /\ IsBody(e) /\ (AboutRow(e) <=> AboutRow(d))
         /\ (IsAnswer(d) /\ d.phase = "answered" /\ e.reply = d.reply) => IsAnswer(e)
<1>1. \A x \in {"n", "kind", "conv", "space", "ids", "previous", "version", "settings", "stage",
                "global", "meta", "metaSent", "previousGlobal", "previousRow", "was", "sure",
                "home", "prompt"} : x \in DOMAIN d => x \in DOMAIN e /\ e[x] = d[x]
  BY DEF Passing
<1>2. e.kind = d.kind
  BY <1>1
<1>3. IsBody(e)
  <2>1. e.kind = "row" => "conv" \in DOMAIN e /\ e.conv \in Conversations
    BY <1>1, <1>2 DEF IsBody
  <2>2. e.kind = "toggle" =>
          /\ {"conv", "space", "ids", "previous", "version"} \subseteq DOMAIN e
          /\ e.n \in Nat /\ e.conv \in Conversations /\ e.space \in Spaces
          /\ e.previous \in Lists /\ e.ids = Toggled(e.previous, e.space)
    <3> SUFFICES ASSUME e.kind = "toggle"
                 PROVE  /\ {"conv", "space", "ids", "previous", "version"} \subseteq DOMAIN e
                        /\ e.n \in Nat /\ e.conv \in Conversations /\ e.space \in Spaces
                        /\ e.previous \in Lists /\ e.ids = Toggled(e.previous, e.space)
      OBVIOUS
    <3>1. /\ {"conv", "space", "ids", "previous", "version"} \subseteq DOMAIN d
          /\ d.n \in Nat /\ d.conv \in Conversations /\ d.space \in Spaces
          /\ d.previous \in Lists /\ d.ids = Toggled(d.previous, d.space)
      BY <1>2 DEF IsBody
    <3>2. /\ e.n = d.n /\ e.conv = d.conv /\ e.space = d.space /\ e.previous = d.previous
          /\ e.ids = d.ids
      BY <3>1, <1>1
    <3> QED BY <3>1, <3>2
  <2>3. e.kind = "model" =>
          /\ {"conv", "settings"} \subseteq DOMAIN e
          /\ e.conv \in Conversations /\ e.settings \in Settings
    BY <1>1, <1>2 DEF IsBody
  <2>4. e.kind = "save" =>
          /\ {"conv", "stage", "global", "settings", "meta", "metaSent", "previousGlobal",
              "previousRow", "was", "sure"} \subseteq DOMAIN e
          /\ e.stage \in {"global", "conversation", "rollback"} /\ Home(e.conv)
          /\ e.stage # "global" => e.conv # None
          /\ e.global \in GlobalSettings /\ e.previousGlobal \in GlobalSettings
          /\ e.settings \in Settings /\ e.meta \in Values
          /\ e.previousRow # None => e.conv # None /\ e.previousRow \in CopiesOf(e.conv)
    BY <1>1, <1>2 DEF IsBody
  <2>5. e.kind = "default" =>
          /\ {"conv", "home", "global", "prompt", "meta"} \subseteq DOMAIN e
          /\ e.global \in GlobalSettings /\ e.prompt \in Values /\ e.meta \in Values
    BY <1>1, <1>2 DEF IsBody
  <2> QED BY <2>1, <2>2, <2>3, <2>4, <2>5 DEF IsBody
<1>4. AboutRow(e) <=> AboutRow(d)
  BY <1>1, <1>2 DEF AboutRow, IsBody
<1>5. (IsAnswer(d) /\ d.phase = "answered" /\ e.reply = d.reply) => IsAnswer(e)
  <2> SUFFICES ASSUME IsAnswer(d), d.phase = "answered", e.reply = d.reply PROVE IsAnswer(e)
    OBVIOUS
  <2>1. AboutRow(d) => e.conv = d.conv
    BY <1>1 DEF AboutRow, IsBody
  <2>2. d.kind = "toggle" => e.ids = d.ids
    BY <1>1 DEF IsBody
  <2>3. "reply" \in DOMAIN e
    BY DEF IsAnswer
  <2> QED BY <2>1, <2>2, <2>3, <1>2, <1>4 DEF IsAnswer
<1> QED BY <1>3, <1>4, <1>5

(* A request beside which one of this kind begins: it is not the only      *)
(* write any more, or has another switch after it.                         *)
Touched(d, kind) ==
  [d EXCEPT !.alone = @ /\ kind = "row", !.followed = @ \/ kind = "toggle"]

(* It is the request it was.                                               *)
LEMMA TouchedIs ==
  ASSUME NEW d, IsExpected(d), NEW kind
  PROVE  LET e == Touched(d, kind)
         IN  /\ IsExpected(e) /\ DOMAIN e = DOMAIN d
             /\ e.alone = (d.alone /\ kind = "row") /\ e.followed = (d.followed \/ kind = "toggle")
             /\ \A x \in DOMAIN d : x \notin {"alone", "followed"} => e[x] = d[x]
<1> DEFINE e == Touched(d, kind)
<1>1. {"n", "phase", "lost", "kind", "alone", "followed", "overlap"} \subseteq DOMAIN d
  BY DEF IsExpected, IsRequest
<1>2. /\ DOMAIN e = DOMAIN d
      /\ e.alone = (d.alone /\ kind = "row") /\ e.followed = (d.followed \/ kind = "toggle")
      /\ \A x \in DOMAIN d : x \notin {"alone", "followed"} => e[x] = d[x]
  BY <1>1 DEF Touched
<1>3. d.alone \in BOOLEAN /\ d.followed \in BOOLEAN
  BY DEF IsExpected, IsRequest
<1>4. /\ e.n = d.n /\ e.phase = d.phase /\ e.lost = d.lost /\ e.kind = d.kind
      /\ e.overlap = d.overlap /\ e.alone \in BOOLEAN /\ e.followed \in BOOLEAN
  BY <1>1, <1>2, <1>3
<1> HIDE DEF e
<1>5. IsRequest(e)
  BY <1>1, <1>2, <1>4 DEF IsExpected, IsRequest
<1>6. IsBody(e) /\ IsAnswer(e)
  <2>1. IsBody(d) /\ IsAnswer(d)
    BY DEF IsExpected
  <2>2. \A x \in DOMAIN d \ (Passing \cup {"reply"}) : e[x] = d[x]
    BY <1>2 DEF Passing
  <2>3. IsBody(e) /\ (d.phase = "answered" /\ e.reply = d.reply => IsAnswer(e))
    BY <2>1, <2>2, <1>1, <1>2, SameBody
  <2>4. d.phase = "answered" => e.reply = d.reply
    BY <2>1, <1>2 DEF IsAnswer
  <2>5. d.phase # "answered" => IsAnswer(e)
    BY <1>4 DEF IsAnswer
  <2> QED BY <2>3, <2>4, <2>5
<1> QED BY <1>2, <1>5, <1>6 DEF e, IsExpected

(* The server answers a request with a body that fits it.                  *)
LEMMA ServedIs ==
  ASSUME NEW c, IsExpected(c), NEW body, c.phase = "sent",
         IF AboutRow(c) THEN body \in CopiesOf(c.conv) ELSE body \in GlobalSettings,
         c.kind = "toggle" => body.spaces = c.ids
  PROVE  LET e == Reply(c, body)
         IN  /\ IsExpected(e) /\ DOMAIN e = DOMAIN c \cup {"reply"}
             /\ e.phase = "answered" /\ e.reply = body
             /\ \A x \in DOMAIN c : x \notin {"phase", "reply"} => e[x] = c[x]
<1> DEFINE e == Reply(c, body)
<1>1. /\ DOMAIN e = DOMAIN c \cup {"reply"} /\ e.phase = "answered" /\ e.reply = body
      /\ \A x \in DOMAIN c : x \notin {"phase", "reply"} => e[x] = c[x]
  <2>1. "phase" \in DOMAIN c
    BY DEF IsExpected, IsRequest
  <2> QED BY <2>1 DEF Reply, Beside
<1> HIDE DEF e
<1>2. /\ {"n", "phase", "lost", "kind", "alone", "followed", "overlap"} \subseteq DOMAIN c
      /\ IsBody(c)
  BY DEF IsExpected, IsRequest
<1>3. IsRequest(e)
  BY <1>1, <1>2 DEF IsExpected, IsRequest
<1>4. IsBody(e) /\ (AboutRow(e) <=> AboutRow(c))
  <2>1. \A x \in DOMAIN c \ (Passing \cup {"reply"}) : e[x] = c[x]
    BY <1>1 DEF Passing
  <2> QED BY <2>1, <1>1, <1>2, SameBody
<1>5. IsAnswer(e)
  <2>1. AboutRow(c) => e.conv = c.conv
    BY <1>1, <1>2 DEF AboutRow, IsBody
  <2>2. e.kind = c.kind /\ (c.kind = "toggle" => e.ids = c.ids)
    BY <1>1, <1>2 DEF IsBody
  <2> QED BY <2>1, <2>2, <1>1, <1>4 DEF IsAnswer
<1> QED BY <1>1, <1>3, <1>4, <1>5 DEF e, IsExpected

(* It fails.                                                               *)
LEMMA FailedIs ==
  ASSUME NEW c, IsExpected(c)
  PROVE  LET e == Broken(c)
         IN  /\ IsExpected(e) /\ DOMAIN e = DOMAIN c
             /\ e.phase = "failed" /\ e.lost = (c.phase # "sent")
             /\ \A x \in DOMAIN c : x \notin {"phase", "lost"} => e[x] = c[x]
<1> DEFINE e == Broken(c)
<1>1. {"n", "phase", "lost", "kind", "alone", "followed", "overlap"} \subseteq DOMAIN c
  BY DEF IsExpected, IsRequest
<1>2. /\ DOMAIN e = DOMAIN c /\ e.phase = "failed" /\ e.lost = (c.phase # "sent")
      /\ \A x \in DOMAIN c : x \notin {"phase", "lost"} => e[x] = c[x]
  BY <1>1 DEF Broken, Beside
<1> HIDE DEF e
<1>3. IsRequest(e) /\ IsAnswer(e)
  BY <1>1, <1>2 DEF IsExpected, IsRequest, IsAnswer
<1>4. IsBody(e)
  <2>1. \A x \in DOMAIN c \ (Passing \cup {"reply"}) : e[x] = c[x]
    BY <1>2 DEF Passing
  <2> QED BY <2>1, <1>1, <1>2, SameBody DEF IsExpected
<1> QED BY <1>2, <1>3, <1>4 DEF e, IsExpected

(* A save goes on to its next request.                                     *)
LEMMA NextStageIs ==
  ASSUME NEW c, IsExpected(c), c.kind = "save", c.conv # None,
         NEW stage \in {"conversation", "rollback"}
  PROVE  LET e == Beside([stage |-> stage, phase |-> "sent"], c)
         IN  /\ IsExpected(e) /\ DOMAIN e = DOMAIN c
             /\ e.phase = "sent" /\ e.stage = stage
             /\ \A x \in DOMAIN c : x \notin {"phase", "stage"} => e[x] = c[x]
<1> DEFINE e == Beside([stage |-> stage, phase |-> "sent"], c)
<1>1. /\ {"n", "phase", "lost", "kind", "alone", "followed", "overlap"} \subseteq DOMAIN c
      /\ {"conv", "stage", "global", "settings", "meta", "metaSent", "previousGlobal",
          "previousRow", "was", "sure"} \subseteq DOMAIN c
  BY DEF IsExpected, IsRequest, IsBody
<1>2. /\ DOMAIN e = DOMAIN c /\ e.phase = "sent" /\ e.stage = stage
      /\ \A x \in DOMAIN c : x \notin {"phase", "stage"} => e[x] = c[x]
  BY <1>1 DEF Beside
<1> HIDE DEF e
<1>3. IsRequest(e) /\ IsAnswer(e)
  BY <1>1, <1>2 DEF IsExpected, IsRequest, IsAnswer
<1>4. IsBody(e)
  <2>1. /\ e.kind = "save" /\ e.conv = c.conv /\ e.global = c.global
        /\ e.previousGlobal = c.previousGlobal /\ e.settings = c.settings /\ e.meta = c.meta
        /\ e.previousRow = c.previousRow
    BY <1>1, <1>2
  <2> QED BY <2>1, <1>1, <1>2 DEF IsExpected, IsBody
<1> QED BY <1>2, <1>3, <1>4 DEF e, IsExpected

(* What a new request is, and what it does to those beside it.             *)
Begun(others, request, new) ==
  /\ calls' = {Touched(d, request.kind) : d \in others} \cup {new}
  /\ DOMAIN new = DOMAIN request \cup Stamps
  /\ new.phase = "sent" /\ new.lost = FALSE /\ new.alone = (Writes = {})
  /\ new.followed = FALSE /\ new.overlap = (Kind("toggle") # {})
  /\ \A x \in DOMAIN request : new[x] = request[x]
  /\ request.kind = "toggle" =>
       new.n \in 1 .. acts + 1 /\ \A t \in Kind("toggle") : t.n < new.n
  /\ unsure' = (unsure \/ \E d \in others :
                  IF request.kind = "toggle" THEN d.kind \notin {"toggle", "global"}
                                             ELSE d.kind = "toggle")

LEMMA BeginWriteIs ==
  ASSUME \A c \in calls : IsExpected(c), Counted, NEW others \in SUBSET calls, NEW request,
         "kind" \in DOMAIN request, DOMAIN request \cap Stamps = {},
         request.kind \in SettingsKinds \ {"global"},
         request.kind = "toggle" => others = calls,
         BeginWrite(others, request)
  PROVE  \E new : Begun(others, request, new)
<1> DEFINE body == Beside(request, [alone |-> Writes = {}, followed |-> FALSE,
                                    overlap |-> Kind("toggle") # {}])
           last == Max({0} \cup {d.n : d \in Kind("toggle")})
           k == IF request.kind = "toggle" THEN 1 + last
                ELSE Unused({c \in others : c.kind = body.kind})
           new == Request(k, body)
<1>1. /\ calls' = {[d EXCEPT !.alone = @ /\ ~(request.kind # "row"),
                             !.followed = @ \/ request.kind = "toggle"] : d \in others}
                  \cup {new}
      /\ unsure' = (unsure \/ {d \in others :
                       IF request.kind = "toggle" THEN d.kind \notin {"toggle", "global"}
                                                  ELSE d.kind = "toggle"} # {})
  BY DEF BeginWrite, AsNext
<1>2. calls' = {Touched(d, request.kind) : d \in others} \cup {new}
  <2>1. \A d \in others : Touched(d, request.kind) =
          [d EXCEPT !.alone = @ /\ ~(request.kind # "row"), !.followed = @ \/ request.kind = "toggle"]
    BY DEF Touched
  <2>2. \A e : e \in calls' <=> (\E d \in others : e = Touched(d, request.kind)) \/ e = new
    <3> HIDE DEF new
    <3> QED BY <1>1, <2>1
  <2> HIDE DEF new
  <2> QED BY <2>2
<1>3. /\ DOMAIN new = DOMAIN request \cup Stamps /\ new.n = k
      /\ new.phase = "sent" /\ new.lost = FALSE /\ new.alone = (Writes = {})
      /\ new.followed = FALSE /\ new.overlap = (Kind("toggle") # {})
      /\ \A x \in DOMAIN request : new[x] = request[x]
  <2> HIDE DEF k
  <2> DEFINE a == Writes = {}
             o == Kind("toggle") # {}
  <2>1. new = Request(k, Beside(request, [alone |-> a, followed |-> FALSE, overlap |-> o]))
    OBVIOUS
  <2> HIDE DEF new, a, o
  <2>2. LET d == Request(k, Beside(request, [alone |-> a, followed |-> FALSE, overlap |-> o]))
        IN  /\ DOMAIN d = DOMAIN request \cup Stamps
            /\ d.n = k /\ d.phase = "sent" /\ d.lost = FALSE
            /\ d.alone = a /\ d.followed = FALSE /\ d.overlap = o
            /\ \A x \in DOMAIN request : d[x] = request[x]
    BY DEF Request, Beside, Stamps
  <2> QED BY <2>1, <2>2 DEF a, o
<1>4. ASSUME request.kind = "toggle"
      PROVE  k \in 1 .. acts + 1 /\ \A t \in Kind("toggle") : t.n < k
  <2> DEFINE ns == {0} \cup {d.n : d \in Kind("toggle")}
  <2>1. acts \in Nat
    BY ActsAssumption DEF Counted
  <2>2. \A t \in Kind("toggle") : t.n \in 0 .. acts
    BY <2>1 DEF Counted, Kind, IsExpected, IsBody
  <2>3. ns \in SUBSET (0 .. acts) /\ ns # {}
    BY <2>1, <2>2
  <2>4. last \in ns /\ \A x \in ns : x <= last
    BY <2>1, <2>3, MaxIs
  <2> HIDE DEF last
  <2>5. k = 1 + last
    BY <1>4
  <2>6. \A t \in Kind("toggle") : t.n \in ns
    OBVIOUS
  <2> HIDE DEF ns, k
  <2>7. last \in 0 .. acts /\ \A t \in Kind("toggle") : t.n <= last
    BY <2>3, <2>4, <2>6
  <2> QED BY <2>1, <2>2, <2>5, <2>7
<1> HIDE DEF new, k
<1>5. request.kind = "toggle" => new.n \in 1 .. acts + 1 /\ \A t \in Kind("toggle") : t.n < new.n
  BY <1>3, <1>4
<1> QED BY <1>1, <1>2, <1>3, <1>5 DEF Begun

-----------------------------------------------------------------------------
(* The types: what the acts of the user and the answers keep.              *)

(* A copy is a row, and none is None.                                      *)
LEMMA CopiesAreRows ==
  ASSUME NEW c \in Conversations, NEW row \in CopiesOf(c)
  PROVE  /\ row.id = c /\ row.settings \in Settings /\ row.meta \in Values
         /\ row.spaces \in Lists /\ row # None
<1>1. /\ row = [id |-> row.id, settings |-> row.settings, meta |-> row.meta, spaces |-> row.spaces]
      /\ row.id = c /\ row.settings \in Settings /\ row.meta \in Values /\ row.spaces \in Lists
  BY DEF CopiesOf
<1>2. row.spaces \in Seq(Spaces)
  BY <1>1 DEF Lists
<1>3. row \in Rows
  BY <1>1, <1>2 DEF Rows
<1> QED BY <1>1, <1>3, SettingsAssumption

(* The row of the open conversation, and the settings shown under the chat. *)
LEMMA CurrentIs ==
  ASSUME RowTypes
  PROVE  /\ Current # None => active \in Conversations \ Hidden /\ Current = listed[active]
         /\ active \in Conversations \ Hidden => Current = listed[active] /\ Current # None
         /\ Current # None => Current \in CopiesOf(active)
<1>1. active \in Conversations \ Hidden => listed[active] # None
  BY CopiesAreRows DEF RowTypes, IsMapOfRows
<1>2. active # None => active \in Conversations
  BY DEF RowTypes, Home
<1>3. active \in Hidden => listed[active] = None
  BY DEF RowTypes
<1>4. active \in Conversations \ Hidden => listed[active] \in CopiesOf(active)
  BY DEF RowTypes, IsMapOfRows
<1> QED BY <1>1, <1>2, <1>3, <1>4, SettingsAssumption DEF Current

LEMMA ContextBarIs ==
  ASSUME RowTypes, DraftTypes
  PROVE  ContextBarSettings \in Settings
<1>1. Displayed # None => \E c \in Conversations : Displayed \in CopiesOf(c)
  BY CurrentIs DEF Displayed, RowTypes
<1>2. Displayed # None => Displayed.settings \in Settings
  BY <1>1, CopiesAreRows
<1> QED BY <1>2 DEF ContextBarSettings, DraftTypes

(* The drafts are taken from a row or from the settings of every chat.     *)
LEMMA ApplyRowTypes ==
  ASSUME NEW c \in Conversations, NEW row \in CopiesOf(c), ApplyRow(row),
         newPrompt' \in Values, newMeta' \in Values
  PROVE  DraftTypes'
  BY CopiesAreRows DEF ApplyRow, DraftTypes, Home

LEMMA ApplyNewChatTypes ==
  ASSUME NEW g \in GlobalSettings, NEW prompt \in Values, NEW meta \in Values,
         ApplyNewChat(g, prompt, meta), newPrompt' \in Values, newMeta' \in Values
  PROVE  DraftTypes'
<1>1. <<>> \in Lists
  BY DEF Lists, IsInjective
<1>2. NewSettings(g, prompt) \in Settings
  BY DEF NewSettings, Settings, GlobalSettings
<1> QED BY <1>1, <1>2 DEF ApplyNewChat, DraftTypes, Home

(* A row put into the list.                                                *)
LEMMA ListedTypes ==
  ASSUME RowTypes, NEW c \in Conversations, NEW row \in CopiesOf(c), listed' = Listed(row),
         active' = active, pending' \in {pending, row}
  PROVE  RowTypes'
<1>1. row.id = c
  BY CopiesAreRows
<1>2. /\ listed = [b \in Conversations |-> listed[b]]
      /\ \A b \in Conversations \ Hidden : listed[b] \in CopiesOf(b)
      /\ \A b \in Hidden : listed[b] = None
  BY DEF RowTypes, IsMapOfRows
<1>3. /\ listed' = [b \in Conversations |-> listed'[b]]
      /\ \A b \in Conversations \ Hidden : listed'[b] \in CopiesOf(b)
      /\ \A b \in Hidden : listed'[b] = None
  <2>1. CASE c \in Hidden
    BY <2>1, <1>1, <1>2 DEF Listed
  <2>2. CASE c \notin Hidden
    <3>1. listed' = [listed EXCEPT ![c] = row]
      BY <2>2, <1>1 DEF Listed
    <3> QED BY <3>1, <2>2, <1>2, SettingsAssumption
  <2> QED BY <2>1, <2>2
<1>4. pending' # None => \E b \in Conversations : pending' \in CopiesOf(b)
  BY DEF RowTypes
<1>5. Home(active)'
  BY DEF RowTypes, Home
<1> QED BY <1>3, <1>4, <1>5 DEF RowTypes, IsMapOfRows

(* Switches, once they are released, and while they are not.               *)
LEMMA RestTypes ==
  ASSUME SettingsTypes
  PROVE  /\ UNCHANGED serverVars => StoredTypes'
         /\ UNCHANGED <<rowVars, active>> => RowTypes'
         /\ UNCHANGED <<globalVars>> => GlobalTypes'
         /\ UNCHANGED <<draftVars, newVars>> => DraftTypes'
         /\ UNCHANGED <<toggleVars>> => SwitchTypes'
         /\ UNCHANGED <<dialog, history>> => DialogTypes'
         /\ UNCHANGED <<isSaving, calls>> => OneSave'
         /\ UNCHANGED <<calls, counts, active>> => Blocked'
         /\ UNCHANGED calls /\ (acts' = acts \/ Act) => Counted'
         /\ UNCHANGED calls => \A c \in calls' : IsExpected(c)
<1> USE DEF SettingsTypes
<1>1. UNCHANGED serverVars => StoredTypes'
  BY DEF StoredTypes, serverVars, IsMapOfRows
<1>2. UNCHANGED <<rowVars, active>> => RowTypes'
  BY DEF RowTypes, rowVars, IsMapOfRows, Home
<1>3. UNCHANGED <<globalVars>> => GlobalTypes'
  BY DEF GlobalTypes, globalVars
<1>4. UNCHANGED <<draftVars, newVars>> => DraftTypes'
  BY DEF DraftTypes, draftVars, newVars, Home
<1>5. UNCHANGED <<toggleVars>> => SwitchTypes'
  BY DEF SwitchTypes, toggleVars
<1>6. UNCHANGED <<dialog, history>> => DialogTypes'
  BY DEF DialogTypes, dialog, history
<1>7. UNCHANGED <<isSaving, calls>> => OneSave'
  BY DEF OneSave, Kind
<1>8. UNCHANGED <<calls, counts, active>> => Blocked'
  BY DEF Blocked, Kind
<1>9. UNCHANGED calls /\ (acts' = acts \/ Act) => Counted'
  <2>1. acts \in 0 .. MaxActs /\ \A t \in Kind("toggle") : t.n <= acts
    BY DEF Counted
  <2>2. \A t \in Kind("toggle") : t.n \in Nat
    BY DEF Kind, IsExpected, IsBody
  <2>3. acts' = acts \/ Act => acts' \in 0 .. MaxActs /\ acts <= acts'
    BY <2>1, ActsAssumption DEF Act
  <2>4. UNCHANGED calls => Kind("toggle")' = Kind("toggle")
    BY DEF Kind
  <2> QED BY <2>1, <2>2, <2>3, <2>4, ActsAssumption DEF Counted
<1>10. UNCHANGED calls => \A c \in calls' : IsExpected(c)
  OBVIOUS
<1> QED BY <1>1, <1>2, <1>3, <1>4, <1>5, <1>6, <1>7, <1>8, <1>9, <1>10

-----------------------------------------------------------------------------
(* A new request keeps the types, if it says what its kind should.         *)
LEMMA BegunTypes ==
  ASSUME SettingsTypes, Act, NEW others \in SUBSET calls, NEW request,
         "kind" \in DOMAIN request, DOMAIN request \cap Stamps = {},
         request.kind \in SettingsKinds \ {"global"},
         request.kind = "toggle" => others = calls, Kind("save") \subseteq others,
         BeginWrite(others, request),
         IF request.kind = "save" THEN ~isSaving /\ isSaving' ELSE isSaving' = isSaving
  PROVE  \E new :
           /\ Begun(others, request, new) /\ IsRequest(new)
           /\ IsBody(new) => \A c \in calls' : IsExpected(c)
           /\ Counted' /\ OneSave'
           /\ (/\ others = calls /\ active' = active
               /\ \A s \in Spaces : counts'[s] > 0 =>
                    \/ counts[s] > 0
                    \/ request.kind = "toggle" /\ new.space = s /\ new.conv = active)
              => Blocked'
<1> USE DEF SettingsTypes
<1> DEFINE T(d) == Touched(d, request.kind)
<1>0. PICK new : Begun(others, request, new)
  BY BeginWriteIs
<1>1. /\ calls' = {T(d) : d \in others} \cup {new}
      /\ DOMAIN new = DOMAIN request \cup Stamps
      /\ new.phase = "sent" /\ new.lost = FALSE /\ new.alone = (Writes = {})
      /\ new.followed = FALSE /\ new.overlap = (Kind("toggle") # {})
      /\ \A x \in DOMAIN request : new[x] = request[x]
      /\ request.kind = "toggle" =>
           new.n \in 1 .. acts + 1 /\ \A t \in Kind("toggle") : t.n < new.n
  BY <1>0 DEF Begun
<1>2. \A d \in others : /\ IsExpected(T(d)) /\ IsRequest(d) /\ IsBody(d)
                        /\ \A x \in DOMAIN d : x \notin {"alone", "followed"} => T(d)[x] = d[x]
  <2> SUFFICES ASSUME NEW d \in others
               PROVE  /\ IsExpected(T(d)) /\ IsRequest(d) /\ IsBody(d)
                      /\ \A x \in DOMAIN d : x \notin {"alone", "followed"} => T(d)[x] = d[x]
    OBVIOUS
  <2>1. IsExpected(d)
    OBVIOUS
  <2> QED BY <2>1, TouchedIs DEF IsExpected
<1> HIDE DEF T
<1>3. new.kind = request.kind
  BY <1>1
<1>4. IsRequest(new) /\ IsAnswer(new)
  BY <1>1, <1>3 DEF IsRequest, IsAnswer, Stamps
<1>5. IsBody(new) => \A c \in calls' : IsExpected(c)
  BY <1>1, <1>2, <1>4 DEF IsExpected
<1>6. \A d \in others : T(d).kind = d.kind /\ T(d).n = d.n
  BY <1>2 DEF IsRequest
<1>7. Counted'
  <2>1. acts \in 0 .. MaxActs /\ acts' = acts + 1 /\ acts' \in 0 .. MaxActs
        /\ \A t \in Kind("toggle") : t.n <= acts
    BY ActsAssumption DEF Counted, Act
  <2>2. \A t \in Kind("toggle")' : t.n \in Nat /\ t.n <= acts'
    <3> SUFFICES ASSUME NEW t \in Kind("toggle")' PROVE t.n \in Nat /\ t.n <= acts'
      OBVIOUS
    <3>1. t \in calls' /\ t.kind = "toggle"
      BY DEF Kind
    <3>2. CASE t = new
      BY <3>1, <3>2, <1>1, <1>3, <2>1
    <3>3. CASE t # new
      <4>1. PICK d \in others : t = T(d)
        BY <3>1, <3>3, <1>1
      <4>2. d \in Kind("toggle") /\ t.n = d.n /\ d.n \in Nat
        BY <4>1, <3>1, <1>2, <1>6 DEF Kind, IsBody
      <4> QED BY <4>2, <2>1
    <3> QED BY <3>2, <3>3
  <2> QED BY <2>1, <2>2 DEF Counted
<1>8. OneSave'
  <2>1. Kind("save")' = IF request.kind = "save" THEN {T(d) : d \in Kind("save")} \cup {new}
                                                 ELSE {T(d) : d \in Kind("save")}
    BY <1>1, <1>3, <1>6 DEF Kind
  <2> QED BY <2>1 DEF OneSave
<1>9. ASSUME others = calls, active' = active,
             \A s \in Spaces : counts'[s] > 0 =>
                    \/ counts[s] > 0
                    \/ request.kind = "toggle" /\ new.space = s /\ new.conv = active
      PROVE  Blocked'
  <2> SUFFICES ASSUME NEW s \in Spaces, counts'[s] > 0
               PROVE  \E c \in Kind("toggle")' : c.space = s /\ c.conv = active'
    BY DEF Blocked
  <2>1. CASE counts[s] > 0
    <3>1. PICK c \in Kind("toggle") : c.space = s /\ c.conv = active
      BY <2>1 DEF Blocked
    <3>2. T(c) \in Kind("toggle")'
      BY <1>1, <1>6, <1>9 DEF Kind
    <3>3. T(c).space = s /\ T(c).conv = active
      BY <3>1, <1>2, <1>9 DEF IsBody, Kind
    <3> QED BY <3>2, <3>3, <1>9
  <2>2. CASE request.kind = "toggle" /\ new.space = s /\ new.conv = active
    BY <2>2, <1>1, <1>3, <1>9 DEF Kind
  <2> QED BY <2>1, <2>2, <1>9
<1> QED BY <1>0, <1>4, <1>5, <1>7, <1>8, <1>9

(* A request that goes on keeps them,                                      *)
LEMMA BecomeTypes ==
  ASSUME SettingsTypes, NEW c \in calls, NEW new, Become(c, new), IsExpected(new),
         new.kind = c.kind, new.n = c.n,
         c.kind = "toggle" => new.space = c.space /\ new.conv = c.conv,
         UNCHANGED <<acts, isSaving, active>>, \A s \in Spaces : counts'[s] \in {0, counts[s]}
  PROVE  Counted' /\ OneSave' /\ Blocked' /\ \A d \in calls' : IsExpected(d)
<1> USE DEF SettingsTypes
<1>1. calls' = (calls \ {c}) \cup {new}
  BY DEF Become
<1>2. Counted'
  BY <1>1 DEF Counted, Kind
<1>3. OneSave'
  BY <1>1 DEF OneSave, Kind
<1>4. Blocked'
  <2> SUFFICES ASSUME NEW s \in Spaces, counts'[s] > 0
               PROVE  \E d \in Kind("toggle")' : d.space = s /\ d.conv = active
    BY DEF Blocked
  <2>1. PICK d \in Kind("toggle") : d.space = s /\ d.conv = active
    <3>1. counts'[s] = counts[s]
      OBVIOUS
    <3> QED BY <3>1 DEF Blocked
  <2>2. IF d = c THEN new \in Kind("toggle")' ELSE d \in Kind("toggle")'
    BY <1>1 DEF Kind
  <2> QED BY <2>1, <2>2 DEF Kind
<1> QED BY <1>1, <1>2, <1>3, <1>4

(* and so does one that ends.                                              *)
LEMMA DoneTypes ==
  ASSUME SettingsTypes, NEW c \in calls, Done(c), UNCHANGED <<acts, active>>,
         isSaving' = (isSaving /\ c.kind # "save"),
         \/ counts' = IF c.kind = "toggle" THEN Released(c) ELSE counts
         \/ c.kind # "toggle" /\ \A s \in Spaces : counts'[s] \in {0, counts[s]}
  PROVE  Counted' /\ OneSave' /\ Blocked' /\ \A d \in calls' : IsExpected(d)
<1> USE DEF SettingsTypes
<1>1. calls' = calls \ {c}
  BY DEF Done
<1>2. Counted'
  BY <1>1 DEF Counted, Kind
<1>3. OneSave'
  <2>1. Kind("save")' = Kind("save") \ {c}
    BY <1>1 DEF Kind
  <2>2. c.kind = "save" => Kind("save") = {c}
    BY DEF OneSave, Kind
  <2>3. c.kind # "save" => Kind("save")' = Kind("save") /\ isSaving' = isSaving
    BY <2>1 DEF Kind, DialogTypes
  <2>4. c.kind = "save" => Kind("save")' = {} /\ isSaving' = FALSE
    BY <2>1, <2>2
  <2> QED BY <2>3, <2>4 DEF OneSave
<1>4. counts \in [Spaces -> 0 .. 1]
  BY DEF SwitchTypes
<1>5. \A s \in Spaces : counts'[s] > 0 =>
        counts[s] > 0 /\ ~(c.kind = "toggle" /\ s = c.space /\ c.conv = active)
  <2>1. CASE counts' = IF c.kind = "toggle" THEN Released(c) ELSE counts
    BY <1>4, <2>1 DEF Released
  <2>2. CASE c.kind # "toggle" /\ \A s \in Spaces : counts'[s] \in {0, counts[s]}
    BY <2>2
  <2> QED BY <2>1, <2>2
<1>6. Blocked'
  <2> SUFFICES ASSUME NEW s \in Spaces, counts'[s] > 0
               PROVE  \E d \in Kind("toggle")' : d.space = s /\ d.conv = active
    BY DEF Blocked
  <2>1. PICK d \in Kind("toggle") : d.space = s /\ d.conv = active
    BY <1>5 DEF Blocked
  <2>2. d # c
    BY <2>1, <1>5 DEF Kind
  <2>3. d \in Kind("toggle")'
    BY <1>1, <2>2 DEF Kind
  <2> QED BY <2>1, <2>3
<1> QED BY <1>1, <1>2, <1>3, <1>6

-----------------------------------------------------------------------------
(* Each act keeps the types.                                               *)
LEMMA SyncTypes ==
  ASSUME SettingsTypes, SyncSettingsDraft, UNCHANGED <<global, newVars>>
  PROVE  GlobalTypes' /\ DraftTypes' /\ unsure' \in BOOLEAN
<1> USE DEF SettingsTypes
<1>1. GlobalTypes'
  BY DEF SyncSettingsDraft, GlobalTypes
<1>2. newPrompt' \in Values /\ newMeta' \in Values
  BY DEF DraftTypes, newVars
<1>3. DraftTypes'
  <2>1. CASE Current # None
    <3>1. active \in Conversations /\ Current \in CopiesOf(active)
      BY <2>1, CurrentIs
    <3>2. ApplyRow(Current)
      BY <2>1 DEF SyncSettingsDraft
    <3> QED BY <3>1, <3>2, <1>2, ApplyRowTypes
  <2>2. CASE Current = None
    <3>1. ApplyNewChat(global, newPrompt, newMeta)
      BY <2>2 DEF SyncSettingsDraft
    <3>2. global \in GlobalSettings /\ newPrompt \in Values /\ newMeta \in Values
      BY DEF GlobalTypes, DraftTypes
    <3> QED BY <3>1, <3>2, <1>2, ApplyNewChatTypes
  <2> QED BY <2>1, <2>2
<1>4. unsure' \in BOOLEAN
  BY DEF SyncSettingsDraft, DialogTypes
<1> QED BY <1>1, <1>3, <1>4

LEMMA OpenSettingsTypes == ASSUME SettingsTypes, OpenSettings PROVE SettingsTypes'
<1>1. SyncSettingsDraft /\ UNCHANGED <<global, newVars>>
  BY DEF OpenSettings
<1>2. GlobalTypes' /\ DraftTypes' /\ unsure' \in BOOLEAN
  BY <1>1, SyncTypes
<1>3. DialogTypes'
  BY <1>2 DEF OpenSettings, SettingsTypes, DialogTypes
<1> QED BY <1>2, <1>3, RestTypes DEF OpenSettings, SettingsTypes, toggleVars

LEMMA ResetSettingsTypes == ASSUME SettingsTypes, ResetSettings PROVE SettingsTypes'
<1>1. SyncSettingsDraft /\ UNCHANGED <<global, newVars>>
  BY DEF ResetSettings
<1>2. GlobalTypes' /\ DraftTypes' /\ unsure' \in BOOLEAN
  BY <1>1, SyncTypes
<1>3. DialogTypes' /\ isSaving' = isSaving
  BY <1>2 DEF ResetSettings, SettingsTypes, DialogTypes, dialog
<1> QED BY <1>2, <1>3, RestTypes DEF ResetSettings, SettingsTypes, toggleVars

LEMMA CloseSettingsTypes == ASSUME SettingsTypes, CloseSettings PROVE SettingsTypes'
<1>1. DialogTypes'
  BY DEF CloseSettings, SettingsTypes, DialogTypes, history
<1> QED BY <1>1, RestTypes DEF CloseSettings, SettingsTypes, toggleVars

LEMMA EditTypes == ASSUME SettingsTypes, Edit PROVE SettingsTypes'
<1> USE DEF SettingsTypes
<1>1. GlobalTypes'
  BY DEF Edit, GlobalTypes, globalVars, GlobalSettings
<1>2. draft' \in Settings /\ metaDraft' \in Values
  BY DEF Edit, DraftTypes, Settings
<1>3. DraftTypes'
  BY <1>2 DEF Edit, DraftTypes, newVars, Home
<1>4. isSaving' = isSaving
  BY DEF Edit, dialog
<1> QED BY <1>1, <1>3, <1>4, RestTypes DEF Edit, toggleVars

LEMMA ToggleTypes == ASSUME SettingsTypes, ToggleKnowledgeSpace PROVE SettingsTypes'
<1> USE DEF SettingsTypes
<1>1. PICK s \in Spaces :
        /\ isOpen /\ counts[s] = 0 /\ Act
        /\ LET ids == Toggled(spacesDraft, s)
           IN  /\ spacesDraft' = ids
               /\ IF Current = None THEN UNCHANGED <<toggleVars, calls, unsure>>
                  ELSE /\ versions' = [versions EXCEPT ![s] = @ + 1]
                       /\ counts' = [counts EXCEPT ![s] = @ + 1]
                       /\ BeginWrite(calls, [kind |-> "toggle", conv |-> active, space |-> s,
                                    ids |-> ids, previous |-> spacesDraft,
                                    version |-> versions[s] + 1])
               /\ spacesOf' = IF Current = None \/ active # spacesOf THEN None ELSE spacesOf
        /\ UNCHANGED <<serverVars, active, rowVars, globalVars, draft, metaDraft, newVars,
                   dialog, known, behind>>
  BY DEF ToggleKnowledgeSpace
<1>2. spacesDraft \in Lists /\ Toggled(spacesDraft, s) \in Lists
  BY ToggledIsList DEF DraftTypes
<1>3. DraftTypes'
  BY <1>1, <1>2 DEF DraftTypes, newVars, Home
<1>4. isSaving' = isSaving
  BY <1>1 DEF dialog
<1>5. CASE Current = None
  <2>1. DialogTypes'
    BY <1>1, <1>5 DEF DialogTypes, dialog
  <2>2. UNCHANGED <<toggleVars, calls, counts, active>>
    BY <1>1, <1>5 DEF toggleVars
  <2> QED BY <1>1, <1>3, <1>4, <2>1, <2>2, RestTypes
<1>6. CASE Current # None
  <2> DEFINE request == [kind |-> "toggle", conv |-> active, space |-> s,
                         ids |-> Toggled(spacesDraft, s), previous |-> spacesDraft,
                         version |-> versions[s] + 1]
  <2>1. active \in Conversations
    BY <1>6, CurrentIs
  <2>2. BeginWrite(calls, request) /\ request.kind = "toggle"
    BY <1>1, <1>6
  <2>3. DOMAIN request \cap Stamps = {} /\ "kind" \in DOMAIN request
    BY DEF Stamps
  <2>4. request.conv = active /\ request.space = s /\ request.ids = Toggled(spacesDraft, s)
        /\ request.previous = spacesDraft
        /\ {"conv", "space", "ids", "previous", "version"} \subseteq DOMAIN request
    OBVIOUS
  <2> HIDE DEF request
  <2>5. PICK new :
           /\ Begun(calls, request, new) /\ IsRequest(new)
           /\ IsBody(new) => \A c \in calls' : IsExpected(c)
           /\ Counted' /\ OneSave'
           /\ (/\ calls = calls /\ active' = active
               /\ \A t \in Spaces : counts'[t] > 0 =>
                    \/ counts[t] > 0
                    \/ request.kind = "toggle" /\ new.space = t /\ new.conv = active)
              => Blocked'
    BY <2>2, <2>3, <1>1, <1>4, BegunTypes DEF SettingsKinds, Kind
  <2>6. new.kind = "toggle" /\ new.conv = active /\ new.space = s
        /\ new.ids = Toggled(spacesDraft, s) /\ new.previous = spacesDraft
        /\ {"conv", "space", "ids", "previous", "version"} \subseteq DOMAIN new
        /\ new.n \in Nat
    BY <2>2, <2>3, <2>4, <2>5, ActsAssumption DEF Begun, Counted
  <2>7. IsBody(new)
    BY <2>1, <2>6, <1>2 DEF IsBody
  <2>8. SwitchTypes'
    <3>1. versions \in [Spaces -> Nat] /\ counts \in [Spaces -> 0 .. 1]
      BY DEF SwitchTypes
    <3> QED BY <3>1, <1>1, <1>6 DEF SwitchTypes
  <2>9. \A t \in Spaces : counts'[t] > 0 => counts[t] > 0 \/ t = s
    BY <1>1, <1>6 DEF SwitchTypes
  <2>10. Blocked'
    BY <2>2, <2>5, <2>6, <2>9, <1>1
  <2>11. DialogTypes'
    <3>1. unsure' \in BOOLEAN
      BY <2>5 DEF Begun, DialogTypes
    <3> QED BY <3>1, <1>1 DEF DialogTypes, dialog
  <2> QED BY <1>1, <1>3, <2>5, <2>7, <2>8, <2>10, <2>11, RestTypes
<1> QED BY <1>5, <1>6

LEMMA SaveTypes == ASSUME SettingsTypes, SaveSettings PROVE SettingsTypes'
<1> USE DEF SettingsTypes
<1> DEFINE request == [kind |-> "save", stage |-> "global", conv |-> active,
                   global |-> globalDraft, settings |-> draft, meta |-> metaDraft,
                   metaSent |-> Current # None /\ metaDraft # Current.meta,
                   previousGlobal |-> global, previousRow |-> Current,
                   was |-> <<storedGlobal, IF active = None THEN None ELSE stored[active]>>,
                   sure |-> /\ known /\ Kind("global") = {}
                            /\ Current # None => Current.meta = stored[active].meta]
<1>1. /\ isOpen /\ ~isSaving /\ Act /\ isSaving' = TRUE /\ BeginWrite(calls, request)
      /\ UNCHANGED <<serverVars, active, rowVars, globalVars, draftVars, newVars, toggleVars,
                     isOpen, known, behind>>
  BY DEF SaveSettings
<1>2. DOMAIN request \cap Stamps = {} /\ "kind" \in DOMAIN request /\ request.kind = "save"
  BY DEF Stamps
<1>3. /\ request.conv = active /\ request.stage = "global" /\ request.global = globalDraft
      /\ request.settings = draft /\ request.meta = metaDraft
      /\ request.previousGlobal = global /\ request.previousRow = Current
      /\ {"conv", "stage", "global", "settings", "meta", "metaSent", "previousGlobal",
          "previousRow", "was", "sure"} \subseteq DOMAIN request
  OBVIOUS
<1> HIDE DEF request
<1>4. PICK new :
         /\ Begun(calls, request, new) /\ IsRequest(new)
         /\ IsBody(new) => \A c \in calls' : IsExpected(c)
         /\ Counted' /\ OneSave'
         /\ (/\ calls = calls /\ active' = active
             /\ \A t \in Spaces : counts'[t] > 0 =>
                  \/ counts[t] > 0
                  \/ request.kind = "toggle" /\ new.space = t /\ new.conv = active)
            => Blocked'
  BY <1>1, <1>2, BegunTypes DEF SettingsKinds, Kind
<1>5. /\ new.kind = "save" /\ new.conv = active /\ new.stage = "global"
      /\ new.global = globalDraft /\ new.settings = draft /\ new.meta = metaDraft
      /\ new.previousGlobal = global /\ new.previousRow = Current
      /\ {"conv", "stage", "global", "settings", "meta", "metaSent", "previousGlobal",
          "previousRow", "was", "sure"} \subseteq DOMAIN new
  BY <1>2, <1>3, <1>4 DEF Begun
<1>6. IsBody(new)
  <2>1. Current # None => active # None /\ Current \in CopiesOf(active)
    BY CurrentIs, SettingsAssumption
  <2> QED BY <1>5, <2>1 DEF IsBody, GlobalTypes, DraftTypes, RowTypes, Home
<1>7. Blocked'
  BY <1>1, <1>4 DEF toggleVars
<1>8. DialogTypes'
  <2>1. unsure' \in BOOLEAN
    BY <1>4 DEF Begun, DialogTypes
  <2> QED BY <2>1, <1>1 DEF DialogTypes
<1> QED BY <1>1, <1>4, <1>6, <1>7, <1>8, RestTypes

LEMMA ChangeModelTypes == ASSUME SettingsTypes, ChangeModel PROVE SettingsTypes'
<1> USE DEF SettingsTypes
<1>1. PICK m \in Values :
        /\ Act
        /\ IF active = None
           THEN draft' = [draft EXCEPT !.model = m] /\ UNCHANGED <<calls, unsure>>
           ELSE /\ BeginWrite(calls, [kind |-> "model", conv |-> active,
                                      settings |-> [ContextBarSettings EXCEPT !.model = m]])
                /\ UNCHANGED draft
        /\ UNCHANGED <<serverVars, active, rowVars, globalVars, metaDraft, spacesDraft, spacesOf,
                       newVars, toggleVars, dialog, known, behind>>
  BY DEF ChangeModel
<1>2. \A s \in Settings : [s EXCEPT !.model = m] \in Settings
  BY DEF Settings
<1>3. DraftTypes'
  <2>1. draft' \in Settings
    BY <1>1, <1>2 DEF DraftTypes
  <2> QED BY <2>1, <1>1 DEF DraftTypes, newVars, Home
<1>4. isSaving' = isSaving /\ counts' = counts
  BY <1>1 DEF dialog, toggleVars
<1>5. CASE active = None
  <2>1. DialogTypes'
    BY <1>1, <1>5 DEF DialogTypes, dialog
  <2> QED BY <1>1, <1>3, <1>4, <1>5, <2>1, RestTypes
<1>6. CASE active # None
  <2> DEFINE request == [kind |-> "model", conv |-> active,
                         settings |-> [ContextBarSettings EXCEPT !.model = m]]
  <2>1. BeginWrite(calls, request) /\ request.kind = "model"
    BY <1>1, <1>6
  <2>2. DOMAIN request \cap Stamps = {} /\ "kind" \in DOMAIN request
    BY DEF Stamps
  <2>3. request.conv = active /\ request.settings \in Settings
        /\ {"conv", "settings"} \subseteq DOMAIN request
    BY <1>2, ContextBarIs
  <2> HIDE DEF request
  <2>4. PICK new :
           /\ Begun(calls, request, new) /\ IsRequest(new)
           /\ IsBody(new) => \A c \in calls' : IsExpected(c)
           /\ Counted' /\ OneSave'
           /\ (/\ calls = calls /\ active' = active
               /\ \A t \in Spaces : counts'[t] > 0 =>
                    \/ counts[t] > 0
                    \/ request.kind = "toggle" /\ new.space = t /\ new.conv = active)
              => Blocked'
    BY <2>1, <2>2, <1>1, <1>4, BegunTypes DEF SettingsKinds, Kind
  <2>5. new.kind = "model" /\ new.conv = active /\ new.settings \in Settings
        /\ {"conv", "settings"} \subseteq DOMAIN new
    BY <2>1, <2>2, <2>3, <2>4 DEF Begun
  <2>6. IsBody(new)
    BY <2>5, <1>6 DEF IsBody, RowTypes, Home
  <2>7. Blocked'
    BY <1>1, <1>4, <2>4
  <2>8. DialogTypes'
    <3>1. unsure' \in BOOLEAN
      BY <2>4 DEF Begun, DialogTypes
    <3> QED BY <3>1, <1>1 DEF DialogTypes, dialog
  <2> QED BY <1>1, <1>3, <2>4, <2>6, <2>7, <2>8, RestTypes
<1> QED BY <1>5, <1>6

LEMMA SetDefaultModelTypes == ASSUME SettingsTypes, SetDefaultModel PROVE SettingsTypes'
<1> USE DEF SettingsTypes
<1> DEFINE request == [kind |-> "default", conv |-> active, home |-> active = None,
                   global |-> [globalDraft EXCEPT !.model = ContextBarSettings.model],
                   prompt |-> newPrompt, meta |-> newMeta]
<1>1. /\ Act /\ BeginWrite(calls, request)
      /\ UNCHANGED <<serverVars, active, rowVars, globalVars, draftVars, newVars, toggleVars,
                     dialog, known, behind>>
  BY DEF SetDefaultModel
<1>2. DOMAIN request \cap Stamps = {} /\ "kind" \in DOMAIN request /\ request.kind = "default"
  BY DEF Stamps
<1>3. /\ request.global \in GlobalSettings /\ request.prompt \in Values /\ request.meta \in Values
      /\ {"conv", "home", "global", "prompt", "meta"} \subseteq DOMAIN request
  <2>1. ContextBarSettings.model \in Values
    BY ContextBarIs DEF Settings
  <2>2. [globalDraft EXCEPT !.model = ContextBarSettings.model] \in GlobalSettings
    BY <2>1 DEF GlobalTypes, GlobalSettings
  <2> QED BY <2>2 DEF DraftTypes
<1> HIDE DEF request
<1>4. isSaving' = isSaving
  BY <1>1 DEF dialog
<1>5. PICK new :
         /\ Begun(calls, request, new) /\ IsRequest(new)
         /\ IsBody(new) => \A c \in calls' : IsExpected(c)
         /\ Counted' /\ OneSave'
         /\ (/\ calls = calls /\ active' = active
             /\ \A t \in Spaces : counts'[t] > 0 =>
                  \/ counts[t] > 0
                  \/ request.kind = "toggle" /\ new.space = t /\ new.conv = active)
            => Blocked'
  BY <1>1, <1>2, <1>4, BegunTypes DEF SettingsKinds, Kind
<1>6. IsBody(new)
  BY <1>2, <1>3, <1>5 DEF Begun, IsBody
<1>7. Blocked'
  BY <1>1, <1>5 DEF toggleVars
<1>8. DialogTypes'
  <2>1. unsure' \in BOOLEAN
    BY <1>5 DEF Begun, DialogTypes
  <2> QED BY <2>1, <1>1 DEF DialogTypes, dialog
<1> QED BY <1>1, <1>5, <1>6, <1>7, <1>8, RestTypes

LEMMA NavigateTypes == ASSUME SettingsTypes, Navigate PROVE SettingsTypes'
<1> USE DEF SettingsTypes
<1>1. PICK c \in Conversations \cup {None} :
        /\ c # active /\ Act
        /\ active' = c
        /\ versions' = [s \in Spaces |-> 0] /\ counts' = [s \in Spaces |-> 0]
        /\ IF c = None
           THEN /\ calls' = calls \ Kind("row")
                /\ pending' = None
                /\ ApplyNewChat(global, newPrompt, newMeta)
                /\ unsure' = (unsure \/ Kind("toggle") # {})
           ELSE /\ BeginWrite(calls \ Kind("row"), [kind |-> "row", conv |-> c])
                /\ UNCHANGED <<pending, draftVars>>
        /\ UNCHANGED <<serverVars, listed, globalVars, newVars, dialog, known, behind>>
  BY DEF Navigate
<1>2. SwitchTypes' /\ Blocked'
  BY <1>1 DEF SwitchTypes, Blocked
<1>3. isSaving' = isSaving
  BY <1>1 DEF dialog
<1>4. RowTypes'
  <2>1. pending' \in {pending, None}
    BY <1>1
  <2> QED BY <2>1, <1>1 DEF RowTypes, IsMapOfRows, Home
<1>5. CASE c = None
  <2>1. newPrompt' \in Values /\ newMeta' \in Values
    BY <1>1 DEF DraftTypes, newVars
  <2>2. DraftTypes'
    BY <2>1, <1>1, <1>5, ApplyNewChatTypes DEF DraftTypes, GlobalTypes
  <2>3. DialogTypes'
    BY <1>1, <1>5 DEF DialogTypes, dialog
  <2>4. /\ calls' \subseteq calls /\ Kind("save")' = Kind("save")
        /\ Kind("toggle")' = Kind("toggle")
    BY <1>1, <1>5 DEF Kind
  <2>5. OneSave'
    BY <2>4, <1>3 DEF OneSave
  <2>6. Counted'
    <3>1. acts \in 0 .. MaxActs /\ \A t \in Kind("toggle") : t.n <= acts
      BY DEF Counted
    <3>2. \A t \in Kind("toggle") : t.n \in Nat
      BY DEF Kind, IsExpected, IsBody
    <3>3. acts' \in 0 .. MaxActs /\ acts <= acts'
      BY <3>1, <1>1, ActsAssumption DEF Act
    <3> QED BY <2>4, <3>1, <3>2, <3>3, ActsAssumption DEF Counted
  <2> QED BY <1>1, <1>2, <1>4, <2>2, <2>3, <2>4, <2>5, <2>6, RestTypes
<1>6. CASE c # None
  <2> DEFINE request == [kind |-> "row", conv |-> c]
             others == calls \ Kind("row")
  <2>1. BeginWrite(others, request) /\ request.kind = "row"
    BY <1>1, <1>6
  <2>2. DOMAIN request \cap Stamps = {} /\ "kind" \in DOMAIN request
    BY DEF Stamps
  <2>3. request.conv = c /\ "conv" \in DOMAIN request
    OBVIOUS
  <2>4. others \in SUBSET calls /\ Kind("save") \subseteq others
    BY DEF Kind
  <2> HIDE DEF request, others
  <2>5. PICK new :
           /\ Begun(others, request, new) /\ IsRequest(new)
           /\ IsBody(new) => \A d \in calls' : IsExpected(d)
           /\ Counted' /\ OneSave'
    BY <2>1, <2>2, <2>4, <1>1, <1>3, BegunTypes DEF SettingsKinds
  <2>6. IsBody(new)
    BY <2>1, <2>2, <2>3, <2>5, <1>6 DEF IsBody, Begun
  <2>7. DialogTypes'
    <3>1. unsure' \in BOOLEAN
      BY <2>5 DEF Begun, DialogTypes
    <3> QED BY <3>1, <1>1 DEF DialogTypes, dialog
  <2>8. UNCHANGED <<draftVars, newVars>>
    BY <1>1, <1>6
  <2> QED BY <1>1, <1>2, <1>4, <2>5, <2>6, <2>7, <2>8, RestTypes
<1> QED BY <1>5, <1>6

-----------------------------------------------------------------------------
(* What the server does keeps them.                                        *)

(* What is stored once a request of a row was taken.                       *)
LEMMA PatchedIs ==
  ASSUME StoredTypes, NEW c, IsBody(c), SetsRow(c), c.kind \in SettingsKinds
  PROVE  /\ c.conv \in Conversations /\ IsMapOfRows(Patched(c), Conversations)
         /\ \A b \in Conversations : b # c.conv => Patched(c)[b] = stored[b]
         /\ Patched(c)[c.conv].meta =
              IF c.kind = "save" /\ c.metaSent THEN c.meta ELSE stored[c.conv].meta
         /\ Patched(c)[c.conv].settings =
              IF c.kind = "toggle" THEN stored[c.conv].settings ELSE c.settings
         /\ Patched(c)[c.conv].spaces =
              IF c.kind = "toggle" THEN c.ids ELSE stored[c.conv].spaces
<1>1. /\ stored = [b \in Conversations |-> stored[b]]
      /\ \A b \in Conversations : stored[b] \in CopiesOf(b)
  BY DEF StoredTypes, IsMapOfRows
<1>2. /\ c.kind \in {"toggle", "model", "save"} /\ c.conv \in Conversations
      /\ c.kind = "toggle" => c.ids \in Lists
      /\ c.kind \in {"model", "save"} => c.settings \in Settings
      /\ c.kind = "save" => c.meta \in Values
  BY ToggledIsList, SettingsAssumption DEF IsBody, SetsRow, Home
<1> DEFINE old == stored[c.conv]
           row == CASE c.kind = "toggle" -> [old EXCEPT !.spaces = c.ids]
                    [] c.kind = "model" -> [old EXCEPT !.settings = c.settings]
                    [] OTHER -> [old EXCEPT !.settings = c.settings,
                                            !.meta = IF c.metaSent THEN c.meta ELSE @]
<1>3. Patched(c) = [stored EXCEPT ![c.conv] = row]
  BY DEF Patched
<1>4. old \in [id : {c.conv}, settings : Settings, meta : Values, spaces : Lists]
  BY <1>1, <1>2 DEF CopiesOf
<1>5. /\ row \in CopiesOf(c.conv)
      /\ row.meta = IF c.kind = "save" /\ c.metaSent THEN c.meta ELSE old.meta
      /\ row.settings = IF c.kind = "toggle" THEN old.settings ELSE c.settings
      /\ row.spaces = IF c.kind = "toggle" THEN c.ids ELSE old.spaces
  <2> HIDE DEF old
  <2>1. CASE c.kind = "toggle"
    BY <2>1, <1>2, <1>4 DEF CopiesOf
  <2>2. CASE c.kind = "model"
    BY <2>2, <1>2, <1>4 DEF CopiesOf
  <2>3. CASE c.kind = "save"
    BY <2>3, <1>2, <1>4 DEF CopiesOf
  <2> QED BY <2>1, <2>2, <2>3, <1>2
<1> HIDE DEF row
<1>6. /\ Patched(c)[c.conv] = row
      /\ \A b \in Conversations : b # c.conv => Patched(c)[b] = stored[b]
      /\ Patched(c) = [b \in Conversations |-> Patched(c)[b]]
  BY <1>1, <1>2, <1>3
<1> QED BY <1>1, <1>2, <1>5, <1>6 DEF IsMapOfRows

(* What the server does with a request, by what that is about.             *)
LEMMA ServeIs ==
  ASSUME ServeSettings, SettingsTypes
  PROVE  \E c \in calls :
           /\ c.phase = "sent" /\ IsExpected(c)
           /\ \/ /\ SetsGlobal(c) /\ ~AboutRow(c)
                 /\ storedGlobal' = (IF c.kind = "save" /\ c.stage = "rollback"
                                     THEN RollbackValue(c) ELSE c.global)
                 /\ storedGlobal' \in GlobalSettings
                 /\ Become(c, Reply(c, storedGlobal'))
                 /\ UNCHANGED <<stored, unsure>>
              \/ /\ SetsRow(c) /\ AboutRow(c) /\ ~SetsGlobal(c) /\ c.conv \in Conversations
                 /\ stored' = Patched(c) /\ stored'[c.conv] \in CopiesOf(c.conv)
                 /\ Become(c, Reply(c, stored'[c.conv]))
                 /\ unsure' = (unsure \/ (c.kind = "toggle" /\ \E d \in Kind("toggle") :
                                            d.phase = "sent" /\ d.n < c.n))
                 /\ UNCHANGED storedGlobal
              \/ /\ c.kind = "global" /\ ~AboutRow(c)
                 /\ Become(c, Reply(c, storedGlobal))
                 /\ UNCHANGED <<serverVars, unsure>>
              \/ /\ c.kind = "row" /\ AboutRow(c) /\ c.conv \in Conversations
                 /\ Become(c, Reply(c, stored[c.conv]))
                 /\ UNCHANGED <<serverVars, unsure>>
           /\ UNCHANGED <<active, rowVars, globalVars, draftVars, newVars, toggleVars,
                          dialog, acts, known, behind>>
<1>1. PICK c \in calls :
    /\ c.phase = "sent"
    /\ CASE SetsGlobal(c) ->
              /\ storedGlobal' = IF c.kind = "save" /\ c.stage = "rollback"
                                 THEN RollbackValue(c) ELSE c.global
              /\ Become(c, Reply(c, storedGlobal'))
              /\ UNCHANGED <<stored, unsure>>
         [] SetsRow(c) ->
              /\ stored' = Patched(c)
              /\ Become(c, Reply(c, stored'[c.conv]))
              /\ unsure' = (unsure \/ (c.kind = "toggle" /\ \E d \in Kind("toggle") :
                                         d.phase = "sent" /\ d.n < c.n))
              /\ UNCHANGED storedGlobal
         [] c.kind = "global" ->
              /\ Become(c, Reply(c, storedGlobal))
              /\ UNCHANGED <<serverVars, unsure>>
         [] c.kind = "row" ->
              /\ Become(c, Reply(c, stored[c.conv]))
              /\ UNCHANGED <<serverVars, unsure>>
    /\ UNCHANGED <<active, rowVars, globalVars, draftVars, newVars, toggleVars,
                   dialog, acts, known, behind>>
  BY DEF ServeSettings
<1>2. IsExpected(c) /\ c.kind \in SettingsKinds /\ IsBody(c)
  BY DEF SettingsTypes, IsExpected, IsRequest
<1>3. /\ SetsGlobal(c) => ~SetsRow(c) /\ ~AboutRow(c) /\ c.kind \notin {"global", "row"}
      /\ SetsRow(c) => AboutRow(c) /\ c.kind \notin {"global", "row"}
      /\ SetsGlobal(c) \/ SetsRow(c) \/ c.kind \in {"global", "row"}
      /\ c.kind = "row" => AboutRow(c)
      /\ c.kind = "global" => ~AboutRow(c)
  BY <1>2 DEF SetsGlobal, SetsRow, AboutRow, IsBody, SettingsKinds
<1>4. CASE SetsGlobal(c)
  <2>1. /\ storedGlobal' = IF c.kind = "save" /\ c.stage = "rollback"
                                 THEN RollbackValue(c) ELSE c.global
        /\ Become(c, Reply(c, storedGlobal'))
        /\ UNCHANGED <<stored, unsure>>
    BY <1>1, <1>3, <1>4
  <2>2. storedGlobal' \in GlobalSettings
    BY <2>1, <1>2, <1>4 DEF SetsGlobal, IsBody, RollbackValue
  <2> QED BY <1>1, <1>2, <1>3, <1>4, <2>1, <2>2
<1>5. CASE SetsRow(c)
  <2>1. /\ stored' = Patched(c)
        /\ Become(c, Reply(c, stored'[c.conv]))
        /\ unsure' = (unsure \/ (c.kind = "toggle" /\ \E d \in Kind("toggle") :
                                         d.phase = "sent" /\ d.n < c.n))
        /\ UNCHANGED storedGlobal
    BY <1>1, <1>3, <1>5
  <2>2. c.conv \in Conversations /\ stored'[c.conv] \in CopiesOf(c.conv)
    BY <2>1, <1>2, <1>5, PatchedIs DEF SettingsTypes, IsMapOfRows
  <2> QED BY <1>1, <1>2, <1>3, <1>5, <2>1, <2>2
<1>6. CASE c.kind = "global"
  <2>1. /\ Become(c, Reply(c, storedGlobal))
        /\ UNCHANGED <<serverVars, unsure>>
    BY <1>1, <1>3, <1>6
  <2> QED BY <1>1, <1>2, <1>3, <1>6, <2>1
<1>7. CASE c.kind = "row"
  <2>1. /\ Become(c, Reply(c, stored[c.conv]))
        /\ UNCHANGED <<serverVars, unsure>>
    BY <1>1, <1>3, <1>7
  <2>2. c.conv \in Conversations
    BY <1>2, <1>7 DEF IsBody
  <2> QED BY <1>1, <1>2, <1>3, <1>7, <2>1, <2>2
<1> QED BY <1>3, <1>4, <1>5, <1>6, <1>7

LEMMA ServeTypes == ASSUME SettingsTypes, ServeSettings PROVE SettingsTypes'
<1> USE DEF SettingsTypes
<1>1. PICK c \in calls :
           /\ c.phase = "sent" /\ IsExpected(c)
           /\ \/ /\ SetsGlobal(c) /\ ~AboutRow(c)
                 /\ storedGlobal' \in GlobalSettings
                 /\ Become(c, Reply(c, storedGlobal'))
                 /\ UNCHANGED <<stored, unsure>>
              \/ /\ SetsRow(c) /\ AboutRow(c) /\ ~SetsGlobal(c) /\ c.conv \in Conversations
                 /\ stored' = Patched(c) /\ stored'[c.conv] \in CopiesOf(c.conv)
                 /\ Become(c, Reply(c, stored'[c.conv]))
                 /\ unsure' = (unsure \/ (c.kind = "toggle" /\ \E d \in Kind("toggle") :
                                            d.phase = "sent" /\ d.n < c.n))
                 /\ UNCHANGED storedGlobal
              \/ /\ c.kind = "global" /\ ~AboutRow(c)
                 /\ Become(c, Reply(c, storedGlobal))
                 /\ UNCHANGED <<serverVars, unsure>>
              \/ /\ c.kind = "row" /\ AboutRow(c) /\ c.conv \in Conversations
                 /\ Become(c, Reply(c, stored[c.conv]))
                 /\ UNCHANGED <<serverVars, unsure>>
           /\ UNCHANGED <<active, rowVars, globalVars, draftVars, newVars, toggleVars,
                          dialog, acts, known, behind>>
  BY ServeIs
<1>2. /\ \A b \in Conversations : stored[b] \in CopiesOf(b)
      /\ storedGlobal \in GlobalSettings
  BY DEF StoredTypes, IsMapOfRows
<1>3. PICK body : /\ Become(c, Reply(c, body))
                  /\ IF AboutRow(c) THEN body \in CopiesOf(c.conv) ELSE body \in GlobalSettings
                  /\ c.kind = "toggle" => body.spaces = c.ids
  <2>1. c.kind = "toggle" => /\ ~SetsGlobal(c) /\ c.kind \notin {"global", "row"}
                             /\ (SetsRow(c) => Patched(c)[c.conv].spaces = c.ids)
    BY <1>1, PatchedIs DEF SetsGlobal, IsExpected, IsRequest
  <2> QED BY <1>1, <1>2, <2>1
<1>4. LET e == Reply(c, body)
      IN  /\ IsExpected(e) /\ DOMAIN e = DOMAIN c \cup {"reply"}
          /\ \A x \in DOMAIN c : x \notin {"phase", "reply"} => e[x] = c[x]
  BY <1>1, <1>3, ServedIs
<1> DEFINE new == Reply(c, body)
<1>5. /\ IsExpected(new) /\ new.kind = c.kind /\ new.n = c.n
      /\ c.kind = "toggle" => new.space = c.space /\ new.conv = c.conv
  <2> HIDE DEF new
  <2> QED BY <1>1, <1>4 DEF IsExpected, IsRequest, IsBody, new
<1>6. UNCHANGED <<acts, isSaving, counts, active>>
  BY <1>1 DEF dialog, toggleVars
<1>7. Become(c, new)
  BY <1>3
<1> HIDE DEF new
<1>8. Counted' /\ OneSave' /\ Blocked' /\ \A d \in calls' : IsExpected(d)
  BY <1>5, <1>6, <1>7, BecomeTypes
<1>9. StoredTypes'
  <2>1. UNCHANGED serverVars \/ (storedGlobal' \in GlobalSettings /\ UNCHANGED stored)
        \/ (SetsRow(c) /\ stored' = Patched(c) /\ UNCHANGED storedGlobal)
    BY <1>1
  <2>2. CASE SetsRow(c) /\ stored' = Patched(c) /\ UNCHANGED storedGlobal
    <3>1. IsMapOfRows(Patched(c), Conversations)
      BY <2>2, <1>1, PatchedIs DEF IsExpected, IsRequest
    <3> QED BY <3>1, <2>2 DEF StoredTypes, IsMapOfRows
  <2>3. CASE storedGlobal' \in GlobalSettings /\ UNCHANGED stored
    BY <2>3 DEF StoredTypes, IsMapOfRows
  <2> QED BY <2>1, <2>2, <2>3, RestTypes
<1>10. DialogTypes'
  <2>1. unsure' \in BOOLEAN
    BY <1>1 DEF DialogTypes
  <2> QED BY <2>1, <1>1 DEF DialogTypes, dialog
<1> QED BY <1>1, <1>8, <1>9, <1>10, RestTypes

LEMMA FailTypes == ASSUME SettingsTypes, SettingsFail PROVE SettingsTypes'
<1> USE DEF SettingsTypes
<1>1. PICK c \in calls :
         /\ Become(c, Broken(c))
         /\ UNCHANGED <<serverVars, active, rowVars, globalVars, draftVars, newVars,
                        toggleVars, dialog, acts, history>>
  BY DEF SettingsFail
<1>2. LET e == Broken(c)
      IN  /\ IsExpected(e) /\ DOMAIN e = DOMAIN c
          /\ \A x \in DOMAIN c : x \notin {"phase", "lost"} => e[x] = c[x]
  BY FailedIs
<1> DEFINE new == Broken(c)
<1>3. IsExpected(c)
  OBVIOUS
<1>4. /\ IsExpected(new) /\ new.kind = c.kind /\ new.n = c.n
      /\ c.kind = "toggle" => new.space = c.space /\ new.conv = c.conv
  <2> HIDE DEF new
  <2> QED BY <1>2, <1>3 DEF IsExpected, IsRequest, IsBody, new
<1>5. UNCHANGED <<acts, isSaving, counts, active>>
  BY <1>1 DEF dialog, toggleVars
<1>6. Become(c, new)
  BY <1>1
<1> HIDE DEF new
<1>7. Counted' /\ OneSave' /\ Blocked' /\ \A d \in calls' : IsExpected(d)
  BY <1>4, <1>5, <1>6, BecomeTypes
<1> QED BY <1>1, <1>7, RestTypes

-----------------------------------------------------------------------------
(* Each answer keeps them.                                                 *)

(* What an answer is.                                                      *)
LEMMA AnswerIs ==
  ASSUME SettingsTypes, NEW c \in calls
  PROVE  /\ IsRequest(c) /\ IsBody(c) /\ c.alone \in BOOLEAN /\ c.lost \in BOOLEAN
         /\ c.phase = "answered" /\ AboutRow(c) =>
              /\ c.conv \in Conversations /\ c.reply \in CopiesOf(c.conv) /\ c.reply # None
              /\ c.reply.id = c.conv /\ c.reply.settings \in Settings /\ c.reply.meta \in Values
              /\ c.reply.spaces \in Lists
         /\ c.phase = "answered" /\ ~AboutRow(c) => c.reply \in GlobalSettings
<1>1. IsRequest(c) /\ IsBody(c) /\ IsAnswer(c)
  BY DEF SettingsTypes, IsExpected
<1>2. AboutRow(c) => c.conv \in Conversations
  BY <1>1, SettingsAssumption DEF AboutRow, IsBody, Home
<1>3. c.phase = "answered" /\ AboutRow(c) => c.reply \in CopiesOf(c.conv)
  BY <1>1 DEF IsAnswer
<1> QED BY <1>1, <1>2, <1>3, CopiesAreRows DEF IsAnswer, IsRequest

(* The effect that runs at home keeps the types.                           *)
LEMMA AtHomeTypes ==
  ASSUME SettingsTypes, ForgetAtHome, UNCHANGED <<active, listed>>
  PROVE  RowTypes' /\ SwitchTypes' /\ \A s \in Spaces : counts'[s] \in {0, counts[s]}
<1> USE DEF SettingsTypes
<1>1. CASE active = None
  BY <1>1 DEF ForgetAtHome, RowTypes, SwitchTypes, IsMapOfRows, Home
<1>2. CASE active # None
  BY <1>2 DEF ForgetAtHome, RowTypes, SwitchTypes, IsMapOfRows, Home, toggleVars
<1> QED BY <1>1, <1>2

LEMMA DraftsAtHomeTypes ==
  ASSUME SettingsTypes, NEW g \in GlobalSettings, UNCHANGED newVars,
         DraftsAtHome(g, newPrompt, newMeta)
  PROVE  DraftTypes'
<1> USE DEF SettingsTypes
<1>1. newPrompt \in Values /\ newMeta \in Values /\ newPrompt' \in Values /\ newMeta' \in Values
  BY DEF DraftTypes, newVars
<1>2. CASE active = None
  BY <1>1, <1>2, ApplyNewChatTypes DEF DraftsAtHome
<1>3. CASE active # None
  BY <1>3, RestTypes DEF DraftsAtHome
<1> QED BY <1>2, <1>3

LEMMA GlobalLoadedTypes == ASSUME SettingsTypes, GlobalLoaded PROVE SettingsTypes'
<1> USE DEF SettingsTypes
<1>1. PICK c \in Answered("global") :
        /\ ReplaceGlobal(c.reply) /\ known' = c.alone /\ Done(c)
        /\ DraftsAtHome(c.reply, newPrompt, newMeta) /\ ForgetAtHome
        /\ UNCHANGED <<serverVars, active, listed, newVars, dialog, acts, unsure, behind>>
  BY DEF GlobalLoaded
<1>2. c \in calls /\ c.kind = "global" /\ c.phase = "answered"
  BY DEF Answered, Kind
<1>3. c.reply \in GlobalSettings /\ c.alone \in BOOLEAN
  BY <1>2, AnswerIs DEF AboutRow
<1>4. GlobalTypes'
  BY <1>1, <1>3 DEF ReplaceGlobal, GlobalTypes
<1>5. DialogTypes' /\ isSaving' = (isSaving /\ c.kind # "save")
  BY <1>1, <1>2, <1>3 DEF DialogTypes, dialog
<1>6. RowTypes' /\ SwitchTypes' /\ \A s \in Spaces : counts'[s] \in {0, counts[s]}
  BY <1>1, AtHomeTypes
<1>7. Counted' /\ OneSave' /\ Blocked' /\ \A d \in calls' : IsExpected(d)
  BY <1>1, <1>2, <1>5, <1>6, DoneTypes
<1>8. DraftTypes'
  BY <1>1, <1>3, DraftsAtHomeTypes
<1> QED BY <1>1, <1>4, <1>5, <1>6, <1>7, <1>8, RestTypes

LEMMA RowLoadedTypes == ASSUME SettingsTypes, RowLoaded PROVE SettingsTypes'
<1> USE DEF SettingsTypes
<1>1. PICK c \in Answered("row") :
        /\ listed' = Listed(c.reply) /\ pending' = c.reply
        /\ draft' = c.reply.settings /\ metaDraft' = c.reply.meta
        /\ Done(c)
        /\ UNCHANGED <<serverVars, active, globalVars, spacesDraft, spacesOf, newVars, toggleVars,
                       dialog, acts, history>>
  BY DEF RowLoaded
<1>2. c \in calls /\ c.kind = "row" /\ c.phase = "answered"
  BY DEF Answered, Kind
<1>3. /\ c.conv \in Conversations /\ c.reply \in CopiesOf(c.conv)
      /\ c.reply.settings \in Settings /\ c.reply.meta \in Values
  BY <1>2, AnswerIs DEF AboutRow
<1>4. RowTypes'
  BY <1>1, <1>3, ListedTypes
<1>5. DraftTypes'
  BY <1>1, <1>3 DEF DraftTypes, newVars, Home
<1>6. isSaving' = (isSaving /\ c.kind # "save")
  BY <1>1, <1>2 DEF dialog, DialogTypes
<1>7. Counted' /\ OneSave' /\ Blocked' /\ \A d \in calls' : IsExpected(d)
  BY <1>1, <1>2, <1>6, DoneTypes DEF toggleVars
<1> QED BY <1>1, <1>4, <1>5, <1>7, RestTypes

LEMMA SavedGlobalTypes == ASSUME SettingsTypes, SavedGlobal PROVE SettingsTypes'
<1> USE DEF SettingsTypes
<1>1. PICK c \in Saves(Answered("save"), "global") :
        /\ ReplaceGlobal(c.reply) /\ known' = c.alone
        /\ IF c.conv = None
           THEN /\ newPrompt' = c.settings.prompt /\ newMeta' = c.meta
                /\ ApplyNewChat(c.reply, c.settings.prompt, c.meta)
                /\ isOpen' = FALSE /\ isSaving' = FALSE
                /\ Done(c)
           ELSE /\ Become(c, Beside([stage |-> "conversation", phase |-> "sent"], c))
                /\ DraftsAtHome(c.reply, newPrompt, newMeta)
                /\ UNCHANGED <<newVars, dialog>>
        /\ ForgetAtHome
        /\ UNCHANGED <<serverVars, active, listed, acts, unsure, behind>>
  BY DEF SavedGlobal
<1>2. c \in calls /\ c.kind = "save" /\ c.phase = "answered" /\ c.stage = "global"
  BY DEF Answered, Kind, Saves
<1>3. c.reply \in GlobalSettings /\ c.alone \in BOOLEAN /\ c.settings.prompt \in Values /\ c.meta \in Values
      /\ IsExpected(c)
  BY <1>2, AnswerIs DEF AboutRow, IsBody, Settings
<1>4. GlobalTypes'
  BY <1>1, <1>3 DEF ReplaceGlobal, GlobalTypes
<1>5. DialogTypes'
  BY <1>1, <1>3 DEF DialogTypes, dialog
<1>6. DraftTypes'
  <2>1. CASE c.conv = None
    BY <2>1, <1>1, <1>3, ApplyNewChatTypes
  <2>2. CASE c.conv # None
    BY <2>2, <1>1, <1>3, DraftsAtHomeTypes
  <2> QED BY <2>1, <2>2
<1>7. RowTypes' /\ SwitchTypes' /\ \A s \in Spaces : counts'[s] \in {0, counts[s]}
  BY <1>1, AtHomeTypes
<1>8. Counted' /\ OneSave' /\ Blocked' /\ \A d \in calls' : IsExpected(d)
  <2>1. CASE c.conv = None
    <3>1. isSaving' = (isSaving /\ c.kind # "save")
      BY <2>1, <1>1, <1>2
    <3> QED BY <2>1, <3>1, <1>1, <1>2, <1>7, DoneTypes
  <2>2. CASE c.conv # None
    <3> DEFINE e == Beside([stage |-> "conversation", phase |-> "sent"], c)
    <3>1. IsExpected(e) /\ DOMAIN e = DOMAIN c
          /\ \A x \in DOMAIN c : x \notin {"phase", "stage"} => e[x] = c[x]
      BY <2>2, <1>2, <1>3, NextStageIs
    <3>2. Become(c, e) /\ UNCHANGED <<acts, isSaving, active>>
      BY <2>2, <1>1 DEF dialog
    <3> HIDE DEF e
    <3>3. e.kind = c.kind /\ e.n = c.n
      BY <3>1, <1>3 DEF IsExpected, IsRequest
    <3> QED BY <3>1, <3>2, <3>3, <1>2, <1>7, BecomeTypes
  <2> QED BY <2>1, <2>2
<1> QED BY <1>1, <1>4, <1>5, <1>6, <1>7, <1>8, RestTypes

LEMMA SavedConversationTypes == ASSUME SettingsTypes, SavedConversation PROVE SettingsTypes'
<1> USE DEF SettingsTypes
<1>1. PICK c \in Saves(Answered("save"), "conversation") :
        /\ listed' = Listed(c.reply) /\ pending' = c.reply
        /\ ApplyRow(c.reply)
        /\ isOpen' = FALSE /\ isSaving' = FALSE
        /\ Done(c)
        /\ UNCHANGED <<serverVars, active, globalVars, newVars, toggleVars, acts, history>>
  BY DEF SavedConversation
<1>2. c \in calls /\ c.kind = "save" /\ c.phase = "answered" /\ c.stage = "conversation"
  BY DEF Answered, Kind, Saves
<1>3. c.conv \in Conversations /\ c.reply \in CopiesOf(c.conv)
  BY <1>2, AnswerIs DEF AboutRow
<1>4. RowTypes'
  BY <1>1, <1>3, ListedTypes
<1>5. DraftTypes'
  <2>1. newPrompt' \in Values /\ newMeta' \in Values
    BY <1>1 DEF DraftTypes, newVars
  <2> QED BY <2>1, <1>1, <1>3, ApplyRowTypes
<1>6. DialogTypes' /\ isSaving' = (isSaving /\ c.kind # "save")
  BY <1>1, <1>2 DEF DialogTypes, history
<1>7. Counted' /\ OneSave' /\ Blocked' /\ \A d \in calls' : IsExpected(d)
  BY <1>1, <1>2, <1>6, DoneTypes DEF toggleVars
<1> QED BY <1>1, <1>4, <1>5, <1>6, <1>7, RestTypes

LEMMA SaveFailsTypes == ASSUME SettingsTypes, SaveFails PROVE SettingsTypes'
<1> USE DEF SettingsTypes
<1>1. PICK c \in Failed("save") :
        /\ c.stage # "rollback"
        /\ IF c.stage = "global" THEN isSaving' = FALSE /\ Done(c)
           ELSE Become(c, Beside([stage |-> "rollback", phase |-> "sent"], c)) /\ UNCHANGED isSaving
        /\ known' = (known /\ (c.stage = "global" => ~c.lost))
        /\ UNCHANGED <<serverVars, active, rowVars, globalVars, draftVars, newVars, toggleVars,
                       isOpen, acts, unsure, behind>>
  BY DEF SaveFails
<1>2. c \in calls /\ c.kind = "save" /\ c.phase = "failed"
  BY DEF Failed, Kind
<1>3. IsExpected(c) /\ c.lost \in BOOLEAN /\ (c.stage # "global" => c.conv # None)
  BY <1>2, AnswerIs DEF IsBody
<1>4. DialogTypes'
  BY <1>1, <1>3 DEF DialogTypes
<1>5. Counted' /\ OneSave' /\ Blocked' /\ \A d \in calls' : IsExpected(d)
  <2>1. CASE c.stage = "global"
    <3>1. isSaving' = (isSaving /\ c.kind # "save")
      BY <2>1, <1>1, <1>2
    <3> QED BY <2>1, <3>1, <1>1, <1>2, DoneTypes DEF toggleVars
  <2>2. CASE c.stage # "global"
    <3> DEFINE e == Beside([stage |-> "rollback", phase |-> "sent"], c)
    <3>1. IsExpected(e) /\ DOMAIN e = DOMAIN c
          /\ \A x \in DOMAIN c : x \notin {"phase", "stage"} => e[x] = c[x]
      BY <2>2, <1>2, <1>3, NextStageIs
    <3>2. Become(c, e) /\ UNCHANGED <<acts, isSaving, counts, active>>
      BY <2>2, <1>1 DEF toggleVars
    <3> HIDE DEF e
    <3>3. e.kind = c.kind /\ e.n = c.n
      BY <3>1, <1>3 DEF IsExpected, IsRequest
    <3> QED BY <3>1, <3>2, <3>3, <1>2, BecomeTypes
  <2> QED BY <2>1, <2>2
<1> QED BY <1>1, <1>4, <1>5, RestTypes

LEMMA RolledBackSaveTypes == ASSUME SettingsTypes, RolledBackSave PROVE SettingsTypes'
<1> USE DEF SettingsTypes
<1>1. PICK c \in Saves(Answered("save") \cup Failed("save"), "rollback") :
        LET g == IF c.phase = "answered" THEN c.reply ELSE c.previousGlobal
        IN  /\ ReplaceGlobal(g)
            /\ IF active # None /\ c.previousRow # None
               THEN pending' = c.previousRow /\ ApplyRow(c.previousRow) /\ UNCHANGED toggleVars
               ELSE DraftsAtHome(g, newPrompt, newMeta) /\ ForgetAtHome
            /\ known' = (c.phase = "answered" /\ c.alone)
            /\ isSaving' = FALSE
            /\ Done(c)
            /\ unsure' = (unsure \/ behind)
            /\ UNCHANGED <<serverVars, active, listed, newVars, isOpen, acts, behind>>
  BY DEF RolledBackSave
<1> DEFINE g == IF c.phase = "answered" THEN c.reply ELSE c.previousGlobal
<1>2. c \in calls /\ c.kind = "save" /\ c.stage = "rollback"
  BY DEF Answered, Failed, Kind, Saves
<1>3. /\ c.phase \in {"answered", "failed"} /\ g \in GlobalSettings
      /\ c.alone \in BOOLEAN
      /\ c.previousRow # None => c.conv \in Conversations /\ c.previousRow \in CopiesOf(c.conv)
  BY <1>2, AnswerIs DEF AboutRow, IsBody, Home, IsRequest, Saves, Answered, Failed
<1>4. GlobalTypes'
  BY <1>1, <1>3 DEF ReplaceGlobal, GlobalTypes
<1>5. DialogTypes' /\ isSaving' = (isSaving /\ c.kind # "save")
  BY <1>1, <1>2, <1>3 DEF DialogTypes
<1>6. newPrompt' \in Values /\ newMeta' \in Values
  BY <1>1 DEF DraftTypes, newVars
<1>7. DraftTypes' /\ RowTypes' /\ SwitchTypes' /\ \A s \in Spaces : counts'[s] \in {0, counts[s]}
  <2>1. CASE active # None /\ c.previousRow # None
    <3>1. pending' # None => \E b \in Conversations : pending' \in CopiesOf(b)
      BY <2>1, <1>1, <1>3
    <3>2. RowTypes'
      BY <3>1, <1>1 DEF RowTypes, IsMapOfRows, Home
    <3>3. DraftTypes'
      BY <2>1, <1>1, <1>3, <1>6, ApplyRowTypes
    <3> QED BY <3>2, <3>3, <2>1, <1>1, RestTypes DEF toggleVars
  <2>2. CASE ~(active # None /\ c.previousRow # None)
    <3>1. DraftsAtHome(g, newPrompt, newMeta) /\ ForgetAtHome
      BY <2>2, <1>1
    <3> HIDE DEF g
    <3> QED BY <3>1, <1>1, <1>3, AtHomeTypes, DraftsAtHomeTypes
  <2> QED BY <2>1, <2>2
<1>8. Counted' /\ OneSave' /\ Blocked' /\ \A d \in calls' : IsExpected(d)
  BY <1>1, <1>2, <1>5, <1>7, DoneTypes
<1> QED BY <1>1, <1>4, <1>5, <1>7, <1>8, RestTypes

LEMMA ModelChangedTypes == ASSUME SettingsTypes, ModelChanged PROVE SettingsTypes'
<1> USE DEF SettingsTypes
<1>1. PICK c \in Answered("model") :
        /\ listed' = Listed(c.reply) /\ draft' = c.reply.settings
        /\ Done(c)
        /\ UNCHANGED <<serverVars, active, pending, globalVars, metaDraft, spacesDraft, spacesOf,
                       newVars, toggleVars, dialog, acts, history>>
  BY DEF ModelChanged
<1>2. c \in calls /\ c.kind = "model" /\ c.phase = "answered"
  BY DEF Answered, Kind
<1>3. c.conv \in Conversations /\ c.reply \in CopiesOf(c.conv) /\ c.reply.settings \in Settings
  BY <1>2, AnswerIs DEF AboutRow
<1>4. RowTypes'
  BY <1>1, <1>3, ListedTypes
<1>5. DraftTypes'
  BY <1>1, <1>3 DEF DraftTypes, newVars, Home
<1>6. isSaving' = (isSaving /\ c.kind # "save")
  BY <1>1, <1>2 DEF dialog, DialogTypes
<1>7. Counted' /\ OneSave' /\ Blocked' /\ \A d \in calls' : IsExpected(d)
  BY <1>1, <1>2, <1>6, DoneTypes DEF toggleVars
<1> QED BY <1>1, <1>4, <1>5, <1>7, RestTypes

LEMMA DefaultModelSetTypes == ASSUME SettingsTypes, DefaultModelSet PROVE SettingsTypes'
<1> USE DEF SettingsTypes
<1>1. PICK c \in Answered("default") :
        /\ ReplaceGlobal(c.reply) /\ known' = c.alone
        /\ IF active # None /\ c.home THEN ApplyNewChat(c.reply, c.prompt, c.meta)
                                      ELSE DraftsAtHome(c.reply, newPrompt, newMeta)
        /\ ForgetAtHome
        /\ Done(c)
        /\ UNCHANGED <<serverVars, active, listed, newVars, dialog, acts, unsure, behind>>
  BY DEF DefaultModelSet
<1>2. c \in calls /\ c.kind = "default" /\ c.phase = "answered"
  BY DEF Answered, Kind
<1>3. c.reply \in GlobalSettings /\ c.alone \in BOOLEAN /\ c.prompt \in Values /\ c.meta \in Values
  BY <1>2, AnswerIs DEF AboutRow, IsBody
<1>4. GlobalTypes'
  BY <1>1, <1>3 DEF ReplaceGlobal, GlobalTypes
<1>5. DialogTypes' /\ isSaving' = (isSaving /\ c.kind # "save")
  BY <1>1, <1>2, <1>3 DEF DialogTypes, dialog
<1>6. DraftTypes'
  <2>1. newPrompt' \in Values /\ newMeta' \in Values
    BY <1>1 DEF DraftTypes, newVars
  <2>2. CASE active # None /\ c.home
    BY <2>1, <2>2, <1>1, <1>3, ApplyNewChatTypes
  <2>3. CASE ~(active # None /\ c.home)
    BY <2>3, <1>1, <1>3, DraftsAtHomeTypes
  <2> QED BY <2>2, <2>3
<1>7. RowTypes' /\ SwitchTypes' /\ \A s \in Spaces : counts'[s] \in {0, counts[s]}
  BY <1>1, AtHomeTypes
<1>8. Counted' /\ OneSave' /\ Blocked' /\ \A d \in calls' : IsExpected(d)
  BY <1>1, <1>2, <1>5, <1>7, DoneTypes
<1> QED BY <1>1, <1>4, <1>5, <1>6, <1>7, <1>8, RestTypes

LEMMA QuietFailureTypes == ASSUME SettingsTypes, QuietFailure PROVE SettingsTypes'
<1> USE DEF SettingsTypes
<1>1. PICK c \in Failed("global") \cup Failed("row") \cup Failed("model") \cup Failed("default") :
        /\ known' = (known /\ (c.kind = "default" => ~c.lost))
        /\ Done(c)
        /\ UNCHANGED <<serverVars, active, rowVars, globalVars, draftVars, newVars, toggleVars,
                       dialog, acts, unsure, behind>>
  BY DEF QuietFailure
<1>2. c \in calls /\ c.kind \in {"global", "row", "model", "default"}
  BY DEF Failed, Kind
<1>3. c.lost \in BOOLEAN
  BY <1>2, AnswerIs
<1>4. DialogTypes' /\ isSaving' = (isSaving /\ c.kind # "save")
  BY <1>1, <1>2, <1>3 DEF DialogTypes, dialog
<1>5. Counted' /\ OneSave' /\ Blocked' /\ \A d \in calls' : IsExpected(d)
  BY <1>1, <1>2, <1>4, DoneTypes DEF toggleVars
<1> QED BY <1>1, <1>4, <1>5, RestTypes

(* A switch is no longer blocked by a request that ended.                  *)
LEMMA ReleasedTypes ==
  ASSUME SwitchTypes, NEW c
  PROVE  Released(c) \in [Spaces -> 0 .. 1]
<1>1. counts \in [Spaces -> 0 .. 1]
  BY DEF SwitchTypes
<1>2. \A s \in Spaces : counts[s] > 0 => counts[s] - 1 \in 0 .. 1
  BY <1>1
<1>3. counts[c.space] > 0 => [counts EXCEPT ![c.space] = counts[c.space] - 1] \in [Spaces -> 0 .. 1]
  BY <1>1, <1>2
<1> QED BY <1>1, <1>3 DEF Released

LEMMA SpaceToggledTypes == ASSUME SettingsTypes, SpaceToggled PROVE SettingsTypes'
<1> USE DEF SettingsTypes
<1>1. PICK c \in Answered("toggle") :
        /\ IF Accepted(c)
           THEN /\ listed' = Listed(c.reply) /\ pending' = c.reply
                /\ spacesDraft' = c.reply.spaces
           ELSE UNCHANGED <<rowVars, spacesDraft>>
        /\ counts' = Released(c)
        /\ Done(c)
        /\ UNCHANGED <<serverVars, active, globalVars, draft, metaDraft, spacesOf, newVars,
                       versions, dialog, acts, history>>
  BY DEF SpaceToggled
<1>2. c \in calls /\ c.kind = "toggle" /\ c.phase = "answered"
  BY DEF Answered, Kind
<1>3. c.conv \in Conversations /\ c.reply \in CopiesOf(c.conv) /\ c.reply.spaces \in Lists
  BY <1>2, AnswerIs DEF AboutRow
<1>4. RowTypes' /\ spacesDraft' \in Lists
  <2>1. CASE Accepted(c)
    BY <2>1, <1>1, <1>3, ListedTypes
  <2>2. CASE ~Accepted(c)
    BY <2>2, <1>1, RestTypes DEF DraftTypes
  <2> QED BY <2>1, <2>2
<1>5. DraftTypes'
  BY <1>1, <1>4 DEF DraftTypes, newVars, Home
<1>6. isSaving' = (isSaving /\ c.kind # "save")
  BY <1>1, <1>2 DEF dialog, DialogTypes
<1>7. SwitchTypes'
  BY <1>1, ReleasedTypes DEF SwitchTypes
<1>8. Counted' /\ OneSave' /\ Blocked' /\ \A d \in calls' : IsExpected(d)
  BY <1>1, <1>2, <1>6, DoneTypes
<1> QED BY <1>1, <1>4, <1>5, <1>7, <1>8, RestTypes

LEMMA ToggleFailsTypes == ASSUME SettingsTypes, ToggleFails PROVE SettingsTypes'
<1> USE DEF SettingsTypes
<1>1. PICK c \in Failed("toggle") :
        /\ spacesDraft' = IF IsLatest(c) THEN RolledBack(spacesDraft, c.previous, c.space)
                                         ELSE spacesDraft
        /\ counts' = Released(c)
        /\ Done(c)
        /\ unsure' = (unsure \/ c.lost \/ c.followed)
        /\ behind' = (behind \/ c.overlap)
        /\ UNCHANGED <<serverVars, active, rowVars, globalVars, draft, metaDraft, spacesOf,
                       newVars, versions, dialog, acts, known>>
  BY DEF ToggleFails
<1>2. c \in calls /\ c.kind = "toggle"
  BY DEF Failed, Kind
<1>3. /\ c.previous \in Lists /\ c.space \in Spaces
      /\ c.lost \in BOOLEAN /\ c.followed \in BOOLEAN /\ c.overlap \in BOOLEAN
  BY <1>2, AnswerIs DEF IsBody, IsRequest
<1>4. spacesDraft' \in Lists
  BY <1>1, <1>3, RolledBackIsList DEF DraftTypes
<1>5. DraftTypes'
  BY <1>1, <1>4 DEF DraftTypes, newVars, Home
<1>6. DialogTypes' /\ isSaving' = (isSaving /\ c.kind # "save")
  BY <1>1, <1>2, <1>3 DEF dialog, DialogTypes
<1>7. SwitchTypes'
  BY <1>1, ReleasedTypes DEF SwitchTypes
<1>8. Counted' /\ OneSave' /\ Blocked' /\ \A d \in calls' : IsExpected(d)
  BY <1>1, <1>2, <1>6, DoneTypes
<1> QED BY <1>1, <1>5, <1>6, <1>7, <1>8, RestTypes

-----------------------------------------------------------------------------
(* A save stores everything or nothing.                                    *)

(* The same save in the same surroundings knows what it knew.              *)
SaveFields == {"was", "previousGlobal", "metaSent", "previousRow", "meta", "stage", "conv",
               "global", "settings", "phase", "lost"}

LEMMA SameSave ==
  ASSUME NEW c, NEW e, StageIsPlain(c), \A x \in SaveFields : e[x] = c[x],
         c.phase = "answered" => e.reply = c.reply,
         UNCHANGED serverVars, c.stage = "global" => global' = global
  PROVE  StageIsPlain(e)'
<1>1. /\ e.was = c.was /\ e.previousGlobal = c.previousGlobal /\ e.metaSent = c.metaSent
      /\ e.previousRow = c.previousRow /\ e.meta = c.meta /\ e.stage = c.stage /\ e.conv = c.conv
      /\ e.global = c.global /\ e.settings = c.settings /\ e.phase = c.phase /\ e.lost = c.lost
  BY DEF SaveFields
<1>2. stored' = stored /\ storedGlobal' = storedGlobal
  BY DEF serverVars
<1>3. /\ RowAsBefore(c) => RowAsBefore(e)'
      /\ Stored(c) => Stored(e)'
  BY <1>1, <1>2 DEF RowAsBefore, Stored, Unsent
<1> QED BY <1>1, <1>2, <1>3 DEF StageIsPlain

(* Nothing happens to the requests, the server or what is known.           *)
LEMMA QuietSaves ==
  ASSUME SavesInv, UNCHANGED <<calls, serverVars, global, known>>
  PROVE  SavesInv'
<1>1. Writes' = Writes /\ \A k : Kind(k)' = Kind(k)
  BY DEF Writes, Kind
<1>2. storedGlobal' = storedGlobal /\ stored' = stored
  BY DEF serverVars
<1>3. AloneAre' /\ RepliesAreStored' /\ KnownIsStored'
  BY <1>1, <1>2 DEF SavesInv, AloneAre, RepliesAreStored, KnownIsStored
<1>4. SavesArePlain'
  BY <1>1, SameSave DEF SavesInv, SavesArePlain, Uncrossed
<1> QED BY <1>3, <1>4 DEF SavesInv

(* Requests end, and the server rests.                                     *)
LEMMA FewerSaves ==
  ASSUME SavesInv, calls' \subseteq calls, UNCHANGED serverVars, KnownIsStored',
         \A c \in calls' : c.kind = "save" /\ Certain(c) => global' = global
  PROVE  SavesInv'
<1>1. /\ Writes' \subseteq Writes /\ \A k : Kind(k)' \subseteq Kind(k)
      /\ \A c \in calls' : c \in Writes <=> c \in Writes'
  BY DEF Writes, Kind
<1>2. storedGlobal' = storedGlobal
  BY DEF serverVars
<1>3. AloneAre'
  BY <1>1 DEF SavesInv, AloneAre
<1>4. RepliesAreStored'
  BY <1>2 DEF SavesInv, RepliesAreStored
<1>5. SavesArePlain'
  <2> SUFFICES ASSUME NEW c \in Kind("save")', Certain(c)
               PROVE  Uncrossed(c)' /\ StageIsPlain(c)'
    BY DEF SavesArePlain, Certain
  <2>1. c \in Kind("save") /\ c \in calls' /\ c.kind = "save"
    BY <1>1 DEF Kind
  <2>2. Uncrossed(c) /\ StageIsPlain(c)
    BY <2>1 DEF SavesInv, SavesArePlain
  <2>3. Uncrossed(c)'
    BY <2>2 DEF Uncrossed
  <2> QED BY <2>1, <2>2, <2>3, SameSave
<1> QED BY <1>3, <1>4, <1>5 DEF SavesInv

(* A request begins.                                                       *)
LEMMA MoreSaves ==
  ASSUME SettingsTypes, SavesInv, NEW others \in SUBSET calls, NEW request, NEW new,
         Begun(others, request, new), new.kind = request.kind,
         IF request.kind = "row" THEN others = calls \ Kind("row") ELSE others = calls,
         request.kind # "global",
         UNCHANGED <<serverVars, global, known>>,
         request.kind = "save" /\ Certain(new) => Uncrossed(new)' /\ StageIsPlain(new)'
  PROVE  SavesInv'
<1> DEFINE T(d) == Touched(d, request.kind)
<1>1. /\ calls' = {T(d) : d \in others} \cup {new}
      /\ new.phase = "sent" /\ new.lost = FALSE /\ new.alone = (Writes = {})
  BY DEF Begun
<1>2. \A d \in others :
        /\ DOMAIN T(d) = DOMAIN d /\ IsRequest(d) /\ IsBody(d) /\ IsAnswer(d)
        /\ T(d).alone = (d.alone /\ request.kind = "row")
        /\ \A x \in DOMAIN d : x \notin {"alone", "followed"} => T(d)[x] = d[x]
  <2> SUFFICES ASSUME NEW d \in others
               PROVE  /\ DOMAIN T(d) = DOMAIN d /\ IsRequest(d) /\ IsBody(d) /\ IsAnswer(d)
                      /\ T(d).alone = (d.alone /\ request.kind = "row")
                      /\ \A x \in DOMAIN d : x \notin {"alone", "followed"} => T(d)[x] = d[x]
    OBVIOUS
  <2>1. IsExpected(d)
    BY DEF SettingsTypes
  <2> QED BY <2>1, TouchedIs DEF IsExpected
<1> HIDE DEF T
<1>3. \A d \in others :
        /\ T(d).kind = d.kind /\ T(d).phase = d.phase /\ T(d).lost = d.lost
        /\ d.kind = "save" => T(d).stage = d.stage
        /\ d.phase = "answered" => T(d).reply = d.reply
  BY <1>2 DEF IsRequest, IsBody, IsAnswer
<1>4. /\ \A d \in others : AboutRow(T(d)) <=> AboutRow(d)
      /\ \A d \in others : SetsGlobal(T(d)) <=> SetsGlobal(d)
  BY <1>3 DEF AboutRow, SetsGlobal
<1>5. /\ Writes \subseteq others
      /\ \A c \in Writes' : (\E d \in Writes : c = T(d)) \/ (c = new /\ request.kind # "row")
      /\ \A d \in Writes : T(d) \in Writes'
      /\ request.kind # "row" => new \in Writes'
  BY <1>1, <1>3 DEF Writes, Kind
<1>6. AloneAre'
  <2>1. ASSUME NEW c \in Writes', c.alone PROVE Writes' = {c}
    <3>1. CASE c = new /\ request.kind # "row"
      BY <3>1, <2>1, <1>1, <1>5
    <3>2. CASE \E d \in Writes : c = T(d)
      <4>1. PICK d \in Writes : c = T(d)
        BY <3>2
      <4>2. d.alone /\ request.kind = "row"
        BY <4>1, <2>1, <1>2, <1>5
      <4>3. Writes = {d}
        BY <4>1, <4>2 DEF SavesInv, AloneAre
      <4> QED BY <4>1, <4>2, <4>3, <1>5
    <3> QED BY <3>1, <3>2, <1>5
  <2>2. ASSUME NEW c \in Kind("global")', c.alone PROVE Writes' = {}
    <3>1. PICK d \in others : c = T(d)
      BY <1>1 DEF Kind
    <3>2. d \in Kind("global") /\ d.alone /\ request.kind = "row"
      BY <3>1, <2>2, <1>2, <1>3 DEF Kind
    <3>3. Writes = {}
      BY <3>2 DEF SavesInv, AloneAre
    <3> QED BY <3>2, <3>3, <1>5
  <2> QED BY <2>1, <2>2 DEF AloneAre
<1>7. storedGlobal' = storedGlobal
  BY DEF serverVars
<1>8. RepliesAreStored'
  <2> SUFFICES ASSUME NEW c \in calls', c.alone, c.phase = "answered", ~AboutRow(c)
               PROVE  c.reply = storedGlobal
    BY <1>7 DEF RepliesAreStored
  <2>1. PICK d \in others : c = T(d)
    BY <1>1
  <2>2. d.alone
    BY <2>1, <1>2
  <2>3. d.phase = "answered" /\ c.reply = d.reply
    BY <2>1, <1>3
  <2>4. ~AboutRow(d)
    BY <2>1, <1>4
  <2> QED BY <2>2, <2>3, <2>4 DEF SavesInv, RepliesAreStored
<1>9. KnownIsStored'
  <2>1. \A d \in Writes : SetsGlobal(d) /\ Taken(d) => SetsGlobal(T(d)) /\ Taken(T(d))
    BY <1>3, <1>4, <1>5 DEF Taken
  <2> QED BY <2>1, <1>5, <1>7 DEF SavesInv, KnownIsStored
<1>10. SavesArePlain'
  <2> SUFFICES ASSUME NEW c \in Kind("save")', Certain(c)
               PROVE  Uncrossed(c)' /\ StageIsPlain(c)'
    BY DEF SavesArePlain, Certain
  <2>1. CASE c = new
    BY <2>1 DEF Kind
  <2>2. CASE c # new
    <3>1. PICK d \in others : c = T(d)
      BY <2>2, <1>1 DEF Kind
    <3>2. d \in Kind("save") /\ d.alone /\ request.kind = "row"
      BY <3>1, <1>2, <1>3 DEF Kind, Certain
    <3>3. \A x \in SaveFields \cup {"sure"} : x \in DOMAIN d /\ c[x] = d[x]
      BY <3>1, <3>2, <1>2 DEF SaveFields, IsBody, IsRequest, Kind
    <3>4. Certain(d)
      BY <3>2, <3>3 DEF Certain
    <3>5. Uncrossed(d) /\ StageIsPlain(d)
      BY <3>2, <3>4 DEF SavesInv, SavesArePlain
    <3>6. Uncrossed(c)'
      <4>1. \A e \in others : T(e).kind # "global" /\ (e # d => T(e).kind = "row")
        BY <3>5, <1>3 DEF Uncrossed
      <4> QED BY <4>1, <3>1, <3>2, <1>1 DEF Uncrossed
    <3>7. d.phase = "answered" => c.reply = d.reply
      BY <3>1, <1>3
    <3> QED BY <3>3, <3>5, <3>6, <3>7, SameSave
  <2> QED BY <2>1, <2>2
<1> QED BY <1>6, <1>8, <1>9, <1>10 DEF SavesInv

(* A request goes on.                                                      *)
LEMMA BecomeSaves ==
  ASSUME SavesInv, NEW c \in calls, NEW new, Become(c, new), new.kind = c.kind, new.alone = c.alone,
         c.kind = "save" => new.sure = c.sure,
         (new.phase = "answered" /\ new.alone /\ ~AboutRow(new)) => new.reply = storedGlobal',
         storedGlobal' # storedGlobal => c \in Writes,
         c.kind = "row" => UNCHANGED <<serverVars, global>>,
         KnownIsStored',
         c.kind = "save" /\ Certain(c) => StageIsPlain(new)'
  PROVE  SavesInv'
<1>1. calls' = (calls \ {c}) \cup {new}
  BY DEF Become
<1>2. /\ Writes' = IF c \in Writes THEN (Writes \ {c}) \cup {new} ELSE Writes
      /\ \A k : Kind(k)' = IF c \in Kind(k) THEN (Kind(k) \ {c}) \cup {new} ELSE Kind(k)
  <2>1. \A d : d \in Writes' <=> (d \in Writes \ {c} \/ (d = new /\ c \in Writes))
    BY <1>1 DEF Writes
  <2>2. c \notin Writes => new \notin Writes
    BY DEF Writes
  <2>3. Writes' = IF c \in Writes THEN (Writes \ {c}) \cup {new} ELSE Writes
    BY <2>1, <2>2
  <2>4. ASSUME NEW k PROVE Kind(k)' = IF c \in Kind(k) THEN (Kind(k) \ {c}) \cup {new} ELSE Kind(k)
    BY <1>1 DEF Kind
  <2> QED BY <2>3, <2>4
<1>3. AloneAre'
  BY <1>2 DEF SavesInv, AloneAre
<1>4. RepliesAreStored'
  <2> SUFFICES ASSUME NEW d \in calls', d.alone, d.phase = "answered", ~AboutRow(d)
               PROVE  d.reply = storedGlobal'
    BY DEF RepliesAreStored
  <2>1. CASE d = new
    BY <2>1
  <2>2. CASE d # new
    <3>1. d \in calls /\ d # c /\ d.reply = storedGlobal
      BY <2>2, <1>1 DEF SavesInv, RepliesAreStored
    <3>2. d \in Writes \/ d \in Kind("global")
      BY <3>1 DEF Writes, Kind, AboutRow
    <3>3. c \notin Writes
      BY <3>1, <3>2 DEF SavesInv, AloneAre
    <3> QED BY <3>1, <3>3
  <2> QED BY <2>1, <2>2
<1>5. SavesArePlain'
  <2> SUFFICES ASSUME NEW d \in Kind("save")', Certain(d)
               PROVE  Uncrossed(d)' /\ StageIsPlain(d)'
    BY DEF SavesArePlain, Certain
  <2>1. CASE d = new
    <3>1. c.kind = "save" /\ Certain(c)
      BY <2>1, <1>2 DEF Kind, Certain
    <3>2. Uncrossed(c)
      BY <3>1 DEF SavesInv, SavesArePlain, Kind
    <3>3. Uncrossed(new)'
      BY <3>1, <3>2, <1>1 DEF Uncrossed
    <3> QED BY <2>1, <3>1, <3>3
  <2>2. CASE d # new
    <3>1. d \in Kind("save") /\ d # c
      BY <2>2, <1>1 DEF Kind
    <3>2. Uncrossed(d) /\ StageIsPlain(d)
      BY <3>1 DEF SavesInv, SavesArePlain
    <3>3. c.kind = "row"
      BY <3>1, <3>2 DEF Uncrossed
    <3>4. Uncrossed(d)'
      BY <3>2, <3>3, <1>1 DEF Uncrossed
    <3> QED BY <3>2, <3>3, <3>4, SameSave
  <2> QED BY <2>1, <2>2
<1> QED BY <1>3, <1>4, <1>5 DEF SavesInv

(* A request that is no save begins.                                       *)
LEMMA BeginSaves ==
  ASSUME SettingsTypes, SavesInv, NEW others, NEW request, BeginWrite(others, request),
         "kind" \in DOMAIN request, DOMAIN request \cap Stamps = {},
         request.kind \in SettingsKinds \ {"global", "save"},
         others = IF request.kind = "row" THEN calls \ Kind("row") ELSE calls,
         UNCHANGED <<serverVars, global, known>>
  PROVE  SavesInv'
<1>1. others \in SUBSET calls /\ (request.kind = "toggle" => others = calls)
  OBVIOUS
<1>2. PICK new : Begun(others, request, new)
  BY <1>1, BeginWriteIs DEF SettingsTypes
<1>3. new.kind = request.kind
  BY <1>2 DEF Begun
<1> QED BY <1>1, <1>2, <1>3, MoreSaves

LEMMA SaveSaves == ASSUME SettingsTypes, SavesInv, SaveSettings PROVE SavesInv'
<1> DEFINE request == [kind |-> "save", stage |-> "global", conv |-> active,
                   global |-> globalDraft, settings |-> draft, meta |-> metaDraft,
                   metaSent |-> Current # None /\ metaDraft # Current.meta,
                   previousGlobal |-> global, previousRow |-> Current,
                   was |-> <<storedGlobal, IF active = None THEN None ELSE stored[active]>>,
                   sure |-> /\ known /\ Kind("global") = {}
                            /\ Current # None => Current.meta = stored[active].meta]
<1>1. /\ ~isSaving /\ BeginWrite(calls, request)
      /\ UNCHANGED <<serverVars, active, rowVars, globalVars, draftVars, newVars, toggleVars,
                     isOpen, known, behind>>
  BY DEF SaveSettings
<1>2. DOMAIN request \cap Stamps = {} /\ "kind" \in DOMAIN request /\ request.kind = "save"
  BY DEF Stamps
<1>3. /\ request.conv = active /\ request.stage = "global" /\ request.meta = metaDraft
      /\ request.metaSent = (Current # None /\ metaDraft # Current.meta)
      /\ request.previousGlobal = global /\ request.previousRow = Current
      /\ request.was[1] = storedGlobal /\ (active # None => request.was[2] = stored[active])
      /\ request.sure = (/\ known /\ Kind("global") = {}
                         /\ Current # None => Current.meta = stored[active].meta)
      /\ {"conv", "stage", "meta", "metaSent", "previousGlobal", "previousRow", "was", "sure"}
           \subseteq DOMAIN request
  OBVIOUS
<1> HIDE DEF request
<1>4. PICK new : Begun(calls, request, new)
  BY <1>1, <1>2, BeginWriteIs DEF SettingsTypes, SettingsKinds
<1>5. /\ new.kind = "save" /\ new.conv = active /\ new.stage = "global" /\ new.meta = metaDraft
      /\ new.metaSent = (Current # None /\ metaDraft # Current.meta)
      /\ new.previousGlobal = global /\ new.previousRow = Current
      /\ new.was[1] = storedGlobal /\ (active # None => new.was[2] = stored[active])
      /\ new.sure = (/\ known /\ Kind("global") = {}
                     /\ Current # None => Current.meta = stored[active].meta)
      /\ new.phase = "sent" /\ new.lost = FALSE /\ new.alone = (Writes = {})
      /\ calls' = {Touched(d, "save") : d \in calls} \cup {new}
  <2>1. \A x \in DOMAIN request : new[x] = request[x]
    BY <1>4 DEF Begun
  <2>2. /\ new.phase = "sent" /\ new.lost = FALSE /\ new.alone = (Writes = {})
        /\ calls' = {Touched(d, "save") : d \in calls} \cup {new}
    BY <1>2, <1>4 DEF Begun
  <2>3. /\ new.kind = "save" /\ new.conv = active /\ new.stage = "global" /\ new.meta = metaDraft
        /\ new.metaSent = (Current # None /\ metaDraft # Current.meta)
        /\ new.previousGlobal = global /\ new.previousRow = Current
    BY <2>1, <1>2, <1>3
  <2>4. new.was = request.was /\ new.sure = request.sure
    BY <2>1, <1>3
  <2> QED BY <2>2, <2>3, <2>4, <1>3
<1>6. stored' = stored /\ storedGlobal' = storedGlobal /\ global' = global
  BY <1>1 DEF serverVars, globalVars
<1>7. ASSUME Certain(new) PROVE Uncrossed(new)' /\ StageIsPlain(new)'
  <2>1. /\ Writes = {} /\ known /\ Kind("global") = {}
        /\ Current # None => Current.meta = stored[active].meta
    BY <1>5, <1>7 DEF Certain
  <2>2. global = storedGlobal
    BY <2>1 DEF SavesInv, KnownIsStored
  <2>3. \A d \in calls : d.kind = "row"
    BY <2>1 DEF Writes, Kind
  <2>4. \A d \in calls : Touched(d, "save").kind = d.kind
    <3> SUFFICES ASSUME NEW d \in calls PROVE Touched(d, "save").kind = d.kind
      OBVIOUS
    <3>1. IsExpected(d) /\ "kind" \in DOMAIN d
      BY DEF SettingsTypes, IsExpected, IsRequest
    <3> QED BY <3>1, TouchedIs
  <2>5. Uncrossed(new)'
    BY <2>3, <2>4, <1>5 DEF Uncrossed
  <2>6. Current # None => active # None
    BY CurrentIs, SettingsAssumption DEF SettingsTypes
  <2>7. RowAsBefore(new)'
    BY <1>5, <1>6 DEF RowAsBefore
  <2>8. new.previousRow # None /\ ~new.metaSent => new.was[2].meta = new.meta
    BY <2>1, <2>6, <1>5
  <2>9. StageIsPlain(new)'
    BY <2>2, <2>7, <2>8, <1>5, <1>6 DEF StageIsPlain
  <2> QED BY <2>5, <2>9
<1> QED BY <1>1, <1>2, <1>4, <1>5, <1>6, <1>7, MoreSaves

LEMMA ToggleSaves == ASSUME SettingsTypes, SavesInv, ToggleKnowledgeSpace PROVE SavesInv'
<1>1. PICK s \in Spaces :
        /\ IF Current = None THEN UNCHANGED calls
           ELSE BeginWrite(calls, [kind |-> "toggle", conv |-> active, space |-> s,
                                   ids |-> Toggled(spacesDraft, s), previous |-> spacesDraft,
                                   version |-> versions[s] + 1])
        /\ UNCHANGED <<serverVars, globalVars, known>>
  BY DEF ToggleKnowledgeSpace
<1>2. UNCHANGED <<serverVars, global, known>>
  BY <1>1 DEF globalVars
<1>3. CASE Current = None
  BY <1>1, <1>2, <1>3, QuietSaves
<1>4. CASE Current # None
  <2> DEFINE request == [kind |-> "toggle", conv |-> active, space |-> s,
                         ids |-> Toggled(spacesDraft, s), previous |-> spacesDraft,
                         version |-> versions[s] + 1]
  <2>1. DOMAIN request \cap Stamps = {} /\ "kind" \in DOMAIN request /\ request.kind = "toggle"
    BY DEF Stamps
  <2>2. BeginWrite(calls, request)
    BY <1>1, <1>4
  <2> HIDE DEF request
  <2> QED BY <2>1, <2>2, <1>2, BeginSaves DEF SettingsKinds
<1> QED BY <1>3, <1>4

LEMMA ChangeModelSaves == ASSUME SettingsTypes, SavesInv, ChangeModel PROVE SavesInv'
<1>1. PICK m \in Values :
        /\ IF active = None THEN UNCHANGED calls
           ELSE BeginWrite(calls, [kind |-> "model", conv |-> active,
                                   settings |-> [ContextBarSettings EXCEPT !.model = m]])
        /\ UNCHANGED <<serverVars, globalVars, known>>
  BY DEF ChangeModel
<1>2. UNCHANGED <<serverVars, global, known>>
  BY <1>1 DEF globalVars
<1>3. CASE active = None
  BY <1>1, <1>2, <1>3, QuietSaves
<1>4. CASE active # None
  <2> DEFINE request == [kind |-> "model", conv |-> active,
                         settings |-> [ContextBarSettings EXCEPT !.model = m]]
  <2>1. DOMAIN request \cap Stamps = {} /\ "kind" \in DOMAIN request /\ request.kind = "model"
    BY DEF Stamps
  <2>2. BeginWrite(calls, request)
    BY <1>1, <1>4
  <2> HIDE DEF request
  <2> QED BY <2>1, <2>2, <1>2, BeginSaves DEF SettingsKinds
<1> QED BY <1>3, <1>4

LEMMA SetDefaultModelSaves == ASSUME SettingsTypes, SavesInv, SetDefaultModel PROVE SavesInv'
<1> DEFINE request == [kind |-> "default", conv |-> active, home |-> active = None,
                   global |-> [globalDraft EXCEPT !.model = ContextBarSettings.model],
                   prompt |-> newPrompt, meta |-> newMeta]
<1>1. BeginWrite(calls, request) /\ UNCHANGED <<serverVars, global, known>>
  BY DEF SetDefaultModel, globalVars
<1>2. DOMAIN request \cap Stamps = {} /\ "kind" \in DOMAIN request /\ request.kind = "default"
  BY DEF Stamps
<1> HIDE DEF request
<1> QED BY <1>1, <1>2, BeginSaves DEF SettingsKinds

LEMMA NavigateSaves == ASSUME SettingsTypes, SavesInv, Navigate PROVE SavesInv'
<1>1. PICK c \in Conversations \cup {None} :
        /\ IF c = None THEN calls' = calls \ Kind("row")
           ELSE BeginWrite(calls \ Kind("row"), [kind |-> "row", conv |-> c])
        /\ UNCHANGED <<serverVars, globalVars, known>>
  BY DEF Navigate
<1>2. UNCHANGED <<serverVars, global, known>>
  BY <1>1 DEF globalVars
<1>3. CASE c = None
  <2>1. Writes' = Writes /\ calls' \subseteq calls
    BY <1>1, <1>3 DEF Writes, Kind
  <2>2. KnownIsStored'
    BY <2>1, <1>2 DEF SavesInv, KnownIsStored, serverVars
  <2> QED BY <2>1, <2>2, <1>2, FewerSaves
<1>4. CASE c # None
  <2> DEFINE request == [kind |-> "row", conv |-> c]
  <2>1. DOMAIN request \cap Stamps = {} /\ "kind" \in DOMAIN request /\ request.kind = "row"
    BY DEF Stamps
  <2>2. BeginWrite(calls \ Kind("row"), request)
    BY <1>1, <1>4
  <2> HIDE DEF request
  <2> QED BY <2>1, <2>2, <1>2, BeginSaves DEF SettingsKinds
<1> QED BY <1>3, <1>4

(* What is known stays so while what the server took is not changed.       *)
LEMMA StaysKnown ==
  ASSUME KnownIsStored, UNCHANGED <<storedGlobal, global>>,
         known' => /\ known
                   /\ \A d \in Writes : SetsGlobal(d) /\ Taken(d) =>
                        \E e \in Writes' : SetsGlobal(e) /\ Taken(e)
  PROVE  KnownIsStored'
  BY DEF KnownIsStored

LEMMA ServeSaves == ASSUME SettingsTypes, SavesInv, ServeSettings PROVE SavesInv'
<1>1. PICK c \in calls :
           /\ c.phase = "sent" /\ IsExpected(c)
           /\ \/ /\ SetsGlobal(c) /\ ~AboutRow(c)
                 /\ storedGlobal' = (IF c.kind = "save" /\ c.stage = "rollback"
                                     THEN RollbackValue(c) ELSE c.global)
                 /\ Become(c, Reply(c, storedGlobal'))
                 /\ UNCHANGED stored
              \/ /\ SetsRow(c) /\ AboutRow(c) /\ ~SetsGlobal(c) /\ c.conv \in Conversations
                 /\ stored' = Patched(c) /\ stored'[c.conv] \in CopiesOf(c.conv)
                 /\ Become(c, Reply(c, stored'[c.conv]))
                 /\ UNCHANGED storedGlobal
              \/ /\ c.kind = "global" /\ ~AboutRow(c)
                 /\ Become(c, Reply(c, storedGlobal))
                 /\ UNCHANGED <<stored, storedGlobal>>
              \/ /\ c.kind = "row" /\ AboutRow(c)
                 /\ Become(c, Reply(c, stored[c.conv]))
                 /\ UNCHANGED <<stored, storedGlobal>>
           /\ UNCHANGED <<globalVars, known>>
  BY ServeIs DEF serverVars
<1>2. PICK body : /\ Become(c, Reply(c, body))
                  /\ ~AboutRow(c) => body = storedGlobal'
  BY <1>1
<1> DEFINE new == Reply(c, body)
<1>3. /\ DOMAIN new = DOMAIN c \cup {"reply"} /\ new.phase = "answered" /\ new.reply = body
      /\ \A x \in DOMAIN c : x \notin {"phase", "reply"} => new[x] = c[x]
  <2>1. "phase" \in DOMAIN c
    BY <1>1 DEF IsExpected, IsRequest
  <2> QED BY <2>1 DEF Reply, Beside
<1>4. Become(c, new)
  BY <1>2
<1> HIDE DEF new
<1>5. /\ new.kind = c.kind /\ new.alone = c.alone /\ new.lost = c.lost
      /\ c.kind = "save" => \A x \in (SaveFields \ {"phase"}) \cup {"sure"} : new[x] = c[x]
  BY <1>1, <1>3 DEF IsExpected, IsRequest, IsBody, SaveFields
<1>6. (AboutRow(new) <=> AboutRow(c)) /\ (SetsGlobal(new) <=> SetsGlobal(c))
  BY <1>5 DEF AboutRow, SetsGlobal, SaveFields
<1>7. new.phase = "answered" /\ new.alone /\ ~AboutRow(new) => new.reply = storedGlobal'
  BY <1>2, <1>3, <1>6
<1>8. SetsGlobal(c) => c \in Writes
  BY DEF SetsGlobal, Writes
<1>9. global' = global /\ known' = known
  BY <1>1 DEF globalVars
<1>10. KnownIsStored'
  <2>1. CASE SetsGlobal(c)
    <3>1. new \in Writes' /\ SetsGlobal(new) /\ Taken(new)
      BY <2>1, <1>3, <1>4, <1>5, <1>6, <1>8 DEF Become, Writes, Taken
    <3> QED BY <3>1 DEF KnownIsStored
  <2>2. CASE ~SetsGlobal(c)
    <3>1. storedGlobal' = storedGlobal
      BY <2>2, <1>1
    <3>2. \A d \in Writes : SetsGlobal(d) => d \in Writes'
      BY <2>2, <1>4 DEF Become, Writes
    <3> QED BY <3>1, <3>2, <1>9, StaysKnown DEF SavesInv
  <2> QED BY <2>1, <2>2
<1>11. ASSUME c.kind = "save", Certain(c) PROVE StageIsPlain(new)'
  <2>1. StageIsPlain(c)
    BY <1>11 DEF SavesInv, SavesArePlain, Kind
  <2>2. /\ new.was = c.was /\ new.previousGlobal = c.previousGlobal /\ new.metaSent = c.metaSent
        /\ new.previousRow = c.previousRow /\ new.meta = c.meta /\ new.stage = c.stage
        /\ new.conv = c.conv /\ new.global = c.global /\ new.settings = c.settings
    BY <1>5, <1>11 DEF SaveFields
  <2>3. c.stage \in {"global", "conversation", "rollback"} /\ (c.stage # "global" => c.conv # None)
    BY <1>1, <1>11 DEF IsExpected, IsBody
  <2>4. CASE c.stage = "global"
    <3>1. storedGlobal' = c.global /\ stored' = stored
      BY <2>4, <1>1, <1>11 DEF SetsGlobal, SetsRow, AboutRow
    <3>2. RowAsBefore(c) => RowAsBefore(new)'
      BY <3>1, <2>2 DEF RowAsBefore
    <3> QED BY <3>1, <3>2, <2>1, <2>2, <2>4, <1>1, <1>3, <1>5, <1>9 DEF StageIsPlain
  <2>5. CASE c.stage = "conversation"
    <3>1. SetsRow(c) /\ stored' = Patched(c) /\ storedGlobal' = storedGlobal /\ c.conv \in Conversations
      BY <2>5, <1>1, <1>11 DEF SetsGlobal, SetsRow, AboutRow
    <3>2. /\ stored'[c.conv].meta = IF c.metaSent THEN c.meta ELSE stored[c.conv].meta
          /\ stored'[c.conv].settings = c.settings
      BY <3>1, <1>1, <1>11, PatchedIs DEF SettingsTypes, IsExpected, IsRequest
    <3>3. RowAsBefore(c) /\ storedGlobal = c.global
      BY <2>1, <2>5, <1>1 DEF StageIsPlain
    <3>4. stored'[c.conv].meta = IF Unsent(c) THEN c.was[2].meta ELSE c.meta
      BY <3>2, <3>3, <2>1, <2>3, <2>5 DEF RowAsBefore, StageIsPlain, Unsent
    <3>5. Stored(new)'
      BY <3>1, <3>2, <3>3, <3>4, <2>2 DEF Stored, Unsent
    <3> QED BY <3>1, <3>3, <3>5, <2>1, <2>2, <2>5, <1>1, <1>3, <1>5 DEF StageIsPlain
  <2>6. CASE c.stage = "rollback"
    <3>1. storedGlobal' = c.previousGlobal /\ stored' = stored
      BY <2>6, <1>1, <1>11 DEF SetsGlobal, SetsRow, AboutRow, RollbackValue
    <3>2. RowAsBefore(c) => RowAsBefore(new)'
      BY <3>1, <2>2 DEF RowAsBefore
    <3>3. new.reply = storedGlobal'
      BY <1>2, <1>3, <1>11, <2>6 DEF AboutRow
    <3> QED BY <3>1, <3>2, <3>3, <2>1, <2>2, <2>6, <1>1, <1>3, <1>5 DEF StageIsPlain
  <2> QED BY <2>3, <2>4, <2>5, <2>6
<1>12. c.kind = "row" => UNCHANGED <<serverVars, global>>
  BY <1>1, <1>9 DEF serverVars, SetsGlobal, SetsRow
<1>13. c.kind = "save" => new.sure = c.sure
  BY <1>5
<1>14. storedGlobal' # storedGlobal => c \in Writes
  BY <1>1, <1>8
<1> QED BY <1>4, <1>5, <1>7, <1>10, <1>11, <1>12, <1>13, <1>14, BecomeSaves

LEMMA FailSaves == ASSUME SettingsTypes, SavesInv, SettingsFail PROVE SavesInv'
<1>1. PICK c \in calls :
         /\ c.phase = "sent" \/ (c.phase = "answered" /\ c \in Writes)
         /\ Become(c, Broken(c)) /\ UNCHANGED <<serverVars, globalVars, history>>
  BY DEF SettingsFail
<1>2. IsExpected(c)
  BY DEF SettingsTypes
<1> DEFINE new == Broken(c)
<1>3. /\ DOMAIN new = DOMAIN c /\ new.phase = "failed" /\ new.lost = (c.phase # "sent")
      /\ \A x \in DOMAIN c : x \notin {"phase", "lost"} => new[x] = c[x]
  BY <1>2, FailedIs
<1>4. Become(c, new)
  BY <1>1
<1> HIDE DEF new
<1>5. /\ new.kind = c.kind /\ new.alone = c.alone
      /\ c.kind = "save" => \A x \in (SaveFields \ {"phase", "lost"}) \cup {"sure"} : new[x] = c[x]
  BY <1>2, <1>3 DEF IsExpected, IsRequest, IsBody, SaveFields
<1>6. /\ stored' = stored /\ storedGlobal' = storedGlobal /\ global' = global /\ known' = known
  BY <1>1 DEF serverVars, globalVars, history
<1>7. KnownIsStored'
  <2>1. ASSUME c \in Writes, SetsGlobal(c), Taken(c)
        PROVE  new \in Writes' /\ SetsGlobal(new) /\ Taken(new)
    <3>1. new \in Writes' /\ SetsGlobal(new)
      BY <2>1, <1>4, <1>5 DEF Become, Writes, SetsGlobal, SaveFields
    <3>2. Taken(new)
      BY <2>1, <1>1, <1>3 DEF Taken
    <3> QED BY <3>1, <3>2
  <2>2. \A d \in Writes : d # c => d \in Writes'
    BY <1>4 DEF Become, Writes
  <2> QED BY <2>1, <2>2, <1>6, StaysKnown DEF SavesInv
<1>8. ASSUME c.kind = "save", Certain(c) PROVE StageIsPlain(new)'
  <2>1. StageIsPlain(c)
    BY <1>8 DEF SavesInv, SavesArePlain, Kind
  <2>2. /\ new.was = c.was /\ new.previousGlobal = c.previousGlobal /\ new.metaSent = c.metaSent
        /\ new.previousRow = c.previousRow /\ new.meta = c.meta /\ new.stage = c.stage
        /\ new.conv = c.conv /\ new.global = c.global /\ new.settings = c.settings
    BY <1>5, <1>8 DEF SaveFields
  <2>3. RowAsBefore(c) => RowAsBefore(new)'
    BY <2>2, <1>6 DEF RowAsBefore
  <2> QED BY <2>1, <2>2, <2>3, <1>1, <1>3, <1>6 DEF StageIsPlain
<1>9. c.kind = "save" => new.sure = c.sure
  BY <1>5
<1>10. c.kind = "row" => UNCHANGED <<serverVars, global>>
  BY <1>6 DEF serverVars
<1> QED BY <1>3, <1>4, <1>5, <1>6, <1>7, <1>8, <1>9, <1>10, BecomeSaves

(* A request that sets nothing for every chat ends.                        *)
LEMMA EndsKnown ==
  ASSUME KnownIsStored, NEW c \in calls, Done(c), UNCHANGED <<storedGlobal, global>>,
         known' => known /\ ~(SetsGlobal(c) /\ Taken(c))
  PROVE  KnownIsStored'
<1>1. \A d \in Writes : d # c => d \in Writes'
  BY DEF Done, Writes
<1> QED BY <1>1, StaysKnown

LEMMA EndsSaves ==
  ASSUME SavesInv, NEW c \in calls, Done(c), UNCHANGED <<serverVars, global>>,
         known' => known /\ ~(SetsGlobal(c) /\ Taken(c))
  PROVE  SavesInv'
<1>1. KnownIsStored'
  BY EndsKnown DEF SavesInv, serverVars
<1> QED BY <1>1, FewerSaves DEF Done

(* A request about the settings of every chat ends.                        *)
LEMMA ReplacesSaves ==
  ASSUME SavesInv, NEW c \in calls, Done(c), UNCHANGED serverVars, c.kind # "row",
         c.kind = "save" => Kind("save") = {c},
         known' => c.phase = "answered" /\ c.alone /\ ~AboutRow(c) /\ global' = c.reply
  PROVE  SavesInv'
<1>1. KnownIsStored'
  BY DEF SavesInv, KnownIsStored, RepliesAreStored, serverVars
<1>2. ASSUME NEW d \in calls', d.kind = "save", Certain(d) PROVE FALSE
  <2>1. d \in Kind("save") /\ d # c
    BY <1>2 DEF Done, Kind
  <2>2. c.kind # "save"
    BY <2>1
  <2>3. Uncrossed(d)
    BY <2>1, <1>2 DEF SavesInv, SavesArePlain
  <2> QED BY <2>1, <2>2, <2>3 DEF Uncrossed
<1> QED BY <1>1, <1>2, FewerSaves DEF Done

LEMMA AnswersSaves ==
  ASSUME SettingsTypes, SavesInv,
         \/ GlobalLoaded \/ RowLoaded \/ SavedConversation \/ RolledBackSave \/ ModelChanged
         \/ DefaultModelSet \/ QuietFailure \/ SpaceToggled \/ ToggleFails
  PROVE  SavesInv'
<1>1. CASE GlobalLoaded
  <2>1. PICK c \in Answered("global") :
          ReplaceGlobal(c.reply) /\ known' = c.alone /\ Done(c) /\ UNCHANGED serverVars
    BY <1>1 DEF GlobalLoaded
  <2>2. c \in calls /\ c.kind = "global" /\ c.phase = "answered" /\ ~AboutRow(c)
    BY DEF Answered, Kind, AboutRow
  <2> QED BY <2>1, <2>2, ReplacesSaves DEF ReplaceGlobal
<1>2. CASE RowLoaded
  <2>1. PICK c \in Answered("row") : Done(c) /\ UNCHANGED <<serverVars, globalVars, history>>
    BY <1>2 DEF RowLoaded
  <2>2. c \in calls /\ ~SetsGlobal(c)
    BY DEF Answered, Kind, SetsGlobal
  <2> QED BY <2>1, <2>2, EndsSaves DEF globalVars, history
<1>3. CASE SavedConversation
  <2>1. PICK c \in Saves(Answered("save"), "conversation") :
          Done(c) /\ UNCHANGED <<serverVars, globalVars, history>>
    BY <1>3 DEF SavedConversation
  <2>2. c \in calls /\ ~SetsGlobal(c)
    BY DEF Answered, Kind, SetsGlobal, Saves
  <2> QED BY <2>1, <2>2, EndsSaves DEF globalVars, history
<1>4. CASE RolledBackSave
  <2>1. PICK c \in Saves(Answered("save") \cup Failed("save"), "rollback") :
          /\ ReplaceGlobal(IF c.phase = "answered" THEN c.reply ELSE c.previousGlobal)
          /\ known' = (c.phase = "answered" /\ c.alone) /\ Done(c) /\ UNCHANGED serverVars
    BY <1>4 DEF RolledBackSave
  <2>2. c \in calls /\ c.kind = "save" /\ ~AboutRow(c) /\ c \in Kind("save")
    BY DEF Answered, Failed, Kind, AboutRow, Saves
  <2>3. Kind("save") = {c}
    BY <2>2 DEF SettingsTypes, OneSave
  <2> QED BY <2>1, <2>2, <2>3, ReplacesSaves DEF ReplaceGlobal
<1>5. CASE ModelChanged
  <2>1. PICK c \in Answered("model") : Done(c) /\ UNCHANGED <<serverVars, globalVars, history>>
    BY <1>5 DEF ModelChanged
  <2>2. c \in calls /\ ~SetsGlobal(c)
    BY DEF Answered, Kind, SetsGlobal
  <2> QED BY <2>1, <2>2, EndsSaves DEF globalVars, history
<1>6. CASE DefaultModelSet
  <2>1. PICK c \in Answered("default") :
          ReplaceGlobal(c.reply) /\ known' = c.alone /\ Done(c) /\ UNCHANGED serverVars
    BY <1>6 DEF DefaultModelSet
  <2>2. c \in calls /\ c.kind = "default" /\ c.phase = "answered" /\ ~AboutRow(c)
    BY DEF Answered, Kind, AboutRow
  <2> QED BY <2>1, <2>2, ReplacesSaves DEF ReplaceGlobal
<1>7. CASE QuietFailure
  <2>1. PICK c \in Failed("global") \cup Failed("row") \cup Failed("model") \cup Failed("default") :
          /\ known' = (known /\ (c.kind = "default" => ~c.lost))
          /\ Done(c) /\ UNCHANGED <<serverVars, globalVars>>
    BY <1>7 DEF QuietFailure
  <2>2. c \in calls /\ c.phase = "failed" /\ c.kind \in {"global", "row", "model", "default"}
    BY DEF Failed, Kind
  <2>3. known' => known /\ ~(SetsGlobal(c) /\ Taken(c))
    BY <2>1, <2>2 DEF SetsGlobal, Taken, SettingsTypes, DialogTypes
  <2> QED BY <2>1, <2>2, <2>3, EndsSaves DEF globalVars
<1>8. CASE SpaceToggled
  <2>1. PICK c \in Answered("toggle") : Done(c) /\ UNCHANGED <<serverVars, globalVars, history>>
    BY <1>8 DEF SpaceToggled
  <2>2. c \in calls /\ ~SetsGlobal(c)
    BY DEF Answered, Kind, SetsGlobal
  <2> QED BY <2>1, <2>2, EndsSaves DEF globalVars, history
<1>9. CASE ToggleFails
  <2>1. PICK c \in Failed("toggle") : Done(c) /\ UNCHANGED <<serverVars, globalVars, known>>
    BY <1>9 DEF ToggleFails
  <2>2. c \in calls /\ ~SetsGlobal(c)
    BY DEF Failed, Kind, SetsGlobal
  <2> QED BY <2>1, <2>2, EndsSaves DEF globalVars
<1> QED BY <1>1, <1>2, <1>3, <1>4, <1>5, <1>6, <1>7, <1>8, <1>9

(* A save that is answered goes on to the settings of its conversation,    *)
LEMMA SavedGlobalSaves == ASSUME SettingsTypes, SavesInv, SavedGlobal PROVE SavesInv'
<1>1. PICK c \in Saves(Answered("save"), "global") :
        /\ ReplaceGlobal(c.reply) /\ known' = c.alone
        /\ IF c.conv = None THEN Done(c)
           ELSE Become(c, Beside([stage |-> "conversation", phase |-> "sent"], c))
        /\ UNCHANGED serverVars
  BY DEF SavedGlobal
<1>2. /\ c \in calls /\ c.kind = "save" /\ c.phase = "answered" /\ c.stage = "global"
      /\ ~AboutRow(c) /\ c \in Kind("save") /\ IsExpected(c)
  BY DEF Answered, Kind, Saves, AboutRow, SettingsTypes
<1>3. Kind("save") = {c}
  BY <1>2 DEF SettingsTypes, OneSave
<1>4. CASE c.conv = None
  BY <1>1, <1>2, <1>3, <1>4, ReplacesSaves DEF ReplaceGlobal
<1>5. CASE c.conv # None
  <2> DEFINE new == Beside([stage |-> "conversation", phase |-> "sent"], c)
  <2>1. /\ DOMAIN new = DOMAIN c /\ new.phase = "sent" /\ new.stage = "conversation"
        /\ \A x \in DOMAIN c : x \notin {"phase", "stage"} => new[x] = c[x]
    BY <1>2, <1>5, NextStageIs
  <2>2. Become(c, new)
    BY <1>1, <1>5
  <2> HIDE DEF new
  <2>3. /\ new.kind = c.kind /\ new.alone = c.alone /\ new.sure = c.sure /\ new.lost = c.lost
        /\ new.was = c.was /\ new.previousGlobal = c.previousGlobal /\ new.metaSent = c.metaSent
        /\ new.previousRow = c.previousRow /\ new.meta = c.meta
        /\ new.conv = c.conv /\ new.global = c.global /\ new.settings = c.settings
    BY <1>2, <2>1 DEF IsExpected, IsRequest, IsBody
  <2>4. stored' = stored /\ storedGlobal' = storedGlobal
    BY <1>1 DEF serverVars
  <2>5. KnownIsStored'
    BY <1>1, <1>2, <2>4 DEF SavesInv, KnownIsStored, RepliesAreStored, ReplaceGlobal
  <2>6. ASSUME Certain(c) PROVE StageIsPlain(new)'
    <3>1. StageIsPlain(c)
      BY <2>6, <1>2 DEF SavesInv, SavesArePlain
    <3>2. RowAsBefore(c) => RowAsBefore(new)'
      BY <2>3, <2>4 DEF RowAsBefore
    <3> QED BY <3>1, <3>2, <1>2, <2>1, <2>3, <2>4 DEF StageIsPlain
  <2> QED BY <1>2, <2>1, <2>2, <2>3, <2>4, <2>5, <2>6, BecomeSaves
<1> QED BY <1>4, <1>5

(* and one that fails there puts back what was.                            *)
LEMMA SaveFailsSaves == ASSUME SettingsTypes, SavesInv, SaveFails PROVE SavesInv'
<1>1. PICK c \in Failed("save") :
        /\ c.stage # "rollback"
        /\ IF c.stage = "global" THEN Done(c)
           ELSE Become(c, Beside([stage |-> "rollback", phase |-> "sent"], c))
        /\ known' = (known /\ (c.stage = "global" => ~c.lost))
        /\ UNCHANGED <<serverVars, globalVars>>
  BY DEF SaveFails
<1>2. /\ c \in calls /\ c.kind = "save" /\ c.phase = "failed" /\ c \in Kind("save")
      /\ IsExpected(c) /\ c.stage \in {"global", "conversation"}
      /\ (c.stage = "conversation" => c.conv # None)
  <2>1. c \in calls /\ c.kind = "save" /\ c.phase = "failed" /\ c \in Kind("save")
    BY DEF Failed, Kind
  <2>2. IsExpected(c)
    BY <2>1 DEF SettingsTypes
  <2> QED BY <2>1, <2>2, <1>1 DEF IsExpected, IsBody
<1>3. known \in BOOLEAN
  BY DEF SettingsTypes, DialogTypes
<1>4. CASE c.stage = "global"
  <2>1. known' => known /\ ~(SetsGlobal(c) /\ Taken(c))
    BY <1>1, <1>2, <1>3, <1>4 DEF Taken
  <2> QED BY <2>1, <1>1, <1>2, <1>4, EndsSaves DEF globalVars
<1>5. CASE c.stage = "conversation"
  <2> DEFINE new == Beside([stage |-> "rollback", phase |-> "sent"], c)
  <2>1. /\ DOMAIN new = DOMAIN c /\ new.phase = "sent" /\ new.stage = "rollback"
        /\ \A x \in DOMAIN c : x \notin {"phase", "stage"} => new[x] = c[x]
    BY <1>2, <1>5, NextStageIs
  <2>2. Become(c, new)
    BY <1>1, <1>5
  <2> HIDE DEF new
  <2>3. /\ new.kind = c.kind /\ new.alone = c.alone /\ new.sure = c.sure /\ new.lost = c.lost
        /\ new.was = c.was /\ new.previousGlobal = c.previousGlobal /\ new.metaSent = c.metaSent
        /\ new.previousRow = c.previousRow /\ new.meta = c.meta
        /\ new.conv = c.conv /\ new.global = c.global /\ new.settings = c.settings
    BY <1>2, <2>1 DEF IsExpected, IsRequest, IsBody
  <2>4. stored' = stored /\ storedGlobal' = storedGlobal /\ global' = global
    BY <1>1 DEF serverVars, globalVars
  <2>5. KnownIsStored'
    <3>1. ~SetsGlobal(c)
      BY <1>2, <1>5 DEF SetsGlobal
    <3>2. \A d \in Writes : SetsGlobal(d) => d \in Writes'
      BY <2>2, <3>1 DEF Become, Writes
    <3>3. known' => known
      BY <1>1, <1>3
    <3> QED BY <2>4, <3>2, <3>3, StaysKnown DEF SavesInv
  <2>6. ASSUME Certain(c) PROVE StageIsPlain(new)'
    <3>1. StageIsPlain(c)
      BY <2>6, <1>2 DEF SavesInv, SavesArePlain
    <3>2. RowAsBefore(c) => RowAsBefore(new)'
      BY <2>3, <2>4 DEF RowAsBefore
    <3> QED BY <3>1, <3>2, <1>2, <1>5, <2>1, <2>3, <2>4 DEF StageIsPlain
  <2> QED BY <1>2, <2>1, <2>2, <2>3, <2>4, <2>5, <2>6, BecomeSaves
<1> QED BY <1>2, <1>4, <1>5

(* The start: nothing is saved yet.                                        *)
LEMMA SavesStart == ASSUME SettingsStart, calls = SettingsFirst PROVE SavesInv
<1> DEFINE c == Request(0, [kind |-> "global", alone |-> TRUE, followed |-> FALSE, overlap |-> FALSE])
<1>1. calls = {c} /\ c.kind = "global" /\ c.phase = "sent"
  BY DEF SettingsFirst, Request, Beside
<1>2. ~known
  BY DEF SettingsStart
<1> HIDE DEF c
<1> QED BY <1>1, <1>2 DEF SavesInv, AloneAre, RepliesAreStored, KnownIsStored, SavesArePlain,
                         Writes, Kind

(* The start has the types,                                                *)
LEMMA TypesStart ==
  ASSUME SettingsStart, calls = SettingsFirst, acts \in 0 .. MaxActs
  PROVE  SettingsTypes
<1> DEFINE c == Request(0, [kind |-> "global", alone |-> TRUE, followed |-> FALSE, overlap |-> FALSE])
<1>1. /\ calls = {c} /\ c.kind = "global" /\ c.phase = "sent" /\ c.lost = FALSE
      /\ c.alone = TRUE /\ c.followed = FALSE /\ c.overlap = FALSE
      /\ {"n", "phase", "lost", "kind", "alone", "followed", "overlap"} \subseteq DOMAIN c
  BY DEF SettingsFirst, Request, Beside
<1> HIDE DEF c
<1>2. IsExpected(c)
  BY <1>1 DEF IsExpected, IsRequest, IsBody, IsAnswer, SettingsKinds
<1>3. Kind("save") = {} /\ Kind("toggle") = {}
  BY <1>1 DEF Kind
<1>4. <<>> \in Lists
  BY DEF Lists, IsInjective
<1>5. 0 \in Values /\ NoSettings \in Settings /\ DefaultChatSettings \in GlobalSettings
      /\ [model |-> 0, number |-> 1] \in GlobalSettings
  BY DEF Values, NoSettings, Settings, DefaultChatSettings, GlobalSettings
<1>6. \A b \in Conversations : NewRow(b) \in CopiesOf(b)
  BY <1>4, <1>5 DEF NewRow, CopiesOf
<1>7. StoredTypes
  BY <1>5, <1>6 DEF SettingsStart, StoredTypes, IsMapOfRows
<1>8. RowTypes
  BY <1>6, SettingsAssumption DEF SettingsStart, RowTypes, IsMapOfRows, Home
<1>9. GlobalTypes
  BY <1>5 DEF SettingsStart, GlobalTypes
<1>10. DraftTypes
  BY <1>4, <1>5 DEF SettingsStart, DraftTypes, Home
<1>11. SwitchTypes /\ Blocked
  BY DEF SettingsStart, SwitchTypes, Blocked
<1>12. DialogTypes
  BY DEF SettingsStart, DialogTypes
<1>13. OneSave
  BY <1>3 DEF SettingsStart, OneSave
<1>14. Counted
  BY <1>3, ActsAssumption DEF Counted
<1> QED BY <1>1, <1>2, <1>7, <1>8, <1>9, <1>10, <1>11, <1>12, <1>13, <1>14 DEF SettingsTypes

(* and every step keeps them.                                              *)
LEMMA TypesStep ==
  ASSUME SettingsTypes, SettingsNext
  PROVE  SettingsTypes'
<1>1. CASE SettingsActs
  BY <1>1, OpenSettingsTypes, ResetSettingsTypes, CloseSettingsTypes, EditTypes, ToggleTypes,
     SaveTypes, ChangeModelTypes, SetDefaultModelTypes, NavigateTypes DEF SettingsActs
<1>2. CASE ~SettingsActs
  BY <1>2, ServeTypes, FailTypes, GlobalLoadedTypes, RowLoadedTypes, SavedGlobalTypes,
     SavedConversationTypes, SaveFailsTypes, RolledBackSaveTypes, ModelChangedTypes,
     DefaultModelSetTypes, QuietFailureTypes, SpaceToggledTypes, ToggleFailsTypes
     DEF SettingsNext
<1> QED BY <1>1, <1>2

LEMMA SavesStep ==
  ASSUME SettingsTypes, SavesInv, SettingsNext
  PROVE  SavesInv'
<1>1. CASE OpenSettings \/ ResetSettings \/ CloseSettings \/ Edit
  BY <1>1, QuietSaves DEF OpenSettings, ResetSettings, CloseSettings, Edit, globalVars, history
<1>2. CASE ToggleKnowledgeSpace \/ SaveSettings \/ ChangeModel \/ SetDefaultModel \/ Navigate
  BY <1>2, ToggleSaves, SaveSaves, ChangeModelSaves, SetDefaultModelSaves, NavigateSaves
<1>3. CASE ServeSettings \/ SettingsFail \/ SavedGlobal \/ SaveFails
  BY <1>3, ServeSaves, FailSaves, SavedGlobalSaves, SaveFailsSaves
<1>4. CASE \/ GlobalLoaded \/ RowLoaded \/ SavedConversation \/ RolledBackSave \/ ModelChanged
           \/ DefaultModelSet \/ QuietFailure \/ SpaceToggled \/ ToggleFails
  BY <1>4, AnswersSaves
<1> QED BY <1>1, <1>2, <1>3, <1>4 DEF SettingsNext, SettingsActs

(* A save ends with the step that says so.                                 *)
Finished(c) ==
  \/ c.stage = "global" /\ c.phase = "answered" /\ c.conv = None /\ ~isOpen'
  \/ c.stage = "conversation" /\ c.phase = "answered" /\ ~isOpen'
  \/ c.stage = "global" /\ c.phase = "failed" /\ global' = global
  \/ c.stage = "rollback" /\ c.phase = "failed"
  \/ c.stage = "rollback" /\ c.phase = "answered" /\ global' = c.reply

LEMMA EndOfSave ==
  ASSUME SettingsTypes, SettingsNext, NEW c \in Kind("save"), Ends(c)
  PROVE  Finished(c)
<1>1. c \in calls /\ c.kind = "save" /\ IsExpected(c) /\ IsRequest(c)
  BY DEF Kind, SettingsTypes, IsExpected
<1>2. c \notin calls'
  BY DEF Ends
<1>3. ASSUME NEW others \in SUBSET calls, NEW request, BeginWrite(others, request),
             Kind("save") \subseteq others
      PROVE  FALSE
  <2> DEFINE e == [c EXCEPT !.alone = @ /\ ~(request.kind # "row"),
                            !.followed = @ \/ request.kind = "toggle"]
  <2>1. e \in calls'
    BY <1>3 DEF BeginWrite
  <2>2. e.kind = c.kind /\ e.n = c.n
    BY <1>1 DEF IsRequest
  <2> QED BY <2>1, <2>2 DEF Ends
<1>4. ASSUME NEW d \in calls, NEW new, Become(d, new), d = c => new.kind = c.kind /\ new.n = c.n
      PROVE  FALSE
  BY <1>1, <1>2, <1>4 DEF Become, Ends
<1>5. ASSUME NEW d \in calls, Done(d) PROVE d = c
  BY <1>1, <1>2, <1>5 DEF Done
<1>6. CASE OpenSettings \/ ResetSettings \/ CloseSettings \/ Edit
  BY <1>1, <1>2, <1>6 DEF OpenSettings, ResetSettings, CloseSettings, Edit
<1>7. CASE ToggleKnowledgeSpace \/ SaveSettings \/ ChangeModel \/ SetDefaultModel
  <2>1. calls' = calls \/ \E request : BeginWrite(calls, request)
    BY <1>7 DEF ToggleKnowledgeSpace, SaveSettings, ChangeModel, SetDefaultModel
  <2>2. Kind("save") \subseteq calls
    BY DEF Kind
  <2> QED BY <2>1, <2>2, <1>1, <1>2, <1>3
<1>8. CASE Navigate
  <2>1. \/ calls' = calls \ Kind("row")
        \/ \E request : BeginWrite(calls \ Kind("row"), request)
    BY <1>8 DEF Navigate
  <2>2. Kind("save") \subseteq calls \ Kind("row")
    BY DEF Kind
  <2> QED BY <2>1, <2>2, <1>1, <1>2, <1>3
<1>9. CASE ServeSettings
  <2>1. PICK d \in calls : \E body : Become(d, Reply(d, body))
    BY <1>9, ServeIs
  <2>3. PICK body : Become(d, Reply(d, body))
    BY <2>1
  <2>2. d = c => Reply(d, body).kind = c.kind /\ Reply(d, body).n = c.n
    BY <1>1 DEF Reply, Beside, IsRequest
  <2> QED BY <2>3, <2>2, <1>4
<1>10. CASE SettingsFail
  <2>1. PICK d \in calls : Become(d, Broken(d))
    BY <1>10 DEF SettingsFail
  <2>2. d = c => Broken(d).kind = c.kind /\ Broken(d).n = c.n
    BY <1>1 DEF Broken, Beside, IsRequest
  <2> QED BY <2>1, <2>2, <1>4
<1>11. ASSUME NEW d \in calls, NEW stage, Become(d, Beside([stage |-> stage, phase |-> "sent"], d))
       PROVE  FALSE
  <2>1. d = c => /\ Beside([stage |-> stage, phase |-> "sent"], d).kind = c.kind
                 /\ Beside([stage |-> stage, phase |-> "sent"], d).n = c.n
    BY <1>1 DEF Beside, IsRequest
  <2> QED BY <2>1, <1>4, <1>11
<1>12. CASE SavedGlobal
  <2>1. PICK d \in Saves(Answered("save"), "global") :
        IF d.conv = None THEN isOpen' = FALSE /\ Done(d)
        ELSE Become(d, Beside([stage |-> "conversation", phase |-> "sent"], d))
    BY <1>12 DEF SavedGlobal
  <2>2. d \in calls /\ d.stage = "global" /\ d.phase = "answered"
    BY DEF Saves, Answered, Kind
  <2> QED BY <2>1, <2>2, <1>5, <1>11 DEF Finished
<1>13. CASE SaveFails
  <2>1. PICK d \in Failed("save") :
        /\ d.stage # "rollback"
        /\ IF d.stage = "global" THEN Done(d)
           ELSE Become(d, Beside([stage |-> "rollback", phase |-> "sent"], d))
        /\ UNCHANGED globalVars
    BY <1>13 DEF SaveFails
  <2>2. d \in calls /\ d.phase = "failed"
    BY DEF Failed, Kind
  <2> QED BY <2>1, <2>2, <1>5, <1>11 DEF Finished, globalVars
<1>14. CASE SavedConversation
  <2>1. PICK d \in Saves(Answered("save"), "conversation") : isOpen' = FALSE /\ Done(d)
    BY <1>14 DEF SavedConversation
  <2>2. d \in calls /\ d.stage = "conversation" /\ d.phase = "answered"
    BY DEF Saves, Answered, Kind
  <2> QED BY <2>1, <2>2, <1>5 DEF Finished
<1>15. CASE RolledBackSave
  <2>1. PICK d \in Saves(Answered("save") \cup Failed("save"), "rollback") :
          /\ ReplaceGlobal(IF d.phase = "answered" THEN d.reply ELSE d.previousGlobal) /\ Done(d)
    BY <1>15 DEF RolledBackSave
  <2>2. d \in calls /\ d.stage = "rollback" /\ d.phase \in {"answered", "failed"}
    BY DEF Saves, Answered, Failed, Kind
  <2> QED BY <2>1, <2>2, <1>5 DEF Finished, ReplaceGlobal
<1>16. CASE \/ GlobalLoaded \/ RowLoaded \/ ModelChanged \/ DefaultModelSet \/ QuietFailure
            \/ SpaceToggled \/ ToggleFails
  <2>1. PICK d \in calls : d.kind # "save" /\ Done(d)
    BY <1>16 DEF GlobalLoaded, RowLoaded, ModelChanged, DefaultModelSet, QuietFailure,
                 SpaceToggled, ToggleFails, Answered, Failed, Kind
  <2> QED BY <2>1, <1>1, <1>5
<1> QED BY <1>6, <1>7, <1>8, <1>9, <1>10, <1>12, <1>13, <1>14, <1>15, <1>16
        DEF SettingsNext, SettingsActs

LEMMA SavesAreWholeStep ==
  ASSUME SettingsTypes, SavesInv, SettingsNext, NEW c \in Kind("save"),
         Ends(c), c.alone, c.sure, ~c.lost, ~(c.stage = "rollback" /\ c.phase = "failed")
  PROVE  IF isOpen' = isOpen /\ isOpen THEN AsBefore(c) ELSE Stored(c) \/ AsBefore(c)
<1>1. StageIsPlain(c)
  BY DEF SavesInv, SavesArePlain, Certain
<1>2. Finished(c)
  BY EndOfSave
<1>3. CASE c.stage = "global" /\ c.phase = "answered" /\ c.conv = None /\ ~isOpen'
  BY <1>1, <1>3 DEF StageIsPlain, Stored
<1>4. CASE c.stage = "conversation" /\ c.phase = "answered" /\ ~isOpen'
  BY <1>1, <1>4 DEF StageIsPlain
<1>5. CASE c.stage = "global" /\ c.phase = "failed" /\ global' = global
  BY <1>1, <1>5 DEF StageIsPlain, AsBefore, RowAsBefore
<1>6. CASE c.stage = "rollback" /\ c.phase = "answered" /\ global' = c.reply
  BY <1>1, <1>6 DEF StageIsPlain, AsBefore, RowAsBefore
<1> QED BY <1>2, <1>3, <1>4, <1>5, <1>6 DEF Finished

-----------------------------------------------------------------------------
(* Switches of spaces.                                                     *)

Switches == Kind("toggle")
SentSwitches == {t \in Switches : t.phase = "sent"}
FailedSwitches == Failed("toggle")
Pending(t) == t.phase \in {"sent", "failed"}

(* Once these requests are served in their order, a server that stores ids *)
(* stores v.                                                               *)
Expects(ids, S, v) ==
  /\ S = {} => ids = v
  /\ \A m \in S : (\A d \in S : d.n <= m.n) => m.ids = v

(* A switch that failed in a way the tab cannot undo.                      *)
Doomed == \E t \in FailedSwitches : t.lost \/ t.followed

SwitchesApart ==
  Switches # {} => /\ active \in Conversations \ Hidden /\ spacesOf \in {None, active}
                   /\ \A c \in calls : c.kind \in {"toggle", "global"}
                   /\ \A t \in Switches : t.conv = active
SwitchesLatest ==
  /\ \A t \in Switches : counts[t.space] = 1 /\ versions[t.space] = t.version
  /\ \A t, u \in Switches : t.space = u.space => t = u
SwitchesOrdered ==
  /\ \A t, u \in Switches : t.n = u.n => t = u
  /\ \A t, u \in Switches : t.n < u.n => t.followed /\ u.overlap
  /\ \A t \in Switches, u \in SentSwitches : t.phase = "answered" => t.n < u.n
LastIsShown == \A t \in Switches : ~t.followed => spacesDraft = t.ids
DraftIsExpected ==
  (Switches # {} /\ spacesOf = active /\ ~Doomed) =>
    /\ FailedSwitches = {} => Expects(stored[active].spaces, SentSwitches, spacesDraft)
    /\ \A f \in FailedSwitches : Expects(stored[active].spaces, SentSwitches, f.previous)
    /\ \A t \in SentSwitches :
         ~t.followed => Expects(stored[active].spaces, SentSwitches \ {t}, t.previous)
FollowedHasNext ==
  (~behind /\ ~Doomed) =>
    \A u \in SentSwitches : u.followed => \E v \in Switches : u.n < v.n /\ Pending(v)
ListWillAgree ==
  (Switches # {} /\ ~behind /\ ~Doomed) =>
    \/ /\ listed[active].spaces = stored[active].spaces
       /\ SentSwitches = {} /\ FailedSwitches = {} => spacesDraft = stored[active].spaces
    \/ \E u \in Switches : u.overlap /\ Pending(u)
    \/ \E t \in Switches : /\ t.phase = "answered" /\ t.ids = stored[active].spaces
                           /\ SentSwitches = {} /\ FailedSwitches = {} => spacesDraft = t.ids
DraftAgrees == (Switches = {} /\ spacesOf # None) => spacesDraft = stored[spacesOf].spaces
ListAgrees ==
  ~behind => \A b \in Conversations \ Hidden :
               Switches = {} \/ b # active => listed[b].spaces = stored[b].spaces

(* What a request says of spaces besides.                                  *)
Tells(c) ==
  /\ c.phase = "answered" /\ AboutRow(c) /\ c.kind # "toggle"
       => c.reply.spaces = stored[c.conv].spaces
  /\ c.kind = "save" /\ c.previousRow # None /\ ~behind
       => c.previousRow.spaces = stored[c.conv].spaces
AnswersAgree == \A c \in calls : Tells(c)

SwitchesInv ==
  /\ SwitchesApart /\ SwitchesLatest /\ SwitchesOrdered /\ LastIsShown
  /\ DraftIsExpected /\ FollowedHasNext /\ ListWillAgree
SpacesInv == ~unsure => SwitchesInv /\ DraftAgrees /\ ListAgrees /\ AnswersAgree

(* A switch that is undone at once leaves the list as it was.              *)
LEMMA ToggleUndone ==
  ASSUME NEW previous \in Lists, NEW s \in Spaces
  PROVE  RolledBack(Toggled(previous, s), previous, s) = previous
<1>1. /\ previous \in Seq(Spaces) /\ DOMAIN previous = 1 .. Len(previous)
      /\ Len(previous) \in Nat
      /\ \A a, b \in 1 .. Len(previous) : previous[a] = previous[b] => a = b
  BY DEF Lists, IsInjective
<1>2. CASE s \notin ToSet(previous)
  <2> DEFINE ids == Append(previous, s)
  <2>1. /\ ids \in Lists /\ Len(ids) = Len(previous) + 1 /\ ids[Len(previous) + 1] = s
        /\ \A i \in 1 .. Len(previous) : ids[i] = previous[i]
    BY <1>2, AppendIs
  <2> HIDE DEF ids
  <2>2. /\ Len(previous) + 1 \in DOMAIN ids /\ ids \in Seq(Spaces)
    BY <2>1, <1>1 DEF Lists
  <2>3. /\ Without(ids, s) \in Lists /\ Len(Without(ids, s)) = Len(ids) - 1
        /\ \A j \in 1 .. Len(ids) - 1 :
             Without(ids, s)[j] = IF j < Len(previous) + 1 THEN ids[j] ELSE ids[j + 1]
    <3> DEFINE last == Len(previous) + 1
    <3> HIDE DEF last
    <3>1. ids[last] = s /\ last \in DOMAIN ids
      BY <2>1, <2>2 DEF last
    <3>2. LET rest == Without(ids, ids[last])
          IN  /\ rest \in Lists /\ Len(rest) = Len(ids) - 1
              /\ \A j \in 1 .. Len(ids) - 1 : rest[j] = IF j < last THEN ids[j] ELSE ids[j + 1]
      BY <3>1, <2>1, WithoutIs
    <3> QED BY <3>1, <3>2 DEF last
  <2>4. Without(ids, s) = previous
    <3>1. Without(ids, s) \in Seq(Spaces)
      BY <2>3 DEF Lists
    <3> QED BY <3>1, <2>1, <2>3, <1>1, SeqEqual
  <2>5. Toggled(previous, s) = ids
    BY <1>2 DEF Toggled, ids
  <2> QED BY <2>4, <2>5, <1>2 DEF RolledBack
<1>3. CASE s \in ToSet(previous)
  <2>1. PICK p \in 1 .. Len(previous) : s = previous[p]
    BY <1>1, <1>3 DEF ToSet
  <2> DEFINE ids == Without(previous, s)
  <2>2. /\ ids \in Lists /\ Len(ids) = Len(previous) - 1
        /\ \A j \in 1 .. Len(previous) - 1 :
             ids[j] = IF j < p THEN previous[j] ELSE previous[j + 1]
    <3>1. p \in DOMAIN previous
      BY <1>1
    <3>2. LET rest == Without(previous, previous[p])
          IN  /\ rest \in Lists /\ Len(rest) = Len(previous) - 1
              /\ \A j \in 1 .. Len(previous) - 1 :
                   rest[j] = IF j < p THEN previous[j] ELSE previous[j + 1]
      BY <3>1, WithoutIs
    <3> QED BY <2>1, <3>2
  <2> HIDE DEF ids
  <2>3. Toggled(previous, s) = ids
    BY <1>3 DEF Toggled, ids
  <2>4. DOMAIN ids = 1 .. Len(previous) - 1 /\ ids \in Seq(Spaces)
    BY <2>2 DEF Lists
  <2>5. s \notin ToSet(ids)
    BY <2>1, <2>2, <2>4, <1>1 DEF ToSet
  <2> DEFINE before == {j \in DOMAIN previous : /\ previous[j] \in ToSet(ids)
                                                /\ s \notin {previous[k] : k \in 1 .. j}}
             place == IF before = {} THEN 0
                      ELSE CHOOSE i \in DOMAIN ids : ids[i] = previous[Max(before)]
  <2>6. before = 1 .. p - 1
    <3>1. \A j \in 1 .. Len(previous) : s \notin {previous[k] : k \in 1 .. j} <=> j < p
      BY <1>1, <2>1
    <3>2. ASSUME NEW j \in 1 .. Len(previous), j < p
          PROVE  previous[j] \in ToSet(ids)
      <4>1. j \in DOMAIN ids /\ ids[j] = previous[j]
        BY <3>2, <2>1, <2>2, <2>4, <1>1
      <4> QED BY <4>1 DEF ToSet
    <3>3. \A j \in 1 .. p - 1 : j \in 1 .. Len(previous) /\ j < p
      BY <2>1, <1>1
    <3>4. \A j \in 1 .. Len(previous) : j < p => j \in 1 .. p - 1
      BY <2>1, <1>1
    <3> QED BY <3>1, <3>2, <3>3, <3>4, <1>1
  <2>8. place = p - 1
    <3> HIDE DEF before
    <3>1. CASE p = 1
      BY <2>6, <3>1
    <3>2. CASE p # 1
      <4>0. p - 1 \in 1 .. p - 1
        BY <3>2, <2>1, <1>1
      <4>1. before # {} /\ before \in SUBSET (0 .. Len(previous))
        <5>1. before # {}
          BY <4>0, <2>6
        <5>2. \A j \in 1 .. p - 1 : j \in 0 .. Len(previous)
          BY <2>1, <1>1
        <5> QED BY <5>1, <5>2, <2>6
      <4>2. Max(before) \in before /\ \A x \in before : x <= Max(before)
        BY <4>1, <1>1, MaxIs
      <4>3. p - 1 \in before
        BY <3>2, <2>1, <2>6, <1>1
      <4>4. Max(before) = p - 1
        <5>1. p - 1 <= Max(before) /\ Max(before) \in 1 .. p - 1
          BY <4>2, <4>3, <2>6
        <5> QED BY <5>1, <2>1, <1>1
      <4>5. p - 1 \in DOMAIN ids /\ ids[p - 1] = previous[p - 1]
        BY <3>2, <2>1, <2>2, <2>4, <1>1
      <4>6. \A i \in DOMAIN ids : ids[i] = ids[p - 1] => i = p - 1
        BY <4>5, <2>2 DEF Lists, IsInjective
      <4>7. (CHOOSE i \in DOMAIN ids : ids[i] = previous[p - 1]) = p - 1
        BY <4>5, <4>6
      <4> QED BY <4>1, <4>4, <4>7
    <3> QED BY <3>1, <3>2
  <2>9. RolledBack(ids, previous, s) =
          SubSeq(ids, 1, place) \o <<s>> \o SubSeq(ids, place + 1, Len(ids))
    BY <1>3, <2>5 DEF RolledBack, Reinserted
  <2> HIDE DEF place
  <2> DEFINE whole == SubSeq(ids, 1, p - 1) \o <<s>> \o SubSeq(ids, p - 1 + 1, Len(ids))
  <2>10. /\ whole \in Lists /\ Len(whole) = Len(ids) + 1
         /\ \A i \in 1 .. Len(ids) + 1 :
              whole[i] = IF i <= p - 1 THEN ids[i] ELSE IF i = p - 1 + 1 THEN s ELSE ids[i - 1]
    <3>1. p - 1 \in 0 .. Len(ids)
      BY <2>1, <2>2, <1>1
    <3> QED BY <3>1, <2>2, <2>5, InsertIs
  <2>11. RolledBack(ids, previous, s) = whole
    BY <2>8, <2>9
  <2> HIDE DEF whole
  <2>12. whole = previous
    <3>1. whole \in Seq(Spaces) /\ Len(whole) = Len(previous)
      BY <2>10, <2>2, <1>1 DEF Lists
    <3>2. ASSUME NEW i \in 1 .. Len(previous)
          PROVE  whole[i] = previous[i]
      <4>1. whole[i] = IF i <= p - 1 THEN ids[i] ELSE IF i = p - 1 + 1 THEN s ELSE ids[i - 1]
        BY <2>10, <2>2, <1>1
      <4>2. CASE i < p
        BY <4>1, <4>2, <2>1, <2>2, <1>1
      <4>3. CASE i = p
        BY <4>1, <4>3, <2>1, <1>1
      <4>4. CASE p < i
        <5>1. i - 1 \in 1 .. Len(previous) - 1 /\ ~(i - 1 < p) /\ (i - 1) + 1 = i
          BY <4>4, <2>1, <1>1
        <5>2. ids[i - 1] = previous[i]
          BY <5>1, <2>2
        <5> QED BY <4>1, <4>4, <5>2, <2>1, <1>1
      <4> QED BY <4>2, <4>3, <4>4, <2>1, <1>1
    <3> QED BY <3>1, <3>2, <1>1, SeqEqual
  <2> QED BY <2>3, <2>11, <2>12
<1> QED BY <1>2, <1>3

(* While no space is switched there is nothing to say of switches.         *)
LEMMA NoSwitchesKeeps ==
  ASSUME Switches = {} PROVE SwitchesInv
<1>1. SentSwitches = {} /\ FailedSwitches = {}
  BY DEF SentSwitches, FailedSwitches, Failed, Switches
<1> QED BY <1>1 DEF SwitchesInv, SwitchesApart, SwitchesLatest, SwitchesOrdered, LastIsShown,
                   DraftIsExpected, FollowedHasNext, ListWillAgree

(* The spaces of every row and of what is shown stay.                      *)
LEMMA SettledKeeps ==
  ASSUME SpacesInv, ~unsure, Switches = {}, Switches' = {}, behind' = behind,
         \A b \in Conversations : stored'[b].spaces = stored[b].spaces,
         spacesOf' # None => spacesDraft' = stored'[spacesOf'].spaces,
         \A b \in Conversations \ Hidden :
           ~behind => listed'[b].spaces \in {listed[b].spaces, stored[b].spaces},
         AnswersAgree'
  PROVE  SpacesInv'
<1>1. SwitchesInv'
  <2>1. (Switches = {} => SwitchesInv)'
    BY NoSwitchesKeeps, PTL
  <2> QED BY <2>1
<1>2. ListAgrees'
  BY DEF SpacesInv, ListAgrees
<1>3. DraftAgrees'
  BY DEF DraftAgrees
<1> QED BY <1>1, <1>2, <1>3 DEF SpacesInv

(* Nothing happens to switches, drafts or rows.                            *)
SpacesRest ==
  UNCHANGED <<stored, active, listed, spacesDraft, spacesOf, versions, counts, behind, unsure>>

LEMMA QuietSpaces ==
  ASSUME SpacesInv, SpacesRest, Switches' = Switches, AnswersAgree',
         Switches # {} => \A c \in calls' : c.kind \in {"toggle", "global"}
  PROVE  SpacesInv'
<1> SUFFICES ASSUME ~unsure PROVE SpacesInv'
  BY DEF SpacesInv, SpacesRest
<1>1. SentSwitches' = SentSwitches /\ FailedSwitches' = FailedSwitches
  <2>1. SentSwitches' = {t \in Switches' : t.phase = "sent"} /\ FailedSwitches' = {t \in Switches' : t.phase = "failed"}
    BY DEF SentSwitches, FailedSwitches, Failed, Switches, Kind
  <2>2. FailedSwitches = {t \in Switches : t.phase = "failed"}
    BY DEF FailedSwitches, Failed, Switches, Kind
  <2> QED BY <2>1, <2>2 DEF SentSwitches
<1>2. UNCHANGED <<stored, active, listed, spacesDraft, spacesOf, versions, counts, behind>>
  BY DEF SpacesRest
<1>3. SwitchesApart' /\ SwitchesLatest' /\ SwitchesOrdered' /\ LastIsShown'
  BY <1>1, <1>2
     DEF SpacesInv, SwitchesInv, SwitchesApart, SwitchesLatest, SwitchesOrdered, LastIsShown
<1>4. Doomed' = Doomed
  BY <1>1 DEF Doomed
<1>6. DraftIsExpected'
  BY <1>1, <1>2, <1>4 DEF SpacesInv, SwitchesInv, DraftIsExpected
<1>7. FollowedHasNext' /\ ListWillAgree'
  BY <1>1, <1>2, <1>4 DEF SpacesInv, SwitchesInv, FollowedHasNext, ListWillAgree, Pending
<1>8. DraftAgrees' /\ ListAgrees'
  BY <1>2 DEF SpacesInv, DraftAgrees, ListAgrees
<1> QED BY <1>3, <1>6, <1>7, <1>8 DEF SpacesInv, SwitchesInv

(* A request that is still what it was tells what it told.                 *)
LEMMA StillTells ==
  ASSUME NEW c, IsExpected(c), Tells(c), NEW e,
         e.kind = c.kind, e.phase \in {c.phase, "failed", "sent"}, AboutRow(e) <=> AboutRow(c),
         c.phase = "answered" /\ AboutRow(c) /\ e.phase = "answered" => e.reply = c.reply /\ e.conv = c.conv,
         c.kind = "save" => e.conv = c.conv /\ e.previousRow = c.previousRow,
         behind => behind',
         \A b \in Conversations : stored'[b].spaces = stored[b].spaces
  PROVE  Tells(e)'
<1>1. AboutRow(c) => c.conv \in Conversations
  BY SettingsAssumption DEF IsExpected, IsRequest, IsBody, AboutRow, Home
<1>2. c.kind = "save" /\ c.previousRow # None => c.conv \in Conversations
  BY SettingsAssumption DEF IsExpected, IsBody, Home
<1>3. (e.phase = "answered" /\ AboutRow(e) /\ e.kind # "toggle") => e.reply.spaces = stored'[e.conv].spaces
  <2> SUFFICES ASSUME e.phase = "answered", AboutRow(e), e.kind # "toggle"
               PROVE  e.reply.spaces = stored'[e.conv].spaces
    OBVIOUS
  <2>1. c.phase = "answered"
    OBVIOUS
  <2> QED BY <2>1, <1>1 DEF Tells
<1>4. e.kind = "save" /\ e.previousRow # None /\ ~behind' => e.previousRow.spaces = stored'[e.conv].spaces
  BY <1>2 DEF Tells
<1>5. AboutRow(e)' = AboutRow(e)
  BY DEF AboutRow
<1> QED BY <1>3, <1>4, <1>5 DEF Tells

(* So the requests that stay tell it,                                      *)
LEMMA RestTells ==
  ASSUME SettingsTypes, AnswersAgree, behind => behind',
         \A b \in Conversations : stored'[b].spaces = stored[b].spaces, NEW c \in calls
  PROVE  Tells(c)'
  BY StillTells DEF SettingsTypes, AnswersAgree

(* also beside one that begins.                                            *)
LEMMA TouchedTells ==
  ASSUME SettingsTypes, AnswersAgree, behind => behind',
         \A b \in Conversations : stored'[b].spaces = stored[b].spaces, NEW c \in calls, NEW kind
  PROVE  Tells(Touched(c, kind))'
<1> DEFINE e == Touched(c, kind)
<1>1. /\ IsExpected(c) /\ Tells(c) /\ IsExpected(e) /\ DOMAIN e = DOMAIN c
      /\ \A x \in DOMAIN c : x \notin {"alone", "followed"} => e[x] = c[x]
  BY TouchedIs DEF SettingsTypes, AnswersAgree
<1> HIDE DEF e
<1>2. {"kind", "phase"} \subseteq DOMAIN c
  BY <1>1 DEF IsExpected, IsRequest
<1>3. e.kind = c.kind /\ e.phase = c.phase
  BY <1>1, <1>2
<1>4. c.kind = "save" => e.conv = c.conv /\ e.previousRow = c.previousRow /\ e.stage = c.stage
  BY <1>1 DEF IsExpected, IsBody
<1>5. AboutRow(e) <=> AboutRow(c)
  BY <1>3, <1>4 DEF AboutRow
<1>6. c.phase = "answered" /\ AboutRow(c) => e.reply = c.reply /\ e.conv = c.conv
  BY <1>1 DEF IsExpected, IsBody, IsAnswer, AboutRow
<1>7. Tells(e)'
  BY <1>1, <1>3, <1>4, <1>5, <1>6, StillTells
<1> QED BY <1>7 DEF e

-----------------------------------------------------------------------------
(* What the user does.                                                     *)

(* A request about anything but switches begins.                           *)
LEMMA BeginSpaces ==
  ASSUME SettingsTypes, SpacesInv, ~unsure', NEW others \in SUBSET calls, Kind("toggle") \subseteq others,
         NEW request, "kind" \in DOMAIN request, DOMAIN request \cap Stamps = {},
         request.kind \in SettingsKinds \ {"global", "toggle"}, BeginWrite(others, request),
         UNCHANGED <<stored, listed, behind, spacesDraft, spacesOf>>,
         request.kind = "save" =>
           /\ {"conv", "previousRow"} \subseteq DOMAIN request
           /\ request.conv = active /\ request.previousRow = Current
  PROVE  SpacesInv'
<1>1. PICK new : Begun(others, request, new)
  BY BeginWriteIs DEF SettingsTypes
<1>2. /\ calls' = {Touched(d, request.kind) : d \in others} \cup {new}
      /\ new.phase = "sent" /\ new.kind = request.kind
      /\ request.kind = "save" => new.conv = active /\ new.previousRow = Current
  BY <1>1 DEF Begun
<1>3. ~unsure /\ Switches = {}
  BY <1>1 DEF Begun, Switches, Kind
<1>4. SwitchesInv /\ DraftAgrees /\ ListAgrees /\ AnswersAgree
  BY <1>3 DEF SpacesInv
<1>5. \A d \in others : Tells(Touched(d, request.kind))' /\ Touched(d, request.kind).kind = d.kind
  <2> SUFFICES ASSUME NEW d \in others
               PROVE  Tells(Touched(d, request.kind))' /\ Touched(d, request.kind).kind = d.kind
    OBVIOUS
  <2>1. IsExpected(d)
    BY DEF SettingsTypes
  <2>2. Touched(d, request.kind).kind = d.kind
    BY <2>1, TouchedIs DEF IsExpected, IsRequest
  <2> QED BY <2>2, <1>4, TouchedTells
<1>6. Tells(new)'
  <2>1. new.kind = "save" /\ new.previousRow # None /\ ~behind' =>
          new.previousRow.spaces = stored'[new.conv].spaces
    BY <1>2, <1>3, <1>4, CurrentIs DEF SettingsTypes, ListAgrees
  <2> QED BY <1>2, <2>1 DEF Tells
<1>7. Switches' = {} /\ AnswersAgree'
  BY <1>2, <1>3, <1>5, <1>6 DEF Switches, Kind, AnswersAgree
<1> QED BY <1>3, <1>4, <1>7, SettledKeeps DEF DraftAgrees

LEMMA SyncSpaces ==
  ASSUME SettingsTypes, SpacesInv, SyncSettingsDraft, ~unsure', UNCHANGED <<stored, listed, behind, calls>>
  PROVE  SpacesInv'
<1>1. ~unsure /\ Switches = {} /\ ~behind
  BY DEF SyncSettingsDraft, Switches
<1>2. DraftAgrees /\ ListAgrees /\ AnswersAgree
  BY <1>1 DEF SpacesInv
<1>3. spacesOf' # None => spacesDraft' = stored'[spacesOf'].spaces
  <2>1. CASE Current # None
    <3>1. /\ active \in Conversations \ Hidden /\ Current = listed[active]
          /\ Current \in CopiesOf(active)
      BY <2>1, CurrentIs DEF SettingsTypes
    <3>2. spacesDraft' = listed[active].spaces /\ spacesOf' = active
      BY <2>1, <3>1, CopiesAreRows DEF SyncSettingsDraft, ApplyRow
    <3> QED BY <1>1, <1>2, <3>1, <3>2 DEF ListAgrees
  <2>2. CASE Current = None
    BY <2>2 DEF SyncSettingsDraft, ApplyNewChat
  <2> QED BY <2>1, <2>2
<1>4. Switches' = {} /\ AnswersAgree'
  <2>1. \A c \in calls : Tells(c)'
    BY <1>2, RestTells
  <2> QED BY <1>1, <2>1 DEF Switches, Kind, AnswersAgree
<1> QED BY <1>1, <1>3, <1>4, SettledKeeps

(* Nothing happens to requests or spaces.                                  *)
LEMMA StillSpaces ==
  ASSUME SettingsTypes, SpacesInv, SpacesRest, UNCHANGED calls
  PROVE  SpacesInv'
<1> SUFFICES ASSUME ~unsure PROVE SpacesInv'
  BY DEF SpacesInv, SpacesRest
<1>1. \A c \in calls : Tells(c)'
  BY RestTells DEF SpacesInv, SpacesRest
<1>2. AnswersAgree' /\ Switches' = Switches
  BY <1>1 DEF SpacesRest, AnswersAgree, Switches, Kind
<1>3. Switches # {} => \A c \in calls' : c.kind \in {"toggle", "global"}
  BY DEF SpacesInv, SwitchesInv, SwitchesApart, SpacesRest
<1> QED BY <1>2, <1>3, QuietSpaces

LEMMA OpenSettingsSpaces == ASSUME SettingsTypes, SpacesInv, OpenSettings PROVE SpacesInv'
  BY SyncSpaces DEF OpenSettings, serverVars, rowVars, SpacesInv

LEMMA ResetSettingsSpaces == ASSUME SettingsTypes, SpacesInv, ResetSettings PROVE SpacesInv'
  BY SyncSpaces DEF ResetSettings, serverVars, rowVars, SpacesInv

LEMMA CloseSettingsSpaces == ASSUME SettingsTypes, SpacesInv, CloseSettings PROVE SpacesInv'
  BY StillSpaces
     DEF CloseSettings, SpacesRest, serverVars, rowVars, draftVars, toggleVars, history

LEMMA EditSpaces == ASSUME SettingsTypes, SpacesInv, Edit PROVE SpacesInv'
  BY StillSpaces DEF Edit, SpacesRest, serverVars, rowVars, toggleVars, history

LEMMA SaveSpaces == ASSUME SettingsTypes, SpacesInv, SaveSettings PROVE SpacesInv'
<1> SUFFICES ASSUME ~unsure' PROVE SpacesInv'
  BY DEF SpacesInv
<1> DEFINE request == [kind |-> "save", stage |-> "global", conv |-> active,
                   global |-> globalDraft, settings |-> draft, meta |-> metaDraft,
                   metaSent |-> Current # None /\ metaDraft # Current.meta,
                   previousGlobal |-> global, previousRow |-> Current,
                   was |-> <<storedGlobal, IF active = None THEN None ELSE stored[active]>>,
                   sure |-> /\ known /\ Kind("global") = {}
                            /\ Current # None => Current.meta = stored[active].meta]
<1>1. /\ BeginWrite(calls, request)
      /\ UNCHANGED <<stored, listed, behind, spacesDraft, spacesOf>>
  BY DEF SaveSettings, serverVars, rowVars, draftVars
<1>2. /\ DOMAIN request \cap Stamps = {} /\ {"kind", "conv", "previousRow"} \subseteq DOMAIN request
      /\ request.kind = "save" /\ request.conv = active /\ request.previousRow = Current
  BY DEF Stamps
<1> HIDE DEF request
<1>3. Kind("toggle") \subseteq calls
  BY DEF Kind
<1> QED BY <1>1, <1>2, <1>3, BeginSpaces DEF SettingsKinds

LEMMA ChangeModelSpaces == ASSUME SettingsTypes, SpacesInv, ChangeModel PROVE SpacesInv'
<1> SUFFICES ASSUME ~unsure' PROVE SpacesInv'
  BY DEF SpacesInv
<1>1. PICK m :
        /\ IF active = None
           THEN UNCHANGED <<calls, unsure>>
           ELSE BeginWrite(calls, [kind |-> "model", conv |-> active,
                                   settings |-> [ContextBarSettings EXCEPT !.model = m]])
        /\ UNCHANGED <<serverVars, active, rowVars, spacesDraft, spacesOf, toggleVars, behind>>
  BY DEF ChangeModel
<1>2. CASE active = None
  BY <1>1, <1>2, StillSpaces DEF SpacesRest, serverVars, rowVars, toggleVars
<1>3. CASE active # None
  <2> DEFINE request == [kind |-> "model", conv |-> active,
                         settings |-> [ContextBarSettings EXCEPT !.model = m]]
  <2>1. /\ DOMAIN request \cap Stamps = {} /\ "kind" \in DOMAIN request /\ request.kind = "model"
        /\ BeginWrite(calls, request)
    BY <1>1, <1>3 DEF Stamps
  <2> HIDE DEF request
  <2>2. Kind("toggle") \subseteq calls
    BY DEF Kind
  <2> QED BY <2>1, <2>2, <1>1, BeginSpaces DEF SettingsKinds, serverVars, rowVars
<1> QED BY <1>2, <1>3

LEMMA SetDefaultModelSpaces == ASSUME SettingsTypes, SpacesInv, SetDefaultModel PROVE SpacesInv'
<1> SUFFICES ASSUME ~unsure' PROVE SpacesInv'
  BY DEF SpacesInv
<1> DEFINE request == [kind |-> "default", conv |-> active, home |-> active = None,
                   global |-> [globalDraft EXCEPT !.model = ContextBarSettings.model],
                   prompt |-> newPrompt, meta |-> newMeta]
<1>1. /\ DOMAIN request \cap Stamps = {} /\ "kind" \in DOMAIN request /\ request.kind = "default"
      /\ BeginWrite(calls, request)
  BY DEF Stamps, SetDefaultModel
<1> HIDE DEF request
<1>2. Kind("toggle") \subseteq calls
  BY DEF Kind
<1> QED BY <1>1, <1>2, BeginSpaces DEF SettingsKinds, serverVars, rowVars, draftVars, SetDefaultModel

LEMMA NavigateSpaces == ASSUME SettingsTypes, SpacesInv, Navigate PROVE SpacesInv'
<1> SUFFICES ASSUME ~unsure' PROVE SpacesInv'
  BY DEF SpacesInv
<1>1. PICK c :
        /\ IF c = None
           THEN /\ calls' = calls \ Kind("row")
                /\ ApplyNewChat(global, newPrompt, newMeta)
                /\ unsure' = (unsure \/ Kind("toggle") # {})
           ELSE /\ BeginWrite(calls \ Kind("row"), [kind |-> "row", conv |-> c])
                /\ UNCHANGED draftVars
        /\ UNCHANGED <<serverVars, listed, behind>>
  BY DEF Navigate
<1>2. CASE c = None
  <2>1. ~unsure /\ Switches = {} /\ Switches' = {}
    BY <1>1, <1>2 DEF Switches, Kind
  <2>2. \A d \in calls : Tells(d)'
    BY <1>1, <2>1, RestTells DEF SpacesInv, serverVars
  <2>3. AnswersAgree'
    BY <1>1, <1>2, <2>2 DEF AnswersAgree
  <2>4. spacesOf' = None
    BY <1>1, <1>2 DEF ApplyNewChat
  <2> QED BY <1>1, <2>1, <2>3, <2>4, SettledKeeps DEF serverVars
<1>3. CASE c # None
  <2> DEFINE request == [kind |-> "row", conv |-> c]
             others == calls \ Kind("row")
  <2>1. /\ DOMAIN request \cap Stamps = {} /\ "kind" \in DOMAIN request /\ request.kind = "row"
        /\ BeginWrite(others, request)
    BY <1>1, <1>3 DEF Stamps
  <2>2. others \in SUBSET calls /\ Kind("toggle") \subseteq others
    BY DEF Kind
  <2> HIDE DEF request, others
  <2> QED BY <2>1, <2>2, <1>1, <1>3, BeginSpaces DEF SettingsKinds, serverVars, draftVars
<1> QED BY <1>2, <1>3

(* Two versions of a switch.                                               *)
SameSwitch(e, d) ==
  /\ e.kind = "toggle" /\ e.n = d.n /\ e.conv = d.conv /\ e.space = d.space /\ e.ids = d.ids
  /\ e.previous = d.previous /\ e.version = d.version /\ e.overlap = d.overlap

(* The switches when another begins,                                       *)
Followed(d) == Touched(d, "toggle")

LEMMA BegunSwitches ==
  ASSUME SettingsTypes, NEW request, NEW new, Begun(calls, request, new),
         request.kind = "toggle", new.kind = "toggle"
  PROVE  /\ Switches' = {Followed(d) : d \in Switches} \cup {new}
         /\ SentSwitches' = {Followed(d) : d \in SentSwitches} \cup {new}
         /\ FailedSwitches' = {Followed(d) : d \in FailedSwitches}
         /\ \A d \in Switches : /\ SameSwitch(Followed(d), d) /\ Followed(d).followed
                                /\ Followed(d).phase = d.phase
         /\ \A d \in calls : Followed(d).kind = d.kind
<1>1. calls' = {Followed(d) : d \in calls} \cup {new} /\ new.phase = "sent"
  BY DEF Begun, Followed
<1>2. \A d \in calls : /\ IsExpected(d) /\ DOMAIN Followed(d) = DOMAIN d /\ Followed(d).followed
                       /\ \A x \in DOMAIN d : x \notin {"alone", "followed"} =>
                                                Followed(d)[x] = d[x]
  <2> SUFFICES ASSUME NEW d \in calls
               PROVE  /\ IsExpected(d) /\ DOMAIN Followed(d) = DOMAIN d /\ Followed(d).followed
                      /\ \A x \in DOMAIN d : x \notin {"alone", "followed"} =>
                                               Followed(d)[x] = d[x]
    OBVIOUS
  <2>1. IsExpected(d)
    BY DEF SettingsTypes
  <2> QED BY <2>1, TouchedIs DEF Followed
<1>3. \A d \in calls : Followed(d).kind = d.kind /\ Followed(d).phase = d.phase
  BY <1>2 DEF IsExpected, IsRequest
<1>4. \A d \in Switches : SameSwitch(Followed(d), d)
  BY <1>2, <1>3 DEF IsExpected, IsRequest, IsBody, SameSwitch, Switches, Kind
<1>5. Switches' = {Followed(d) : d \in Switches} \cup {new}
  BY <1>1, <1>3 DEF Switches, Kind
<1>6. SentSwitches' = {Followed(d) : d \in SentSwitches} \cup {new}
  BY <1>1, <1>3 DEF Switches, Kind, SentSwitches
<1>7. FailedSwitches' = {Followed(d) : d \in FailedSwitches}
  BY <1>1, <1>3 DEF Failed, Kind, FailedSwitches
<1> QED BY <1>2, <1>3, <1>4, <1>5, <1>6, <1>7 DEF Switches, Kind

LEMMA ToggleSpaces == ASSUME SettingsTypes, SpacesInv, ToggleKnowledgeSpace PROVE SpacesInv'
<1> SUFFICES ASSUME ~unsure' PROVE SpacesInv'
  BY DEF SpacesInv
<1>1. PICK s \in Spaces :
        /\ counts[s] = 0
        /\ spacesDraft' = Toggled(spacesDraft, s)
        /\ IF Current = None THEN UNCHANGED <<toggleVars, calls, unsure>>
           ELSE /\ versions' = [versions EXCEPT ![s] = @ + 1]
                /\ counts' = [counts EXCEPT ![s] = @ + 1]
                /\ BeginWrite(calls, [kind |-> "toggle", conv |-> active, space |-> s,
                                ids |-> Toggled(spacesDraft, s), previous |-> spacesDraft,
                                version |-> versions[s] + 1])
        /\ spacesOf' = IF Current = None \/ active # spacesOf THEN None ELSE spacesOf
        /\ UNCHANGED <<stored, active, listed, behind>>
  BY DEF ToggleKnowledgeSpace, serverVars, rowVars
<1>2. CASE Current = None
  <2>1. ~unsure /\ Switches = {}
    BY <1>1, <1>2, CurrentIs DEF SettingsTypes, SpacesInv, SwitchesInv, SwitchesApart
  <2>2. \A c \in calls : Tells(c)'
    BY <1>1, <2>1, RestTells DEF SpacesInv
  <2>3. Switches' = {} /\ AnswersAgree'
    BY <1>1, <1>2, <2>1, <2>2 DEF Switches, Kind, AnswersAgree
  <2> QED BY <1>1, <1>2, <2>1, <2>3, SettledKeeps
<1>3. CASE Current # None
  <2> DEFINE request == [kind |-> "toggle", conv |-> active, space |-> s,
                         ids |-> Toggled(spacesDraft, s), previous |-> spacesDraft,
                         version |-> versions[s] + 1]
  <2>1. active \in Conversations \ Hidden /\ None \notin Conversations
    BY <1>3, CurrentIs, SettingsAssumption DEF SettingsTypes
  <2>2. BeginWrite(calls, request) /\ request.kind = "toggle"
    BY <1>1, <1>3
  <2>3. /\ DOMAIN request \cap Stamps = {}
        /\ {"kind", "conv", "space", "ids", "previous", "version"} \subseteq DOMAIN request
    BY DEF Stamps
  <2>4. request.conv = active /\ request.space = s /\ request.ids = Toggled(spacesDraft, s)
        /\ request.previous = spacesDraft /\ request.version = versions[s] + 1
    OBVIOUS
  <2> HIDE DEF request
  <2>5. PICK new : Begun(calls, request, new)
    BY <2>2, <2>3, BeginWriteIs DEF SettingsTypes, SettingsKinds
  <2>6. /\ new.kind = "toggle" /\ new.conv = active /\ new.space = s /\ new.phase = "sent"
        /\ new.ids = spacesDraft' /\ new.previous = spacesDraft
        /\ new.version = versions[s] + 1 /\ ~new.followed /\ new.overlap = (Switches # {})
        /\ new.n \in Nat /\ \A t \in Switches : t.n < new.n
    <3>1. acts \in Nat
      BY ActsAssumption DEF SettingsTypes, Counted
    <3> QED BY <3>1, <1>1, <2>2, <2>3, <2>4, <2>5 DEF Begun, Switches
  <2>7. ~unsure /\ \A d \in calls : d.kind \in {"toggle", "global"}
    BY <2>2, <2>5 DEF Begun
  <2>8. SwitchesInv /\ DraftAgrees /\ ListAgrees /\ AnswersAgree
    BY <2>7 DEF SpacesInv
  <2>9. /\ Switches' = {Followed(d) : d \in Switches} \cup {new}
        /\ SentSwitches' = {Followed(d) : d \in SentSwitches} \cup {new}
        /\ FailedSwitches' = {Followed(d) : d \in FailedSwitches}
        /\ \A d \in Switches : /\ SameSwitch(Followed(d), d) /\ Followed(d).followed
                               /\ Followed(d).phase = d.phase
        /\ \A d \in calls : Followed(d).kind = d.kind
    BY <2>2, <2>5, <2>6, BegunSwitches
  <2>10. \A d \in Switches : d.n \in Nat /\ d.space \in Spaces /\ d.n < new.n
    BY <2>6 DEF SettingsTypes, IsExpected, IsBody, Switches, Kind
  <2>11. calls' = {Followed(d) : d \in calls} \cup {new}
    BY <2>2, <2>5 DEF Begun, Followed
  <2> HIDE DEF Followed
  <2>12. SentSwitches \subseteq Switches /\ FailedSwitches \subseteq Switches
    BY DEF SentSwitches, FailedSwitches, Failed, Switches, Kind
  <2>13. SwitchesApart'
    BY <1>1, <2>1, <2>6, <2>7, <2>8, <2>9, <2>11
       DEF SwitchesInv, SwitchesApart, SameSwitch
  <2>14. SwitchesLatest'
    <3>1. \A d \in Switches : d.space # s
      BY <1>1, <2>8 DEF SwitchesInv, SwitchesLatest
    <3>2. \A t \in Spaces : t # s => counts'[t] = counts[t] /\ versions'[t] = versions[t]
      BY <1>1, <1>3 DEF SettingsTypes, SwitchTypes
    <3>3. counts'[s] = 1 /\ versions'[s] = versions[s] + 1
      BY <1>1, <1>3 DEF SettingsTypes, SwitchTypes
    <3>4. \A t \in Switches' : counts'[t.space] = 1 /\ versions'[t.space] = t.version
      BY <3>1, <3>2, <3>3, <2>6, <2>8, <2>9, <2>10
         DEF SwitchesInv, SwitchesLatest, SameSwitch
    <3>5. \A t, u \in Switches' : t.space = u.space => t = u
      BY <3>1, <2>6, <2>8, <2>9 DEF SwitchesInv, SwitchesLatest, SameSwitch
    <3> QED BY <3>4, <3>5 DEF SwitchesLatest
  <2>15. SwitchesOrdered'
    <3>1. \A t, u \in Switches' : t.n = u.n => t = u
      BY <2>6, <2>8, <2>9, <2>10 DEF SwitchesInv, SwitchesOrdered, SameSwitch
    <3>2. \A t, u \in Switches' : t.n < u.n => t.followed /\ u.overlap
      <4> SUFFICES ASSUME NEW t \in Switches', NEW u \in Switches', t.n < u.n
                   PROVE  t.followed /\ u.overlap
        OBVIOUS
      <4>1. CASE t = new
        BY <4>1, <2>6, <2>9, <2>10 DEF SameSwitch
      <4>2. CASE t # new
        <5>1. PICK d \in Switches : t = Followed(d)
          BY <4>2, <2>9
        <5>2. CASE u = new
          BY <5>1, <5>2, <2>6, <2>9
        <5>3. CASE u # new
          <6>1. PICK e \in Switches : u = Followed(e)
            BY <5>3, <2>9
          <6>2. d.n < e.n
            BY <5>1, <6>1, <2>9 DEF SameSwitch
          <6> QED BY <5>1, <6>1, <6>2, <2>8, <2>9 DEF SwitchesInv, SwitchesOrdered, SameSwitch
        <5> QED BY <5>2, <5>3
      <4> QED BY <4>1, <4>2
    <3>3. \A t \in Switches', u \in SentSwitches' : t.phase = "answered" => t.n < u.n
      BY <2>6, <2>8, <2>9, <2>10, <2>12 DEF SwitchesInv, SwitchesOrdered, SameSwitch
    <3> QED BY <3>1, <3>2, <3>3 DEF SwitchesOrdered
  <2>16. LastIsShown'
    BY <2>6, <2>9 DEF LastIsShown
  <2>17. ASSUME ~Doomed' PROVE FailedSwitches = {} /\ FailedSwitches' = {} /\ ~Doomed
    BY <2>17, <2>9, <2>12 DEF Doomed
  <2>18. DraftIsExpected'
    <3> SUFFICES ASSUME spacesOf' = active, ~Doomed'
                 PROVE  /\ Expects(stored'[active].spaces, SentSwitches', spacesDraft')
                        /\ \A t \in SentSwitches' :
                             ~t.followed => Expects(stored'[active].spaces, SentSwitches' \ {t}, t.previous)
      BY <2>17, <1>1 DEF DraftIsExpected
    <3>1. spacesOf = active
      BY <1>1, <2>1
    <3>2. FailedSwitches = {} /\ ~Doomed
      BY <2>17
    <3>3. Expects(stored'[active].spaces, SentSwitches', spacesDraft')
      <4>1. ASSUME NEW m \in SentSwitches', \A d \in SentSwitches' : d.n <= m.n PROVE m = new
        <5>1. new.n <= m.n
          BY <4>1, <2>9
        <5> QED BY <5>1, <2>6, <2>9, <2>10, <2>12 DEF SameSwitch
      <4> QED BY <4>1, <2>6, <2>9 DEF Expects
    <3>4. Expects(stored[active].spaces, SentSwitches, spacesDraft)
      <4>1. CASE Switches = {}
        BY <4>1, <3>1, <2>1, <2>8, <2>12 DEF DraftAgrees, Expects
      <4>2. CASE Switches # {}
        BY <4>2, <3>1, <3>2, <2>8 DEF SwitchesInv, DraftIsExpected
      <4> QED BY <4>1, <4>2
    <3>5. ASSUME NEW t \in SentSwitches', ~t.followed
          PROVE  Expects(stored'[active].spaces, SentSwitches' \ {t}, t.previous)
      <4>1. t = new /\ t.previous = spacesDraft
        BY <3>5, <2>6, <2>9, <2>12
      <4>2. SentSwitches' \ {t} = {Followed(d) : d \in SentSwitches}
        BY <4>1, <2>6, <2>9, <2>12
      <4>3. SentSwitches' \ {t} = {} => stored'[active].spaces = t.previous
        <5>1. SentSwitches' \ {t} = {} => SentSwitches = {}
          BY <4>2
        <5> QED BY <5>1, <4>1, <3>4, <1>1 DEF Expects
      <4>4. ASSUME NEW m \in SentSwitches' \ {t}, \A d \in SentSwitches' \ {t} : d.n <= m.n
            PROVE  m.ids = t.previous
        <5>1. PICK d \in SentSwitches : m = Followed(d)
          BY <4>2
        <5>2. \A e \in SentSwitches : e.n <= d.n
          BY <5>1, <4>2, <4>4, <2>9, <2>12 DEF SameSwitch
        <5> QED BY <5>1, <5>2, <4>1, <3>4, <2>9, <2>12 DEF Expects, SameSwitch
      <4> QED BY <4>3, <4>4 DEF Expects
    <3> QED BY <3>3, <3>5
  <2>19. FollowedHasNext'
    BY <2>6, <2>9, <2>10, <2>12 DEF FollowedHasNext, Pending, SameSwitch
  <2>20. ListWillAgree'
    <3>1. CASE Switches = {}
      BY <3>1, <1>1, <2>1, <2>8, <2>9 DEF ListAgrees, ListWillAgree
    <3>2. CASE Switches # {}
      BY <3>2, <2>6, <2>9 DEF ListWillAgree, Pending
    <3> QED BY <3>1, <3>2
  <2>21. DraftAgrees' /\ ListAgrees'
    BY <1>1, <2>8, <2>9 DEF DraftAgrees, ListAgrees
  <2>22. AnswersAgree'
    <3>1. \A d \in calls : Tells(Followed(d))'
      BY <1>1, <2>8, TouchedTells DEF Followed
    <3>2. Tells(new)'
      BY <2>6 DEF Tells
    <3> QED BY <3>1, <3>2, <2>11 DEF AnswersAgree
  <2> QED BY <2>13, <2>14, <2>15, <2>16, <2>18, <2>19, <2>20, <2>21, <2>22
          DEF SpacesInv, SwitchesInv
<1> QED BY <1>2, <1>3

-----------------------------------------------------------------------------
(* What happens to requests on their way.                                  *)

(* What the types say of a switch.                                         *)
LEMMA SwitchIs ==
  ASSUME SettingsTypes, NEW c \in Switches
  PROVE  /\ c \in calls /\ c.kind = "toggle" /\ IsExpected(c) /\ c.n \in Nat /\ c.space \in Spaces
         /\ c.conv \in Conversations /\ c.previous \in Lists
         /\ c.ids = Toggled(c.previous, c.space)
         /\ c.phase \in {"sent", "answered", "failed"}
         /\ c.followed \in BOOLEAN /\ c.overlap \in BOOLEAN /\ c.lost \in BOOLEAN
         /\ c.phase = "answered" => /\ c.reply \in CopiesOf(c.conv) /\ c.reply.spaces = c.ids
                                    /\ c.reply.id = c.conv
<1>1. c \in calls /\ c.kind = "toggle" /\ IsExpected(c)
  BY DEF Switches, Kind, SettingsTypes
<1>2. IsRequest(c) /\ IsBody(c) /\ IsAnswer(c)
  BY <1>1 DEF IsExpected
<1>3. c.phase = "answered" => c.reply \in CopiesOf(c.conv) /\ c.reply.spaces = c.ids /\ c.reply.id = c.conv
  BY <1>1, <1>2 DEF IsAnswer, AboutRow, CopiesOf
<1> QED BY <1>1, <1>2, <1>3 DEF IsRequest, IsBody

(* A switch that is served or fails stays the switch it was.               *)
LEMMA SwitchGoesOn ==
  ASSUME SettingsTypes, SwitchesInv, NEW c \in Switches, NEW e, Become(c, e), SameSwitch(e, c),
         e.followed = c.followed, e.phase \in {"answered", "failed"},
         UNCHANGED <<active, spacesOf, spacesDraft, counts, versions>>,
         e.phase = "answered" => \A u \in SentSwitches : u # c => c.n < u.n
  PROVE  /\ Switches' = (Switches \ {c}) \cup {e} /\ SentSwitches' = SentSwitches \ {c}
         /\ FailedSwitches' = (FailedSwitches \ {c}) \cup (IF e.phase = "failed" THEN {e} ELSE {})
         /\ SwitchesApart' /\ SwitchesLatest' /\ SwitchesOrdered' /\ LastIsShown' /\ AnswersAgree'
<1>1. calls' = (calls \ {c}) \cup {e} /\ c \in calls /\ c.kind = "toggle" /\ e.kind = "toggle"
  BY DEF Become, SameSwitch, Switches, Kind
<1>2. /\ Switches' = (Switches \ {c}) \cup {e} /\ SentSwitches' = SentSwitches \ {c}
      /\ FailedSwitches' = (FailedSwitches \ {c}) \cup (IF e.phase = "failed" THEN {e} ELSE {})
  BY <1>1 DEF Switches, SentSwitches, FailedSwitches, Failed, Kind
<1>3. SwitchesApart'
  BY <1>1, <1>2 DEF SwitchesInv, SwitchesApart, SameSwitch
<1>4. SwitchesLatest'
  <2>1. \A t \in Switches' : counts'[t.space] = 1 /\ versions'[t.space] = t.version
    BY <1>2 DEF SwitchesInv, SwitchesLatest, SameSwitch
  <2>2. \A t, u \in Switches' : t.space = u.space => t = u
    BY <1>2 DEF SwitchesInv, SwitchesLatest, SameSwitch
  <2> QED BY <2>1, <2>2 DEF SwitchesLatest
<1>5. SwitchesOrdered'
  <2>1. \A t, u \in Switches' : t.n = u.n => t = u
    BY <1>2 DEF SwitchesInv, SwitchesOrdered, SameSwitch
  <2>2. \A t, u \in Switches' : t.n < u.n => t.followed /\ u.overlap
    <3>0. \A t \in Switches : t.n \in Nat
      BY SwitchIs
    <3>1. ~(e.n < e.n)
      BY <3>0 DEF SameSwitch
    <3> QED BY <3>1, <1>2 DEF SwitchesInv, SwitchesOrdered, SameSwitch
  <2>3. \A t \in Switches', u \in SentSwitches' : t.phase = "answered" => t.n < u.n
    BY <1>2 DEF SwitchesInv, SwitchesOrdered, SameSwitch
  <2> QED BY <2>1, <2>2, <2>3 DEF SwitchesOrdered
<1>6. LastIsShown'
  BY <1>2 DEF SwitchesInv, LastIsShown, SameSwitch
<1>7. AnswersAgree'
  <2>1. \A d \in calls' : d.kind \in {"toggle", "global"}
    BY <1>1 DEF SwitchesInv, SwitchesApart
  <2> QED BY <2>1 DEF AnswersAgree, Tells, AboutRow
<1> QED BY <1>2, <1>3, <1>4, <1>5, <1>6, <1>7

(* A switch is served.                                                     *)
LEMMA ServedSpaces ==
  ASSUME SettingsTypes, SpacesInv, ~unsure, NEW c \in SentSwitches, NEW e, Become(c, e),
         SameSwitch(e, c), e.followed = c.followed, e.phase = "answered",
         UNCHANGED <<active, listed, spacesOf, spacesDraft, counts, versions, behind>>,
         \A u \in SentSwitches : ~(u.n < c.n),
         stored'[c.conv].spaces = c.ids,
         \A b \in Conversations : b # c.conv => stored'[b] = stored[b]
  PROVE  SpacesInv'
<1>1. SwitchesInv /\ DraftAgrees /\ ListAgrees /\ AnswersAgree
  BY DEF SpacesInv
<1>2. c \in Switches /\ c.phase = "sent" /\ SentSwitches \subseteq Switches /\ c.conv = active
  BY <1>1 DEF SentSwitches, SwitchesInv, SwitchesApart
<1>3. \A t \in Switches : t.n \in Nat
  BY SwitchIs
<1>4. \A u \in SentSwitches : u # c => c.n < u.n
  BY <1>1, <1>2, <1>3 DEF SwitchesInv, SwitchesOrdered
<1>5. /\ Switches' = (Switches \ {c}) \cup {e} /\ SentSwitches' = SentSwitches \ {c}
      /\ FailedSwitches' = (FailedSwitches \ {c}) \cup (IF e.phase = "failed" THEN {e} ELSE {})
      /\ SwitchesApart' /\ SwitchesLatest' /\ SwitchesOrdered' /\ LastIsShown' /\ AnswersAgree'
  BY <1>1, <1>2, <1>4, SwitchGoesOn
<1>6. FailedSwitches' = FailedSwitches /\ Doomed' = Doomed
  <2>1. FailedSwitches' = FailedSwitches
    BY <1>2, <1>5 DEF FailedSwitches, Failed
  <2> QED BY <2>1 DEF Doomed
<1>7. ASSUME NEW S \in SUBSET SentSwitches, c \in S, NEW v, Expects(stored[active].spaces, S, v)
      PROVE  Expects(stored'[active].spaces, S \ {c}, v)
  <2>1. S \ {c} = {} => stored'[active].spaces = v
    <3>1. S \ {c} = {} => S = {c}
      BY <1>7
    <3> QED BY <3>1, <1>2, <1>3, <1>7 DEF Expects
  <2>2. ASSUME NEW m \in S \ {c}, \A d \in S \ {c} : d.n <= m.n PROVE m.ids = v
    <3>1. c.n <= m.n
      BY <1>2, <1>3, <1>4
    <3> QED BY <3>1, <2>2, <1>7 DEF Expects
  <2> QED BY <2>1, <2>2 DEF Expects
<1>8. DraftIsExpected'
  <2> SUFFICES ASSUME spacesOf = active, ~Doomed
               PROVE  LET ids == stored'[active].spaces
                      IN  /\ FailedSwitches = {} => Expects(ids, SentSwitches', spacesDraft)
                          /\ \A f \in FailedSwitches : Expects(ids, SentSwitches', f.previous)
                          /\ \A t \in SentSwitches' :
                               ~t.followed => Expects(ids, SentSwitches' \ {t}, t.previous)
    BY <1>6 DEF DraftIsExpected
  <2> DEFINE ids == stored[active].spaces
  <2>1. /\ FailedSwitches = {} => Expects(ids, SentSwitches, spacesDraft)
        /\ \A f \in FailedSwitches : Expects(ids, SentSwitches, f.previous)
        /\ \A t \in SentSwitches : ~t.followed => Expects(ids, SentSwitches \ {t}, t.previous)
    BY <1>1, <1>2 DEF SwitchesInv, DraftIsExpected
  <2> HIDE DEF ids
  <2>2. \A v : Expects(ids, SentSwitches, v) => Expects(stored'[active].spaces, SentSwitches', v)
    BY <1>5, <1>7 DEF ids
  <2>3. ASSUME NEW t \in SentSwitches', ~t.followed
        PROVE  Expects(stored'[active].spaces, SentSwitches' \ {t}, t.previous)
    <3>1. t \in SentSwitches /\ t # c /\ SentSwitches' \ {t} = (SentSwitches \ {t}) \ {c}
      BY <1>5
    <3>2. Expects(stored'[active].spaces, (SentSwitches \ {t}) \ {c}, t.previous)
      BY <3>1, <2>1, <2>3, <1>7 DEF ids
    <3> QED BY <3>1, <3>2
  <2> QED BY <2>1, <2>2, <2>3
<1>9. FollowedHasNext'
  <2> SUFFICES ASSUME ~behind, ~Doomed, NEW u \in SentSwitches', u.followed
               PROVE  \E v \in Switches' : u.n < v.n /\ Pending(v)
    BY <1>6 DEF FollowedHasNext
  <2>1. u \in SentSwitches /\ c.n < u.n
    BY <1>4, <1>5
  <2>2. PICK v \in Switches : u.n < v.n /\ Pending(v)
    BY <2>1, <1>1 DEF SwitchesInv, FollowedHasNext
  <2>3. v # c
    BY <2>1, <2>2, <1>2, <1>3
  <2> QED BY <2>2, <2>3, <1>5
<1>10. ListWillAgree'
  <2> SUFFICES ASSUME ~behind, ~Doomed PROVE ListWillAgree'
    BY <1>6 DEF ListWillAgree
  <2>1. CASE \E u \in Switches \ {c} : u.overlap /\ Pending(u)
    BY <2>1, <1>5 DEF ListWillAgree, Pending
  <2>2. CASE c.followed
    <3>1. PICK v \in Switches : c.n < v.n /\ Pending(v)
      BY <2>2, <1>1 DEF SwitchesInv, FollowedHasNext
    <3>2. v # c /\ v.overlap
      BY <3>1, <1>1, <1>2, <1>3 DEF SwitchesInv, SwitchesOrdered
    <3> QED BY <3>1, <3>2, <2>1
  <2>3. CASE ~c.followed
    <3>1. spacesDraft = c.ids
      BY <2>3, <1>1, <1>2 DEF SwitchesInv, LastIsShown
    <3>2. e \in Switches' /\ e.phase = "answered" /\ e.ids = stored'[active'].spaces /\ spacesDraft' = e.ids
      BY <3>1, <1>2, <1>5 DEF SameSwitch
    <3> QED BY <3>2 DEF ListWillAgree
  <2>4. c.followed \in BOOLEAN
    BY <1>2, SwitchIs
  <2> QED BY <2>2, <2>3, <2>4
<1>11. DraftAgrees' /\ ListAgrees'
  BY <1>1, <1>2, <1>5 DEF DraftAgrees, ListAgrees
<1> QED BY <1>5, <1>8, <1>9, <1>10, <1>11 DEF SpacesInv, SwitchesInv

(* A switch fails.                                                         *)
LEMMA FailedSpaces ==
  ASSUME SettingsTypes, SpacesInv, ~unsure, NEW c \in Switches, NEW e, Become(c, e),
         SameSwitch(e, c), e.followed = c.followed, e.phase = "failed", e.lost = (c.phase # "sent"),
         c.phase # "failed",
         UNCHANGED <<stored, active, listed, spacesOf, spacesDraft, counts, versions, behind>>
  PROVE  SpacesInv'
<1>1. SwitchesInv /\ DraftAgrees /\ ListAgrees /\ AnswersAgree
  BY DEF SpacesInv
<1>2. /\ Switches' = (Switches \ {c}) \cup {e} /\ SentSwitches' = SentSwitches \ {c}
      /\ FailedSwitches' = (FailedSwitches \ {c}) \cup {e}
      /\ SwitchesApart' /\ SwitchesLatest' /\ SwitchesOrdered' /\ LastIsShown' /\ AnswersAgree'
  BY <1>1, SwitchGoesOn
<1>3. DraftAgrees' /\ ListAgrees'
  BY <1>1, <1>2 DEF DraftAgrees, ListAgrees
<1>4. FailedSwitches \subseteq Switches /\ SentSwitches \subseteq Switches /\ c \notin FailedSwitches
  BY DEF FailedSwitches, Failed, Switches, Kind, SentSwitches
<1>5. ASSUME ~Doomed'
      PROVE  /\ FailedSwitches = {} /\ ~Doomed /\ ~c.followed /\ c \in SentSwitches
             /\ FailedSwitches' = {e}
  <2>1. ~e.lost /\ ~e.followed /\ \A f \in FailedSwitches : ~f.lost /\ ~f.followed
    BY <1>5, <1>2, <1>4 DEF Doomed
  <2>2. c.phase = "sent" /\ c \in SentSwitches
    BY <2>1 DEF SentSwitches
  <2>3. FailedSwitches = {}
    <3> SUFFICES ASSUME NEW f \in FailedSwitches PROVE FALSE
      OBVIOUS
    <3>1. f # c /\ f \in Switches /\ f.n \in Nat /\ c.n \in Nat
      BY <1>4, SwitchIs
    <3>2. f.n < c.n \/ c.n < f.n
      BY <3>1, <1>1 DEF SwitchesInv, SwitchesOrdered
    <3> QED BY <3>1, <3>2, <2>1, <1>1 DEF SwitchesInv, SwitchesOrdered
  <2> QED BY <2>1, <2>2, <2>3, <1>2 DEF Doomed
<1>6. DraftIsExpected'
  <2> SUFFICES ASSUME spacesOf = active, ~Doomed'
               PROVE  LET ids == stored[active].spaces
                      IN  /\ Expects(ids, SentSwitches', e.previous)
                          /\ \A t \in SentSwitches' : t.followed
    BY <1>5 DEF DraftIsExpected
  <2>1. Expects(stored[active].spaces, SentSwitches \ {c}, c.previous)
    BY <1>1, <1>5 DEF SwitchesInv, DraftIsExpected
  <2>2. ASSUME NEW t \in SentSwitches' PROVE t.followed
    <3>1. t # c /\ t \in Switches /\ t.n \in Nat /\ c.n \in Nat
      BY <1>2, <1>4, SwitchIs
    <3>2. t.n < c.n \/ c.n < t.n
      BY <3>1, <1>1 DEF SwitchesInv, SwitchesOrdered
    <3> QED BY <3>1, <3>2, <1>1, <1>5 DEF SwitchesInv, SwitchesOrdered
  <2> QED BY <2>1, <2>2, <1>2 DEF SameSwitch
<1>7. FollowedHasNext'
  <2> SUFFICES ASSUME ~behind, ~Doomed', NEW u \in SentSwitches', u.followed
               PROVE  \E v \in Switches' : u.n < v.n /\ Pending(v)
    BY DEF FollowedHasNext
  <2>1. PICK v \in Switches : u.n < v.n /\ Pending(v)
    BY <1>1, <1>2, <1>5 DEF SwitchesInv, FollowedHasNext
  <2>2. CASE v = c
    BY <2>1, <2>2, <1>2 DEF Pending, SameSwitch
  <2>3. CASE v # c
    BY <2>1, <2>3, <1>2
  <2> QED BY <2>2, <2>3
<1>8. ListWillAgree'
  <2> SUFFICES ASSUME ~behind, ~Doomed' PROVE ListWillAgree'
    BY DEF ListWillAgree
  <2>0. FailedSwitches' # {} /\ ~Doomed
    BY <1>5
  <2>1. CASE listed[active].spaces = stored[active].spaces
    BY <2>0, <2>1 DEF ListWillAgree
  <2>2. CASE \E u \in Switches : u.overlap /\ Pending(u)
    <3>1. PICK u \in Switches : u.overlap /\ Pending(u)
      BY <2>2
    <3>2. CASE u = c
      BY <3>1, <3>2, <1>2 DEF ListWillAgree, Pending, SameSwitch
    <3>3. CASE u # c
      BY <3>1, <3>3, <1>2 DEF ListWillAgree
    <3> QED BY <3>2, <3>3
  <2>3. CASE \E t \in Switches : t.phase = "answered" /\ t.ids = stored[active].spaces
    <3>1. PICK t \in Switches : t.phase = "answered" /\ t.ids = stored[active].spaces
      BY <2>3
    <3>2. t # c
      BY <3>1, <1>5 DEF SentSwitches
    <3> QED BY <3>1, <3>2, <2>0, <1>2 DEF ListWillAgree
  <2> QED BY <2>0, <2>1, <2>2, <2>3, <1>1 DEF SwitchesInv, ListWillAgree
<1> QED BY <1>2, <1>3, <1>6, <1>7, <1>8 DEF SpacesInv, SwitchesInv

(* The server takes a request.                                             *)
LEMMA ServeKeepsSpaces == ASSUME SettingsTypes, SpacesInv, ServeSettings PROVE SpacesInv'
<1> SUFFICES ASSUME ~unsure' PROVE SpacesInv'
  BY DEF SpacesInv
<1>1. PICK c \in calls :
        /\ c.phase = "sent" /\ IsExpected(c)
        /\ \/ /\ SetsGlobal(c) /\ ~AboutRow(c)
              /\ storedGlobal' \in GlobalSettings
              /\ Become(c, Reply(c, storedGlobal'))
              /\ UNCHANGED <<stored, unsure>>
           \/ /\ SetsRow(c) /\ AboutRow(c) /\ c.conv \in Conversations
              /\ stored' = Patched(c) /\ stored'[c.conv] \in CopiesOf(c.conv)
              /\ Become(c, Reply(c, stored'[c.conv]))
              /\ unsure' = (unsure \/ (c.kind = "toggle" /\ \E d \in Kind("toggle") :
                                         d.phase = "sent" /\ d.n < c.n))
           \/ /\ c.kind = "global" /\ ~AboutRow(c)
              /\ Become(c, Reply(c, storedGlobal))
              /\ UNCHANGED <<stored, unsure>>
           \/ /\ c.kind = "row" /\ AboutRow(c) /\ c.conv \in Conversations
              /\ Become(c, Reply(c, stored[c.conv]))
              /\ UNCHANGED <<stored, unsure>>
        /\ UNCHANGED <<active, listed, spacesOf, spacesDraft, counts, versions, behind>>
  BY ServeIs DEF rowVars, draftVars, toggleVars, serverVars
<1>2. ~unsure
  BY <1>1
<1>3. DraftAgrees /\ ListAgrees /\ AnswersAgree /\ SwitchesInv
  BY <1>2 DEF SpacesInv
<1>4. PICK body : /\ Become(c, Reply(c, body))
                  /\ AboutRow(c) => body = stored'[c.conv]
                  /\ ~AboutRow(c) => body \in GlobalSettings
  BY <1>1 DEF SettingsTypes, StoredTypes
<1> DEFINE e == Reply(c, body)
<1>5. StoredTypes /\ c.kind \in SettingsKinds /\ IsBody(c)
  BY <1>1 DEF SettingsTypes, IsExpected, IsRequest
<1>6. AboutRow(c) => body \in CopiesOf(c.conv)
  BY <1>1, <1>4, <1>5 DEF StoredTypes, IsMapOfRows
<1>7. c.kind = "toggle" =>
        /\ SetsRow(c) /\ AboutRow(c) /\ ~SetsGlobal(c) /\ stored' = Patched(c)
        /\ stored'[c.conv].spaces = c.ids
        /\ \A b \in Conversations : b # c.conv => stored'[b] = stored[b]
        /\ \A d \in SentSwitches : ~(d.n < c.n)
  <2> SUFFICES ASSUME c.kind = "toggle"
               PROVE  /\ SetsRow(c) /\ AboutRow(c) /\ ~SetsGlobal(c) /\ stored' = Patched(c)
                      /\ stored'[c.conv].spaces = c.ids
                      /\ \A b \in Conversations : b # c.conv => stored'[b] = stored[b]
                      /\ \A d \in SentSwitches : ~(d.n < c.n)
    OBVIOUS
  <2>1. SetsRow(c) /\ AboutRow(c) /\ ~SetsGlobal(c) /\ stored' = Patched(c)
    BY <1>1 DEF SetsRow, AboutRow, SetsGlobal
  <2>2. \A d \in SentSwitches : ~(d.n < c.n)
    BY <2>1, <1>1 DEF SentSwitches, Switches, Kind
  <2> QED BY <2>1, <2>2, <1>5, PatchedIs
<1>8. /\ IsExpected(e) /\ DOMAIN e = DOMAIN c \cup {"reply"}
      /\ e.phase = "answered" /\ e.reply = body
      /\ \A x \in DOMAIN c : x \notin {"phase", "reply"} => e[x] = c[x]
  <2>1. IF AboutRow(c) THEN body \in CopiesOf(c.conv) ELSE body \in GlobalSettings
    BY <1>4, <1>6
  <2>2. c.kind = "toggle" => body.spaces = c.ids
    BY <1>4, <1>7
  <2> QED BY <2>1, <2>2, <1>1, ServedIs
<1>8a. Become(c, e)
  BY <1>4
<1> HIDE DEF e
<1>9. Become(c, e) /\ e.kind = c.kind /\ e.followed = c.followed
  BY <1>8a, <1>1, <1>8 DEF IsExpected, IsRequest
<1>10. CASE c.kind = "toggle"
  <2>1. SameSwitch(e, c)
    BY <1>1, <1>5, <1>8, <1>9, <1>10 DEF SameSwitch, IsBody, IsExpected, IsRequest
  <2>2. c \in SentSwitches
    BY <1>1, <1>10 DEF SentSwitches, Switches, Kind
  <2> QED BY <2>1, <2>2, <1>1, <1>2, <1>7, <1>8, <1>9, <1>10, ServedSpaces
<1>11. CASE c.kind # "toggle"
  <2>1. Switches' = Switches /\ calls' = (calls \ {c}) \cup {e}
    BY <1>9, <1>11 DEF Become, Switches, Kind
  <2>2. \A b \in Conversations : stored'[b].spaces = stored[b].spaces
    <3>1. CASE stored' = stored
      BY <3>1
    <3>2. CASE SetsRow(c) /\ stored' = Patched(c)
      BY <3>2, <1>5, <1>11, PatchedIs
    <3> QED BY <3>1, <3>2, <1>1
  <2>3. AnswersAgree'
    <3>1. \A d \in calls : Tells(d)'
      BY <1>1, <1>3, <2>2, RestTells
    <3>2. Tells(e)'
      <4>1. c.kind = "save" => e.previousRow = c.previousRow /\ e.conv = c.conv /\ e.stage = c.stage
        BY <1>5, <1>8 DEF IsBody
      <4>2. AboutRow(e) => AboutRow(c) /\ e.conv = c.conv
        <5>1. AboutRow(e) => AboutRow(c)
          BY <4>1, <1>9 DEF AboutRow
        <5>2. AboutRow(c) => e.conv = c.conv
          BY <1>5, <1>8 DEF AboutRow, IsBody
        <5> QED BY <5>1, <5>2
      <4>3. AboutRow(e) => e.reply.spaces = stored'[e.conv].spaces
        BY <4>2, <1>4, <1>8
      <4>4. e.kind = "save" /\ e.previousRow # None /\ ~behind' =>
              e.previousRow.spaces = stored'[e.conv].spaces
        <5> SUFFICES ASSUME e.kind = "save", e.previousRow # None, ~behind
                     PROVE  e.previousRow.spaces = stored'[e.conv].spaces
          BY <1>1
        <5>1. c.kind = "save" /\ c.previousRow # None /\ c.conv \in Conversations
          BY <4>1, <1>5, <1>9, SettingsAssumption DEF IsBody, Home
        <5>2. c.previousRow.spaces = stored[c.conv].spaces
          BY <5>1, <1>3 DEF AnswersAgree, Tells
        <5> QED BY <5>1, <5>2, <4>1, <2>2
      <4> QED BY <4>3, <4>4 DEF Tells, AboutRow
    <3> QED BY <3>1, <3>2, <2>1 DEF AnswersAgree
  <2>4. CASE Switches = {}
    <3>1. spacesOf' # None => spacesDraft' = stored'[spacesOf'].spaces
      BY <1>1, <1>3, <2>2, <2>4 DEF DraftAgrees, SettingsTypes, DraftTypes, Home
    <3> QED BY <3>1, <2>1, <2>2, <2>3, <2>4, <1>1, <1>2, SettledKeeps
  <2>5. CASE Switches # {}
    <3>1. c.kind = "global" /\ \A d \in calls : d.kind \in {"toggle", "global"}
      BY <2>5, <1>3, <1>11 DEF SwitchesInv, SwitchesApart
    <3>2. UNCHANGED <<stored, unsure>>
      BY <3>1, <1>1 DEF SetsRow
    <3>3. SpacesRest
      BY <3>2, <1>1 DEF SpacesRest
    <3> QED BY <3>1, <3>3, <2>1, <2>3, <1>9, QuietSpaces
  <2> QED BY <2>4, <2>5
<1> QED BY <1>10, <1>11

(* A request fails.                                                        *)
LEMMA FailSpaces == ASSUME SettingsTypes, SpacesInv, SettingsFail PROVE SpacesInv'
<1> SUFFICES ASSUME ~unsure' PROVE SpacesInv'
  BY DEF SpacesInv
<1>1. PICK c \in calls :
        /\ c.phase \in {"sent", "answered"}
        /\ Become(c, Broken(c))
        /\ SpacesRest
  BY DEF SettingsFail, SpacesRest, serverVars, rowVars, draftVars, toggleVars, history
<1>2. ~unsure /\ IsExpected(c)
  BY <1>1 DEF SpacesRest, SettingsTypes
<1>3. DraftAgrees /\ ListAgrees /\ AnswersAgree /\ SwitchesInv
  BY <1>2 DEF SpacesInv
<1> DEFINE e == Broken(c)
<1>4. /\ IsExpected(e) /\ DOMAIN e = DOMAIN c
      /\ e.phase = "failed" /\ e.lost = (c.phase # "sent")
      /\ \A x \in DOMAIN c : x \notin {"phase", "lost"} => e[x] = c[x]
  BY <1>2, FailedIs
<1>5. Become(c, e)
  BY <1>1
<1> HIDE DEF e
<1>6. e.kind = c.kind /\ e.followed = c.followed /\ IsBody(c)
  BY <1>2, <1>4 DEF IsExpected, IsRequest
<1>7. CASE c.kind = "toggle"
  <2>1. SameSwitch(e, c)
    BY <1>2, <1>4, <1>6, <1>7 DEF SameSwitch, IsBody, IsExpected, IsRequest
  <2>2. c \in Switches /\ c.phase # "failed"
    BY <1>1, <1>7 DEF Switches, Kind
  <2> QED BY <2>1, <2>2, <1>1, <1>2, <1>4, <1>5, <1>6, FailedSpaces DEF SpacesRest
<1>8. CASE c.kind # "toggle"
  <2>1. Switches' = Switches /\ calls' = (calls \ {c}) \cup {e}
    BY <1>5, <1>6, <1>8 DEF Become, Switches, Kind
  <2>2. AnswersAgree'
    <3>1. \A d \in calls : Tells(d)'
      BY <1>1, <1>3, RestTells DEF SpacesRest
    <3>2. e.kind = "save" => e.previousRow = c.previousRow /\ e.conv = c.conv
      BY <1>4, <1>6 DEF IsBody
    <3>3. Tells(e)'
      BY <1>1, <1>3, <1>4, <1>6, <3>2 DEF AnswersAgree, Tells, SpacesRest
    <3> QED BY <3>1, <3>3, <2>1 DEF AnswersAgree
  <2>3. Switches # {} => \A d \in calls' : d.kind \in {"toggle", "global"}
    BY <2>1, <1>3, <1>6 DEF SwitchesInv, SwitchesApart
  <2> QED BY <2>1, <2>2, <2>3, <1>1, QuietSpaces
<1> QED BY <1>7, <1>8

-----------------------------------------------------------------------------
(* What the answers do.                                                    *)

(* A request ends that is not about switches.                              *)
LEMMA EndsSpaces ==
  ASSUME SettingsTypes, SpacesInv, ~unsure, NEW c \in calls, c.kind \notin {"toggle", "global"},
         Done(c), UNCHANGED <<stored, behind>>,
         \/ UNCHANGED <<spacesOf, spacesDraft>>
         \/ spacesOf' = None
         \/ spacesDraft' = stored[spacesOf'].spaces,
         \A b \in Conversations \ Hidden :
           ~behind => listed'[b].spaces \in {listed[b].spaces, stored[b].spaces}
  PROVE  SpacesInv'
<1>1. Switches = {} /\ Switches' = {}
  BY DEF SpacesInv, SwitchesInv, SwitchesApart, Done, Switches, Kind
<1>2. AnswersAgree /\ DraftAgrees
  BY DEF SpacesInv
<1>3. AnswersAgree'
  <2>1. \A d \in calls : Tells(d)'
    BY <1>2, RestTells
  <2> QED BY <2>1 DEF AnswersAgree, Done
<1>4. spacesOf' # None => spacesDraft' = stored'[spacesOf'].spaces
  BY <1>1, <1>2 DEF DraftAgrees
<1> QED BY <1>1, <1>3, <1>4, SettledKeeps

(* The row of an answer says what is stored.                               *)
LEMMA ListedSpaces ==
  ASSUME SettingsTypes, NEW c \in calls, Tells(c), c.phase = "answered", AboutRow(c),
         c.kind # "toggle", listed' = Listed(c.reply)
  PROVE  /\ c.reply.spaces = stored[c.conv].spaces /\ c.reply.id = c.conv
         /\ \A b \in Conversations \ Hidden : listed'[b].spaces \in {listed[b].spaces, stored[b].spaces}
<1>1. c.reply.id = c.conv /\ c.conv \in Conversations
  BY AnswerIs
<1>2. c.reply.spaces = stored[c.conv].spaces
  BY DEF Tells
<1>3. \A b \in Conversations \ Hidden : listed'[b].spaces \in {listed[b].spaces, stored[b].spaces}
  BY <1>1, <1>2 DEF Listed, SettingsTypes, RowTypes, IsMapOfRows
<1> QED BY <1>1, <1>2, <1>3

LEMMA GlobalLoadedSpaces == ASSUME SettingsTypes, SpacesInv, GlobalLoaded PROVE SpacesInv'
<1> SUFFICES ASSUME ~unsure PROVE SpacesInv'
  BY DEF SpacesInv, GlobalLoaded
<1>0. CASE active = None
  <2>1. PICK c \in Answered("global") :
          /\ Done(c) /\ spacesOf' = None
          /\ UNCHANGED <<stored, listed, behind>>
    BY <1>0 DEF GlobalLoaded, serverVars, DraftsAtHome, ApplyNewChat
  <2>2. Switches = {}
    BY <1>0, SettingsAssumption DEF SpacesInv, SwitchesInv, SwitchesApart
  <2>3. calls' \subseteq calls /\ Switches' = {}
    BY <2>1, <2>2 DEF Switches, Kind, Done
  <2>4. \A d \in calls : Tells(d)'
    BY <2>1, RestTells DEF SpacesInv
  <2>5. AnswersAgree'
    BY <2>3, <2>4 DEF AnswersAgree
  <2> QED BY <2>1, <2>2, <2>3, <2>5, SettledKeeps
<1> SUFFICES ASSUME active # None PROVE SpacesInv'
  BY <1>0
<1>1. PICK c \in Answered("global") : Done(c) /\ SpacesRest
  BY DEF GlobalLoaded, SpacesRest, serverVars, draftVars, toggleVars, DraftsAtHome, ForgetAtHome
<1>2. Switches' = Switches /\ calls' \subseteq calls
  BY <1>1 DEF Switches, Kind, Done, Answered
<1>3. AnswersAgree'
  <2>1. \A d \in calls : Tells(d)'
    BY <1>1, RestTells DEF SpacesInv, SpacesRest
  <2> QED BY <2>1, <1>2 DEF AnswersAgree
<1>4. Switches # {} => \A d \in calls' : d.kind \in {"toggle", "global"}
  BY <1>2 DEF SpacesInv, SwitchesInv, SwitchesApart
<1> QED BY <1>1, <1>2, <1>3, <1>4, QuietSpaces

LEMMA RowLoadedSpaces == ASSUME SettingsTypes, SpacesInv, RowLoaded PROVE SpacesInv'
<1> SUFFICES ASSUME ~unsure PROVE SpacesInv'
  BY DEF SpacesInv, RowLoaded, history
<1>1. PICK c \in Answered("row") :
        /\ listed' = Listed(c.reply) /\ Done(c)
        /\ UNCHANGED <<stored, spacesDraft, spacesOf, behind>>
  BY DEF RowLoaded, serverVars, history
<1>2. c \in calls /\ c.kind = "row" /\ c.phase = "answered" /\ AboutRow(c) /\ Tells(c)
  BY DEF Answered, Kind, AboutRow, SpacesInv, AnswersAgree
<1>3. \A b \in Conversations \ Hidden : listed'[b].spaces \in {listed[b].spaces, stored[b].spaces}
  BY <1>1, <1>2, ListedSpaces
<1> QED BY <1>1, <1>2, <1>3, EndsSpaces

LEMMA SavedConversationSpaces ==
  ASSUME SettingsTypes, SpacesInv, SavedConversation PROVE SpacesInv'
<1> SUFFICES ASSUME ~unsure PROVE SpacesInv'
  BY DEF SpacesInv, SavedConversation, history
<1>1. PICK c \in Saves(Answered("save"), "conversation") :
        /\ listed' = Listed(c.reply) /\ ApplyRow(c.reply) /\ Done(c)
        /\ UNCHANGED <<stored, behind>>
  BY DEF SavedConversation, serverVars, history
<1>2. c \in calls /\ c.kind = "save" /\ c.phase = "answered" /\ AboutRow(c) /\ Tells(c)
  BY DEF Answered, Kind, AboutRow, SpacesInv, AnswersAgree, Saves
<1>3. /\ c.reply.spaces = stored[c.conv].spaces /\ c.reply.id = c.conv
      /\ \A b \in Conversations \ Hidden : listed'[b].spaces \in {listed[b].spaces, stored[b].spaces}
  BY <1>1, <1>2, ListedSpaces
<1>4. spacesDraft' = stored[spacesOf'].spaces
  BY <1>1, <1>3 DEF ApplyRow
<1> QED BY <1>1, <1>2, <1>3, <1>4, EndsSpaces

(* A save goes on to its next request.                                     *)
LEMMA NextStageSpaces ==
  ASSUME SettingsTypes, SpacesInv, ~unsure, UNCHANGED <<stored, listed, behind, unsure>>,
         UNCHANGED <<spacesDraft, spacesOf>> \/ spacesOf' = None, NEW c \in calls, c.kind = "save", c.conv # None,
         NEW stage \in {"conversation", "rollback"},
         Become(c, Beside([stage |-> stage, phase |-> "sent"], c))
  PROVE  SpacesInv'
<1> DEFINE e == Beside([stage |-> stage, phase |-> "sent"], c)
<1>1. /\ IsExpected(e) /\ DOMAIN e = DOMAIN c /\ e.phase = "sent"
      /\ \A x \in DOMAIN c : x \notin {"phase", "stage"} => e[x] = c[x]
  BY NextStageIs DEF SettingsTypes
<1>2. calls' = (calls \ {c}) \cup {e}
  BY DEF Become
<1> HIDE DEF e
<1>3. e.kind = "save" /\ e.conv = c.conv /\ e.previousRow = c.previousRow
  BY <1>1 DEF SettingsTypes, IsExpected, IsRequest, IsBody
<1>4. Switches' = Switches
  BY <1>2, <1>3 DEF Switches, Kind
<1>5. AnswersAgree'
  <2>1. \A d \in calls : Tells(d)'
    BY RestTells DEF SpacesInv
  <2>2. Tells(e)'
    BY <1>1, <1>3 DEF SpacesInv, AnswersAgree, Tells
  <2> QED BY <2>1, <2>2, <1>2 DEF AnswersAgree
<1>6. Switches = {}
  BY DEF SpacesInv, SwitchesInv, SwitchesApart
<1>7. spacesOf' # None => spacesDraft' = stored'[spacesOf'].spaces
  BY <1>6 DEF SpacesInv, DraftAgrees
<1> QED BY <1>4, <1>5, <1>6, <1>7, SettledKeeps

LEMMA SavedGlobalSpaces == ASSUME SettingsTypes, SpacesInv, SavedGlobal PROVE SpacesInv'
<1> SUFFICES ASSUME ~unsure PROVE SpacesInv'
  BY DEF SpacesInv, SavedGlobal
<1>1. PICK c \in Saves(Answered("save"), "global") :
        /\ IF c.conv = None
           THEN spacesOf' = None /\ Done(c)
           ELSE /\ Become(c, Beside([stage |-> "conversation", phase |-> "sent"], c))
                /\ \/ UNCHANGED <<spacesDraft, spacesOf>>
                   \/ spacesOf' = None
        /\ UNCHANGED <<stored, listed, behind, unsure>>
  BY DEF SavedGlobal, serverVars, draftVars, ApplyNewChat, DraftsAtHome
<1>2. c \in calls /\ c.kind = "save"
  BY DEF Answered, Kind, Saves
<1>3. CASE c.conv = None
  BY <1>1, <1>2, <1>3, EndsSpaces
<1>4. CASE c.conv # None
  BY <1>1, <1>2, <1>4, NextStageSpaces
<1> QED BY <1>3, <1>4

LEMMA SaveFailsSpaces == ASSUME SettingsTypes, SpacesInv, SaveFails PROVE SpacesInv'
<1> SUFFICES ASSUME ~unsure PROVE SpacesInv'
  BY DEF SpacesInv, SaveFails
<1>1. PICK c \in Failed("save") :
        /\ c.stage # "rollback"
        /\ IF c.stage = "global" THEN Done(c)
           ELSE Become(c, Beside([stage |-> "rollback", phase |-> "sent"], c))
        /\ SpacesRest
  BY DEF SaveFails, SpacesRest, serverVars, rowVars, toggleVars, draftVars
<1>2. c \in calls /\ c.kind = "save" /\ IsBody(c)
  BY DEF Failed, Kind, SettingsTypes, IsExpected
<1>3. CASE c.stage = "global"
  BY <1>1, <1>2, <1>3, EndsSpaces DEF SpacesRest
<1>4. CASE c.stage # "global"
  <2>1. c.conv # None
    BY <1>2, <1>4 DEF IsBody
  <2> QED BY <2>1, <1>1, <1>2, <1>4, NextStageSpaces DEF SpacesRest
<1> QED BY <1>3, <1>4

LEMMA RolledBackSaveSpaces == ASSUME SettingsTypes, SpacesInv, RolledBackSave PROVE SpacesInv'
<1> SUFFICES ASSUME ~unsure' PROVE SpacesInv'
  BY DEF SpacesInv
<1>1. PICK c \in Saves(Answered("save") \cup Failed("save"), "rollback") :
        /\ \/ c.previousRow # None /\ ApplyRow(c.previousRow)
           \/ UNCHANGED <<spacesDraft, spacesOf>>
           \/ spacesOf' = None
        /\ Done(c)
        /\ unsure' = (unsure \/ behind)
        /\ UNCHANGED <<stored, listed, behind>>
  BY DEF RolledBackSave, serverVars, draftVars, DraftsAtHome, ApplyNewChat
<1>2. c \in calls /\ c.kind = "save" /\ IsBody(c) /\ ~unsure /\ ~behind
  BY <1>1 DEF Failed, Answered, Saves, Kind, SettingsTypes, IsExpected
<1>3. ASSUME c.previousRow # None, ApplyRow(c.previousRow)
      PROVE  spacesDraft' = stored[spacesOf'].spaces
  <2>1. c.previousRow.spaces = stored[c.conv].spaces
    BY <1>2, <1>3 DEF SpacesInv, AnswersAgree, Tells
  <2>2. c.previousRow.id = c.conv
    BY <1>2, <1>3 DEF IsBody, CopiesOf
  <2> QED BY <2>1, <2>2, <1>1, <1>3 DEF ApplyRow
<1> QED BY <1>1, <1>2, <1>3, EndsSpaces

LEMMA ModelChangedSpaces == ASSUME SettingsTypes, SpacesInv, ModelChanged PROVE SpacesInv'
<1> SUFFICES ASSUME ~unsure PROVE SpacesInv'
  BY DEF SpacesInv, ModelChanged, history
<1>1. PICK c \in Answered("model") :
        /\ listed' = Listed(c.reply) /\ Done(c)
        /\ UNCHANGED <<stored, spacesDraft, spacesOf, behind>>
  BY DEF ModelChanged, serverVars, history
<1>2. c \in calls /\ c.kind = "model" /\ c.phase = "answered" /\ AboutRow(c) /\ Tells(c)
  BY DEF Answered, Kind, AboutRow, SpacesInv, AnswersAgree
<1>3. \A b \in Conversations \ Hidden : listed'[b].spaces \in {listed[b].spaces, stored[b].spaces}
  BY <1>1, <1>2, ListedSpaces
<1> QED BY <1>1, <1>2, <1>3, EndsSpaces

LEMMA DefaultModelSetSpaces == ASSUME SettingsTypes, SpacesInv, DefaultModelSet PROVE SpacesInv'
<1> SUFFICES ASSUME ~unsure PROVE SpacesInv'
  BY DEF SpacesInv, DefaultModelSet
<1>1. PICK c \in Answered("default") :
        /\ spacesOf' = None \/ UNCHANGED <<spacesDraft, spacesOf>>
        /\ Done(c)
        /\ UNCHANGED <<stored, listed, behind>>
  BY DEF DefaultModelSet, serverVars, draftVars, ApplyNewChat, DraftsAtHome
<1>2. c \in calls /\ c.kind = "default"
  BY DEF Answered, Kind
<1> QED BY <1>1, <1>2, EndsSpaces

LEMMA QuietFailureSpaces == ASSUME SettingsTypes, SpacesInv, QuietFailure PROVE SpacesInv'
<1> SUFFICES ASSUME ~unsure PROVE SpacesInv'
  BY DEF SpacesInv, QuietFailure
<1>1. PICK c \in Failed("global") \cup Failed("row") \cup Failed("model") \cup Failed("default") :
        Done(c) /\ SpacesRest
  BY DEF QuietFailure, SpacesRest, serverVars, rowVars, toggleVars, draftVars
<1>2. c \in calls /\ c.kind \in {"global", "row", "model", "default"} /\ calls' \subseteq calls
  BY <1>1 DEF Failed, Kind, Done
<1>3. Switches' = Switches
  BY <1>1, <1>2 DEF Switches, Kind, Done
<1>4. AnswersAgree'
  <2>1. \A d \in calls : Tells(d)'
    BY <1>1, RestTells DEF SpacesInv, SpacesRest
  <2> QED BY <2>1, <1>2 DEF AnswersAgree
<1>5. Switches # {} => \A d \in calls' : d.kind \in {"toggle", "global"}
  BY <1>2 DEF SpacesInv, SwitchesInv, SwitchesApart
<1> QED BY <1>1, <1>3, <1>4, <1>5, QuietSpaces

(* A switch ends.                                                          *)
LEMMA SwitchEnds ==
  ASSUME SettingsTypes, SwitchesInv, NEW c \in Switches, Done(c), counts' = Released(c),
         UNCHANGED <<active, spacesOf, versions>>
  PROVE  /\ Switches' = Switches \ {c} /\ SentSwitches' = SentSwitches \ {c}
         /\ FailedSwitches' = FailedSwitches \ {c}
         /\ SwitchesApart' /\ SwitchesLatest' /\ SwitchesOrdered' /\ AnswersAgree' /\ IsLatest(c)
<1>1. calls' = calls \ {c}
  BY DEF Done
<1>2. /\ Switches' = Switches \ {c} /\ SentSwitches' = SentSwitches \ {c}
      /\ FailedSwitches' = FailedSwitches \ {c}
  BY <1>1 DEF Switches, SentSwitches, FailedSwitches, Failed, Kind
<1>3. SwitchesApart'
  BY <1>1, <1>2 DEF SwitchesInv, SwitchesApart
<1>4. \A t \in Switches \ {c} : counts'[t.space] = counts[t.space]
  <2>1. \A t \in Switches \ {c} : t.space # c.space /\ t.space \in Spaces
    BY SwitchIs DEF SwitchesInv, SwitchesLatest
  <2> QED BY <2>1, SwitchIs DEF Released, SettingsTypes, SwitchTypes
<1>5. SwitchesLatest'
  BY <1>2, <1>4 DEF SwitchesInv, SwitchesLatest
<1>6. SwitchesOrdered'
  BY <1>2 DEF SwitchesInv, SwitchesOrdered
<1>7. AnswersAgree'
  <2>1. \A d \in calls' : d.kind \in {"toggle", "global"}
    BY <1>1 DEF SwitchesInv, SwitchesApart
  <2> QED BY <2>1 DEF AnswersAgree, Tells, AboutRow
<1>8. IsLatest(c)
  BY DEF SwitchesInv, SwitchesApart, SwitchesLatest, IsLatest
<1> QED BY <1>2, <1>3, <1>5, <1>6, <1>7, <1>8

LEMMA SpaceToggledSpaces == ASSUME SettingsTypes, SpacesInv, SpaceToggled PROVE SpacesInv'
<1> SUFFICES ASSUME ~unsure PROVE SpacesInv'
  BY DEF SpacesInv, SpaceToggled, history
<1>1. PICK c \in Answered("toggle") :
        /\ IF Accepted(c)
           THEN /\ listed' = Listed(c.reply)
                /\ spacesDraft' = c.reply.spaces
           ELSE UNCHANGED <<listed, spacesDraft>>
        /\ counts' = Released(c)
        /\ Done(c)
        /\ UNCHANGED <<stored, active, spacesOf, versions, behind>>
  BY DEF SpaceToggled, serverVars, rowVars, history
<1>2. SwitchesInv /\ DraftAgrees /\ ListAgrees /\ AnswersAgree
  BY DEF SpacesInv
<1>3. c \in Switches /\ c.phase = "answered"
  BY DEF Answered, Kind, Switches
<1>4. /\ Switches' = Switches \ {c} /\ SentSwitches' = SentSwitches \ {c}
      /\ FailedSwitches' = FailedSwitches \ {c}
      /\ SwitchesApart' /\ SwitchesLatest' /\ SwitchesOrdered' /\ AnswersAgree' /\ IsLatest(c)
  BY <1>1, <1>2, <1>3, SwitchEnds
<1>5. SentSwitches' = SentSwitches /\ FailedSwitches' = FailedSwitches /\ Doomed' = Doomed
  <2>1. SentSwitches' = SentSwitches /\ FailedSwitches' = FailedSwitches
    BY <1>3, <1>4 DEF SentSwitches, FailedSwitches, Failed
  <2> QED BY <2>1 DEF Doomed
<1>6. /\ c.conv = active /\ active \in Conversations \ Hidden
      /\ c.reply.spaces = c.ids /\ c.reply.id = active
      /\ spacesDraft' = spacesDraft
      /\ Accepted(c) <=> c.ids = spacesDraft
      /\ c.n \in Nat /\ \A t \in Switches : t.n \in Nat
  <2>1. c.conv = active /\ active \in Conversations \ Hidden
    BY <1>2, <1>3 DEF SwitchesInv, SwitchesApart
  <2>2. c.reply.spaces = c.ids /\ c.reply.id = active /\ \A t \in Switches : t.n \in Nat
    BY <1>3, <2>1, SwitchIs
  <2> QED BY <2>1, <2>2, <1>1, <1>3, <1>4 DEF Accepted
<1>7. IF Accepted(c) THEN listed' = [listed EXCEPT ![active] = c.reply] ELSE listed' = listed
  BY <1>1, <1>6 DEF Listed
<1>8. /\ \A b \in Conversations \ Hidden : b # active => listed'[b] = listed[b]
      /\ listed'[active].spaces = IF c.ids = spacesDraft THEN c.ids ELSE listed[active].spaces
  BY <1>6, <1>7 DEF SettingsTypes, RowTypes, IsMapOfRows
<1>9. LastIsShown'
  BY <1>2, <1>4, <1>6 DEF SwitchesInv, LastIsShown
<1>10. DraftIsExpected'
  BY <1>1, <1>2, <1>3, <1>5, <1>6 DEF SwitchesInv, DraftIsExpected
<1>11. FollowedHasNext'
  <2> SUFFICES ASSUME ~behind, ~Doomed, NEW u \in SentSwitches, u.followed
               PROVE  \E v \in Switches' : u.n < v.n /\ Pending(v)
    BY <1>1, <1>5 DEF FollowedHasNext
  <2>1. PICK v \in Switches : u.n < v.n /\ Pending(v)
    BY <1>2 DEF SwitchesInv, FollowedHasNext
  <2> QED BY <2>1, <1>3, <1>4 DEF Pending
<1>12. ASSUME ~behind, ~Doomed, SentSwitches = {}, FailedSwitches = {}
       PROVE  \/ listed'[active].spaces = stored[active].spaces /\ spacesDraft = stored[active].spaces
              \/ \E t \in Switches \ {c} : /\ t.phase = "answered" /\ t.ids = stored[active].spaces
                                           /\ spacesDraft = t.ids
  <2>1. \A u \in Switches : ~Pending(u)
    BY <1>12 DEF Pending, SentSwitches, FailedSwitches, Failed, Switches, Kind
  <2>2. CASE listed[active].spaces = stored[active].spaces /\ spacesDraft = stored[active].spaces
    BY <2>2, <1>8
  <2>3. CASE \E t \in Switches : /\ t.phase = "answered" /\ t.ids = stored[active].spaces
                                 /\ spacesDraft = t.ids
    BY <2>3, <1>8
  <2> QED BY <2>1, <2>2, <2>3, <1>2, <1>3, <1>12 DEF SwitchesInv, ListWillAgree
<1>13. ListWillAgree'
  <2> SUFFICES ASSUME ~behind, ~Doomed PROVE ListWillAgree'
    BY <1>1, <1>5 DEF ListWillAgree
  <2>1. CASE SentSwitches # {}
    <3>1. PICK u \in SentSwitches : TRUE
      BY <2>1
    <3>2. u \in Switches /\ u.phase = "sent" /\ c.n < u.n
      BY <1>2, <1>3 DEF SwitchesInv, SwitchesOrdered, SentSwitches
    <3>3. u.overlap /\ u # c
      BY <3>2, <1>2, <1>3 DEF SwitchesInv, SwitchesOrdered
    <3> QED BY <3>2, <3>3, <1>4 DEF ListWillAgree, Pending
  <2>2. CASE FailedSwitches # {}
    <3>1. PICK f \in FailedSwitches : TRUE
      BY <2>2
    <3>2. f \in Switches /\ f.phase = "failed" /\ ~f.followed /\ f # c
      BY <1>3 DEF Doomed, FailedSwitches, Failed, Switches, Kind
    <3>3. f.n < c.n \/ c.n < f.n
      BY <3>2, <1>2, <1>3, <1>6 DEF SwitchesInv, SwitchesOrdered
    <3>4. f.overlap
      BY <3>2, <3>3, <1>2, <1>3 DEF SwitchesInv, SwitchesOrdered
    <3> QED BY <3>2, <3>4, <1>4 DEF ListWillAgree, Pending
  <2>3. CASE SentSwitches = {} /\ FailedSwitches = {}
    BY <2>3, <1>1, <1>4, <1>6, <1>12 DEF ListWillAgree
  <2> QED BY <2>1, <2>2, <2>3
<1>14. ASSUME Switches' = {}
       PROVE  Switches = {c} /\ SentSwitches = {} /\ FailedSwitches = {} /\ ~Doomed
  <2>1. Switches = {c}
    BY <1>14, <1>3, <1>4
  <2>2. SentSwitches = {} /\ FailedSwitches = {}
    BY <2>1, <1>3 DEF SentSwitches, FailedSwitches, Failed, Switches, Kind
  <2> QED BY <2>1, <2>2 DEF Doomed
<1>15. DraftAgrees'
  <2> SUFFICES ASSUME Switches' = {}, spacesOf # None
               PROVE  spacesDraft = stored[spacesOf].spaces
    BY <1>1, <1>6 DEF DraftAgrees
  <2>1. spacesOf = active
    BY <1>2, <1>3 DEF SwitchesInv, SwitchesApart
  <2> QED BY <2>1, <1>2, <1>14 DEF SwitchesInv, DraftIsExpected, Expects
<1>16. ListAgrees'
  <2> SUFFICES ASSUME ~behind, NEW b \in Conversations \ Hidden, Switches' = {} \/ b # active
               PROVE  listed'[b].spaces = stored[b].spaces
    BY <1>1 DEF ListAgrees
  <2>1. CASE b # active
    BY <2>1, <1>2, <1>8 DEF ListAgrees
  <2>2. CASE b = active
    BY <2>2, <1>12, <1>14
  <2> QED BY <2>1, <2>2
<1> QED BY <1>4, <1>9, <1>10, <1>11, <1>13, <1>15, <1>16 DEF SpacesInv, SwitchesInv

LEMMA ToggleFailsSpaces == ASSUME SettingsTypes, SpacesInv, ToggleFails PROVE SpacesInv'
<1> SUFFICES ASSUME ~unsure' PROVE SpacesInv'
  BY DEF SpacesInv
<1>1. PICK c \in Failed("toggle") :
        /\ spacesDraft' = IF IsLatest(c) THEN RolledBack(spacesDraft, c.previous, c.space)
                                         ELSE spacesDraft
        /\ counts' = Released(c)
        /\ Done(c)
        /\ unsure' = (unsure \/ c.lost \/ c.followed)
        /\ behind' = (behind \/ c.overlap)
        /\ UNCHANGED <<stored, active, listed, spacesOf, versions>>
  BY DEF ToggleFails, serverVars, rowVars
<1>2. ~unsure /\ ~c.lost /\ ~c.followed
  BY <1>1
<1>3. SwitchesInv /\ DraftAgrees /\ ListAgrees /\ AnswersAgree
  BY <1>2 DEF SpacesInv
<1>4. c \in Switches /\ c.phase = "failed" /\ c \in FailedSwitches
  BY DEF Failed, Kind, Switches, FailedSwitches
<1>5. /\ Switches' = Switches \ {c} /\ SentSwitches' = SentSwitches \ {c}
      /\ FailedSwitches' = FailedSwitches \ {c}
      /\ SwitchesApart' /\ SwitchesLatest' /\ SwitchesOrdered' /\ AnswersAgree' /\ IsLatest(c)
  BY <1>1, <1>3, <1>4, SwitchEnds
<1>6. SentSwitches' = SentSwitches /\ FailedSwitches \subseteq Switches /\ SentSwitches \subseteq Switches
  BY <1>4, <1>5 DEF SentSwitches, FailedSwitches, Failed, Switches, Kind
<1>7. spacesDraft' = c.previous
  <2>1. c.previous \in Lists /\ c.space \in Spaces /\ c.ids = Toggled(c.previous, c.space)
    BY <1>4, SwitchIs
  <2>2. spacesDraft = c.ids
    BY <1>2, <1>3, <1>4 DEF SwitchesInv, LastIsShown
  <2> QED BY <2>1, <2>2, <1>1, <1>5, ToggleUndone
<1>8. \A t \in Switches \ {c} : t.followed /\ c.overlap
  <2> SUFFICES ASSUME NEW t \in Switches \ {c} PROVE t.followed /\ c.overlap
    OBVIOUS
  <2>1. t.n \in Nat /\ c.n \in Nat
    BY <1>4, SwitchIs
  <2>2. t.n < c.n \/ c.n < t.n
    BY <2>1, <1>3, <1>4 DEF SwitchesInv, SwitchesOrdered
  <2> QED BY <2>2, <1>2, <1>3, <1>4 DEF SwitchesInv, SwitchesOrdered
<1>9. ASSUME ~Doomed' PROVE FailedSwitches = {c} /\ ~Doomed
  <2>1. FailedSwitches = {c}
    BY <1>9, <1>4, <1>5, <1>6, <1>8 DEF Doomed
  <2> QED BY <2>1, <1>2 DEF Doomed
<1>10. ASSUME ~behind' PROVE ~behind /\ Switches = {c} /\ Switches' = {} /\ ~c.overlap
  BY <1>1, <1>4, <1>5, <1>8, <1>10
<1>11. LastIsShown'
  BY <1>5, <1>8 DEF LastIsShown
<1>12. ASSUME ~Doomed', spacesOf = active
       PROVE  Expects(stored[active].spaces, SentSwitches, spacesDraft')
  BY <1>3, <1>4, <1>7, <1>9, <1>12 DEF SwitchesInv, DraftIsExpected
<1>13. DraftIsExpected'
  <2> SUFFICES ASSUME Switches' # {}, spacesOf = active, ~Doomed' PROVE DraftIsExpected'
    BY <1>1 DEF DraftIsExpected
  <2>1. FailedSwitches' = {}
    BY <1>5, <1>9
  <2>2. \A t \in SentSwitches : t.followed
    BY <1>6, <1>8, <1>4 DEF SentSwitches
  <2> QED BY <2>1, <2>2, <1>1, <1>6, <1>12 DEF DraftIsExpected
<1>14. FollowedHasNext' /\ ListWillAgree'
  BY <1>5, <1>6, <1>10 DEF FollowedHasNext, ListWillAgree
<1>15. DraftAgrees'
  <2> SUFFICES ASSUME Switches' = {}, spacesOf # None
               PROVE  spacesDraft' = stored[spacesOf].spaces
    BY <1>1 DEF DraftAgrees
  <2>1. spacesOf = active
    BY <1>3, <1>4 DEF SwitchesInv, SwitchesApart
  <2>2. SentSwitches = {} /\ FailedSwitches' = {}
    BY <1>4, <1>5, <1>6 DEF SentSwitches
  <2>3. ~Doomed'
    BY <2>2 DEF Doomed
  <2> QED BY <2>1, <2>2, <2>3, <1>12 DEF Expects
<1>16. ListAgrees'
  <2> SUFFICES ASSUME ~behind', NEW b \in Conversations \ Hidden
               PROVE  listed[b].spaces = stored[b].spaces
    BY <1>1 DEF ListAgrees
  <2>1. CASE b # active
    BY <2>1, <1>3, <1>10 DEF ListAgrees
  <2>2. CASE b = active
    <3>1. ~Doomed
      BY <1>2, <1>6, <1>10 DEF Doomed
    <3> QED BY <2>2, <3>1, <1>3, <1>4, <1>10 DEF SwitchesInv, ListWillAgree
  <2> QED BY <2>1, <2>2
<1> QED BY <1>5, <1>11, <1>13, <1>14, <1>15, <1>16 DEF SpacesInv, SwitchesInv

(* The start, and every step.                                              *)
LEMMA SpacesStart == ASSUME SettingsStart, calls = SettingsFirst PROVE SpacesInv
<1> DEFINE c == Request(0, [kind |-> "global", alone |-> TRUE, followed |-> FALSE, overlap |-> FALSE])
<1>1. calls = {c} /\ c.kind = "global"
  BY DEF SettingsFirst, Request, Beside
<1> HIDE DEF c
<1>2. Switches = {} /\ AnswersAgree
  BY <1>1 DEF Switches, Kind, AnswersAgree, Tells, AboutRow
<1>3. DraftAgrees
  BY DEF SettingsStart, DraftAgrees, NewRow
<1>4. ListAgrees
  BY DEF SettingsStart, ListAgrees, NewRow
<1> QED BY <1>2, <1>3, <1>4, NoSwitchesKeeps DEF SpacesInv

LEMMA SpacesStep ==
  ASSUME SettingsTypes, SpacesInv, SettingsNext
  PROVE  SpacesInv'
<1>1. CASE SettingsActs
  BY <1>1, OpenSettingsSpaces, ResetSettingsSpaces, CloseSettingsSpaces, EditSpaces, ToggleSpaces,
     SaveSpaces, ChangeModelSpaces, SetDefaultModelSpaces, NavigateSpaces DEF SettingsActs
<1>2. CASE ~SettingsActs
  BY <1>2, ServeKeepsSpaces, FailSpaces, GlobalLoadedSpaces, RowLoadedSpaces, SavedGlobalSpaces,
     SavedConversationSpaces, SaveFailsSpaces, RolledBackSaveSpaces, ModelChangedSpaces,
     DefaultModelSetSpaces, QuietFailureSpaces, SpaceToggledSpaces, ToggleFailsSpaces
     DEF SettingsNext
<1> QED BY <1>1, <1>2

LEMMA SpacesAreSettled == ASSUME SpacesInv PROVE SpacesSettle
  BY DEF SpacesInv, DraftAgrees, SpacesSettle, Switches

-----------------------------------------------------------------------------
(* The theorems.                                                           *)

SettingsInv == SettingsTypes /\ SavesInv /\ SpacesInv

LEMMA SettingsStartHolds ==
  ASSUME SettingsStart, calls = SettingsFirst, acts \in 0 .. MaxActs PROVE SettingsInv
  BY TypesStart, SavesStart, SpacesStart DEF SettingsInv

LEMMA SettingsNextKeeps ==
  ASSUME SettingsInv, [SettingsNext]_settingsVars PROVE SettingsInv'
<1>1. CASE SettingsNext
  BY <1>1, TypesStep, SavesStep, SpacesStep DEF SettingsInv
<1>2. CASE UNCHANGED settingsVars
  <2>1. UNCHANGED <<serverVars, active, rowVars, globalVars, draftVars, newVars, toggleVars,
                    dialog, history, isSaving, calls, acts>>
    BY <1>2 DEF settingsVars, settingsState, requestVars, dialog
  <2>2. SettingsTypes
    BY DEF SettingsInv
  <2>3. /\ StoredTypes' /\ RowTypes' /\ GlobalTypes' /\ DraftTypes' /\ SwitchTypes'
        /\ DialogTypes' /\ OneSave'
    BY <2>1, <2>2, RestTypes
  <2>4. Counted' /\ Blocked'
    BY <2>1, <2>2 DEF SettingsTypes, Counted, Blocked, Kind, toggleVars
  <2>5. SettingsTypes'
    BY <2>1, <2>2, <2>3, <2>4 DEF SettingsTypes
  <2>6. SavesInv'
    BY <2>1, QuietSaves DEF globalVars, history, SettingsInv
  <2>7. SpacesInv'
    BY <2>1, StillSpaces
       DEF SettingsInv, SpacesRest, serverVars, rowVars, draftVars, toggleVars, history
  <2> QED BY <2>5, <2>6, <2>7 DEF SettingsInv
<1> QED BY <1>1, <1>2

LEMMA SettingsAreOK == ASSUME SettingsInv PROVE SettingsOK
<1>1. \A c \in Conversations : stored[c] \in CopiesOf(c)
  BY DEF SettingsInv, SettingsTypes, StoredTypes, IsMapOfRows
<1>2. \A c \in Conversations : /\ stored[c].id = c /\ stored[c].settings \in Settings
                               /\ IsInjective(stored[c].spaces)
  BY <1>1 DEF CopiesOf, Lists
<1>3. \A s \in Spaces : counts[s] > 0 => \E c \in Kind("toggle") : c.space = s
  BY DEF SettingsInv, SettingsTypes, Blocked
<1>4. /\ storedGlobal \in GlobalSettings /\ global \in GlobalSettings
      /\ globalDraft \in GlobalSettings /\ draft \in Settings
      /\ metaDraft \in Values /\ newPrompt \in Values /\ newMeta \in Values
      /\ IsInjective(spacesDraft) /\ isSaving = (Kind("save") # {})
  BY DEF SettingsInv, SettingsTypes, StoredTypes, GlobalTypes, DraftTypes, OneSave, Lists
<1> QED BY <1>2, <1>3, <1>4 DEF SettingsOK

(* Whatever the user does and in whatever order requests are taken,        *)
(* answered or lost, the settings have their types, one save is under way  *)
(* at a time, and a blocked switch of a space waits for a request about it *)
(* (updatePendingKnowledgeSpace).                                          *)
THEOREM SettingsTypeCorrect == SettingsSpec => []SettingsOK
<1>1. SettingsInit => SettingsInv
  BY SettingsStartHolds, ActsAssumption DEF SettingsInit
<1>2. SettingsInv /\ [SettingsNext]_settingsVars => SettingsInv'
  BY SettingsNextKeeps
<1>3. SettingsInv => SettingsOK
  BY SettingsAreOK
<1> QED BY <1>1, <1>2, <1>3, PTL DEF SettingsSpec

(* A save that ends, and that nothing crossed, stored the settings of every *)
(* chat and of its conversation, or neither (handleSaveSettings).          *)
THEOREM SavesAreWhole == SettingsSpec => SaveAllOrNothing
<1>1. SettingsInit => SettingsInv
  BY SettingsStartHolds, ActsAssumption DEF SettingsInit
<1>2. SettingsInv /\ [SettingsNext]_settingsVars => SettingsInv'
  BY SettingsNextKeeps
<1>3. SettingsInv /\ [SettingsNext]_settingsVars =>
        [\A c \in Kind("save") :
          (Ends(c) /\ c.alone /\ c.sure /\ ~c.lost /\ ~(c.stage = "rollback" /\ c.phase = "failed"))
          => IF isOpen' = isOpen /\ isOpen THEN AsBefore(c) ELSE Stored(c) \/ AsBefore(c)]_settingsVars
  BY SavesAreWholeStep DEF SettingsInv
<1> QED BY <1>1, <1>2, <1>3, PTL DEF SettingsSpec, SaveAllOrNothing

(* Whatever the order of the answers to switches of spaces, once all are   *)
(* there the dialog shows the spaces the server stores                     *)
(* (toggleKnowledgeSpace and its rollback).                                *)
THEOREM SwitchesSettle == SettingsSpec => []SpacesSettle
<1>1. SettingsInit => SettingsInv
  BY SettingsStartHolds, ActsAssumption DEF SettingsInit
<1>2. SettingsInv /\ [SettingsNext]_settingsVars => SettingsInv'
  BY SettingsNextKeeps
<1>3. SettingsInv => SpacesSettle
  BY SpacesAreSettled DEF SettingsInv
<1> QED BY <1>1, <1>2, <1>3, PTL DEF SettingsSpec

=============================================================================
