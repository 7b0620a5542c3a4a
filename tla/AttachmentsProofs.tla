-------------------------- MODULE AttachmentsProofs --------------------------
(***************************************************************************)
(* Proofs about Attachments, for any number of users, uploads, request     *)
(* handlers and messages.                                                  *)
(***************************************************************************)
EXTENDS Attachments, FiniteSetTheorems, TLAPS

(* An upload has its file before its row, and its row before it is done.   *)
Uploading ==
  \A f \in Files :
    /\ upload[f] = "none" => f \notin file \cup record
    /\ upload[f] = "written" => f \in file \ record

(* What was done with these uploads is over: no row of theirs will come.   *)
Over(fs) == \A f \in fs : upload[f] = "done"

(* What a worker knows of the files it holds: those it picked were rows of *)
(* the user, those it removes are not protected by a link, and have no row *)
(* once it removes the files.                                              *)
Informed(w) ==
  /\ worker[w].pc \in {"send", "edit"} =>
       /\ IsFiniteSet(worker[w].picked)
       /\ Cardinality(worker[w].picked) <= MaxAttachments
       /\ \A f \in worker[w].picked : Owner[f] = worker[w].user
       /\ Over(worker[w].picked)
       /\ worker[w].picked \subseteq record \cup excused
  /\ worker[w].pc = "drop" => worker[w].one \notin protected[w]
  /\ worker[w].pc = "remove" => Over({worker[w].one}) /\ worker[w].one \notin record
  /\ worker[w].pc = "sweep" => worker[w].batch \cap protected[w] = {}
  /\ worker[w].pc = "purge" => Over(worker[w].batch)
  /\ worker[w].pc = "files" => Over(worker[w].batch) /\ worker[w].batch \cap record = {}

(* The history protects nothing that lost its last link.                   *)
ProtectedAreLinked == \A w \in Workers : protected[w] \subseteq Linked

UsesAreOver == \A m \in Stored : Over(message[m].uses)

IInv ==
  /\ TypeOK
  /\ Uploading
  /\ RecordHasFile
  /\ UsesAreOver
  /\ LinksMatchUses
  /\ MessagesKeepAttachments
  /\ ProtectedAreLinked
  /\ \A w \in Workers : Informed(w)
  /\ NoOrphanFiles

-----------------------------------------------------------------------------
(* The states of a worker.                                                 *)

(* The fields a worker has are told by its pc. *)
LEMMA Shapes ==
  ASSUME TypeOK, NEW w \in Workers
  PROVE  /\ worker[w].pc \in {"send", "edit"} =>
              worker[w] \in [pc : {"send", "edit"}, user : Users, picked : SUBSET Files]
         /\ worker[w].pc = "delete" =>
              worker[w] \in [pc : {"delete"}, user : Users, todo : SUBSET Files]
         /\ worker[w].pc = "count" => worker[w] \in [pc : {"count"}, todo : SUBSET Files]
         /\ worker[w].pc \in {"drop", "remove"} =>
              worker[w] \in [pc : {"drop", "remove"}, one : Files, todo : SUBSET Files]
         /\ worker[w].pc = "sweep" =>
              worker[w] \in [pc : {"sweep"}, todo : SUBSET Files, batch : SUBSET Files]
         /\ worker[w].pc \in {"purge", "files"} =>
              worker[w] \in [pc : {"purge", "files"}, batch : SUBSET Files]
  BY DEF TypeOK, Idle, Busy

(* A step to a state of these shapes keeps the type of the workers. *)
LEMMA MoveTyped ==
  ASSUME TypeOK, NEW w \in Workers, NEW s \in {Idle} \cup Busy, Goto(w, s)
  PROVE  /\ worker' \in [Workers -> {Idle} \cup Busy]
         /\ worker'[w] = s
         /\ \A v \in Workers \ {w} : worker'[v] = worker[v]
  BY DEF TypeOK, Goto

(* What no step undoes as far as another worker is concerned. *)
LEMMA StaysInformed ==
  ASSUME IInv, NEW w \in Workers, worker'[w] = worker[w],
         \A f \in Files : upload[f] = "done" => upload'[f] = "done" /\ (f \in record' => f \in record),
         record \cup excused \subseteq record' \cup excused',
         protected'[w] \subseteq protected[w]
  PROVE  Informed(w)'
<1>1. Informed(w)
  BY DEF IInv
<1>2. worker[w].pc \in {"send", "edit"} => worker[w].picked \subseteq Files
  BY Shapes DEF IInv
<1>3. worker[w].pc = "remove" => worker[w].one \in Files
  BY Shapes DEF IInv
<1>4. worker[w].pc \in {"purge", "files"} => worker[w].batch \subseteq Files
  BY Shapes DEF IInv
<1> QED
  BY <1>1, <1>2, <1>3, <1>4 DEF Informed, Over

-----------------------------------------------------------------------------
(* Uploads. *)
LEMMA CreateFileStep ==
  ASSUME IInv, NEW f \in Files, CreateFile(f)
  PROVE  IInv'
<1> USE DEF CreateFile, tableVars
<1>1. TypeOK'
  BY DEF IInv, TypeOK, Stored
<1>2. (Uploading /\ RecordHasFile)'
  BY DEF IInv, TypeOK, Uploading, RecordHasFile
<1>3. (UsesAreOver /\ LinksMatchUses /\ MessagesKeepAttachments /\ ProtectedAreLinked)'
  BY DEF IInv, TypeOK, UsesAreOver, Over, LinksMatchUses, MessagesKeepAttachments,
         ProtectedAreLinked, Linked, Stored
<1>4. \A w \in Workers : Informed(w)'
  BY StaysInformed DEF IInv, TypeOK
<1>5. NoOrphanFiles'
  BY DEF IInv, TypeOK, NoOrphanFiles
<1> QED
  BY <1>1, <1>2, <1>3, <1>4, <1>5 DEF IInv

(* An upload has its record: its file is there already.                    *)
LEMMA SaveRecordStep ==
  ASSUME IInv, NEW f \in Files, SaveRecord(f)
  PROVE  IInv'
<1> USE DEF SaveRecord, tableVars
<1>1. TypeOK'
  BY DEF IInv, TypeOK, Stored
<1>2. (Uploading /\ RecordHasFile)'
  BY DEF IInv, TypeOK, Uploading, RecordHasFile
<1>3. (UsesAreOver /\ LinksMatchUses /\ MessagesKeepAttachments /\ ProtectedAreLinked)'
  BY DEF IInv, TypeOK, UsesAreOver, Over, LinksMatchUses, MessagesKeepAttachments,
         ProtectedAreLinked, Linked, Stored
<1>4. \A w \in Workers : Informed(w)'
  BY StaysInformed DEF IInv, TypeOK
<1>5. NoOrphanFiles'
  BY DEF IInv, TypeOK, NoOrphanFiles
<1> QED
  BY <1>1, <1>2, <1>3, <1>4, <1>5 DEF IInv

(* An upload that fails takes its file away.                               *)
LEMMA UploadFailsStep ==
  ASSUME IInv, NEW f \in Files, UploadFails(f)
  PROVE  IInv'
<1> USE DEF UploadFails, tableVars
<1>1. TypeOK'
  BY DEF IInv, TypeOK, Stored
<1>2. (Uploading /\ RecordHasFile)'
  BY DEF IInv, TypeOK, Uploading, RecordHasFile
<1>3. (UsesAreOver /\ LinksMatchUses /\ MessagesKeepAttachments /\ ProtectedAreLinked)'
  BY DEF IInv, TypeOK, UsesAreOver, Over, LinksMatchUses, MessagesKeepAttachments,
         ProtectedAreLinked, Linked, Stored
<1>4. \A w \in Workers : Informed(w)'
  BY StaysInformed DEF IInv, TypeOK
<1>5. NoOrphanFiles'
  BY DEF IInv, TypeOK, NoOrphanFiles
<1> QED
  BY <1>1, <1>2, <1>3, <1>4, <1>5 DEF IInv

(* An attachment expires, and its record stays.                            *)
LEMMA ExpireStep ==
  ASSUME IInv, NEW f \in Files, Expire(f)
  PROVE  IInv'
<1> USE DEF Expire, tableVars
<1>1. TypeOK'
  BY DEF IInv, TypeOK, Stored
<1>2. \A w \in Workers : Informed(w)'
  BY StaysInformed DEF IInv, TypeOK
<1>3. (Uploading /\ RecordHasFile /\ UsesAreOver /\ LinksMatchUses
         /\ MessagesKeepAttachments /\ ProtectedAreLinked /\ NoOrphanFiles)'
  BY DEF IInv, Uploading, RecordHasFile, UsesAreOver, Over, LinksMatchUses,
         MessagesKeepAttachments, ProtectedAreLinked, Linked, NoOrphanFiles, Stored
<1> QED
  BY <1>1, <1>2, <1>3 DEF IInv

(* The process stops: what was being written or removed may stay. *)
LEMMA CrashStep ==
  ASSUME IInv, Crash
  PROVE  IInv'
<1> USE DEF Crash, tableVars
<1>1. TypeOK'
  BY DEF IInv, TypeOK, Stored
<1>2. (Uploading /\ RecordHasFile)'
  BY DEF IInv, TypeOK, Uploading, RecordHasFile
<1>3. (UsesAreOver /\ LinksMatchUses /\ MessagesKeepAttachments /\ ProtectedAreLinked)'
  BY DEF IInv, TypeOK, UsesAreOver, Over, LinksMatchUses, MessagesKeepAttachments,
         ProtectedAreLinked, Linked, Stored
<1>4. \A w \in Workers : Informed(w)'
  BY DEF IInv, TypeOK, Informed, Idle
<1>5. NoOrphanFiles'
  BY DEF NoOrphanFiles
<1> QED
  BY <1>1, <1>2, <1>3, <1>4, <1>5 DEF IInv

-----------------------------------------------------------------------------
(* Steps that move one worker and change no table, no file and no history  *)
(* but the faults: what they must keep.                                    *)
LEMMA MoveStep ==
  ASSUME IInv, NEW w \in Workers, NEW s \in {Idle} \cup Busy, Goto(w, s),
         UNCHANGED <<upload, file, tableVars, expired, excused>>,
         faults' \in BOOLEAN, faults => faults',
         \A v \in Workers \ {w} : protected'[v] = protected[v],
         protected' \in [Workers -> SUBSET Files], protected'[w] \subseteq Linked,
         Informed(w)',
         \/ worker[w].pc \notin {"remove", "files"}
         \/ worker[w].pc = "files" /\ worker[w].batch = {}
         \/ faults'
  PROVE  IInv'
<1> USE DEF tableVars
<1>1. TypeOK'
  BY MoveTyped DEF IInv, TypeOK, Stored
<1>2. (Uploading /\ RecordHasFile /\ UsesAreOver /\ LinksMatchUses
         /\ MessagesKeepAttachments /\ ProtectedAreLinked)'
  BY DEF IInv, Uploading, RecordHasFile, UsesAreOver, Over, LinksMatchUses,
         MessagesKeepAttachments, ProtectedAreLinked, Linked, Stored
<1>3. \A v \in Workers : Informed(v)'
  BY StaysInformed, MoveTyped DEF IInv
<1>4. NoOrphanFiles'
  BY MoveTyped DEF IInv, NoOrphanFiles
<1> QED
  BY <1>1, <1>2, <1>3, <1>4 DEF IInv

(* A request to send names attachments the tab may use.                    *)
LEMMA ComposeStep ==
  ASSUME IInv, NEW w \in Workers, NEW u \in Users, NEW op \in {"send", "edit"},
         Compose(w, u, op)
  PROVE  IInv'
<1> DEFINE s == [pc |-> op, user |-> u, picked |-> {}]
<1>1. s \in Busy /\ Goto(w, s) /\ worker[w].pc = "idle"
  BY DEF Busy, Compose, Handler, Idle
<1>2. worker'[w] = s
  BY <1>1, MoveTyped DEF IInv
<1>3. Informed(w)'
  BY <1>2, FS_EmptySet, MaxAttachmentsAssumption DEF Informed, Over
<1> QED
  BY <1>1, <1>3, MoveStep DEF IInv, TypeOK, ProtectedAreLinked, Compose

(* One more attachment is found to be a row of the caller. *)
LEMMA ValidateStep ==
  ASSUME IInv, NEW w \in Workers, NEW f \in Files, Validate(w, f)
  PROVE  IInv'
<1> DEFINE s == [worker[w] EXCEPT !.picked = @ \cup {f}]
<1>1. worker[w] \in [pc : {"send", "edit"}, user : Users, picked : SUBSET Files]
  BY Shapes DEF IInv, Validate
<1>2. /\ s \in Busy /\ s.pc = worker[w].pc /\ s.user = worker[w].user
      /\ s.picked = worker[w].picked \cup {f}
  BY <1>1 DEF Busy
<1>3. Goto(w, s)
  BY DEF Validate, Goto
<1> HIDE DEF s
<1>4. worker'[w] = s
  BY <1>2, <1>3, MoveTyped DEF IInv
<1>5. Informed(w)'
  <2>1. f \in record /\ Owner[f] = worker[w].user /\ upload[f] = "done"
    BY DEF Validate, RecordsOf, IInv, Uploading, TypeOK
  <2>2. Informed(w) /\ f \notin worker[w].picked
    BY DEF IInv, Validate
  <2>3. IsFiniteSet(s.picked) /\ Cardinality(s.picked) = Cardinality(worker[w].picked) + 1
    BY <1>1, <1>2, <2>2, FS_AddElement DEF Informed
  <2>4. Cardinality(s.picked) <= MaxAttachments
    BY <1>1, <2>2, <2>3, FS_CardinalityType, MaxAttachmentsAssumption DEF Validate, Informed
  <2> QED
    BY <1>1, <1>2, <1>4, <2>1, <2>2, <2>3, <2>4 DEF Informed, Over, Validate, tableVars
<1> QED
  BY <1>1, <1>2, <1>3, <1>5, MoveStep DEF IInv, TypeOK, ProtectedAreLinked, Validate

(* A message shows files. *)
LEMMA HydratedTyped ==
  ASSUME IInv, NEW m \in Stored
  PROVE  Hydrated(m) \subseteq Files
<1>1. record \subseteq Files /\ message[m].uses \subseteq Files
  BY DEF IInv, TypeOK
<1> QED
  BY <1>1 DEF Hydrated

(* The tab learns the messages there are.                                  *)
LEMMA ListMessagesStep ==
  ASSUME IInv, NEW w \in Workers, NEW u \in Users, ListMessages(w, u)
  PROVE  IInv'
<1> DEFINE s == [pc |-> "delete", user |-> u, todo |-> UsesOf(MessagesOf(u))]
<1>1. UsesOf(MessagesOf(u)) \subseteq Files
  BY HydratedTyped DEF UsesOf, MessagesOf
<1>2. s \in Busy /\ Goto(w, s) /\ worker[w].pc = "idle"
  BY <1>1 DEF Busy, ListMessages, Handler, Idle
<1>3. Informed(w)'
  BY <1>2, MoveTyped DEF Informed, IInv
<1> QED
  BY <1>2, <1>3, MoveStep DEF IInv, TypeOK, ProtectedAreLinked, ListMessages

(* The purge takes what has expired and nothing uses.                      *)
LEMMA PurgeStep ==
  ASSUME IInv, NEW w \in Workers, NEW us \in SUBSET Users, Purge(w, us)
  PROVE  IInv'
<1> DEFINE b == UNION {RecordsOf(u) : u \in us}
           s == [pc |-> "purge", batch |-> b]
<1>1. b \subseteq record /\ b \subseteq Files
  BY DEF RecordsOf, IInv, TypeOK
<1>2. s \in Busy /\ Goto(w, s) /\ worker[w].pc = "idle"
  BY <1>1 DEF Busy, Purge, Handler, Idle
<1>3. \A f \in b : upload'[f] = "done"
  <2>1. \A f \in record : upload[f] = "done"
    BY DEF IInv, TypeOK, Uploading
  <2> QED
    BY <1>1, <2>1 DEF Purge
<1>4. worker'[w].pc = "purge" /\ worker'[w].batch = b
  BY <1>2, MoveTyped DEF IInv
<1> HIDE DEF b
<1>5. Informed(w)'
  BY <1>3, <1>4 DEF Informed, Over
<1> QED
  BY <1>2, <1>5, MoveStep DEF IInv, TypeOK, ProtectedAreLinked, Purge

(* Part of a removal fails.                                                *)
LEMMA GiveUpStep ==
  ASSUME IInv, NEW w \in Workers, GiveUp(w)
  PROVE  IInv'
<1>1. Goto(w, Idle) /\ worker[w].pc \in {"send", "edit", "delete"}
  BY DEF GiveUp
<1>2. Informed(w)'
  BY <1>1, MoveTyped DEF Informed, Idle, IInv
<1> QED
  BY <1>1, <1>2, MoveStep DEF IInv, TypeOK, ProtectedAreLinked, GiveUp

(* The sweep chooses files that have no record.                            *)
LEMMA SweepStep ==
  ASSUME IInv, Sweep
  PROVE  IInv'
<1> USE SweeperAssumption
<1> DEFINE s == [pc |-> "sweep", todo |-> ExpiredRows, batch |-> {}]
<1>1. s \in Busy /\ Goto(Sweeper, s) /\ worker[Sweeper].pc = "idle"
  BY DEF Busy, Sweep, Idle, ExpiredRows, IInv, TypeOK
<1>2. Informed(Sweeper)'
  BY <1>1, MoveTyped DEF Informed, IInv
<1>3. Linked \subseteq Files
  BY DEF Linked, IInv, TypeOK
<1> QED
  BY <1>1, <1>2, <1>3, MoveStep DEF IInv, TypeOK, ProtectedAreLinked, Sweep, Protect

(* Only files without a link enter the batch, and those are not protected. *)
LEMMA SweepCountStep ==
  ASSUME IInv, NEW f \in Files, SweepCount(f)
  PROVE  IInv'
<1> USE SweeperAssumption
<1> DEFINE w == worker[Sweeper]
           s == [w EXCEPT !.todo = @ \ {f},
                          !.batch = IF Unreferenced(f) THEN @ \cup {f} ELSE @]
<1>1. w \in [pc : {"sweep"}, todo : SUBSET Files, batch : SUBSET Files]
  BY Shapes DEF SweepCount, IInv
<1>2. /\ s \in Busy /\ s.pc = "sweep"
      /\ s.batch = IF Unreferenced(f) THEN w.batch \cup {f} ELSE w.batch
  BY <1>1 DEF Busy
<1>3. Goto(Sweeper, s)
  BY DEF SweepCount
<1> HIDE DEF s
<1>4. worker'[Sweeper] = s
  BY <1>2, <1>3, MoveTyped DEF IInv
<1>5. s.batch \cap protected[Sweeper] = {}
  <2>1. w.batch \cap protected[Sweeper] = {}
    BY <1>1 DEF IInv, Informed
  <2>2. Unreferenced(f) => f \notin protected[Sweeper]
    BY DEF IInv, ProtectedAreLinked, Unreferenced
  <2> QED
    BY <1>2, <2>1, <2>2
<1>6. Informed(Sweeper)'
  BY <1>2, <1>4, <1>5 DEF Informed, SweepCount
<1> QED
  BY <1>1, <1>2, <1>3, <1>6, MoveStep DEF IInv, TypeOK, ProtectedAreLinked, SweepCount

(* The same for a clean-up: it drops a row only without a link. *)
LEMMA CountStep ==
  ASSUME IInv, NEW w \in Workers, NEW f \in Files, Count(w, f)
  PROVE  IInv'
<1> DEFINE rest == worker[w].todo \ {f}
<1>1. worker[w] \in [pc : {"count"}, todo : SUBSET Files]
  BY Shapes DEF Count, IInv
<1>2. CASE Unreferenced(f)
  <2> DEFINE s == [pc |-> "drop", one |-> f, todo |-> rest]
  <2>1. s \in Busy /\ Goto(w, s)
    BY <1>1, <1>2 DEF Busy, Count
  <2>2. f \notin protected[w]
    BY <1>2 DEF IInv, ProtectedAreLinked, Unreferenced
  <2>3. Informed(w)'
    BY <2>1, <2>2, MoveTyped DEF Informed, IInv, Count
  <2> QED
    BY <1>1, <2>1, <2>3, MoveStep DEF IInv, TypeOK, ProtectedAreLinked, Count
<1>3. CASE ~Unreferenced(f)
  <2> DEFINE s == [pc |-> "count", todo |-> rest]
  <2>1. s \in Busy /\ Goto(w, s)
    BY <1>1, <1>3 DEF Busy, Count, CleanUp
  <2>2. Informed(w)'
    BY <2>1, MoveTyped DEF Informed, IInv
  <2> QED
    BY <1>1, <2>1, <2>2, MoveStep DEF IInv, TypeOK, ProtectedAreLinked, Count
<1> QED
  BY <1>2, <1>3

(* A request that ends, with the files it still has to remove.             *)
LEMMA FinishStep ==
  ASSUME IInv, NEW w \in Workers, CleanedUp(w) \/ Removed(w) \/ RemovalFails(w)
  PROVE  IInv'
<1>1. Goto(w, Idle) /\ protected' = [protected EXCEPT ![w] = {}]
  BY DEF CleanedUp, Removed, RemovalFails, Finish
<1>2. Informed(w)'
  BY <1>1, MoveTyped DEF Informed, Idle, IInv
<1>3. /\ UNCHANGED <<upload, file, tableVars, expired, excused>>
      /\ faults' \in BOOLEAN /\ (faults => faults')
      /\ \/ worker[w].pc = "count"
         \/ worker[w].pc = "files" /\ worker[w].batch = {}
         \/ faults'
  BY DEF CleanedUp, Removed, RemovalFails, IInv, TypeOK
<1>4. /\ \A v \in Workers \ {w} : protected'[v] = protected[v]
      /\ protected' \in [Workers -> SUBSET Files] /\ protected'[w] = {}
  BY <1>1 DEF IInv, TypeOK
<1> QED
  BY <1>1, <1>2, <1>3, <1>4, MoveStep

-----------------------------------------------------------------------------
(* Steps that store or delete messages: the worker w goes to s, and no     *)
(* upload, file or row changes.                                            *)
LEMMA MessageStep ==
  ASSUME IInv, NEW w \in Workers, NEW s \in {Idle} \cup Busy, Goto(w, s),
         s.pc \in {"idle", "count"}, worker[w].pc \notin {"remove", "files"},
         UNCHANGED <<upload, file, record, expired, excused, faults>>,
         KeepProtected \/ ProtectNow(w),
         nextId' \in 1..(MaxMessages + 1), Stored' \subseteq 1..(nextId' - 1),
         links' \subseteq (1..(nextId' - 1)) \X Files,
         \A m \in Stored' :
           /\ message'[m] \in [user : Users, uses : SUBSET Files]
           /\ Cardinality(message'[m].uses) <= MaxAttachments
           /\ \A f \in message'[m].uses : Owner[f] = message'[m].user
           /\ Over(message'[m].uses)
           /\ message'[m].uses \subseteq record \cup excused,
         LinksMatchUses'
  PROVE  IInv'
<1>1. Linked' \subseteq Files
  BY DEF Linked
<1>2. /\ protected' \in [Workers -> SUBSET Files]
      /\ \A v \in Workers : protected'[v] \subseteq Linked'
      /\ \A v \in Workers \ {w} : protected'[v] \subseteq protected[v]
  BY <1>1 DEF IInv, TypeOK, KeepProtected, ProtectNow
<1>3. TypeOK'
  BY <1>2, MoveTyped DEF IInv, TypeOK
<1>4. (Uploading /\ RecordHasFile /\ UsesAreOver /\ MessagesKeepAttachments
         /\ ProtectedAreLinked)'
  BY <1>2 DEF IInv, Uploading, RecordHasFile, UsesAreOver, Over,
         MessagesKeepAttachments, ProtectedAreLinked
<1>5. Informed(w)'
  BY MoveTyped DEF Informed, IInv
<1>6. \A v \in Workers : Informed(v)'
  BY <1>2, <1>5, StaysInformed, MoveTyped DEF IInv
<1>7. NoOrphanFiles'
  BY MoveTyped DEF IInv, NoOrphanFiles
<1> QED
  BY <1>3, <1>4, <1>6, <1>7 DEF IInv

(* Every stored message, before the step. *)
LEMMA MessageTyped ==
  ASSUME IInv, NEW m \in Stored
  PROVE  /\ m \in 1..(nextId - 1)
         /\ message[m] \in [user : Users, uses : SUBSET Files]
         /\ Cardinality(message[m].uses) <= MaxAttachments
         /\ \A f \in message[m].uses : Owner[f] = message[m].user
         /\ Over(message[m].uses)
         /\ message[m].uses \subseteq record \cup excused
  BY DEF IInv, TypeOK, UsesAreOver, MessagesKeepAttachments

(* Linking a message anew makes its links what it uses, and no others.     *)
LEMMA RelinkedLinks ==
  ASSUME IInv, NEW m \in Nat, NEW fs \in SUBSET Files
  PROVE  \A k \in Nat, f \in Files :
           <<k, f>> \in Relinked(m, fs) <=>
             IF k = m THEN f \in fs ELSE <<k, f>> \in links
  BY DEF Relinked, LinksOf

(* A message is sent with its attachments.                                 *)
LEMMA SendStep ==
  ASSUME IInv, NEW w \in Workers, Send(w)
  PROVE  IInv'
<1> DEFINE new == [user |-> worker[w].user, uses |-> worker[w].picked]
<1>1. worker[w] \in [pc : {"send", "edit"}, user : Users, picked : SUBSET Files]
  BY Shapes DEF Send, IInv
<1>2. Informed(w) /\ new \in [user : Users, uses : SUBSET Files]
  BY <1>1 DEF IInv
<1>3. nextId \in 1..MaxMessages /\ nextId' = nextId + 1 /\ nextId' \in 1..(MaxMessages + 1)
  BY MaxMessagesAssumption DEF IInv, TypeOK, Send
<1>4. /\ Stored' = Stored \cup {nextId} /\ nextId \notin Stored
      /\ message'[nextId] = new
      /\ \A m \in Stored : message'[m] = message[m]
  BY <1>3 DEF Send, Stored, IInv, TypeOK
<1>5. Stored' \subseteq 1..(nextId' - 1)
  BY <1>3, <1>4, MessageTyped
<1>6. links' \subseteq (1..(nextId' - 1)) \X Files
  BY <1>1, <1>3 DEF Send, Relinked, LinksOf, IInv, TypeOK
<1>7. \A m \in Stored' :
        /\ message'[m] \in [user : Users, uses : SUBSET Files]
        /\ Cardinality(message'[m].uses) <= MaxAttachments
        /\ \A f \in message'[m].uses : Owner[f] = message'[m].user
        /\ Over(message'[m].uses)
        /\ message'[m].uses \subseteq record \cup excused
  BY <1>1, <1>2, <1>4, MessageTyped DEF Informed, Send
<1>8. LinksMatchUses'
  <2>1. \A k \in Nat, f \in Files :
          <<k, f>> \in links' <=>
            IF k = nextId THEN f \in worker[w].picked ELSE <<k, f>> \in links
    <3>1. nextId \in Nat /\ worker[w].picked \in SUBSET Files
      BY <1>1, <1>3, MaxMessagesAssumption
    <3>2. links' = Relinked(nextId, worker[w].picked)
      BY DEF Send
    <3> QED
      BY <3>1, <3>2, RelinkedLinks
  <2>2. Stored \subseteq Nat /\ record' = record
    BY MessageTyped DEF Send
  <2>3. ASSUME NEW m \in Stored', NEW f \in Files
        PROVE  /\ <<m, f>> \in links' => f \in message'[m].uses
               /\ f \in message'[m].uses \cap record' => <<m, f>> \in links'
    <3>1. CASE m = nextId
      BY <1>3, <1>4, <2>1, <2>2, <3>1, MaxMessagesAssumption
    <3>2. CASE m # nextId
      BY <1>4, <2>1, <2>2, <3>2 DEF LinksMatchUses, IInv
    <3> QED
      BY <3>1, <3>2
  <2> QED
    BY <2>3 DEF LinksMatchUses
<1> QED
  BY <1>3, <1>5, <1>6, <1>7, <1>8, MessageStep DEF Send, Idle

(* A message is edited, and its attachments with it.                       *)
LEMMA EditStep ==
  ASSUME IInv, NEW w \in Workers, Edit(w)
  PROVE  IInv'
<1>1. worker[w] \in [pc : {"send", "edit"}, user : Users, picked : SUBSET Files]
  BY Shapes DEF Edit, IInv
<1>2. PICK n \in MessagesOf(worker[w].user) :
        /\ message' = [message EXCEPT ![n].uses = worker[w].picked]
        /\ links' = Relinked(n, worker[w].picked)
        /\ CleanUp(w, Hydrated(n))
  BY DEF Edit
<1>3. n \in Stored /\ message[n].user = worker[w].user /\ n \in Nat
  BY MessageTyped DEF MessagesOf
<1> DEFINE s == [pc |-> "count", todo |-> Hydrated(n)]
<1>4. s \in Busy /\ Goto(w, s) /\ s.pc = "count"
  BY <1>2, <1>3, HydratedTyped DEF Busy, CleanUp
<1>5. /\ Stored' = Stored
      /\ message'[n].user = worker[w].user /\ message'[n].uses = worker[w].picked
      /\ message'[n] \in [user : Users, uses : SUBSET Files]
      /\ \A m \in Stored \ {n} : message'[m] = message[m]
  BY <1>1, <1>2, <1>3, MessageTyped DEF Stored
<1>6. nextId' = nextId /\ links' \subseteq (1..(nextId' - 1)) \X Files
  BY <1>1, <1>2, <1>3, MessageTyped DEF Edit, Relinked, LinksOf, IInv, TypeOK
<1>7. \A m \in Stored' :
        /\ message'[m] \in [user : Users, uses : SUBSET Files]
        /\ Cardinality(message'[m].uses) <= MaxAttachments
        /\ \A f \in message'[m].uses : Owner[f] = message'[m].user
        /\ Over(message'[m].uses)
        /\ message'[m].uses \subseteq record \cup excused
  <2>1. Informed(w) /\ UNCHANGED <<record, excused, upload>> /\ worker[w].pc = "edit"
    BY DEF Edit, IInv
  <2> QED
    BY <1>1, <1>5, <2>1, MessageTyped DEF Informed, Over
<1>8. LinksMatchUses'
  <2>1. \A k \in Nat, f \in Files :
          <<k, f>> \in links' <=>
            IF k = n THEN f \in worker[w].picked ELSE <<k, f>> \in links
    BY <1>1, <1>2, <1>3, RelinkedLinks
  <2>2. Stored \subseteq Nat
    BY MessageTyped
  <2> QED
    BY <1>3, <1>5, <2>1, <2>2 DEF LinksMatchUses, IInv, Edit
<1> HIDE DEF s
<1> QED
  BY <1>4, <1>5, <1>6, <1>7, <1>8, MessageStep DEF Edit, IInv, TypeOK

(* Messages are deleted and their links stay. *)
LEMMA DeletionStep ==
  ASSUME IInv, NEW w \in Workers, worker[w].pc \in {"idle", "delete"},
         NEW ms \in SUBSET Stored, NEW fs \in SUBSET Files,
         message' = Without(ms), links' = LinksAfter(ms), CleanUp(w, fs), ProtectNow(w),
         UNCHANGED <<upload, file, record, expired, nextId, excused, faults>>
  PROVE  IInv'
<1> DEFINE s == [pc |-> "count", todo |-> fs]
<1>1. s \in Busy /\ Goto(w, s) /\ s.pc = "count"
  BY DEF Busy, CleanUp
<1>2. /\ Stored' = Stored \ ms /\ links' = links
      /\ \A m \in Stored \ ms : message'[m] = message[m]
  BY DEF Stored, Without, LinksAfter
<1>3. LinksMatchUses'
  BY <1>2 DEF LinksMatchUses, IInv
<1> HIDE DEF s
<1> QED
  BY <1>1, <1>2, <1>3, MessageStep, MessageTyped DEF IInv, TypeOK

(* A message is sent or edited again.                                      *)
LEMMA ReplayStep ==
  ASSUME IInv, NEW w \in Workers, NEW m \in Stored, Replay(w, m)
  PROVE  IInv'
<1> DEFINE trailing == {k \in MessagesOf(message[m].user) : k > m}
<1>1. trailing \subseteq Stored /\ UsesOf(trailing) \subseteq Files
  BY HydratedTyped DEF MessagesOf, UsesOf
<1>2. worker[w].pc = "idle"
  BY DEF Replay, Handler, Idle
<1> QED
  BY <1>1, <1>2, DeletionStep DEF Replay

(* A conversation goes, with the uses its messages made.                   *)
LEMMA DeleteConversationStep ==
  ASSUME IInv, NEW w \in Workers, DeleteConversation(w)
  PROVE  IInv'
<1>1. worker[w].pc = "delete" /\ worker[w].todo \subseteq Files
  BY Shapes DEF DeleteConversation, IInv
<1>2. MessagesOf(worker[w].user) \subseteq Stored
  BY DEF MessagesOf
<1> QED
  BY <1>1, <1>2, DeletionStep DEF DeleteConversation

-----------------------------------------------------------------------------
(* Steps that remove rows or files. *)

(* A row is dropped that nothing protects, so its use is excused. *)
LEMMA DropRecordStep ==
  ASSUME IInv, NEW w \in Workers, DropRecord(w)
  PROVE  IInv'
<1> DEFINE f == worker[w].one
<1>1. worker[w] \in [pc : {"drop", "remove"}, one : Files, todo : SUBSET Files]
  BY Shapes DEF DropRecord, IInv
<1>2. f \in Files /\ f \notin protected[w]
  BY <1>1 DEF DropRecord, IInv, Informed
<1>3. CASE f \in record
  <2> DEFINE s == [worker[w] EXCEPT !.pc = "remove"]
  <2>1. s \in Busy /\ s.pc = "remove" /\ s.one = f
    BY <1>1 DEF Busy
  <2>2. Goto(w, s)
    BY <1>3 DEF DropRecord, Goto
  <2> HIDE DEF s
  <2>3. worker'[w] = s /\ \A v \in Workers \ {w} : worker'[v] = worker[v]
    BY <2>1, <2>2, MoveTyped DEF IInv
  <2>4. record' = record \ {f} /\ excused' = excused \cup {f} /\ expired' = expired \ {f}
    BY <1>2, <1>3 DEF DropRecord
  <2>5. UNCHANGED <<upload, file, message, links, nextId, protected, faults>>
    BY DEF DropRecord
  <2> HIDE DEF f
  <2>6. TypeOK'
    BY <1>2, <2>1, <2>2, <2>4, <2>5, MoveTyped DEF IInv, TypeOK, Stored
  <2>7. (Uploading /\ RecordHasFile /\ UsesAreOver /\ LinksMatchUses
           /\ MessagesKeepAttachments /\ ProtectedAreLinked)'
    BY <1>3, <2>4, <2>5 DEF IInv, TypeOK, Uploading, RecordHasFile, UsesAreOver, Over,
           LinksMatchUses, MessagesKeepAttachments, ProtectedAreLinked, Linked, Stored
  <2>8. Informed(w)'
    BY <1>2, <1>3, <2>1, <2>3, <2>4, <2>5 DEF Informed, Over, IInv, TypeOK, Uploading
  <2>9. \A v \in Workers : Informed(v)'
    BY <2>3, <2>4, <2>5, <2>8, StaysInformed DEF IInv, TypeOK
  <2>10. NoOrphanFiles'
    BY <2>1, <2>3, <2>4, <2>5 DEF DropRecord, IInv, NoOrphanFiles
  <2> QED
    BY <2>6, <2>7, <2>9, <2>10 DEF IInv
<1>4. CASE f \notin record
  <2> DEFINE s == [pc |-> "count", todo |-> worker[w].todo]
  <2>1. s \in Busy /\ Goto(w, s)
    BY <1>1, <1>4 DEF Busy, DropRecord, CleanUp
  <2>2. Informed(w)'
    BY <2>1, MoveTyped DEF Informed, IInv
  <2>3. expired' = expired
    BY <1>4 DEF DropRecord, IInv, TypeOK
  <2> QED
    BY <1>4, <2>1, <2>2, <2>3, MoveStep DEF IInv, TypeOK, ProtectedAreLinked, DropRecord, tableVars
<1> QED
  BY <1>3, <1>4

(* A file is removed after its record.                                     *)
LEMMA RemoveFileStep ==
  ASSUME IInv, NEW w \in Workers, RemoveFile(w)
  PROVE  IInv'
<1> DEFINE f == worker[w].one
           s == [pc |-> "count", todo |-> worker[w].todo]
<1>1. worker[w] \in [pc : {"drop", "remove"}, one : Files, todo : SUBSET Files]
  BY Shapes DEF RemoveFile, IInv
<1>2. f \in Files /\ f \notin record /\ upload[f] = "done"
  BY <1>1 DEF RemoveFile, IInv, Informed, Over
<1>3. s \in Busy /\ s.pc = "count" /\ Goto(w, s)
  BY <1>1 DEF Busy, RemoveFile, CleanUp
<1> HIDE DEF s
<1>4. worker'[w] = s /\ \A v \in Workers \ {w} : worker'[v] = worker[v]
  BY <1>3, MoveTyped DEF IInv
<1>5. file' = file \ {f} /\ UNCHANGED <<upload, tableVars, expired, protected, excused, faults>>
  BY DEF RemoveFile
<1>6. TypeOK'
  BY <1>3, <1>5, MoveTyped DEF IInv, TypeOK, Stored, tableVars
<1>7. (Uploading /\ RecordHasFile /\ UsesAreOver /\ LinksMatchUses
         /\ MessagesKeepAttachments /\ ProtectedAreLinked)'
  BY <1>2, <1>5 DEF IInv, Uploading, RecordHasFile, UsesAreOver, Over, LinksMatchUses,
         MessagesKeepAttachments, ProtectedAreLinked, Linked, Stored, tableVars
<1>8. Informed(w)'
  BY <1>3, <1>4 DEF Informed
<1>9. \A v \in Workers : Informed(v)'
  BY <1>4, <1>5, <1>8, StaysInformed DEF IInv, TypeOK, tableVars
<1>10. NoOrphanFiles'
  BY <1>4, <1>5 DEF RemoveFile, IInv, NoOrphanFiles, tableVars
<1> QED
  BY <1>6, <1>7, <1>9, <1>10 DEF IInv

(* The next of a list of files is removed.                                 *)
LEMMA RemoveNextStep ==
  ASSUME IInv, NEW w \in Workers, NEW f \in Files, RemoveNext(w, f)
  PROVE  IInv'
<1> DEFINE s == [worker[w] EXCEPT !.batch = @ \ {f}]
<1>1. worker[w] \in [pc : {"purge", "files"}, batch : SUBSET Files]
  BY Shapes DEF RemoveNext, IInv
<1>2. f \notin record /\ upload[f] = "done"
  BY <1>1 DEF RemoveNext, IInv, Informed, Over
<1>3. s \in Busy /\ s.pc = "files" /\ s.batch = worker[w].batch \ {f}
  BY <1>1 DEF Busy, RemoveNext
<1>4. Goto(w, s)
  BY DEF RemoveNext, Goto
<1> HIDE DEF s
<1>5. worker'[w] = s /\ \A v \in Workers \ {w} : worker'[v] = worker[v]
  BY <1>3, <1>4, MoveTyped DEF IInv
<1>6. file' = file \ {f} /\ UNCHANGED <<upload, tableVars, expired, protected, excused, faults>>
  BY DEF RemoveNext
<1>7. TypeOK'
  BY <1>3, <1>4, <1>6, MoveTyped DEF IInv, TypeOK, Stored, tableVars
<1>8. (Uploading /\ RecordHasFile /\ UsesAreOver /\ LinksMatchUses
         /\ MessagesKeepAttachments /\ ProtectedAreLinked)'
  BY <1>2, <1>6 DEF IInv, Uploading, RecordHasFile, UsesAreOver, Over, LinksMatchUses,
         MessagesKeepAttachments, ProtectedAreLinked, Linked, Stored, tableVars
<1>9. Informed(w)'
  BY <1>3, <1>5, <1>6 DEF Informed, Over, RemoveNext, IInv, tableVars
<1>10. \A v \in Workers : Informed(v)'
  BY <1>5, <1>6, <1>9, StaysInformed DEF IInv, TypeOK, tableVars
<1>11. NoOrphanFiles'
  BY <1>3, <1>5, <1>6 DEF RemoveNext, IInv, NoOrphanFiles, tableVars
<1> QED
  BY <1>7, <1>8, <1>10, <1>11 DEF IInv

(* Rows are deleted with their links, and every use of them is excused. *)
LEMMA DeleteRowsStep ==
  ASSUME IInv, NEW w \in Workers, worker[w].pc \in {"sweep", "purge"},
         NEW fs \in SUBSET Files, Over(fs), DeleteRows(w, fs), excused' = excused \cup fs
  PROVE  IInv'
<1> DEFINE s == [pc |-> "files", batch |-> fs]
<1>1. s \in Busy /\ s.pc = "files" /\ s.batch = fs /\ Goto(w, s)
  BY DEF Busy, DeleteRows
<1> HIDE DEF s
<1>2. worker'[w] = s /\ \A v \in Workers \ {w} : worker'[v] = worker[v]
  BY <1>1, MoveTyped DEF IInv
<1>3. /\ links' = {l \in links : l[2] \notin fs}
      /\ record' = record \ fs /\ expired' = expired \ fs
      /\ UNCHANGED <<upload, file, message, nextId, faults>>
  BY DEF DeleteRows
<1>4. /\ protected' \in [Workers -> SUBSET Files]
      /\ \A v \in Workers : protected'[v] \subseteq Linked' /\ protected'[v] \subseteq protected[v]
  BY DEF DeleteRows, IInv, TypeOK
<1>5. TypeOK'
  BY <1>1, <1>3, <1>4, MoveTyped DEF IInv, TypeOK, Stored
<1>6. (Uploading /\ RecordHasFile /\ UsesAreOver /\ MessagesKeepAttachments)'
  BY <1>3 DEF IInv, TypeOK, Uploading, RecordHasFile, UsesAreOver, Over,
         MessagesKeepAttachments, Stored
<1>7. (LinksMatchUses /\ ProtectedAreLinked)'
  BY <1>3, <1>4 DEF IInv, LinksMatchUses, ProtectedAreLinked, Stored
<1>8. Informed(w)'
  BY <1>1, <1>2, <1>3 DEF Informed, Over
<1>9. \A v \in Workers : Informed(v)'
  BY <1>2, <1>3, <1>4, <1>8, StaysInformed DEF IInv, TypeOK
<1>10. NoOrphanFiles'
  BY <1>1, <1>2, <1>3 DEF IInv, NoOrphanFiles
<1> QED
  BY <1>5, <1>6, <1>7, <1>9, <1>10 DEF IInv

(* The purge deletes the records it took.                                  *)
LEMMA DeletePurgedStep ==
  ASSUME IInv, NEW w \in Workers, DeletePurged(w)
  PROVE  IInv'
<1>1. worker[w] \in [pc : {"purge", "files"}, batch : SUBSET Files]
  BY Shapes DEF DeletePurged, IInv
<1>2. Over(worker[w].batch)
  BY DEF IInv, Informed, DeletePurged
<1> QED
  BY <1>1, <1>2, DeleteRowsStep DEF DeletePurged

(* The sweep deletes the rows that nothing has linked since it started. *)
LEMMA DeleteSweptStep ==
  ASSUME IInv, DeleteSwept
  PROVE  IInv'
<1> USE SweeperAssumption
<1> DEFINE fs == worker[Sweeper].batch \cap record
<1>1. worker[Sweeper].pc = "sweep" /\ fs \cap protected[Sweeper] = {}
  BY DEF IInv, Informed, DeleteSwept
<1>2. fs \in SUBSET Files /\ Over(fs)
  BY DEF IInv, TypeOK, Uploading, Over
<1>3. DeleteRows(Sweeper, fs) /\ excused' = excused \cup fs
  BY <1>1 DEF DeleteSwept
<1> HIDE DEF fs
<1> QED
  BY <1>1, <1>2, <1>3, DeleteRowsStep

-----------------------------------------------------------------------------
(* Any step of a request,                                                  *)
LEMMA RequestStep ==
  ASSUME IInv, NEW w \in Workers, Request(w)
  PROVE  IInv'
<1>1. ASSUME NEW u \in Users, Purge(w, {u}) PROVE IInv'
  BY <1>1, PurgeStep
<1>2. ASSUME Purge(w, Users) PROVE IInv'
  BY <1>2, PurgeStep
<1> QED
  BY <1>1, <1>2, ComposeStep, ListMessagesStep, ValidateStep, SendStep, EditStep,
     DeleteConversationStep, GiveUpStep, ReplayStep DEF Request

(* any removal,                                                            *)
LEMMA RemoveStep ==
  ASSUME IInv, NEW w \in Workers, Remove(w)
  PROVE  IInv'
  BY CountStep, RemoveNextStep, FinishStep, DropRecordStep, RemoveFileStep,
     DeletePurgedStep, SweepStep, DeleteSweptStep, SweepCountStep DEF Remove

(* and so any step.                                                        *)
LEMMA NextStep == IInv /\ [Next]_vars => IInv'
<1> SUFFICES ASSUME IInv, [Next]_vars PROVE IInv'
  OBVIOUS
<1>1. CASE UNCHANGED vars
  BY <1>1 DEF vars, tableVars, IInv, TypeOK, Uploading, RecordHasFile, UsesAreOver,
     Over, LinksMatchUses, MessagesKeepAttachments, ProtectedAreLinked, Linked,
     Informed, NoOrphanFiles, Stored
<1>2. CASE Next
  BY <1>2, CreateFileStep, SaveRecordStep, UploadFailsStep, ExpireStep, RequestStep,
     RemoveStep, FinishStep, CrashStep DEF Next, Upload
<1> QED
  BY <1>1, <1>2

(* It holds at the start, when there is nothing.                           *)
LEMMA InitHolds == Init => IInv
<1> SUFFICES ASSUME Init PROVE IInv
  OBVIOUS
<1>1. Stored = {} /\ links = {}
  BY DEF Init, Stored
<1>2. TypeOK
  <2>1. nextId \in 1..(MaxMessages + 1)
    BY MaxMessagesAssumption DEF Init
  <2>2. worker \in [Workers -> {Idle} \cup Busy]
    BY DEF Init
  <2> QED
    BY <1>1, <2>1, <2>2 DEF Init, TypeOK
<1>3. \A w \in Workers : Informed(w)
  BY DEF Init, Informed, Idle
<1> QED
  BY <1>1, <1>2, <1>3 DEF Init, IInv, Uploading, RecordHasFile, UsesAreOver,
     LinksMatchUses, MessagesKeepAttachments, ProtectedAreLinked, NoOrphanFiles

(* The inductive invariant, of which the theorems below are parts.         *)
THEOREM Invariance == Spec => []IInv
  BY InitHolds, NextStep, PTL DEF Spec

(* The types of the tables and of the workers' states; what a message uses *)
(* is of its user and within maxAttachments (ValidateForUser), however     *)
(* long before the message is stored it was checked.                       *)
THEOREM TypeCorrect == Spec => []TypeOK
  BY Invariance, PTL DEF IInv

(* Every row of stored_attachments has its file, through failures and      *)
(* crashes between the two steps of any number of uploads and removals.    *)
THEOREM RowsHaveFiles == Spec => []RecordHasFile
  BY Invariance, PTL DEF IInv

(* The links of a stored message are what it uses of what is stored: the   *)
(* count that decides about a removal misses no use.                       *)
THEOREM LinksAreUses == Spec => []LinksMatchUses
  BY Invariance, PTL DEF IInv

(* What a message uses stays stored, unless its user or an administrator   *)
(* purged it, or no link protected it when a clean-up or the sweep looked. *)
THEOREM AttachmentsAreKept == Spec => []MessagesKeepAttachments
  BY Invariance, PTL DEF IInv

(* A file without a row is about to get one or to be removed, unless an    *)
(* operation on a file failed or the process crashed.                      *)
THEOREM FilesAreAccountedFor == Spec => []NoOrphanFiles
  BY Invariance, PTL DEF IInv

=============================================================================
