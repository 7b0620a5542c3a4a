---------------------------- MODULE Attachments ----------------------------
(***************************************************************************)
(* Uploaded files, their rows, and the messages that use them.             *)
(* internal/attachment/service.go and retention_worker.go,                 *)
(* chat/message_attachments.go, the attachment side of the chat service's  *)
(* send, edit, replay and delete, and admin/attachment_service.go.         *)
(*                                                                         *)
(* A row and its file are created and removed in separate steps; which     *)
(* may be removed is decided before the removal; attachments are validated *)
(* before the message that uses them is stored.  Each worker is a request  *)
(* handler or the hourly sweep, and each action is one of its database     *)
(* transactions or file operations.  Only the messages of users are kept:  *)
(* replies have no attachments.                                            *)
(***************************************************************************)
EXTENDS Naturals, FiniteSets

CONSTANTS
  Users,              \* each with one conversation
  Files,              \* the uuids of uploads
  Owner,              \* who uploads which
  Workers,            \* request handlers and the sweep's goroutine
  Sweeper,            \* the latter
  MaxAttachments,     \* maxAttachments per message
  MaxMessages         \* bound: how many messages are ever stored

ASSUME OwnerAssumption == Owner \in [Files -> Users]
ASSUME SweeperAssumption == Sweeper \in Workers
ASSUME MaxAttachmentsAssumption == MaxAttachments \in Nat \ {0}
ASSUME MaxMessagesAssumption == MaxMessages \in Nat

VARIABLES
  upload,    \* how far the upload of each file has come
  file,      \* the files in uploadDir
  record,    \* the rows of stored_attachments
  expired,   \* the rows older than the retention policy allows
  message,   \* the rows of messages, with their attachments column
  links,     \* the rows of message_attachments
  nextId,    \* the next key of messages
  worker,    \* where each worker is and what it holds
  protected, \* history: linked without a break since the worker started
  excused,   \* history: removed although perhaps in use: purged, or raced
  faults     \* history: an operation on a file failed or the process crashed

tableVars == <<record, message, links, nextId>>
vars == <<upload, file, record, expired, message, links, nextId, worker,
          protected, excused, faults>>

Stored == DOMAIN message

(* Slip to catch: the rows of everyone. *)
AllRecords(u) == record

RecordsOf(u) == {f \in record : Owner[f] = u}

MessagesOf(u) == {m \in Stored : message[m].user = u}

Linked == {l[2] : l \in links}

(* hydrateMessageAttachments: a message shows its links or, when it has    *)
(* none, its attachments column; the row of a link may be gone, and then   *)
(* its attachment is blank and every use of it skips or rejects it.        *)
LinksOf(m) == {l \in links : l[1] = m}

Hydrated(m) ==
  IF LinksOf(m) = {} THEN message[m].uses
  ELSE {l[2] : l \in LinksOf(m)} \cap record

UsesOf(ms) == UNION {Hydrated(m) : m \in ms}

Idle == [pc |-> "idle"]

Handler(w) == w # Sweeper /\ worker[w] = Idle

Goto(w, state) == worker' = [worker EXCEPT ![w] = state]

(* Bookkeeping of the history: what is linked when w starts to clean up,   *)
(* less what loses its last link since.                                    *)
Finish(w) == Goto(w, Idle) /\ protected' = [protected EXCEPT ![w] = {}]
Protect(w) == protected' = [protected EXCEPT ![w] = Linked]
KeepProtected == protected' = [v \in Workers |-> protected[v] \cap Linked']
ProtectNow(w) ==
  protected' = [v \in Workers |->
                  IF v = w THEN Linked' ELSE protected[v] \cap Linked']

Init ==
  /\ upload = [f \in Files |-> "none"]
  /\ file = {} /\ record = {} /\ expired = {} /\ links = {}
  /\ message = <<>> /\ nextId = 1
  /\ worker = [w \in Workers |-> Idle]
  /\ protected = [w \in Workers |-> {}]
  /\ excused = {} /\ faults = FALSE

-----------------------------------------------------------------------------
(* Uploads: the file first, then its row.                                  *)

CreateFile(f) ==
  /\ upload[f] = "none"
  /\ upload' = [upload EXCEPT ![f] = "written"]
  /\ file' = file \cup {f}
  /\ UNCHANGED <<tableVars, expired, worker, protected, excused, faults>>

SaveRecord(f) ==
  /\ upload[f] = "written"
  /\ upload' = [upload EXCEPT ![f] = "done"]
  /\ record' = record \cup {f}
  /\ UNCHANGED <<file, expired, message, links, nextId, worker, protected,
                 excused, faults>>

(* The write, the close or the insert fails: the file is removed again,    *)
(* and a failure to remove it is ignored.                                  *)
UploadFails(f) ==
  /\ upload[f] = "written"
  /\ upload' = [upload EXCEPT ![f] = "done"]
  /\ \/ file' = file \ {f} /\ UNCHANGED faults
     \/ faults' = TRUE /\ UNCHANGED file
  /\ UNCHANGED <<tableVars, expired, worker, protected, excused>>

(* Time passes.                                                            *)
Expire(f) ==
  /\ f \in record \ expired
  /\ expired' = expired \cup {f}
  /\ UNCHANGED <<upload, file, tableVars, worker, protected, excused, faults>>

-----------------------------------------------------------------------------
(* Messages.                                                               *)

(* ValidateForUser: the attachments of a message are looked up one by one, *)
(* each a row of the caller, and before the transaction that links them.   *)
Compose(w, u, op) ==
  /\ Handler(w)
  /\ Goto(w, [pc |-> op, user |-> u, picked |-> {}])
  /\ UNCHANGED <<upload, file, tableVars, expired, protected, excused, faults>>

Validate(w, f) ==
  /\ worker[w].pc \in {"send", "edit"}
  /\ f \in RecordsOf(worker[w].user) \ worker[w].picked
  /\ Cardinality(worker[w].picked) < MaxAttachments
  /\ worker' = [worker EXCEPT ![w].picked = @ \cup {f}]
  /\ UNCHANGED <<upload, file, tableVars, expired, protected, excused, faults>>

(* Slip to catch: the links of earlier uses stay. *)
StaleLinks(m, uses) == links \cup ({m} \X uses)

(* replaceMessageAttachmentLinks.                                          *)
Relinked(m, uses) == (links \ LinksOf(m)) \cup ({m} \X uses)

Send(w) ==
  /\ worker[w].pc = "send"
  /\ nextId <= MaxMessages
  /\ message' = [m \in Stored \cup {nextId} |->
                   IF m = nextId
                   THEN [user |-> worker[w].user, uses |-> worker[w].picked]
                   ELSE message[m]]
  /\ links' = Relinked(nextId, worker[w].picked)
  /\ nextId' = nextId + 1
  /\ Goto(w, Idle)
  /\ KeepProtected
  /\ UNCHANGED <<upload, file, record, expired, excused, faults>>

CleanUp(w, fs) == Goto(w, [pc |-> "count", todo |-> fs])

(* editUserMessageForRegeneration: only the last message may be edited;    *)
(* what it used is looked at afterwards.                                   *)
Edit(w) ==
  LET u == worker[w].user IN
  /\ worker[w].pc = "edit"
  /\ \E m \in MessagesOf(u) :
       /\ \A k \in MessagesOf(u) : k <= m
       /\ message' = [message EXCEPT ![m].uses = worker[w].picked]
       /\ links' = Relinked(m, worker[w].picked)
       /\ CleanUp(w, Hydrated(m))
  /\ ProtectNow(w)
  /\ UNCHANGED <<upload, file, record, expired, nextId, excused, faults>>

Without(ms) == [m \in Stored \ ms |-> message[m]]

(* prepareAssistantReplay on the reply to m: the later messages go, their  *)
(* links stay, since SQLite does not enforce the foreign keys.             *)
LinksAfter(ms) == links

Replay(w, m) ==
  LET trailing == {k \in MessagesOf(message[m].user) : k > m} IN
  /\ Handler(w)
  /\ message' = Without(trailing)
  /\ links' = LinksAfter(trailing)
  /\ CleanUp(w, UsesOf(trailing))
  /\ ProtectNow(w)
  /\ UNCHANGED <<upload, file, record, expired, nextId, excused, faults>>

(* DeleteConversation lists the messages, then deletes whatever there is.  *)
ListMessages(w, u) ==
  /\ Handler(w)
  /\ Goto(w, [pc |-> "delete", user |-> u, todo |-> UsesOf(MessagesOf(u))])
  /\ UNCHANGED <<upload, file, tableVars, expired, protected, excused, faults>>

DeleteConversation(w) ==
  LET all == MessagesOf(worker[w].user) IN
  /\ worker[w].pc = "delete"
  /\ message' = Without(all)
  /\ links' = LinksAfter(all)
  /\ CleanUp(w, worker[w].todo)
  /\ ProtectNow(w)
  /\ UNCHANGED <<upload, file, record, expired, nextId, excused, faults>>

(* The handler returns with an error before its transaction.               *)
GiveUp(w) ==
  /\ worker[w].pc \in {"send", "edit", "delete"}
  /\ Goto(w, Idle)
  /\ UNCHANGED <<upload, file, tableVars, expired, protected, excused, faults>>

-----------------------------------------------------------------------------
(* Removal.                                                                *)

(* Slip to catch: no count. *)
Anything(f) == TRUE

(* CleanupUnreferenced: count the links of each, remove the row, then the  *)
(* file, each in a step of its own.                                        *)
Unreferenced(f) == f \notin Linked

Count(w, f) ==
  /\ worker[w].pc = "count"
  /\ f \in worker[w].todo
  /\ LET rest == worker[w].todo \ {f} IN
     IF Unreferenced(f)
     THEN Goto(w, [pc |-> "drop", one |-> f, todo |-> rest])
     ELSE CleanUp(w, rest)
  /\ UNCHANGED <<upload, file, tableVars, expired, protected, excused, faults>>

CleanedUp(w) ==
  /\ worker[w].pc = "count" /\ worker[w].todo = {}
  /\ Finish(w)
  /\ UNCHANGED <<upload, file, tableVars, expired, excused, faults>>

(* Slip to catch: the file goes before the row. *)
DropFileFirst(w) ==
  /\ worker[w].pc = "drop"
  /\ file' = file \ {worker[w].one}
  /\ worker' = [worker EXCEPT ![w].pc = "remove"]
  /\ UNCHANGED <<upload, tableVars, expired, protected, excused, faults>>

DropRecord(w) ==
  LET f == worker[w].one IN
  /\ worker[w].pc = "drop"
  /\ IF f \in record
     THEN /\ record' = record \ {f}
          /\ excused' = excused \cup ({f} \ protected[w])
          /\ worker' = [worker EXCEPT ![w].pc = "remove"]
     ELSE /\ CleanUp(w, worker[w].todo)
          /\ UNCHANGED <<record, excused>>
  /\ expired' = expired \ {f}
  /\ UNCHANGED <<upload, file, message, links, nextId, protected, faults>>

(* Slip to catch: the file stays. *)
KeepFile(w) ==
  /\ worker[w].pc = "remove"
  /\ CleanUp(w, worker[w].todo)
  /\ UNCHANGED <<upload, file, tableVars, expired, protected, excused, faults>>

RemoveFile(w) ==
  /\ worker[w].pc = "remove"
  /\ file' = file \ {worker[w].one}
  /\ CleanUp(w, worker[w].todo)
  /\ UNCHANGED <<upload, tableVars, expired, protected, excused, faults>>

(* Slip to catch: the rows that are recent enough. *)
RecentRows == record \ expired

ExpiredRows == expired

(* DeleteExpiredUnreferenced: list the expired rows, count the links of    *)
(* each, then remove links and rows of those without in one transaction.   *)
Sweep ==
  /\ worker[Sweeper] = Idle
  /\ Goto(Sweeper, [pc |-> "sweep", todo |-> ExpiredRows, batch |-> {}])
  /\ Protect(Sweeper)
  /\ UNCHANGED <<upload, file, tableVars, expired, excused, faults>>

SweepCount(f) ==
  LET w == worker[Sweeper] IN
  /\ w.pc = "sweep"
  /\ f \in w.todo
  /\ Goto(Sweeper, [w EXCEPT !.todo = @ \ {f},
                             !.batch = IF Unreferenced(f) THEN @ \cup {f} ELSE @])
  /\ UNCHANGED <<upload, file, tableVars, expired, protected, excused, faults>>

(* deleteStoredAttachments.                                                *)
DeleteRows(w, fs) ==
  /\ links' = {l \in links : l[2] \notin fs}
  /\ record' = record \ fs
  /\ expired' = expired \ fs
  /\ Goto(w, [pc |-> "files", batch |-> fs])
  /\ protected' = [v \in Workers |-> IF v = w THEN {}
                                    ELSE protected[v] \cap Linked']
  /\ UNCHANGED <<upload, file, message, nextId, faults>>

DeleteSwept ==
  LET fs == worker[Sweeper].batch \cap record IN
  /\ worker[Sweeper].pc = "sweep" /\ worker[Sweeper].todo = {}
  /\ DeleteRows(Sweeper, fs)
  /\ excused' = excused \cup (fs \ protected[Sweeper])

(* DeleteAllForUser and DeleteAll, whatever uses the rows.                 *)
Purge(w, us) ==
  /\ Handler(w)
  /\ Goto(w, [pc |-> "purge", batch |-> UNION {RecordsOf(u) : u \in us}])
  /\ UNCHANGED <<upload, file, tableVars, expired, protected, excused, faults>>

DeletePurged(w) ==
  /\ worker[w].pc = "purge"
  /\ DeleteRows(w, worker[w].batch)
  /\ excused' = excused \cup worker[w].batch

(* Slip to catch: only the first file is removed. *)
RemoveFirst(w, f) ==
  /\ worker[w].pc = "files"
  /\ f \in worker[w].batch
  /\ file' = file \ {f}
  /\ worker' = [worker EXCEPT ![w].batch = {}]
  /\ UNCHANGED <<upload, tableVars, expired, protected, excused, faults>>

RemoveNext(w, f) ==
  /\ worker[w].pc = "files"
  /\ f \in worker[w].batch
  /\ file' = file \ {f}
  /\ worker' = [worker EXCEPT ![w].batch = @ \ {f}]
  /\ UNCHANGED <<upload, tableVars, expired, protected, excused, faults>>

Removed(w) ==
  /\ worker[w].pc = "files" /\ worker[w].batch = {}
  /\ Finish(w)
  /\ UNCHANGED <<upload, file, tableVars, expired, excused, faults>>

(* A query of the clean-up fails, or a file cannot be removed: the rest of *)
(* the list is left alone.                                                 *)
RemovalFails(w) ==
  /\ worker[w].pc \in {"count", "drop", "remove", "sweep", "purge", "files"}
  /\ Finish(w)
  /\ faults' = TRUE
  /\ UNCHANGED <<upload, file, tableVars, expired, excused>>

(* The process stops and starts again.                                     *)
Crash ==
  /\ upload' = [f \in Files |-> IF upload[f] = "written" THEN "done"
                                                        ELSE upload[f]]
  /\ worker' = [w \in Workers |-> Idle]
  /\ protected' = [w \in Workers |-> {}]
  /\ faults' = TRUE
  /\ UNCHANGED <<file, tableVars, expired, excused>>

-----------------------------------------------------------------------------
Upload(f) == SaveRecord(f) \/ UploadFails(f)

Remove(w) ==
  \/ \E f \in Files : Count(w, f) \/ RemoveNext(w, f)
  \/ CleanedUp(w) \/ DropRecord(w) \/ RemoveFile(w)
  \/ DeletePurged(w) \/ Removed(w)
  \/ w = Sweeper /\ (Sweep \/ DeleteSwept \/ \E f \in Files : SweepCount(f))

Request(w) ==
  \/ \E u \in Users : \/ \E op \in {"send", "edit"} : Compose(w, u, op)
                      \/ ListMessages(w, u)
                      \/ Purge(w, {u})
  \/ Purge(w, Users)
  \/ \E f \in Files : Validate(w, f)
  \/ Send(w) \/ Edit(w) \/ DeleteConversation(w) \/ GiveUp(w)
  \/ \E m \in Stored : Replay(w, m)

Next ==
  \/ \E f \in Files : CreateFile(f) \/ Upload(f) \/ Expire(f)
  \/ \E w \in Workers : Request(w) \/ Remove(w) \/ RemovalFails(w)
  \/ Crash

(* Goroutines are scheduled, and the sweep's ticker ticks.                 *)
Fairness ==
  /\ \A f \in Files : WF_vars(Upload(f))
  /\ \A w \in Workers : WF_vars(Remove(w))

Spec == Init /\ [][Next]_vars /\ Fairness

-----------------------------------------------------------------------------
(* Properties.                                                             *)

Busy == [pc : {"send", "edit"}, user : Users, picked : SUBSET Files]
   \cup [pc : {"delete"}, user : Users, todo : SUBSET Files]
   \cup [pc : {"count"}, todo : SUBSET Files]
   \cup [pc : {"drop", "remove"}, one : Files, todo : SUBSET Files]
   \cup [pc : {"sweep"}, todo : SUBSET Files, batch : SUBSET Files]
   \cup [pc : {"purge", "files"}, batch : SUBSET Files]

(* Types; a message has at most MaxAttachments attachments, all of its     *)
(* user (ValidateForUser).                                                 *)
TypeOK ==
  /\ upload \in [Files -> {"none", "written", "done"}]
  /\ file \subseteq Files /\ record \subseteq Files /\ expired \subseteq record
  /\ nextId \in 1..(MaxMessages + 1)
  /\ Stored \subseteq 1..(nextId - 1)
  /\ \A m \in Stored :
       /\ message[m] \in [user : Users, uses : SUBSET Files]
       /\ Cardinality(message[m].uses) <= MaxAttachments
       /\ \A f \in message[m].uses : Owner[f] = message[m].user
  /\ links \subseteq (1..(nextId - 1)) \X Files
  /\ worker \in [Workers -> {Idle} \cup Busy]
  /\ protected \in [Workers -> SUBSET Files]
  /\ excused \subseteq Files /\ faults \in BOOLEAN

(* Every row has its file, also after failures and a crash between the two *)
(* steps of an upload or a removal: a file is served and sent to the model *)
(* by its row (OpenForUser, BuildModelAttachments).                        *)
RecordHasFile == record \subseteq file

(* As long as an attachment of a message is stored, a link says so, and    *)
(* there are no other links of a stored message: the count of links that   *)
(* decides about removal misses no use (replaceMessageAttachmentLinks).    *)
LinksMatchUses ==
  \A m \in Stored, f \in Files :
    /\ <<m, f>> \in links => f \in message[m].uses
    /\ f \in message[m].uses \cap record => <<m, f>> \in links

(* The sweep and the clean-up after an edit, a replay or a deletion never  *)
(* take an attachment from a message that had it before they started: what *)
(* a stored message uses is stored, unless it was purged or linked while a *)
(* removal was on its way.                                                 *)
MessagesKeepAttachments ==
  \A m \in Stored : message[m].uses \subseteq record \cup excused

(* A file without a row is one that an upload or a removal is still        *)
(* dealing with, unless an operation failed or the process crashed.        *)
NoOrphanFiles ==
  \A f \in file \ record :
    \/ faults
    \/ upload[f] = "written"
    \/ \E w \in Workers : \/ /\ worker[w].pc = "remove"
                            /\ f = worker[w].one
                         \/ /\ worker[w].pc = "files"
                            /\ f \in worker[w].batch

(* models.go:110 declares that the links of a message go with it           *)
(* (OnDelete:CASCADE); the clean-up after a deletion relies on that.       *)
LinksCascade == \A l \in links : l[1] \in Stored

(* A file without a row is removed or gets one, and an expired attachment  *)
(* nobody links is removed by a sweep, unless operations fail.             *)
FilesSettle ==
  \A f \in Files : f \in file \ record ~> faults \/ f \in record \/ f \notin file
ExpiredAreSwept ==
  \A f \in Files :
    f \in expired \ Linked ~> faults \/ f \notin record \/ f \in Linked

=============================================================================
