------------------------------- MODULE Knowledge -------------------------------
(***************************************************************************)
(* Knowledge spaces, their documents and the retrieval providers:          *)
(* frontend/src/pages/chat-page, hooks/use-agent-workspace,                *)
(* hooks/agent-workspace/*, components/knowledge-settings/* and the tabs   *)
(* of the settings dialog, against backend/internal/rag.                   *)
(*                                                                         *)
(* The tab keeps a list of spaces and, for each space that was opened, a   *)
(* list of documents; every answer edits the lists by a functional update, *)
(* whatever else is under way.  A document is checked, embedded by another *)
(* service and written in that order, outside any transaction.             *)
(* What is typed is left out: the user fills what a form asks for before   *)
(* it is submitted.  A copy carries a revision in place of its text.       *)
(***************************************************************************)
EXTENDS Requests, Sequences, SequencesExt

CONSTANTS
  NoOne,              \* null: no space, document or answer
  MaxRows             \* bound: spaces and documents ever created

Ids == 1 .. MaxRows
Kinds == {"text", "attachment"}
Documents == [id : Ids, space : Ids, kind : Kinds, rev : Nat]

ASSUME KnowledgeAssumption ==
  MaxRows \in Nat /\ MaxRows >= 2 /\ NoOne \notin Int /\ NoOne \notin Seq(Documents)

VARIABLES
  spaceRows, documentRows,   \* server
  ragRows,                   \* server: the presets and the active one
  issued,                    \* server: ids given out
  knowledgeSpaces,           \* list of copies
  knowledgeDocuments,        \* of each space: list of copies, NoOne if not loaded
  ragProviders,              \* RAGProviderState, NoOne if not loaded
  panelTab,                  \* "closed", "knowledge" or "rag"
  editingSpace,              \* id of the space in the form
  documentSpaceId,
  editingDocument,           \* the copy in the form
  confirmation,              \* what is to be deleted, with its closure
  loadedParts,               \* history: what was loaded once
  reopened,                  \* history: a row was opened while it was deleted
  mixed                      \* history: requests crossed that must not

serverRows == <<spaceRows, documentRows, ragRows, issued>>
caches == <<knowledgeSpaces, knowledgeDocuments, ragProviders>>
histories == <<loadedParts, reopened>>
forms == <<editingSpace, documentSpaceId, editingDocument, confirmation>>
knowledgeState == <<serverRows, caches, panelTab, forms, histories, mixed>>
knowledgeVars == <<knowledgeState, requestVars>>

-----------------------------------------------------------------------------
(* The helpers of agent-workspace.                                         *)

HasId(list, id) == \E i \in DOMAIN list : list[i].id = id
Replaced(list, copy) == [i \in DOMAIN list |-> IF list[i].id = copy.id THEN copy ELSE list[i]]

(* removeKnowledgeDocument: SelectSeq by place, which needs no recursion.  *)
Dropped(list, id) ==
  LET kept == {i \in DOMAIN list : list[i].id # id}
      place(n) == CHOOSE i \in kept : Cardinality({j \in kept : j < i}) = n - 1
  IN  [n \in 1 .. Cardinality(kept) |-> list[place(n)]]

(* upsertKnowledgeDocument and prependKnowledgeDocuments.                  *)
Upsert(list, copy) == IF HasId(list, copy.id) THEN Replaced(list, copy) ELSE <<copy>> \o list
Prepend(list, new) == new \o list

(* previous[spaceId] ?? []                                                 *)
Cached(s) == IF knowledgeDocuments[s] = NoOne THEN <<>> ELSE knowledgeDocuments[s]

(* Slip to catch: the documents of a deleted space stay in the cache.      *)
KeepSpaceDocuments(id) == knowledgeDocuments

(* clearKnowledgeSpaceDocuments.                                           *)
ClearSpaceDocuments(id) == [knowledgeDocuments EXCEPT ![id] = NoOne]

Listing(rows) == SetToSeq(rows)
DocumentsOf(s) == {d \in documentRows : d.space = s}
IdsOf(rows) == {r.id : r \in rows}

-----------------------------------------------------------------------------
(* Requests.                                                               *)

SpaceWrites == {"createSpace", "updateSpace", "deleteSpace"}
DocumentCreates == {"createDocument", "uploadDocuments"}
DocumentUpdates == {"updateDocument", "replaceDocument"}
DocumentWrites == DocumentCreates \cup DocumentUpdates \cup {"deleteDocument"}

(* Two requests the code has no order for: one loads what the other        *)
(* changes, both are about one row, or one deletes the space of the other. *)
(* A document put into a list that was never loaded is another.            *)
Loads(c, d) ==
  \/ c.kind = "workspace" /\ d.kind \in SpaceWrites \cup {"rag"}
  \/ c.kind = "documents" /\ d.kind \in DocumentWrites /\ c.space = d.space
SameRow(c, d) ==
  \/ c.kind = "rag" /\ d.kind = "rag"
  \/ /\ c.kind \in {"updateSpace", "deleteSpace"} /\ d.kind \in {"updateSpace", "deleteSpace"}
     /\ c.space = d.space
  \/ /\ c.kind \in DocumentUpdates \cup {"deleteDocument"}
     /\ d.kind \in DocumentUpdates \cup {"deleteDocument"} /\ c.document = d.document
  \/ c.kind = "deleteSpace" /\ d.kind \in DocumentWrites \cup {"documents"} /\ c.space = d.space
Conflict(c, d) == Loads(c, d) \/ Loads(d, c) \/ SameRow(c, d) \/ SameRow(d, c)
Unloaded(c, cache) == c.kind \in DocumentWrites /\ cache[c.space] = NoOne

(* The effect of use-knowledge-settings-state: the documents of the open   *)
(* space are asked for, whenever it or the cache changed and has none.     *)
EffectLoads(cs, space, cache) ==
  IF space # NoOne /\ <<space, cache>> # <<documentSpaceId, knowledgeDocuments>>
     /\ cache[space] = NoOne
  THEN {AsNext(cs, [kind |-> "documents", space |-> space, mine |-> TRUE])}
  ELSE {}

(* The requests under way become cs, and those the effect adds.            *)
Settle(cs, space, cache) ==
  LET new == EffectLoads(cs, space, cache)
  IN  /\ calls' = cs \cup new
      /\ documentSpaceId' = space /\ knowledgeDocuments' = cache
      /\ mixed' = (\/ mixed
                   \/ \E c \in new, d \in cs : Conflict(c, d)
                   \/ \E c \in cs \ calls : \/ Unloaded(c, cache)
                                            \/ \E d \in cs \ {c} : Conflict(c, d))
Issue(body) ==
  Settle(calls \cup {AsNext(calls, body)}, documentSpaceId, knowledgeDocuments)

-----------------------------------------------------------------------------
(* The server.                                                             *)

Answer(c, body) == Become(c, Reply(c, body))
Refuse(c) == Become(c, Broken(c))
SpaceExists(c) == c.space \in IdsOf(spaceRows)
Row(c) == CHOOSE d \in documentRows : d.id = c.document
Writable(c) ==
  /\ SpaceExists(c)
  /\ c.kind \in DocumentCreates \/ c.document \in IdsOf(DocumentsOf(c.space))

NewDocument(c, kind) == [id |-> issued + 1, space |-> c.space, kind |-> kind, rev |-> 0]

ServeSpaces ==
  \E c \in calls :
    /\ c.phase = "sent"
    /\ \/ /\ c.kind = "createSpace" /\ issued < MaxRows
          /\ LET row == [id |-> issued + 1, rev |-> 0]
             IN  spaceRows' = spaceRows \cup {row} /\ Answer(c, row)
          /\ issued' = issued + 1 /\ UNCHANGED documentRows
       \/ /\ c.kind = "updateSpace" /\ SpaceExists(c)
          /\ LET row == CHOOSE r \in spaceRows : r.id = c.space
                 new == [row EXCEPT !.rev = @ + 1]
             IN  spaceRows' = (spaceRows \ {row}) \cup {new} /\ Answer(c, new)
          /\ UNCHANGED <<documentRows, issued>>
       \/ /\ c.kind = "deleteSpace" /\ SpaceExists(c)
          /\ spaceRows' = {r \in spaceRows : r.id # c.space}
          /\ documentRows' = documentRows \ DocumentsOf(c.space)
          /\ Answer(c, NoOne) /\ UNCHANGED issued
       \/ /\ c.kind \in {"updateSpace", "deleteSpace"} /\ ~SpaceExists(c)
          /\ Refuse(c) /\ UNCHANGED <<spaceRows, documentRows, issued>>
    /\ UNCHANGED <<ragRows, caches, panelTab, forms, acts, histories, mixed>>

(* A document is looked up, its text embedded, then it is written.         *)
CheckDocument ==
  \E c \in calls :
    /\ c.phase = "sent" /\ c.kind \in DocumentCreates \cup DocumentUpdates
    /\ IF Writable(c)
       THEN Become(c, Beside([phase |-> "checked"],
                             IF c.kind \in DocumentUpdates THEN Beside([row |-> Row(c)], c) ELSE c))
       ELSE Refuse(c)
    /\ UNCHANGED <<serverRows, caches, panelTab, forms, acts, histories, mixed>>

(* Save writes the row it read, and inserts it again if it is gone.        *)
WriteDocument ==
  \E c \in calls :
    /\ c.phase = "checked"
    /\ \/ /\ c.kind \in DocumentCreates /\ issued < MaxRows
          /\ LET row == NewDocument(c, IF c.kind = "createDocument" THEN "text" ELSE "attachment")
             IN  documentRows' = documentRows \cup {row} /\ Answer(c, row)
          /\ issued' = issued + 1
       \/ /\ c.kind \in DocumentUpdates
          /\ LET row == [c.row EXCEPT !.rev = @ + 1]
             IN  documentRows' = {d \in documentRows : d.id # row.id} \cup {row} /\ Answer(c, row)
          /\ UNCHANGED issued
    /\ UNCHANGED <<spaceRows, ragRows, caches, panelTab, forms, acts, histories, mixed>>

ServeDocuments ==
  \E c \in calls :
    /\ c.phase = "sent"
    /\ \/ /\ c.kind = "deleteDocument"
          /\ IF Writable(c) THEN documentRows' = documentRows \ {Row(c)} /\ Answer(c, NoOne)
                            ELSE Refuse(c) /\ UNCHANGED documentRows
       \/ /\ c.kind = "documents"
          /\ IF SpaceExists(c) THEN Answer(c, Listing(DocumentsOf(c.space))) ELSE Refuse(c)
          /\ UNCHANGED documentRows
    /\ UNCHANGED <<spaceRows, ragRows, issued, caches, panelTab, forms, acts, histories, mixed>>

(* The new preset of a provider is the active one; every answer is the     *)
(* state of all presets.                                                   *)
ServeProviders ==
  \E c \in Kind("rag") :
    /\ c.phase = "sent"
    /\ LET n == IF c.preset = NoOne THEN ragRows.presets + 1 ELSE ragRows.presets
           new == [presets |-> n, current |-> IF c.preset = NoOne THEN n ELSE c.preset]
       IN  n <= MaxRows /\ ragRows' = new /\ Answer(c, new)
    /\ UNCHANGED <<spaceRows, documentRows, issued, caches, panelTab, forms, acts,
                   histories, mixed>>

(* The two halves of a load of the workspace are taken, or fail, alone.    *)
Half(c, part, value) ==
  LET n == IF part = "spaces" THEN Beside([spaces |-> value], c) ELSE Beside([rag |-> value], c)
  IN  Become(c, Beside([phase |-> IF n.spaces # NoOne /\ n.rag # NoOne
                                  THEN "answered" ELSE "sent"], n))
ServeWorkspace ==
  \E c \in Kind("workspace") :
    /\ c.phase = "sent"
    /\ \/ c.spaces = NoOne /\ \E v \in {<<Listing(spaceRows)>>, <<>>} : Half(c, "spaces", v)
       \/ c.rag = NoOne /\ \E v \in {<<ragRows>>, <<>>} : Half(c, "rag", v)
    /\ UNCHANGED <<serverRows, caches, panelTab, forms, acts, histories, mixed>>

KnowledgeFail ==
  \E c \in calls :
    /\ c.kind # "workspace"
    /\ \/ c.phase = "sent" /\ Become(c, Broken(c))
       \/ c.phase = "answered" /\ c.kind # "documents" /\ Become(c, Broken(c))
    /\ UNCHANGED <<serverRows, caches, panelTab, forms, acts, histories, mixed>>

-----------------------------------------------------------------------------
(* What the user does in the dialog.                                       *)

InTab == panelTab = "knowledge" /\ confirmation = NoOne /\ Act

(* isSubmitting of the confirmation, which stays until the end of what it  *)
(* confirmed; that end closes the confirmation shown by then.              *)
Submitting == \E c \in Kind("deleteSpace") \cup Kind("deleteDocument") : c.mine

(* loadWorkspace, each time the dialog opens or closes.                    *)
Workspace == [kind |-> "workspace", spaces |-> NoOne, rag |-> NoOne, mine |-> FALSE]

(* Leaving the tab takes its forms away, and with the dialog, which Escape *)
(* closes under a confirmation, that too; requests go on without them.     *)
Orphaned(cs) == {[c EXCEPT !.mine = FALSE] : c \in cs}
ChangeTab ==
  \E t \in {"closed", "knowledge", "rag"} :
    /\ t # panelTab /\ (confirmation # NoOne => t = "closed") /\ Act
    /\ panelTab' = t
    /\ editingSpace' = NoOne /\ editingDocument' = NoOne
    /\ confirmation' = NoOne /\ documentSpaceId' = NoOne
    /\ LET rest == Orphaned(calls)
           load == IF "closed" \in {t, panelTab} THEN {AsNext(rest, Workspace)} ELSE {}
       IN  /\ calls' = rest \cup load
           /\ mixed' = (mixed \/ \E c \in load, d \in rest : Conflict(c, d))
    /\ UNCHANGED <<serverRows, caches, histories>>

SelectSpace ==
  \E s \in IdsOf(ToSet(knowledgeSpaces)) \cup {NoOne} :
    /\ s # documentSpaceId /\ InTab
    /\ Settle(calls, s, knowledgeDocuments)
    /\ reopened' = (reopened \/ \E c \in Kind("deleteSpace") : c.space = s)
    /\ UNCHANGED <<serverRows, knowledgeSpaces, ragProviders, panelTab, editingSpace,
                   editingDocument, confirmation, loadedParts>>

Shown == IF documentSpaceId = NoOne THEN {} ELSE ToSet(Cached(documentSpaceId))

(* Edit, or Replace file, of a document; and of a space; and Cancel.       *)
EditRow ==
  /\ InTab
  /\ \/ /\ \E d \in Shown :
             /\ editingDocument' = d
             /\ Settle(calls, d.space, knowledgeDocuments)
             /\ reopened' = (reopened \/ \E c \in Kind("deleteDocument") : c.document = d.id)
        /\ UNCHANGED editingSpace
     \/ /\ editingDocument # NoOne /\ editingDocument' = NoOne
        /\ Settle(calls, documentSpaceId, knowledgeDocuments)
        /\ UNCHANGED <<editingSpace, reopened>>
     \/ /\ \E s \in IdsOf(ToSet(knowledgeSpaces)) \cup {NoOne} :
             s # editingSpace /\ editingSpace' = s
        /\ Settle(calls, documentSpaceId, knowledgeDocuments)
        /\ UNCHANGED <<editingDocument, reopened>>
  /\ UNCHANGED <<serverRows, knowledgeSpaces, ragProviders, panelTab, confirmation, loadedParts>>

RefreshDocuments ==
  /\ documentSpaceId # NoOne /\ InTab
  /\ Issue([kind |-> "documents", space |-> documentSpaceId, mine |-> TRUE])
  /\ UNCHANGED <<serverRows, knowledgeSpaces, ragProviders, panelTab, editingSpace,
                 editingDocument, confirmation, histories>>

(* handleSaveSpace.                                                        *)
SaveSpace ==
  /\ InTab
  /\ Issue(IF editingSpace # NoOne
           THEN [kind |-> "updateSpace", space |-> editingSpace, mine |-> TRUE]
           ELSE [kind |-> "createSpace", mine |-> TRUE])
  /\ UNCHANGED <<serverRows, knowledgeSpaces, ragProviders, panelTab, editingSpace,
                 editingDocument, confirmation, histories>>

(* handleSaveDocument: the space is the one selected, which need not be    *)
(* that of the document.                                                   *)
SaveDocument ==
  /\ documentSpaceId # NoOne /\ InTab
  /\ IF editingDocument = NoOne
     THEN \E k \in DocumentCreates :
            Issue([kind |-> k, space |-> documentSpaceId, mine |-> TRUE])
     ELSE \E k \in (IF editingDocument.kind = "text" THEN {"updateDocument"} ELSE DocumentUpdates) :
            Issue([kind |-> k, space |-> documentSpaceId, document |-> editingDocument.id,
                   mine |-> TRUE])
  /\ UNCHANGED <<serverRows, knowledgeSpaces, ragProviders, panelTab, editingSpace,
                 editingDocument, confirmation, histories>>

(* handleDeleteSpace and handleDeleteDocument ask first.  What the end     *)
(* resets is decided by the forms as they are at this click.               *)
AskDelete ==
  /\ InTab
  /\ \/ \E s \in IdsOf(ToSet(knowledgeSpaces)) :
          confirmation' = [kind |-> "deleteSpace", space |-> s, mine |-> TRUE,
                           leavesSpace |-> documentSpaceId = s,
                           endsEdit |-> editingSpace = s]
     \/ \E d \in Shown :
          confirmation' = [kind |-> "deleteDocument", space |-> d.space, document |-> d.id,
                           mine |-> TRUE,
                           endsEdit |-> editingDocument # NoOne /\ editingDocument.id = d.id]
  /\ UNCHANGED <<serverRows, caches, panelTab, editingSpace, documentSpaceId,
                 editingDocument, calls, histories, mixed>>

Confirm ==
  /\ confirmation # NoOne /\ ~Submitting
  /\ Issue(confirmation)
  /\ UNCHANGED <<serverRows, knowledgeSpaces, ragProviders, panelTab, editingSpace,
                 editingDocument, confirmation, acts, histories>>
CancelDelete ==
  /\ confirmation # NoOne /\ Act
  /\ confirmation' = NoOne
  /\ UNCHANGED <<serverRows, caches, panelTab, editingSpace, documentSpaceId,
                 editingDocument, calls, histories, mixed>>

(* RAGProviderSettingsTab.                                                 *)
ChooseProvider ==
  /\ panelTab = "rag" /\ Act
  /\ \E p \in (IF ragProviders = NoOne THEN {} ELSE 1 .. ragProviders.presets) \cup {NoOne} :
       Issue([kind |-> "rag", preset |-> p, mine |-> FALSE])
  /\ UNCHANGED <<serverRows, knowledgeSpaces, ragProviders, panelTab, editingSpace,
                 editingDocument, confirmation, histories>>

-----------------------------------------------------------------------------
(* Answers.  The lists of the tab's page change whether or not the forms   *)
(* are still there.                                                        *)

WorkspaceLoaded ==
  \E c \in Answered("workspace") :
    /\ knowledgeSpaces' = IF c.spaces # <<>> THEN c.spaces[1] ELSE knowledgeSpaces
    /\ ragProviders' = IF c.rag # <<>> THEN c.rag[1] ELSE ragProviders
    /\ loadedParts' = loadedParts \cup (IF c.spaces # <<>> THEN {"spaces"} ELSE {})
                                  \cup (IF c.rag # <<>> THEN {"rag"} ELSE {})
    /\ Done(c)
    /\ UNCHANGED <<serverRows, knowledgeDocuments, panelTab, forms, acts,
                   reopened, mixed>>

DocumentsLoaded ==
  \E c \in Answered("documents") :
    /\ Settle(calls \ {c}, documentSpaceId, [knowledgeDocuments EXCEPT ![c.space] = c.reply])
    /\ UNCHANGED <<serverRows, knowledgeSpaces, ragProviders, panelTab, editingSpace,
                   editingDocument, confirmation, acts, histories>>

(* A space is saved: the new one is opened, and the form is emptied.       *)
SpaceSaved ==
  \E c \in Answered("createSpace") \cup Answered("updateSpace") :
    /\ knowledgeSpaces' = IF c.kind = "createSpace" THEN <<c.reply>> \o knowledgeSpaces
                                                    ELSE Replaced(knowledgeSpaces, c.reply)
    /\ editingSpace' = IF c.mine THEN NoOne ELSE editingSpace
    /\ Settle(calls \ {c}, IF c.mine /\ c.kind = "createSpace" THEN c.reply.id ELSE documentSpaceId,
              knowledgeDocuments)
    /\ UNCHANGED <<serverRows, ragProviders, panelTab, editingDocument, confirmation, acts,
                   histories>>

SpaceDeleted ==
  \E c \in Answered("deleteSpace") :
    /\ knowledgeSpaces' = Dropped(knowledgeSpaces, c.space)
    /\ LET leaves == c.mine /\ c.leavesSpace
       IN  /\ Settle(calls \ {c}, IF leaves THEN NoOne ELSE documentSpaceId,
                     ClearSpaceDocuments(c.space))
           /\ editingDocument' = IF leaves THEN NoOne ELSE editingDocument
    /\ editingSpace' = IF c.mine /\ c.endsEdit THEN NoOne ELSE editingSpace
    /\ confirmation' = IF c.mine THEN NoOne ELSE confirmation
    /\ UNCHANGED <<serverRows, ragProviders, panelTab, acts, histories>>

DocumentSaved ==
  \E c \in UNION {Answered(k) : k \in DocumentCreates \cup DocumentUpdates} :
    /\ LET list == IF c.kind = "uploadDocuments" THEN Prepend(Cached(c.space), <<c.reply>>)
                                                 ELSE Upsert(Cached(c.space), c.reply)
       IN  Settle(calls \ {c}, documentSpaceId, [knowledgeDocuments EXCEPT ![c.space] = list])
    /\ editingDocument' = IF c.mine THEN NoOne ELSE editingDocument
    /\ UNCHANGED <<serverRows, knowledgeSpaces, ragProviders, panelTab, editingSpace,
                   confirmation, acts, histories>>

(* A failed deletion ends like one that worked, but for the lists.         *)
DocumentDeleted ==
  \E c \in Answered("deleteDocument") \cup Failed("deleteDocument") :
    /\ LET list == Dropped(Cached(c.space), c.document)
       IN  /\ calls' = calls \ {c}
           /\ knowledgeDocuments' = IF c.phase = "failed" THEN knowledgeDocuments
                                    ELSE [knowledgeDocuments EXCEPT ![c.space] = list]
    /\ mixed' = (mixed \/ (c.phase = "failed" /\ c.lost))
    /\ editingDocument' = IF c.mine /\ c.endsEdit THEN NoOne ELSE editingDocument
    /\ confirmation' = IF c.mine THEN NoOne ELSE confirmation
    /\ UNCHANGED <<serverRows, knowledgeSpaces, ragProviders, panelTab, editingSpace,
                   documentSpaceId, acts, histories>>

ProvidersChanged ==
  \E c \in Answered("rag") :
    /\ ragProviders' = c.reply /\ loadedParts' = loadedParts \cup {"rag"}
    /\ Done(c)
    /\ UNCHANGED <<serverRows, knowledgeSpaces, knowledgeDocuments, panelTab, forms, acts,
                   reopened, mixed>>

(* Anything else that fails shows an error and leaves lists and forms.     *)
KnowledgeError ==
  \E c \in calls :
    /\ c.phase = "failed" /\ c.kind # "deleteDocument"
    /\ confirmation' = IF c.kind = "deleteSpace" /\ c.mine THEN NoOne ELSE confirmation
    /\ mixed' = (mixed \/ c.lost)
    /\ Done(c)
    /\ UNCHANGED <<serverRows, caches, panelTab, editingSpace, documentSpaceId,
                   editingDocument, acts, histories>>

-----------------------------------------------------------------------------
KnowledgeStart ==
  /\ spaceRows = {[id |-> 1, rev |-> 0]}
  /\ documentRows = {[id |-> 2, space |-> 1, kind |-> k, rev |-> 0] : k \in {"attachment"}}
  /\ ragRows = [presets |-> 1, current |-> 1]
  /\ issued = 2
  /\ knowledgeSpaces = <<>> /\ knowledgeDocuments = [s \in Ids |-> NoOne]
  /\ ragProviders = NoOne
  /\ panelTab = "knowledge"
  /\ editingSpace = NoOne /\ documentSpaceId = NoOne /\ editingDocument = NoOne
  /\ confirmation = NoOne
  /\ loadedParts = {} /\ reopened = FALSE /\ mixed = FALSE
KnowledgeFirst == {Request(0, Workspace)}

KnowledgeActs ==
  \/ ChangeTab \/ SelectSpace \/ EditRow \/ RefreshDocuments \/ SaveSpace \/ SaveDocument
  \/ AskDelete \/ Confirm \/ CancelDelete \/ ChooseProvider

(* Bound: once requests crossed that must not, nothing is said of what is  *)
(* shown any more, and what the user does after that is not followed.      *)
KnowledgeNext ==
  \/ ~mixed /\ KnowledgeActs
  \/ ServeSpaces \/ CheckDocument \/ WriteDocument \/ ServeDocuments \/ ServeProviders
  \/ ServeWorkspace \/ KnowledgeFail
  \/ WorkspaceLoaded \/ DocumentsLoaded \/ SpaceSaved \/ SpaceDeleted \/ DocumentSaved
  \/ DocumentDeleted \/ ProvidersChanged \/ KnowledgeError

KnowledgeInit == KnowledgeStart /\ calls = KnowledgeFirst /\ acts = 0
KnowledgeSpec == KnowledgeInit /\ [][KnowledgeNext]_knowledgeVars

-----------------------------------------------------------------------------
(* Properties.                                                             *)

(* The types; the forms go with their tab.                                 *)
KnowledgeOK ==
  /\ IdsOf(spaceRows) \subseteq Ids /\ IdsOf(documentRows) \subseteq Ids
  /\ documentSpaceId \in Ids \cup {NoOne} /\ editingSpace \in Ids \cup {NoOne}
  /\ panelTab # "knowledge" =>
       /\ editingSpace = NoOne /\ documentSpaceId = NoOne /\ editingDocument = NoOne
       /\ confirmation = NoOne /\ \A c \in calls : ~c.mine

(* KnowledgeExact: when nothing is under way the tab shows each space and  *)
(* each document the server has, once, as it is there, and keeps nothing   *)
(* of a deleted space, in whatever order independent requests were taken   *)
(* and answered.  Left out: requests that Conflict, lost answers, parts    *)
(* that were never loaded.                                                 *)
Mirrors(list, rows) == ToSet(list) = rows /\ Len(list) = Cardinality(rows)
KnowledgeExact ==
  (calls = {} /\ ~mixed) =>
    /\ "spaces" \in loadedParts => Mirrors(knowledgeSpaces, spaceRows)
    /\ \A s \in Ids : knowledgeDocuments[s] # NoOne =>
         s \in IdsOf(spaceRows) /\ Mirrors(knowledgeDocuments[s], DocumentsOf(s))
    /\ "rag" \in loadedParts => ragProviders = ragRows
    /\ ~reopened =>
         /\ documentSpaceId # NoOne => documentSpaceId \in IdsOf(spaceRows)
         /\ editingDocument # NoOne /\ editingDocument.space = documentSpaceId
              => editingDocument.id \in IdsOf(documentRows)

=============================================================================
