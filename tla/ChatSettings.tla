----------------------------- MODULE ChatSettings -----------------------------
(***************************************************************************)
(* The chat settings of one tab: frontend/src/pages/chat-page,             *)
(* hooks/use-chat-settings-state, hooks/chat-settings-state/* and          *)
(* hooks/chat-page-actions/provider-actions, with the settings dialog, the *)
(* list of knowledge spaces in it and the model control under it.          *)
(*                                                                         *)
(* Drafts are edited in the dialog and saved in two requests, the settings *)
(* of every chat and those of this one, the first of which is taken back   *)
(* when the second fails.  Knowledge spaces are switched one request at a  *)
(* time, shown before the answer.  Meanwhile the user goes elsewhere in    *)
(* the browser's history, or closes the dialog and opens it again.         *)
(* Settings are a prompt, the model and one number; folder and tags are    *)
(* one value.  Any other tab is left out.                                  *)
(***************************************************************************)
EXTENDS Requests, Sequences, SequencesExt

CONSTANTS
  Conversations, Spaces,
  Hidden,             \* conversations the filters keep off the shown list
  None

Values == 0 .. 1
GlobalSettings == [model : Values, number : Values]
Settings == [prompt : Values, model : Values, number : Values]
NoSettings == [prompt |-> 0, model |-> 0, number |-> 0]
DefaultChatSettings == [model |-> 0, number |-> 0]
Rows == [id : Conversations, settings : Settings, meta : Values, spaces : Seq(Spaces)]
NewRow(c) == [id |-> c, settings |-> NoSettings, meta |-> 0, spaces |-> <<>>]

ASSUME SettingsAssumption ==
  /\ None \notin Conversations \cup Rows
  /\ Hidden \subseteq Conversations

VARIABLES
  stored,        \* server: the row of each conversation
  storedGlobal,  \* server: the user's chat settings
  active,        \* activeConversationId and its ref, or None
  listed,        \* the rows of the shown list, None for what it does not show
  pending,       \* pendingConversation
  global,        \* chatSettings
  globalDraft,   \* chatSettingsDraft
  badNumber,     \* chatNumericInputDrafts holds text that is no number
  draft, metaDraft, spacesDraft,   \* settingsDraft, folder and tags, spaces
  newPrompt, newMeta,              \* what a new chat starts with
  versions, counts,  \* knowledgeSpaceRequestVersions, pendingKnowledgeSpaceCounts
  isOpen, isSaving,
  known,         \* history: global is what the server last said
  unsure,        \* history: requests crossed in a way the code has no order for
  behind,        \* history: the list missed an answer about spaces
  spacesOf       \* history: the conversation whose row spacesDraft began as, None once
                 \* it is switched on and off for another

serverVars == <<stored, storedGlobal>>
globalVars == <<global, globalDraft, badNumber>>
draftVars == <<draft, metaDraft, spacesDraft, spacesOf>>
newVars == <<newPrompt, newMeta>>
toggleVars == <<versions, counts>>
rowVars == <<listed, pending>>
dialog == <<isOpen, isSaving>>
history == <<known, unsure, behind>>
settingsState == <<serverVars, active, rowVars, globalVars, draftVars, newVars, toggleVars,
                   dialog, history>>
settingsVars == <<settingsState, requestVars>>

-----------------------------------------------------------------------------
(* What is shown and edited.                                               *)

(* currentConversation.                                                    *)
Current == IF active = None THEN None ELSE listed[active]

(* displayConversation and contextBarSettings.                             *)
Displayed == IF Current # None THEN Current ELSE pending
ContextBarSettings ==
  IF active # None /\ Displayed # None THEN Displayed.settings ELSE draft

(* buildDraftConversationSettings.                                         *)
NewSettings(g, prompt) == [prompt |-> prompt, model |-> g.model, number |-> g.number]

(* applyDraftSnapshot(buildConversationDraftSnapshot(row)).                *)
ApplyRow(row) ==
  /\ draft' = row.settings
  /\ metaDraft' = row.meta
  /\ spacesDraft' = row.spaces
  /\ spacesOf' = row.id

(* applyDraftSnapshot(buildNewChatDraftSnapshot(...)).                     *)
ApplyNewChat(g, prompt, meta) ==
  /\ draft' = NewSettings(g, prompt)
  /\ metaDraft' = meta
  /\ spacesDraft' = <<>>
  /\ spacesOf' = None

(* At home resetForNewChatSettings runs again once what a new chat starts  *)
(* with has changed (the effect of use-chat-history): the drafts go,       *)
DraftsAtHome(g, prompt, meta) ==
  IF active = None THEN ApplyNewChat(g, prompt, meta) ELSE UNCHANGED draftVars

(* and so do pendingConversation and the switches under way.               *)
ForgetAtHome ==
  IF active = None
  THEN pending' = None /\ versions' = [s \in Spaces |-> 0] /\ counts' = [s \in Spaces |-> 0]
  ELSE UNCHANGED <<pending, toggleVars>>

(* setChatSettings and replaceChatSettingsDraft.                           *)
ReplaceGlobal(g) == global' = g /\ globalDraft' = g /\ badNumber' = FALSE

(* syncConversationIntoList, for a row the filters show or hide.           *)
Listed(row) ==
  IF row.id \in Hidden THEN listed ELSE [listed EXCEPT ![row.id] = row]

(* ids.filter((id) => id !== s): no list has a space twice (SettingsOK).   *)
Without(ids, s) ==
  IF s \in ToSet(ids) THEN RemoveAt(ids, CHOOSE i \in DOMAIN ids : ids[i] = s) ELSE ids

(* resolveKnowledgeSpaceToggle.                                            *)
Toggled(ids, s) == IF s \in ToSet(ids) THEN Without(ids, s) ELSE Append(ids, s)

(* rollbackKnowledgeSpaceToggle: s is put back behind the last of its      *)
(* former predecessors that is still there.                                *)
Reinserted(ids, previous, s) ==
  LET before == {j \in DOMAIN previous : /\ previous[j] \in ToSet(ids)
                                         /\ s \notin {previous[k] : k \in 1 .. j}}
      place == IF before = {} THEN 0
               ELSE CHOOSE i \in DOMAIN ids : ids[i] = previous[Max(before)]
  IN  SubSeq(ids, 1, place) \o <<s>> \o SubSeq(ids, place + 1, Len(ids))
RolledBack(ids, previous, s) ==
  IF s \notin ToSet(previous) THEN Without(ids, s)
  ELSE IF s \in ToSet(ids) THEN ids ELSE Reinserted(ids, previous, s)

-----------------------------------------------------------------------------
(* Requests.                                                               *)

Writes == {c \in calls : c.kind \notin {"global", "row"}}

(* Begin a request beside those under way, and remember what it crosses:   *)
(* switches of spaces may cross each other, and nothing else them.         *)
BeginWrite(others, request) ==
  LET isToggle == request.kind = "toggle"
      isWrite == request.kind # "row"
      crossed == {d \in others : IF isToggle THEN d.kind \notin {"toggle", "global"}
                                              ELSE d.kind = "toggle"}
      new == Beside(request, [alone |-> Writes = {}, followed |-> FALSE,
                              overlap |-> Kind("toggle") # {}])
      c == IF isToggle THEN Request(1 + Max({0} \cup {d.n : d \in Kind("toggle")}), new)
                       ELSE AsNext(others, new)
  IN  /\ calls' = {[d EXCEPT !.alone = @ /\ ~isWrite, !.followed = @ \/ isToggle] :
                      d \in others} \cup {c}
      /\ unsure' = (unsure \/ crossed # {})

(* UpdateConversation stores the fields it is given.                       *)
Patched(c) ==
  [stored EXCEPT ![c.conv] =
     CASE c.kind = "toggle" -> [@ EXCEPT !.spaces = c.ids]
       [] c.kind = "model" -> [@ EXCEPT !.settings = c.settings]
       [] OTHER -> [@ EXCEPT !.settings = c.settings,
                             !.meta = IF c.metaSent THEN c.meta ELSE stored[c.conv].meta]]

SetsGlobal(c) == c.kind = "default" \/ (c.kind = "save" /\ c.stage # "conversation")
SetsRow(c) == c.kind \in {"toggle", "model"} \/ (c.kind = "save" /\ c.stage = "conversation")

(* Slip to catch: a failed save sends its own settings again, not those    *)
(* there were.                                                             *)
RollbackToDraft(c) == c.global

(* What a failed save puts back: previousChatSettings of its closure.      *)
RollbackValue(c) == c.previousGlobal

(* The server takes a request and keeps what it answers.                   *)
ServeSettings ==
  \E c \in calls :
    /\ c.phase = "sent"
    /\ CASE SetsGlobal(c) ->
              /\ storedGlobal' = IF c.kind = "save" /\ c.stage = "rollback"
                                 THEN RollbackValue(c) ELSE c.global
              /\ Become(c, Reply(c, storedGlobal'))
              /\ UNCHANGED <<stored, unsure>>
         [] SetsRow(c) ->
              /\ stored' = Patched(c)
              /\ Become(c, Reply(c, stored'[c.conv]))
              /\ unsure' = (unsure \/ (c.kind = "toggle" /\ \E d \in Kind("toggle") :
                                         d.phase = "sent" /\ d.n < c.n))
              /\ UNCHANGED storedGlobal
         [] c.kind = "global" ->
              /\ Become(c, Reply(c, storedGlobal))
              /\ UNCHANGED <<serverVars, unsure>>
         [] c.kind = "row" ->
              /\ Become(c, Reply(c, stored[c.conv]))
              /\ UNCHANGED <<serverVars, unsure>>
    /\ UNCHANGED <<active, rowVars, globalVars, draftVars, newVars, toggleVars,
                   dialog, acts, known, behind>>

(* A request fails: before the server took it, or its answer is lost (for  *)
(* one that only reads there is no difference).                            *)
SettingsFail ==
  \E c \in calls :
    /\ c.phase = "sent" \/ (c.phase = "answered" /\ c \in Writes)
    /\ Become(c, Broken(c))
    /\ UNCHANGED <<serverVars, active, rowVars, globalVars, draftVars, newVars,
                   toggleVars, dialog, acts, history>>

-----------------------------------------------------------------------------
(* What the user does.                                                     *)

(* syncSettingsDraft, when the dialog opens and for its Reset button.      *)
SyncSettingsDraft ==
  /\ globalDraft' = global /\ badNumber' = FALSE
  /\ IF Current # None THEN ApplyRow(Current)
                       ELSE ApplyNewChat(global, newPrompt, newMeta)
  /\ unsure' = (unsure \/ Kind("toggle") # {} \/ behind)

OpenSettings ==
  /\ ~isOpen /\ Act
  /\ SyncSettingsDraft
  /\ isOpen' = TRUE
  /\ UNCHANGED <<serverVars, active, rowVars, global, newVars, toggleVars, isSaving,
                 calls, known, behind>>

ResetSettings ==
  /\ isOpen /\ Act
  /\ SyncSettingsDraft
  /\ UNCHANGED <<serverVars, active, rowVars, global, newVars, toggleVars, dialog,
                 calls, known, behind>>

CloseSettings ==
  /\ isOpen /\ Act
  /\ isOpen' = FALSE
  /\ UNCHANGED <<serverVars, active, rowVars, globalVars, draftVars, newVars, toggleVars,
                 isSaving, calls, history>>

(* The fields of the dialog.  A number is text until it is saved.          *)
Edit ==
  /\ isOpen /\ Act
  /\ \/ /\ \E p \in Values : draft.prompt # p /\ draft' = [draft EXCEPT !.prompt = p]
        /\ UNCHANGED <<globalVars, metaDraft>>
     \/ /\ \E m \in Values : metaDraft # m /\ metaDraft' = m
        /\ UNCHANGED <<globalVars, draft>>
     \/ /\ \E v \in Values : globalDraft.number # v /\ globalDraft' = [globalDraft EXCEPT !.number = v]
        /\ badNumber' = FALSE
        /\ UNCHANGED <<global, draft, metaDraft>>
     \/ /\ badNumber' = ~badNumber
        /\ UNCHANGED <<global, globalDraft, draft, metaDraft>>
  /\ UNCHANGED <<serverVars, active, rowVars, spacesDraft, spacesOf, newVars, toggleVars,
                 dialog, calls, history>>

(* toggleKnowledgeSpace, from the list of the dialog.                      *)
ToggleKnowledgeSpace ==
  \E s \in Spaces :
    /\ isOpen /\ counts[s] = 0 /\ Act
    /\ LET ids == Toggled(spacesDraft, s)
       IN  /\ spacesDraft' = ids
           /\ IF Current = None THEN UNCHANGED <<toggleVars, calls, unsure>>
              ELSE /\ versions' = [versions EXCEPT ![s] = @ + 1]
                   /\ counts' = [counts EXCEPT ![s] = @ + 1]
                   /\ BeginWrite(calls, [kind |-> "toggle", conv |-> active, space |-> s,
                                    ids |-> ids, previous |-> spacesDraft,
                                    version |-> versions[s] + 1])
           /\ spacesOf' = IF Current = None \/ active # spacesOf THEN None ELSE spacesOf
    /\ UNCHANGED <<serverVars, active, rowVars, globalVars, draft, metaDraft, newVars,
                   dialog, known, behind>>

(* handleSaveSettings: nothing is sent while a number cannot be read.  The *)
(* folder and tags are sent when they differ from the list's copy.         *)
SaveSettings ==
  /\ isOpen /\ ~isSaving /\ ~badNumber /\ Act
  /\ isSaving' = TRUE
  /\ BeginWrite(calls, [kind |-> "save", stage |-> "global", conv |-> active,
                   global |-> globalDraft, settings |-> draft, meta |-> metaDraft,
                   metaSent |-> Current # None /\ metaDraft # Current.meta,
                   previousGlobal |-> global, previousRow |-> Current,
                   was |-> <<storedGlobal, IF active = None THEN None ELSE stored[active]>>,
                   sure |-> /\ known /\ Kind("global") = {}
                            /\ Current # None => Current.meta = stored[active].meta])
  /\ UNCHANGED <<serverVars, active, rowVars, globalVars, draftVars, newVars, toggleVars,
                 isOpen, known, behind>>

(* handleProviderModelChange.                                              *)
ChangeModel ==
  \E m \in Values :
    /\ ~isOpen /\ m # ContextBarSettings.model /\ Act
    /\ IF active = None
       THEN draft' = [draft EXCEPT !.model = m] /\ UNCHANGED <<calls, unsure>>
       ELSE /\ BeginWrite(calls, [kind |-> "model", conv |-> active,
                             settings |-> [ContextBarSettings EXCEPT !.model = m]])
            /\ UNCHANGED draft
    /\ UNCHANGED <<serverVars, active, rowVars, globalVars, metaDraft, spacesDraft, spacesOf,
                   newVars, toggleVars, dialog, known, behind>>

(* handleSetDefaultProviderModel: the drafts of the other settings go too. *)
SetDefaultModel ==
  /\ ~isOpen /\ Act
  /\ BeginWrite(calls, [kind |-> "default", conv |-> active, home |-> active = None,
                   global |-> [globalDraft EXCEPT !.model = ContextBarSettings.model],
                   prompt |-> newPrompt, meta |-> newMeta])
  /\ UNCHANGED <<serverVars, active, rowVars, globalVars, draftVars, newVars, toggleVars,
                 dialog, known, behind>>

(* The user goes to another conversation, or home, by the list or by the   *)
(* browser's buttons while the dialog is open.                             *)
Navigate ==
  \E c \in Conversations \cup {None} :
    /\ c # active /\ Act
    /\ active' = c
    /\ versions' = [s \in Spaces |-> 0] /\ counts' = [s \in Spaces |-> 0]
    /\ IF c = None
       THEN /\ calls' = calls \ Kind("row")
            /\ pending' = None
            /\ ApplyNewChat(global, newPrompt, newMeta)
            /\ unsure' = (unsure \/ Kind("toggle") # {})
       ELSE /\ BeginWrite(calls \ Kind("row"), [kind |-> "row", conv |-> c])
            /\ UNCHANGED <<pending, draftVars>>
    /\ UNCHANGED <<serverVars, listed, globalVars, newVars, dialog, known, behind>>

-----------------------------------------------------------------------------
(* Answers.                                                                *)

Saves(cs, stage) == {c \in cs : c.stage = stage}

(* loadChatSettings.                                                       *)
GlobalLoaded ==
  \E c \in Answered("global") :
    /\ ReplaceGlobal(c.reply) /\ known' = c.alone /\ Done(c)
    /\ DraftsAtHome(c.reply, newPrompt, newMeta) /\ ForgetAtHome
    /\ UNCHANGED <<serverVars, active, listed, newVars, dialog, acts, unsure, behind>>

(* applyConversationSnapshot when the messages of the conversation come.   *)
RowLoaded ==
  \E c \in Answered("row") :
    /\ listed' = Listed(c.reply) /\ pending' = c.reply
    /\ draft' = c.reply.settings /\ metaDraft' = c.reply.meta
    /\ Done(c)
    /\ UNCHANGED <<serverVars, active, globalVars, spacesDraft, spacesOf, newVars, toggleVars,
                   dialog, acts, history>>

(* The first request of a save is answered: a new chat has only this one.  *)
SavedGlobal ==
  \E c \in Saves(Answered("save"), "global") :
    /\ ReplaceGlobal(c.reply) /\ known' = c.alone
    /\ IF c.conv = None
       THEN /\ newPrompt' = c.settings.prompt /\ newMeta' = c.meta
            /\ ApplyNewChat(c.reply, c.settings.prompt, c.meta)
            /\ isOpen' = FALSE /\ isSaving' = FALSE
            /\ Done(c)
       ELSE /\ Become(c, Beside([stage |-> "conversation", phase |-> "sent"], c))
            /\ DraftsAtHome(c.reply, newPrompt, newMeta)
            /\ UNCHANGED <<newVars, dialog>>
    /\ ForgetAtHome
    /\ UNCHANGED <<serverVars, active, listed, acts, unsure, behind>>

SavedConversation ==
  \E c \in Saves(Answered("save"), "conversation") :
    /\ listed' = Listed(c.reply) /\ pending' = c.reply
    /\ ApplyRow(c.reply)
    /\ isOpen' = FALSE /\ isSaving' = FALSE
    /\ Done(c)
    /\ UNCHANGED <<serverVars, active, globalVars, newVars, toggleVars, acts, history>>

(* A save fails: after its first request the settings of every chat are    *)
(* put back, then the drafts of the conversation it began in, unless the   *)
(* user is at home by then.                                                *)
SaveFails ==
  \E c \in Failed("save") :
    /\ c.stage # "rollback"
    /\ IF c.stage = "global" THEN isSaving' = FALSE /\ Done(c)
       ELSE Become(c, Beside([stage |-> "rollback", phase |-> "sent"], c)) /\ UNCHANGED isSaving
    /\ known' = (known /\ (c.stage = "global" => ~c.lost))
    /\ UNCHANGED <<serverVars, active, rowVars, globalVars, draftVars, newVars, toggleVars,
                   isOpen, acts, unsure, behind>>

RolledBackSave ==
  \E c \in Saves(Answered("save") \cup Failed("save"), "rollback") :
    /\ LET g == IF c.phase = "answered" THEN c.reply ELSE c.previousGlobal
       IN  /\ ReplaceGlobal(g)
           /\ IF active # None /\ c.previousRow # None
              THEN pending' = c.previousRow /\ ApplyRow(c.previousRow) /\ UNCHANGED toggleVars
              ELSE DraftsAtHome(g, newPrompt, newMeta) /\ ForgetAtHome
    /\ known' = (c.phase = "answered" /\ c.alone)
    /\ isSaving' = FALSE
    /\ Done(c)
    /\ unsure' = (unsure \/ behind)
    /\ UNCHANGED <<serverVars, active, listed, newVars, isOpen, acts, behind>>

ModelChanged ==
  \E c \in Answered("model") :
    /\ listed' = Listed(c.reply) /\ draft' = c.reply.settings
    /\ Done(c)
    /\ UNCHANGED <<serverVars, active, pending, globalVars, metaDraft, spacesDraft, spacesOf,
                   newVars, toggleVars, dialog, acts, history>>

(* applyChatSettings, in the closure of the click.                         *)
DefaultModelSet ==
  \E c \in Answered("default") :
    /\ ReplaceGlobal(c.reply) /\ known' = c.alone
    /\ IF active # None /\ c.home THEN ApplyNewChat(c.reply, c.prompt, c.meta)
                                  ELSE DraftsAtHome(c.reply, newPrompt, newMeta)
    /\ ForgetAtHome
    /\ Done(c)
    /\ UNCHANGED <<serverVars, active, listed, newVars, dialog, acts, unsure, behind>>

(* A request that fails and changes nothing in the tab but the error.      *)
QuietFailure ==
  \E c \in Failed("global") \cup Failed("row") \cup Failed("model") \cup Failed("default") :
    /\ known' = (known /\ (c.kind = "default" => ~c.lost))
    /\ Done(c)
    /\ UNCHANGED <<serverVars, active, rowVars, globalVars, draftVars, newVars, toggleVars,
                   dialog, acts, unsure, behind>>

(* The finally of toggleKnowledgeSpace.                                    *)
Released(c) ==
  IF active = c.conv /\ counts[c.space] > 0 THEN [counts EXCEPT ![c.space] = @ - 1] ELSE counts
IsLatest(c) == active = c.conv /\ versions[c.space] = c.version

(* Slip to catch: an answer is accepted whatever was switched since.       *)
AcceptedIfLatest(c) == IsLatest(c)

(* An answer counts when no switch was made or undone since it was asked.  *)
Accepted(c) == IsLatest(c) /\ c.reply.spaces = spacesDraft

SpaceToggled ==
  \E c \in Answered("toggle") :
    /\ IF Accepted(c)
       THEN /\ listed' = Listed(c.reply) /\ pending' = c.reply
            /\ spacesDraft' = c.reply.spaces
       ELSE UNCHANGED <<rowVars, spacesDraft>>
    /\ counts' = Released(c)
    /\ Done(c)
    /\ UNCHANGED <<serverVars, active, globalVars, draft, metaDraft, spacesOf, newVars,
                   versions, dialog, acts, history>>

ToggleFails ==
  \E c \in Failed("toggle") :
    /\ spacesDraft' = IF IsLatest(c) THEN RolledBack(spacesDraft, c.previous, c.space)
                                     ELSE spacesDraft
    /\ counts' = Released(c)
    /\ Done(c)
    /\ unsure' = (unsure \/ c.lost \/ c.followed)
    /\ behind' = (behind \/ c.overlap)
    /\ UNCHANGED <<serverVars, active, rowVars, globalVars, draft, metaDraft, spacesOf,
                   newVars, versions, dialog, acts, known>>

-----------------------------------------------------------------------------
SettingsStart ==
  /\ stored = [c \in Conversations |-> NewRow(c)]
  /\ storedGlobal = [model |-> 0, number |-> 1]
  /\ active \in (Conversations \ Hidden) \cup {None}
  /\ listed = [c \in Conversations |-> IF c \in Hidden THEN None ELSE NewRow(c)]
  /\ pending = None
  /\ global = DefaultChatSettings /\ globalDraft = global /\ badNumber = FALSE
  /\ draft = NoSettings /\ metaDraft = 0 /\ spacesDraft = <<>> /\ spacesOf = active
  /\ newPrompt = 0 /\ newMeta = 0
  /\ versions = [s \in Spaces |-> 0] /\ counts = [s \in Spaces |-> 0]
  /\ isOpen \in BOOLEAN /\ isSaving = FALSE
  /\ known = FALSE /\ unsure = FALSE /\ behind = FALSE
SettingsFirst ==
  {Request(0, [kind |-> "global", alone |-> TRUE, followed |-> FALSE, overlap |-> FALSE])}

SettingsActs ==
  \/ OpenSettings \/ ResetSettings \/ CloseSettings \/ Edit \/ ToggleKnowledgeSpace
  \/ SaveSettings \/ ChangeModel \/ SetDefaultModel \/ Navigate

SettingsNext ==
  \/ SettingsActs \/ ServeSettings \/ SettingsFail
  \/ GlobalLoaded \/ RowLoaded \/ SavedGlobal \/ SavedConversation \/ SaveFails
  \/ RolledBackSave \/ ModelChanged \/ DefaultModelSet \/ QuietFailure
  \/ SpaceToggled \/ ToggleFails

SettingsInit == SettingsStart /\ calls = SettingsFirst /\ acts = 0
SettingsSpec == SettingsInit /\ [][SettingsNext]_settingsVars

-----------------------------------------------------------------------------
(* Properties.                                                             *)

(* The types; a space's switch is blocked exactly while requests of this   *)
(* visit about it are under way (updatePendingKnowledgeSpace).             *)
SettingsOK ==
  /\ \A c \in Conversations : /\ stored[c].id = c /\ stored[c].settings \in Settings
                              /\ IsInjective(stored[c].spaces)
  /\ storedGlobal \in GlobalSettings /\ global \in GlobalSettings
  /\ globalDraft \in GlobalSettings /\ draft \in Settings
  /\ metaDraft \in Values /\ newPrompt \in Values /\ newMeta \in Values
  /\ IsInjective(spacesDraft)
  /\ isSaving = (Kind("save") # {})
  /\ \A s \in Spaces : counts[s] > 0 => \E c \in Kind("toggle") : c.space = s

(* SpacesSettle: whatever the order of the answers to switches of spaces,  *)
(* once they are all there the dialog shows the spaces the server stores.  *)
(* Left out: a lost answer, a switch that fails with a later one already   *)
(* sent, another request about settings or a move at the same time.        *)
SpacesSettle ==
  (/\ isOpen /\ active # None /\ spacesOf = active /\ Current # None
   /\ Kind("toggle") = {} /\ ~unsure)
  => spacesDraft = stored[active].spaces

(* The folder and tags of a conversation the filters hide are not sent     *)
(* (buildConversationMetadataUpdate has no row to compare them with),      *)
(* though the dialog closes as after any save: they stay as they were.     *)
Unsent(c) == c.conv # None /\ c.previousRow = None

(* SaveAllOrNothing: a save that ends either stored all it was given, but  *)
(* for a folder and tags that are Unsent, or left the settings of every   *)
(* chat and of this one as they were, wherever the user went meanwhile.    *)
(* Left out: other writes at the same time, lost answers, a rollback that  *)
(* fails, settings the tab never loaded, and a list whose folder and tags  *)
(* are older than the server's.                                            *)
Stored(c) ==
  /\ storedGlobal = c.global
  /\ c.conv # None =>
       /\ stored[c.conv].settings = c.settings
       /\ stored[c.conv].meta = IF Unsent(c) THEN c.was[2].meta ELSE c.meta
AsBefore(c) ==
  /\ storedGlobal = c.was[1] /\ global' = storedGlobal
  /\ c.conv # None => stored[c.conv] = c.was[2]
Ends(c) == \A d \in calls' : d.kind = c.kind => d.n # c.n
SaveAllOrNothing ==
  [][\A c \in Kind("save") :
       (Ends(c) /\ c.alone /\ c.sure /\ ~c.lost /\ ~(c.stage = "rollback" /\ c.phase = "failed"))
       => IF isOpen' = isOpen /\ isOpen THEN AsBefore(c) ELSE Stored(c) \/ AsBefore(c)]_settingsVars

=============================================================================
