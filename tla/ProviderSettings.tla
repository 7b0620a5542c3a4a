--------------------------- MODULE ProviderSettings ---------------------------
(***************************************************************************)
(* The presets of model providers and the form that edits one:             *)
(* frontend/src/pages/chat-page, hooks/use-provider-settings,              *)
(* hooks/provider-settings/*, provider-form-utils/* and                    *)
(* components/provider-settings/*, against backend/internal/provider.      *)
(*                                                                         *)
(* The list is fetched whenever the dialog opens or closes, the fetch      *)
(* before it being cancelled; every other answer is the whole list too.    *)
(* Each of them decides which preset the form is about from the mode of    *)
(* the editor as it is by then.  The fields of a form are one text, blank  *)
(* (0) or not, and the API key.  Any other tab is left out.                *)
(***************************************************************************)
EXTENDS Requests

CONSTANTS
  NoPreset,           \* null: no preset, no list, nothing asked
  MaxPresets          \* bound: presets ever created

PresetIds == 1 .. MaxPresets
Texts == 0 .. 2

ASSUME PresetsAssumption ==
  /\ MaxPresets \in Nat \ {0} /\ NoPreset \notin Int
  /\ NoPreset \notin [text : [PresetIds -> Texts], current : PresetIds \cup {NoPreset}]
  /\ NoPreset \notin [id : PresetIds, editing : PresetIds \cup {NoPreset}]

VARIABLES
  presetRows,         \* server: text of each preset, 0 if there is none
  activeRow,          \* server: the active preset
  presetsIssued,      \* server: ids given out
  providerState,      \* the list last answered
  editor,             \* providerEditorMode and its ref
  editingProviderId,
  providerForm,       \* of: the preset its text was taken from
  isLoadingProviders,
  presetsOpen,        \* isSettingsOpen
  toDelete,           \* the preset a confirmation is about, with its closure
  crossing            \* history: a fetch crossed a write, or an answer was lost

presetServer == <<presetRows, activeRow, presetsIssued>>
presetForm == <<editor, editingProviderId, providerForm>>
presetDialog == <<presetsOpen, toDelete, isLoadingProviders>>
presetState == <<presetServer, providerState, presetForm, presetDialog, crossing>>
presetVars == <<presetState, requestVars>>

-----------------------------------------------------------------------------
(* The editor.                                                             *)

AutoEdit == [type |-> "auto"]
New == [type |-> "new"]
EditOf(p) == [type |-> "edit", id |-> p]

ListState == [text |-> presetRows, current |-> activeRow]
Has(state, p) == state.text[p] # 0

(* createProviderForm, of a preset or of the fallback of the server, whose *)
(* values are the blank ones.                                              *)
CreateForm(state, p) ==
  [of |-> p, text |-> IF p = NoPreset THEN 0 ELSE state.text[p], key |-> FALSE]

(* resolveProviderEditorState: the preset the editor is about, if it is    *)
(* still there, or else the active one.                                    *)
Target(state, mode) ==
  IF mode = New \/ (mode.type = "edit" /\ Has(state, mode.id)) THEN mode
  ELSE IF state.current = NoPreset THEN AutoEdit ELSE EditOf(state.current)
PresetOf(mode) == IF mode.type = "edit" THEN mode.id ELSE NoPreset

(* applyResolvedProviderEditor.                                            *)
ApplyEditor(state, mode) ==
  LET target == Target(state, mode)
  IN  /\ editor' = target
      /\ editingProviderId' = PresetOf(target)
      /\ providerForm' = CreateForm(state, PresetOf(target))

(* canReuseActivePresetAPIKey and validateProviderForm.                    *)
CanReuse == providerState # NoPreset /\ providerState.current # NoPreset
Valid ==
  /\ providerForm.text # 0
  /\ editor.type = "edit" \/ CanReuse \/ providerForm.key

-----------------------------------------------------------------------------
(* Requests.                                                               *)

PresetWrites == {"savePreset", "activatePreset", "deletePreset"}
Writing == \E c \in calls : c.kind \in PresetWrites
IsTesting == Kind("testPreset") # {}

(* Slip to catch: the answer of the fetch before is applied when it comes. *)
KeepFetches(cs) == cs
(* The cleanup of the fetch effect.                                        *)
CancelFetches(cs) == {c \in cs : c.kind # "presets"}

Send(body) == calls' = calls \cup {AsNext(calls, body)}

(* One transaction of PresetService, then ListState.  What it refuses      *)
(* fails before it is taken.                                               *)
ServePresets ==
  \E c \in calls :
    /\ c.phase = "sent"
    /\ \/ /\ c.kind \in {"presets", "testPreset"}
          /\ UNCHANGED presetServer
       \/ /\ c.kind = "savePreset" /\ c.id = NoPreset
          /\ presetsIssued < MaxPresets
          /\ c.reuse => activeRow # NoPreset
          /\ presetsIssued' = presetsIssued + 1
          /\ presetRows' = [presetRows EXCEPT ![presetsIssued'] = c.text]
          /\ activeRow' = presetsIssued'
       \/ /\ c.kind = "savePreset" /\ c.id # NoPreset /\ presetRows[c.id] # 0
          /\ presetRows' = [presetRows EXCEPT ![c.id] = c.text]
          /\ UNCHANGED <<activeRow, presetsIssued>>
       \/ /\ c.kind = "activatePreset" /\ presetRows[c.id] # 0
          /\ activeRow' = c.id /\ UNCHANGED <<presetRows, presetsIssued>>
       \/ /\ c.kind = "deletePreset" /\ presetRows[c.id] # 0
          /\ presetRows' = [presetRows EXCEPT ![c.id] = 0]
          /\ activeRow' = IF activeRow = c.id THEN NoPreset ELSE activeRow
          /\ UNCHANGED presetsIssued
    /\ Become(c, Reply(c, ListState'))
    /\ UNCHANGED <<providerState, presetForm, presetDialog, acts, crossing>>

PresetsFail ==
  \E c \in calls :
    /\ c.phase = "sent" \/ (c.phase = "answered" /\ c.kind \in PresetWrites)
    /\ Become(c, Broken(c))
    /\ UNCHANGED <<presetServer, providerState, presetForm, presetDialog, acts, crossing>>

-----------------------------------------------------------------------------
(* What the user does.  A confirmation covers the dialog.                  *)

(* Both effects of isSettingsOpen.  Escape takes the confirmation too,     *)
(* unless it is submitting.                                                *)
SwitchPresets ==
  /\ (toDelete # NoPreset => presetsOpen) /\ Act
  /\ presetsOpen' = ~presetsOpen
  /\ toDelete' = IF Kind("deletePreset") = {} THEN NoPreset ELSE toDelete
  /\ IF ~presetsOpen /\ providerState # NoPreset
     THEN ApplyEditor(providerState, AutoEdit)
     ELSE /\ editor' = IF presetsOpen THEN editor ELSE AutoEdit
          /\ UNCHANGED <<editingProviderId, providerForm>>
  /\ LET rest == CancelFetches(calls)
     IN  calls' = rest \cup {AsNext(rest, [kind |-> "presets"])}
  /\ isLoadingProviders' = TRUE
  /\ crossing' = (crossing \/ Writing)
  /\ UNCHANGED <<presetServer, providerState>>

InPresets == presetsOpen /\ toDelete = NoPreset /\ Act

StartNewProvider ==
  /\ InPresets
  /\ editor' = New /\ editingProviderId' = NoPreset
  /\ providerForm' = CreateForm(providerState, NoPreset)
  /\ UNCHANGED <<presetServer, providerState, presetDialog, calls, crossing>>

(* The presets are hidden while they load.                                 *)
ListedPresets ==
  IF isLoadingProviders \/ providerState = NoPreset THEN {}
  ELSE {p \in PresetIds : Has(providerState, p)}

EditProvider ==
  \E p \in ListedPresets :
    /\ InPresets
    /\ editor' = EditOf(p) /\ editingProviderId' = p
    /\ providerForm' = CreateForm(providerState, p)
    /\ UNCHANGED <<presetServer, providerState, presetDialog, calls, crossing>>

TypeProvider ==
  /\ InPresets
  /\ \/ \E t \in Texts : t # providerForm.text /\ providerForm' = [providerForm EXCEPT !.text = t]
     \/ providerForm' = [providerForm EXCEPT !.key = ~@]
  /\ UNCHANGED <<presetServer, providerState, editor, editingProviderId, presetDialog,
                 calls, crossing>>

SaveProvider ==
  /\ ~isLoadingProviders /\ ~Writing /\ Valid /\ InPresets
  /\ Send([kind |-> "savePreset", id |-> PresetOf(editor), mode |-> editor,
           text |-> providerForm.text,
           reuse |-> editor.type # "edit" /\ CanReuse /\ ~providerForm.key])
  /\ UNCHANGED <<presetServer, providerState, presetForm, presetDialog, crossing>>

TestProvider ==
  /\ ~isLoadingProviders /\ ~Writing /\ ~IsTesting /\ Valid /\ InPresets
  /\ Send([kind |-> "testPreset"])
  /\ UNCHANGED <<presetServer, providerState, presetForm, presetDialog, crossing>>

ActivateProvider ==
  \E p \in ListedPresets :
    /\ p # providerState.current /\ ~Writing /\ InPresets
    /\ Send([kind |-> "activatePreset", id |-> p])
    /\ UNCHANGED <<presetServer, providerState, presetForm, presetDialog, crossing>>

(* The page's handleDeleteProvider: the closure knows the form by now.     *)
AskDeleteProvider ==
  \E p \in ListedPresets :
    /\ ~Writing /\ InPresets
    /\ toDelete' = [id |-> p, editing |-> editingProviderId]
    /\ UNCHANGED <<presetServer, providerState, presetForm, presetsOpen,
                   isLoadingProviders, calls, crossing>>
ConfirmDeleteProvider ==
  /\ toDelete # NoPreset /\ Kind("deletePreset") = {}
  /\ Send(Beside([kind |-> "deletePreset"], toDelete))
  /\ UNCHANGED <<presetServer, providerState, presetForm, presetDialog, acts, crossing>>
CancelDeleteProvider ==
  /\ toDelete # NoPreset /\ Act
  /\ toDelete' = NoPreset
  /\ UNCHANGED <<presetServer, providerState, presetForm, presetsOpen,
                   isLoadingProviders, calls, crossing>>

-----------------------------------------------------------------------------
(* Answers.                                                                *)

(* mergeFormWithFetchedState: a form that edits a preset is left alone, a  *)
(* new one takes the fallback where nothing was typed.                     *)
PresetsFetched ==
  \E c \in Answered("presets") :
    /\ providerState' = c.reply
    /\ IF editor = AutoEdit THEN ApplyEditor(c.reply, AutoEdit) ELSE UNCHANGED presetForm
    /\ isLoadingProviders' = FALSE
    /\ Done(c)
    /\ UNCHANGED <<presetServer, presetsOpen, toDelete, acts, crossing>>

(* What the editor is asked to be about after a write.                     *)
ModeAfter(c) ==
  CASE c.kind = "savePreset" ->
         IF c.mode.type = "edit" THEN c.mode
         ELSE IF c.reply.current # NoPreset THEN EditOf(c.reply.current) ELSE AutoEdit
    [] c.kind = "activatePreset" -> EditOf(c.id)
    [] c.kind = "deletePreset" -> IF c.editing = c.id THEN AutoEdit ELSE editor

(* Slip to catch: the list is replaced, and the form of the deleted preset *)
(* stays.                                                                  *)
ApplyListOnly(c) ==
  /\ providerState' = c.reply
  /\ IF c.kind = "deletePreset" THEN UNCHANGED presetForm ELSE ApplyEditor(c.reply, ModeAfter(c))

(* applyProviderState.                                                     *)
ApplyProviderState(c) ==
  /\ providerState' = c.reply
  /\ ApplyEditor(c.reply, ModeAfter(c))

PresetWritten ==
  \E c \in UNION {Answered(k) : k \in PresetWrites} :
    /\ ApplyProviderState(c)
    /\ toDelete' = IF c.kind = "deletePreset" THEN NoPreset ELSE toDelete
    /\ Done(c)
    /\ UNCHANGED <<presetServer, presetsOpen, isLoadingProviders, acts, crossing>>

(* A failed request, and any test, ends with a message.                    *)
PresetMessage ==
  \E c \in calls :
    /\ \/ c.kind \in PresetWrites \cup {"presets"} /\ c.phase = "failed"
       \/ c.kind = "testPreset" /\ c.phase # "sent"
    /\ toDelete' = IF c.kind = "deletePreset" THEN NoPreset ELSE toDelete
    /\ crossing' = (crossing \/ (c.phase = "failed" /\ c.lost))
    /\ isLoadingProviders' = (isLoadingProviders /\ c.kind # "presets")
    /\ Done(c)
    /\ UNCHANGED <<presetServer, providerState, presetForm, presetsOpen, acts>>

-----------------------------------------------------------------------------
PresetsStart ==
  /\ presetRows = [p \in PresetIds |-> IF p < MaxPresets THEN 1 ELSE 0]
  /\ activeRow = IF MaxPresets > 1 THEN 1 ELSE NoPreset
  /\ presetsIssued = MaxPresets - 1
  /\ providerState = NoPreset /\ editor = AutoEdit /\ editingProviderId = NoPreset
  /\ providerForm = [of |-> NoPreset, text |-> 0, key |-> FALSE]
  /\ presetsOpen = FALSE /\ toDelete = NoPreset /\ isLoadingProviders = TRUE /\ crossing = FALSE
PresetsFirst == {Request(0, [kind |-> "presets"])}

PresetsActs ==
  \/ SwitchPresets \/ StartNewProvider \/ EditProvider \/ TypeProvider \/ SaveProvider
  \/ TestProvider \/ ActivateProvider \/ AskDeleteProvider \/ ConfirmDeleteProvider
  \/ CancelDeleteProvider

PresetsNext ==
  PresetsActs \/ ServePresets \/ PresetsFail \/ PresetsFetched \/ PresetWritten \/ PresetMessage

PresetsInit == PresetsStart /\ calls = PresetsFirst /\ acts = 0
PresetsSpec == PresetsInit /\ [][PresetsNext]_presetVars

-----------------------------------------------------------------------------
(* Properties.                                                             *)

(* The types; the buttons let one write at a time out, and the list says   *)
(* that it loads while a fetch is under way.                               *)
PresetsOK ==
  /\ presetRows \in [PresetIds -> Texts] /\ activeRow \in PresetIds \cup {NoPreset}
  /\ presetsIssued \in 0 .. MaxPresets
  /\ activeRow # NoPreset => presetRows[activeRow] # 0
  /\ editor.type \in {"auto", "new", "edit"} /\ providerForm.text \in Texts
  /\ Cardinality({c \in calls : c.kind \in PresetWrites}) <= 1
  /\ Kind("presets") # {} => isLoadingProviders

(* FormOnTarget: the form, the preset marked in the list and the one a     *)
(* save would be sent for are the same, and it is in the list, whichever   *)
(* answers came since it was chosen and whatever closure they ran in.      *)
(* Left out of the last: a fetch and a write that cross, a lost answer.    *)
FormOnTarget ==
  /\ providerForm.of = PresetOf(editor) /\ editingProviderId = PresetOf(editor)
  /\ (PresetOf(editor) # NoPreset /\ ~crossing) => Has(providerState, PresetOf(editor))

(* PresetsShown: when no request is under way the list is the server's,    *)
(* however often the dialog was opened and closed before fetches were      *)
(* answered.  Left out: a fetch and a write that cross, a lost answer.     *)
PresetsShown ==
  (calls = {} /\ ~crossing /\ providerState # NoPreset) => providerState = ListState

=============================================================================
