--------------------------------- MODULE Panels ---------------------------------
(***************************************************************************)
(* The parts of the tab beside the list of conversations and the running   *)
(* reply: the chat settings, the knowledge base, the provider presets, the *)
(* accounts and the pages of messages.  Each talks to the server through   *)
(* the requests of Requests and to the others through the page alone, so a *)
(* behaviour is of one of them: `panel' says which, and the rest of the    *)
(* tab rests.                                                              *)
(***************************************************************************)
EXTENDS ChatSettings, Knowledge, ProviderSettings, Accounts, MessagePages

CONSTANT Budget       \* bound: of MaxActs, what each part may use

Panel == {"settings", "knowledge", "providers", "accounts", "messages"}

ASSUME BudgetAssumption == Budget \in [Panel -> 0 .. MaxActs]

VARIABLE panel

vars == <<panel, settingsState, knowledgeState, presetState, accountState, pageState, requestVars>>

First ==
  CASE panel = "settings" -> SettingsFirst
    [] panel = "knowledge" -> KnowledgeFirst
    [] panel = "providers" -> PresetsFirst
    [] panel = "accounts" -> AccountsFirst
    [] panel = "messages" -> PagesFirst

Init ==
  /\ panel \in Panel
  /\ SettingsStart /\ KnowledgeStart /\ PresetsStart /\ AccountsStart /\ PagesStart
  /\ panel # "settings" => active = None /\ ~isOpen
  /\ panel # "accounts" => cookie # NoUser
  /\ calls = First /\ acts = MaxActs - Budget[panel]

UseSettings ==
  /\ panel = "settings" /\ SettingsNext
  /\ UNCHANGED <<panel, knowledgeState, presetState, accountState, pageState>>
UseKnowledge ==
  /\ panel = "knowledge" /\ KnowledgeNext
  /\ UNCHANGED <<panel, settingsState, presetState, accountState, pageState>>
UseProviders ==
  /\ panel = "providers" /\ PresetsNext
  /\ UNCHANGED <<panel, settingsState, knowledgeState, accountState, pageState>>
UseAccounts ==
  /\ panel = "accounts" /\ AccountsNext
  /\ UNCHANGED <<panel, settingsState, knowledgeState, presetState, pageState>>
UsePages ==
  /\ panel = "messages" /\ PagesNext
  /\ UNCHANGED <<panel, settingsState, knowledgeState, presetState, accountState>>

Next == UseSettings \/ UseKnowledge \/ UseProviders \/ UseAccounts \/ UsePages

Spec == Init /\ [][Next]_vars

-----------------------------------------------------------------------------
(* The types of every part, with what each part keeps true of its own      *)
(* state at any moment.                                                    *)
TypeOK ==
  /\ panel \in Panel /\ acts \in 0 .. MaxActs
  /\ \A c, d \in calls : c.kind = d.kind /\ c.n = d.n => c = d
  /\ SettingsOK /\ KnowledgeOK /\ PresetsOK /\ AccountsOK /\ PagesOK

=============================================================================
