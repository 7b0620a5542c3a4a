# Illyawish: verification project

Illyawish is a chat application for language models: a Go server
(`backend/internal/...`, SQLite through gorm) and a React client
(`frontend/src`). This directory holds TLA+ models of it, TLC configurations
that check them on small instances, and TLAPS proofs of what matters most for
every size.

    tlc -config ActiveRun.cfg MCActiveRun            # one of the runs below
    tlapm ActiveRunProofs.tla                        # one of the proof modules

## 1. Inventory

### The run of a reply: `chat/active_run.go`, `chat/generation_active_run.go`

State: `activeRun` (sequence counter, the last 512 events, a map of subscriber
channels of capacity 128, `finished`, `cancelReason`, `detachTimer`, a context)
and `Service.activeStreams`, the map from conversations to their run.

Operations: `subscribe`/`unsubscribe` (request handlers), `publish`/`finish`
(the worker goroutine), `setCancelReason` and `cancel` (the stop request and the
detach timer), `registerActiveStream`/`finishActiveStream`/`withActiveStream`.

Concurrency: `run.mu` protects the run, `activeMu` the map; the handlers, the
worker, the timer callback and the stop request interleave between critical
sections. Correct means: what a client receives has no gap and no repetition;
it misses only what the bounded buffer had dropped; channels are closed once and
always; a run nobody watches is stopped, a run somebody watches is not timed
out; a cancellation has a recorded reason.

### The generation service: `chat/generation_*.go`

State: the rows of `messages` (role, status), `activeStreams`.

Operations: send, retry, regenerate, edit (one transaction, then the model
call is prepared, then a run is registered or the request is refused as busy),
the run itself (first call, at most one continuation, final update, closing
event), stop, delete.

Hard: no lock or transaction spans a request, so requests from several tabs
overlap, and a reply is settled by key minutes after it was prepared. Correct
means: one run at a time; a reply has one writer; user messages and replies
alternate; the closing event tells what was stored; a run that a stop
interrupted is stored as cancelled, never as failed, and no other is.

### Attachments: `attachment/`, `chat/message_attachments.go`

State: rows of `stored_attachments` and the files they name, the attachments
column and the `message_attachments` links of messages.

Operations: upload, validation, send/edit/replay/delete on the chat side, the
clean-up that follows them, the hourly sweep of expired uploads, the
administrator's purge.

Hard: a row and its file are created and removed in two steps; removal is
decided by counting links and done later; validation comes before the
transaction that links. Correct means: no row without its file, also across
crashes; links count every use; nobody but a purge takes an attachment from a
message that had it.

### The generation client: `frontend/src/pages/chat-page/hooks`

State: `messages`, `isSending`, `activeConversationId` and its ref,
`activeGenerationRef`, one buffered delta, the history fetch under way, and the
last sequence number of each conversation in `sessionStorage`.

Operations: send, edit, retry/regenerate, resume and stop, each an asynchronous
function with several awaits; navigation, archiving and deletion; React effects
that fetch the history and resume a streaming reply.

Hard: a generation outlives the screen that started it, and whether an answer
touches the screen is decided by refs when it arrives. Correct means: no other
conversation's messages on the screen, no delta lost or repeated, failures kept,
the stop button there as long as a generation is active, and in the end the
screen shows what the server stored.

### The conversation list: `conversation-list*`, `chat-page-actions/`, the sidebar

State: the conversations loaded, those shown, totals and an offset, filters
(search, archive, folder, tags), a selection, loading flags, the version of the
request whose answer counts, rows only this tab knows, an open dialog.

Operations: pages, filters, selection, single and bulk changes, creation by the
first message, import, deletion; the server lists and changes rows.

Hard: pages and answers about single conversations come in any order while
filters change; totals and the offset of the next page are kept by hand; the
closures that continue after a request are as old as the request. Correct means:
no copy older than the server's row, no conversation of a view that can no
longer be reached, nothing selected that is not shown, no endless "loading".

### Chat settings: `use-chat-settings-state`, `provider-actions`

State: the settings of every chat and of each conversation, their drafts, the
spaces switched on, versions and counts of the switches under way.

Hard: a save is two requests with a rollback by a third; switches of knowledge
spaces overlap and are shown before they are answered; the dialog may be closed
or over another conversation by then. Correct means: a save stores everything
or nothing, and switches end where the server is.

### Knowledge: `agent-workspace/`, `knowledge-settings/`, `rag/`

State: spaces, documents and retrieval providers, on the server and cached in
the tab, and the forms and confirmations about them.

Hard: a document is checked, embedded by another service and only then written;
the workspace's two halves load apart; lists are replaced by some answers and
edited by others. Correct means: once all is answered the caches are what the
server has, and nothing of a deleted space is left.

### Provider presets: `provider-settings/`, `provider/`

State: the presets and the active one, the list in the tab, the mode of the
editor and the form.

Hard: every answer is a whole list and decides anew which preset the form is
about, from a mode that changed meanwhile; opening and closing the dialog
cancels and starts fetches. Correct means: the form, the preset marked and the
one a save is sent for are the same; the list shown is the server's.

### Accounts: `auth/`, `admin/`, `routes/`, the admin page

State: users with roles, status and session version, the policy; the cookie;
the signed-in user, the route, the admin page's copies and drafts.

Hard: a session is revoked between any two requests, and the tab learns it from
whichever is answered next; handlers read a row, check it, and write to it later:
role, status and session version (`UpdateUser`), or the session version by the
row they read (`ResetPassword`, `ChangePassword`, `LogoutAll`). Correct means:
at rest a signed-in tab shows the user of the browser's session, and the admin
page shows roles, statuses and the policy as they are.

### Message pages: `use-chat-history`, `chat/messages_page.go`

State: the messages shown, the cursor of the next older page, loading flags.

Hard: navigation, the end of replies and older pages each replace or extend the
history. Correct means: no gap, and the button asks from the right place.

### The other parts

| part | state | hard behaviour |
| --- | --- | --- |
| quotas (`chat/quota.go`, attachments' limits) | counts of rows | check-then-act |
| reasoning parser, chunking and retrieval | none of their own | tags split over chunks, boundaries |
| model adapters (`llm/`), tools (`agent/`), `network/`, `config/`, `audit/` | none | translation and single writes |
| database, HTTP layer | schema | start-up only; formatting |
| user interface, translations | none beyond the above | rendering |

`PROJECT.json` lists what can go wrong and matters most, each at its line
("hazards"), with the properties that would show it; section 6 adds what is
known and accepted.

## 2. Plan

1. `EventFeed` (abstract), `ActiveRun` implementing it, `Generation`; proofs of
   their safety properties (done).
2. `Attachments` and `GenerationClient` (done).
3. The rest of the tab with its services: `ConversationList`, then `Requests`
   and on it `ChatSettings`, `Knowledge`, `ProviderSettings`, `Accounts`,
   `MessagePages`, put together by `Panels` (done).
4. Left: the quotas; two administrators who act at once from two tabs; the
   reasoning parser and chunking as functions checked against reference
   definitions; conversations used by a space that is deleted.
5. Proofs of the safety properties of every component (section 5); left are
   `Panels`' `TypeOK` and `ViewMatchesStored`.

## 3. Modules

### `EventFeed`

The promise of a run to its clients without buffers, channels or locks: a
growing feed of numbered events, readers that each receive consecutive events,
and completion only for a reader that has the last event.

### `ActiveRun`

One run and the handlers that watch it. An event is its sequence number, which
is all that the hub looks at. Each action is one critical section of `run.mu` or
`activeMu`, or one step of a goroutine between two of them:

| action | code |
| --- | --- |
| `Lookup`, `Subscribe`, `Emit`, `StreamClosed`, `Disconnect` | `streamActiveRun` and the loop of `launchActiveRun` |
| `Unsubscribe`, `ScheduleDetachCancellation` | the deferred clean-up, in its two critical sections |
| `TimerFires`, `DetachSetsReason`, `DetachCancels` | the callback of `time.AfterFunc`; several callbacks may be on their way at once |
| `UserSetsReason`, `UserCancels` | `CancelGeneration`, which may have looked the run up long before |
| `Publish`, `ExecuteReturns`, `Finish`, `Release`, `Unregister` | the worker goroutine |

`delivered` and `lost` are history: what each client was sent, and which handlers
were dropped or left. A client may resume from any number, also one that the run
has not reached. The grace period of 50 ms in which a launcher whose client left
waits for the run is the time it may spend in `leaving`.

### `Generation`

The service around one conversation. Every request makes one call and is a
process: it reads the conversation (`Ask`), commits its transaction (`Send`,
`Replay`, `Edit`), prepares the model call (`Build`) and registers its run
(`Register`) or learns that the conversation is busy; it may fail between any
two steps (`Fail`). A run is named by its request. `ModelReturns` chooses what a
call of the model comes back with; `Finalize`/`FinalizeFails` is the update by
key; `Report` is the one closing event. Keys of messages come from SQLite's
`AUTOINCREMENT` and are never reused. `Restart` keeps only the tables. Texts,
options and attachments are left out. Conversations that were imported may start
with any sequence of roles; the model starts from turns this service stored.

### `Attachments`

Uploads (`CreateFile`, `SaveRecord`, `UploadFails`), and workers: request
handlers and the goroutine of the sweep, each doing one thing at a time, one
transaction or file operation per action.

| action | code |
| --- | --- |
| `Compose`, `Validate`, `Send`, `Edit`, `GiveUp` | a message is composed, its attachments validated, and only then stored with its links |
| `Replay`, `ListMessages`, `DeleteConversation` | later messages go; what they used is handed to the clean-up |
| `Count`, `DropRecord`, `RemoveFile` | `CleanupUnreferenced`, one attachment after the other |
| `Sweep`, `SweepCount`, `DeleteSwept`, `RemoveNext`, `Removed` | `DeleteExpiredUnreferenced` and `deleteStoredAttachments` |
| `Purge`, `DeletePurged` | `DeleteAllForUser`, for an administrator |
| `Expire`, `RemovalFails`, `Crash` | time, errors of queries and of the file system, a restart |

`protected` records what was linked, without a break, since a worker began;
`excused` what a purge took or a removal that had begun before the link;
`faults` whether a file operation failed or the process stopped. A message holds
the set of its attachments; names, types, sizes and contents are left out, and
so is the building of model requests from them.

### `GenerationClient`

One tab. A generation is a *flow*, and its field `pc` is the await at which its
handler is: `ask` (the request is sent), `stream`, `fetch`/`answered` (the
reconciling request, answered at one moment and applied at a later one),
`finish` (the list is loaded again), `done`; `stop` is the same of its stop.

| action | code |
| --- | --- |
| `Send`, `Edit`, `Repeat`, `Resume` | what the handlers do before their first await, `beginGeneration` included |
| `Prepare`, `Refuse`, `Register`, `Attach`, `Break`, `StreamEnds` | the request on the server and how it comes back |
| `ReceiveStart`, `ReceiveDelta`, `ReceiveClosing`, `FlushFrame` | `handleStreamEventForConversation` and the frame that flushes deltas |
| `Answer`, `Apply`, `FetchFails`, `Finish` | `reconcileConversationState`, `settleGenerationCleanup`, `finalizeGeneration` |
| `Stop`, `StopCancel`, `StopAnswer`, `StopApply`, `StopFetchFails`, `StopFinish` | `settleStoppedGeneration` and `waitForConversationToSettle` |
| `Navigate`, `SyncAnswer`, `SyncApply`, `SyncFails` | the route and the effects of `useChatHistory` |
| `Archive`, `Archived`, `ArchiveFails` | `handleToggleArchived`/`handleDeleteConversation` and the reset afterwards |
| `OtherTab`, `Publish`, `SettleReply`, `CloseRun` | the server, reduced to rows of replies and runs |

A text is the sequence of the deltas it holds. Placeholders are negative keys,
rows positive ones; `messages` keeps their order because the effect that resumes
looks at the last one. The effect runs before the user can do anything else
(`ResumeDue`). The server's rows and runs follow `Generation` and `ActiveRun`: a
reply's text is stored when it is settled, which may be after any event, so that
stop requests and the detach timer are covered; events are retained.

Some properties excuse flows that the code treats no better, and each excuse is
a history field: `over` (begun while a history fetch was open: its answer
overwrites the optimistic messages), `lost` (stopped before the server knew the
run, so that the stop hits nothing, or stopped but still streaming after the
last poll), `orphan` (no longer the active generation although its stream or
stop is open, so that a resumption reads the run a second time), `away` (the
user went elsewhere meanwhile), `reset` (the screen was reset under an active
generation), and `cut` (begun, which sets the remembered sequence number back to
0, while a reply that was read in part streamed on the screen). The lines are, in
`pages/chat-page/hooks`, `use-chat-history.ts:207`, `chat-generation/stop.ts:15`,
`chat-generation/resume.ts:61`, `use-chat-history.ts:178`,
`chat-history/operations.ts:149` and `use-chat-generation-stream-state.ts:128`.

Left out here: creating a conversation with the first message
(`ConversationList`) and older pages (`MessagePages`); left out altogether: a
reconciliation that finds its conversation gone, that a flush and the end of a
generation read `activeGenerationRef` at slightly different moments, reasoning
timestamps, editing a message that was never stored, and the removal
of rows by a deletion (only its reset of the screen is modelled).

### `ConversationList`

The sidebar of one tab against the rows of the server. A request for a page
(`pages`) or about one conversation (`calls`) is taken by the server at one step
and applied at a later one. Lists are sets of copies of rows, since their order
is a function of the copies; a search is the presence of one word, `hit`, which
a title has and which messages of `Mentioned` conversations contain.

| action | code |
| --- | --- |
| `Defer` | the render with the deferred search, and the effect that fetches the first page |
| `AnswerPage`, `ApplyPage`, `PageFails` | `ListConversations`; `applyConversationPage` and the three ways its answer is used or dropped |
| `Serve`, `Changed`, `Deleted`, `Looked`, `Reconciled`, `CallFails` | updates and deletions, and what `applyConversationMutation`, `syncConversationIntoList` and `removeConversationFromList` do with the answer |
| `Begin`, `Create`, `Created`, `CreateFails`, `Run`, `RunEnds`, `RunFails` | a message sent or a file imported: the conversation it creates, the reload after it, the removal of an empty one |
| `Sidebar` | search, filters, selection, more rows, opening, pinning and archiving, as far as controls offer them |
| `Dialog` | prompts and confirmations for one or for all selected: asked, submitted, cancelled, one request after the other |

`whole`, `failed` and `unsure` are history. `whole` says that a page of the query
was applied and that nothing happened since which the bookkeeping of counts does
not follow: a sync under a folder or tag filter takes a row off the loaded list,
which nothing counts, and a change of a kind `Shifts` moves a row past the end of
what is loaded or counts one that no page brought (section 5 says which);
`failed` that a request failed; `unsure` names conversations two requests were
about at once, or whose answer was lost: the code has no order for these.

The server orders rows by `is_pinned` and then `updated_at`, and leaves ties open;
`StartAssumption` and the clock give no two rows the same time.

The model contains what the code does in some cases that look odd: a row whose
messages alone match a search is loaded and filtered out; under a search an
answer that no longer matches leaves the old copy on the screen; an answer
about one conversation drops the page under way, also the first one of a
tab opened at the address of a conversation (`use-conversation-list.test.tsx:476`
and `:559` expect the older page to be ignored), and nothing asks for it
again; a reload that was overtaken
ends the loading of the one after it; Cancel stays enabled while a dialog is
submitted, and the end of its requests closes whichever dialog is open by then;
a tag may stay selected without a chip to deselect it.

### `Requests`

What the remaining modules share: a request is sent, taken by the server at some
later step, and answered at a third. Requests and answers are not ordered. One
may fail before the server took it, or its answer may be lost (`lost`). Reads
fail only before: nothing tells the two apart.

### `ChatSettings`

| action | code |
| --- | --- |
| `OpenSettings`, `CloseSettings`, `ResetSettings`, `Edit`, `Navigate` | the dialog, its drafts, and the conversation under it |
| `SaveSettings`, `SavedGlobal`, `SavedConversation`, `SaveFails`, `RolledBackSave` | `handleSaveSettings`, one action per await |
| `ToggleKnowledgeSpace`, `SpaceToggled`, `ToggleFails` | `toggleKnowledgeSpace` with versions, counts and rollback |
| `ChangeModel`, `ModelChanged`, `SetDefaultModel`, `DefaultModelSet` | the model control |
| `GlobalLoaded`, `RowLoaded`, `QuietFailure`, `ServeSettings`, `SettingsFail` | loads, and the server |

A prompt, the model and one number stand for the settings; folder and tags are
one value. A conversation of `Hidden` has no row in the list that is shown.
History: `known` (the tab loaded the settings once; before, built-in values are
saved over them), `unsure` and a save's `alone` (two writes of the same row
overlapped), a save's `sure` (the settings were loaded, and the list knows the
folder and tags), `behind` (the list missed an answer), `spacesOf` (the
conversation the draft of spaces belongs to, none once it was switched on for
one and off for another). On the start page the effect of
`use-chat-history.ts:71` runs again whenever the settings of every chat change,
and resets the drafts (`DraftsAtHome`) and what is known of a conversation
(`ForgetAtHome`); it is part of the actions that change them.

The folder and tags typed for a conversation of `Hidden` are not sent, because
`buildConversationMetadataUpdate` has no row to compare them with, though the
save ends as any other; `SaveAllOrNothing` says so in its `Unsent`.

### `Knowledge`

| action | code |
| --- | --- |
| `Workspace`, `WorkspaceLoaded`, `DocumentsLoaded` | the loads; the workspace's halves end apart (`Half`) |
| `SaveSpace`, `SaveDocument`, `EditRow`, `SelectSpace`, `AskDelete`, `Confirm`, `CancelDelete`, `ChooseProvider`, `ChangeTab`, `RefreshDocuments` | the forms and controls |
| `SpaceSaved`, `SpaceDeleted`, `DocumentSaved`, `DocumentDeleted`, `ProvidersChanged`, `KnowledgeError` | how answers edit the caches and forms |
| `ServeSpaces`, `CheckDocument`, `WriteDocument`, `ServeDocuments`, `ServeProviders` | the services; a document's check and its write are two steps, the embedding lies between |

The other services read and write in one step, since nothing slow happens
between their queries. A copy carries a revision for its text. `mixed` is
history: requests crossed that the answers cannot put in order (a list asked for
while one of its documents is written, a space deleted during an embedding,
which leaves or brings back documents nothing lists). `reopened` is history too:
a space or a document was opened while its deletion was under way, after which
the forms are only checked for their types. The document in the form is said to
be there while its space is the one that is open (both in section 6). A
confirmation belongs to its tab and goes with the dialog; the end of a deletion
confirmed before the dialog was closed changes the lists only.

### `ProviderSettings`

| action | code |
| --- | --- |
| `SwitchPresets`, `PresetsFetched` | the dialog opens or closes: the fetch before is cancelled, another one starts |
| `StartNewProvider`, `EditProvider`, `TypeProvider` | the editor |
| `SaveProvider`, `TestProvider`, `ActivateProvider`, `AskDeleteProvider`, `ConfirmDeleteProvider`, `CancelDeleteProvider` | the requests |
| `PresetWritten`, `PresetMessage`, `ServePresets`, `PresetsFail` | their answers, and the service |

A form is the preset it was taken from, one text (blank or not) and the API key.
`crossing` is history: a fetch that overlapped a write, or a lost answer.

### `Accounts`

| action | code |
| --- | --- |
| `SubmitLogin`, `Bootstrapped`, `LoggedIn`, `StatusKnown`, `UserLoaded`, `UserNotLoaded` | the login page and `AuthProvider` |
| `Logout`, `LoggedOut`, `Secure`, `LoggedOutAll`, `PasswordChanged`, `Refused` | the ways a session ends |
| `GoTo`, `UseApi`, `EditDraft`, `SaveUser`, `CreateUser`, `SavePolicy`, `AdminLoaded`, `AdminSaved`, `AccountMessage` | pages and administration |
| `CheckRequest`, `HandleRequest`, `ServePublic`, `AccountsFail`, `Elsewhere` | middleware and reads, then the write; another administrator's changes |

The cookie names a user and a session version and changes when an answer
arrives. A handler reads a row at `CheckRequest` and writes to it at
`HandleRequest`: `UpdateUser` its role, its status and a version, the others a
version only, each version by the row that was read (`Written`). History: `stale`
(the other administrator saved a user, the answer to a write of the page was
lost, or two saves of one user or of the policy crossed or were under way when the
page was opened) and `crossed` (the answer to a password change came after the
login of someone else, whose browser it signs in as the first user again).
`AccountsAgree` leaves out of the former half what is `crossed`, of the latter
what is `stale`.

### `MessagePages`

`OpenChat`, `LoadOlder` and `EndReply` ask for pages; `PagesServe` is
`ListMessagesPage`; `Synced`, `Reconciled` and `OlderLoaded` apply them, and
`SyncFailed`, `ReconcileFailed`, `OlderFailed` are their ends without one. A
message is its id. `torn` is history: a page was applied after what it continues
had been replaced, since `loadOlderMessages` does not look whether it still
belongs to what is shown.

### `Panels`

The five parts meet in the page and share its requests, not their state. A
behaviour is of one part (`panel`), the others rest; so one run checks all of
them without multiplying them. The same user's acts in the list and in a
running reply are in `ConversationList` and `GenerationClient`.

### Slips

Each module contains, under the comment "Slip(s) to catch", mutated forms of
some definitions: plausible mistakes in the code that the listed property must
detect. They are not part of the specification.

## 4. Runs

| run | instance | shows |
| --- | --- | --- |
| `hub` | 2 handlers, buffer 1, channels 1, 3 events, fairness | `Delivery`, `ChannelsOwned`, `TimerOnlyUnwatched`, `CancelHasReason`; `ActiveRun` implements `EventFeed` (`ImplementsFeed`); abandoned and cancelled runs end, and so do the streams of a finished one (`RunEnds`) |
| `gen` | 2 requests of any kind, 1 earlier turn, 1 restart, fairness | `OneRun`, `RepliesOwned`, `TurnsAlternate`, `ClosedTruthfully`, `StopsAreStored`; a cancelled run frees its conversation and settles its reply (`CancelTakesEffect`) |
| `att_safety` | 2 uploads of one of 2 users, 1 handler, the sweep | `TypeOK`, `RecordHasFile`, `LinksMatchUses`, `NoOrphanFiles` |
| `att_races` | 1 upload, 2 handlers, the sweep, fairness | `MessagesKeepAttachments`; files settle and expired uploads go (`FilesSettle`, `ExpiredAreSwept`) |
| `att_cascade` | 1 upload, 1 handler, the sweep | finding: links outlive their messages |
| `client_screen` | 1 generation, 2 conversations, 4 events, 4 moves, a request that fails | `TypeOK`, `OnlyActive`, `FailureKept`, `LiveTextComplete`, `ViewMatchesStored` |
| `client_resume` | 2 generations, another tab's run, 3 events, 2 moves | `InOrder`, `StopOffered` |
| `client_liveness` | 2 generations, 3 events, a fault, fairness | every generation ends |
| `client_return` | 1 generation, 2 conversations | finding: the wrong messages after a return |
| `list` | 2 conversations and a third to create, pages of 1, 3 moves or faults | `TypeOK`, `LoadedIsCurrent`, `NothingLost`, `SelectedAreShown`, `LoadingHasRequest` |
| `panels` | one part at a time; 3 acts (presets: 5), 2 conversations of which 1 is hidden, 2 spaces in the settings, 4 knowledge rows, 3 presets, 3 users (of whom 2 administrators or none at first), pages of 1 message | `TypeOK`, `SpacesSettle`, `SaveAllOrNothing`, `KnowledgeExact`, `FormOnTarget`, `PresetsShown`, `AccountsAgree`, `PagesContiguous` |

Bounds. Three events against a buffer and channels of one let the buffer
overflow twice, a subscriber fall behind, and a client resume before, inside and
after the retained window; the sizes of the code (512 and 128) are only larger
of the same, and the proofs hold for all of them. Two handlers give every race
between a launcher and one that resumes; the proofs cover any number. Two
requests give the races of two that prepare replies at once, and of a stop, an
edit or a deletion with a run; a third and more restarts are left to the proofs,
which hold for any number of either.

Two attachments and messages of up to two of them let an edit drop one and keep
the other; two stored messages let two uses share one. In the client, four moves
are a round trip, an archive and a stop; four events give a text of two deltas;
one more generation is enough for one to overtake another, since a handler knows
only itself and the active one. The 12 polls of a stop are 2 in `client_screen`
(one that goes on and one that gives up) and 1 elsewhere. Runs in which
conversations, or in `panels` the spaces of the settings, are interchangeable
use symmetry; those that check liveness do not.

In the list, pages of one row make two rows two pages, and the third
conversation shifts them; three moves are a filter, a change under it and a
fault, or the two dialogs that close each other. One conversation has a folder
and a tag, the other none; the title of the one matches a search, and only the
messages of the other. A new conversation is in no folder (`NewPlaces`), which
a folder filter shows or hides like any other. (Some 1.8 million states.) In the panels three acts are two requests that cross and
one that closes the dialog, leaves the conversation or deletes what they are
about; the form of a preset needs five, since it is typed into before it is
saved. Two rows of knowledge and one preset can be created beside those there
at first, one user beside two administrators, or three where there is none yet.
The messages there are at first have gaps between their keys, as after a retry
(`Turns`).
Once requests about knowledge are `mixed`, what the user does next is not
followed, since `KnowledgeExact` says nothing of it. (Some 0.9 million states.)

Deadlock is checked for `ActiveRun` and `Attachments`; `GenerationClient`,
`ConversationList` and `Panels` stop when the user has used up what he may do,
and `Generation` when every request was made (`CHECK_DEADLOCK FALSE`).

Fairness. Go schedules every runnable goroutine and timers expire, so the steps
of a handler that runs, of the timer, of the worker after the model call, and
of a stop request that found its run are weakly fair. No fairness is assumed of
clients (arriving, leaving, stopping) nor of the model: its call is only known
to return once its context is cancelled. The sweep's ticker ticks, and a removal
that has begun goes on unless it fails or the process stops; uploads end. In the
browser, requests are answered or fail, frames and effects run, and the server
ends its runs; the user and other tabs may stop acting at any time.

### Findings

- `att_cascade`: `models.go:110` declares that deleting a message deletes its
  links, but SQLite's foreign keys are never turned on (`buildSQLiteDSN`). The
  links stay, the clean-up after the deletion counts them, and the attachments
  of deleted messages are kept for ever.
- `client_return`: the user leaves a generating conversation, the reconciliation is
  applied while another one is shown, and he returns before the generation is
  finalized. The history effect skips its fetch because the generation is still
  the active one, and nothing fetches later: the other conversation's messages,
  or none, stay on the screen. The test at `chat-page.test.tsx:1006` makes the
  same trip but waits for the end of the generation first.

## 5. Proofs

Each proof module extends the module it is about and holds for every value of
the constants that the named assumptions allow. The properties of section 4 are
seldom inductive by themselves; what follows says what each needs beside them.

`ActiveRunProofs` proves every invariant that `hub` checks. The inductive
invariant `RInv` has five layers, each proved from the
ones before it: `TypeOK` and `Buffered` (the buffer is the tail of the feed;
they need each other, since the snapshot of `subscribe` is well defined only on
a sorted buffer), `Watching` (who is subscribed when: a handler that is serving
an unfinished run and was not dropped is in the map), `Reasoned` (whoever is
about to cancel has recorded a reason), and `Streams` (output, snapshot and
channel of a handler are adjacent intervals of the feed that reach up to the
latest event). `Delivery` (`DeliveryIsExact`) is gap-freedom, nothing skipped but
what was trimmed, and being up to date, each of which is a theorem of its own.

Its last section proves the refinement, `RunImplementsFeed`: under the mapping of
`ActiveRun` its start is a start of `EventFeed` and every step of a handler, the
worker, the timer or the stop request is a step of the feed or a stutter. A step
that delivers is a `Receive` because output, snapshot and channel are adjacent;
a step that leaves needs that nobody holds an event that was not published
(`Published`), and that a subscribed handler leaves only because its client did
(`LeftAreLost`).

`GenerationProofs` proves every invariant of `gen` for any number of
requests, earlier turns and restarts. Its invariant `IInv` adds to the properties
that keys in use lie below the next key, where a request may be while its run is
in a given place, that a finishing run knows its outcome, and that whoever is
about to cancel has recorded a reason (`Reasons`), so that a call that returns
because its context was cancelled ends in a cancelled run and no other call does
(`Outcomes`, from which `StopsAreStored` follows). Alternation of turns is proved on top of
it, action by action, from the fact that each transaction keeps a prefix of the
conversation and completes it. `RepliesOwned` (`RepliesAreOwned`) is one owner of
each reply and the open row it owns.

`AttachmentsProofs` proves every invariant of `att_safety` and `att_races`. An
upload has its file before its row (`Uploading`), so what a message uses is an
upload that is over (`UsesAreOver`); a link protects what it names from workers
that began before it (`ProtectedAreLinked`); and what each worker carries from
one step to the next is still true when it acts on it (`Informed`): picks were
rows of the user, what is dropped is not protected, what is removed has no row.

`GenerationClientProofs` proves six of the seven invariants of the client's
runs. `Types` says for each `pc` of a flow what the flow holds, and when the
stop button is there, from which `StopOffered` follows. `OnlyActive` needs
`Placed`: the rows stored for a conversation, in answers on their way, in flows
and on the screen are of the conversation they are said to be of. `FailureKept`
needs who may outlive the screen (`Outlived`), that the user sees what the
active generation shows (`Watched`), and that a flow keeps its failed reply until
it is finished (`FailuresHeld`).

`InOrder` (`TextsInOrder`) says only that texts ascend, which no step keeps by
itself: it depends on where each text ends and what is still to be appended. The
invariant `Orderly` has four parts. Rows of the server, wherever they are on
their way (`RowsWhole`), hold all the deltas of a settled reply or none. The
active generation stands at the number that is remembered for its conversation
as long as it may read (`Remembered`); with `Outlived`, an event of a conversation that
no orphan reads is therefore the one behind that number (`InTurn`). What is
buffered ascends, up to that number, and is of the conversation in view
(`BufferOrdered`). And what streams on the screen ascends, ends no later than the
number, and before whatever is buffered for it (`Shown`, in `ScreenOrdered`, with
the rows that failed requests keep). A delta then extends the buffer in order
(`NextDelta`), a flush puts two texts together of which one precedes the other
(`Concatenation`), and every other step shows rows that are whole, or shows less
(`QuietOrderly`). The lemmas about ascending sequences need no induction; the
last of the matching messages is a greatest number, and has one because the naturals
are well founded.

`LiveTextComplete` (`LiveTextIsComplete`) is the converse: nothing that was received is
missing. Its invariant `LiveText` adds where a delta goes: the generation has learnt
the key of its reply, exactly one message has this key or the placeholder and it still
streams (`Takes`), and what is buffered names both; before the first event nothing is
buffered, because a generation begins with an empty buffer when no orphan reads
(`BufferOrdered`). `LiveStep` shows that no other step touches the messages of a
generation that is watched, neither stopped nor overtaken.

`ConversationListProofs` first shows what each operator of the reducer keeps of a
good list. `Types` ties the loading flags and the open dialog to the requests
under way, which is what `LoadingHasRequest` says. `LoadedIsCurrent` is proved
with `Copies` and `Answering`: a copy differs from its row only while a change was
taken whose answer, when it is applied, replaces the copy and drops every page
asked for before; conversations about which two requests overlapped are `unsure`.

`NothingIsLost` is about counting: the tab asks for more from the number of rows it
has counted, and stops when that number is the total. Its invariant `CountsInv` holds
while the counters are `Watched`: the history is `whole`, nothing failed or is
`unsure`, no message is on its way, and no change under way is one that `Shifts`.
Then the rows that pages brought are the first ones of the server's view, and not
fewer than the count (`Brought`, in `Reached`); the total is not less than the view
together with the loaded rows whose departure the tab has not learnt yet (`Counted`,
`Leaving`); every loaded row is one of these (`Present`); and a page that will be
used is what the server would answer now (`PagesFresh`), since every change drops it.
At rest nothing is leaving, so once the count is the total the rows brought are the
whole view. `NextRows` and `FirstAre` count rows by their place in the order, with a
bijection to the numbers before it, in place of an induction; `TouchIs` says that
a changed row moves up; `MergeCounts` is the one lemma for an answer, whose row stays,
leaves or enters, and `AppendedCounts` and `FirstPageCounts` are those for pages.
`Asked` says that a request for more asks for the query it is counted under, and
all others from 0.

`KnowledgeProofs` proves that the knowledge base is shown as it is stored once
nothing is under way. `KnowledgeInv` says the types of rows, lists, forms,
requests and answers and, as long as the history is `Straight` (nothing crossed
that must not, no answer was lost), what a request changes from its click to its
end. No two requests under way conflict (`Apart`), and no list is edited that is
not there (`HaveLists`). Hence what the server looked up or answered is still so
when it is used (`StillTrue`): a step of the server changes only what the request it
serves is about, and every other request would conflict with it if it had been told
about that. Lists differ from the server only where an answer on its way
will change them (`SpacesShown`, `DocumentsShown`, `RagShown`), and a row whose
creation was answered is unknown to the tab until then (`NewRows`), so it is
not prepended twice. The forms are about rows that are there or whose deletion will
close them (`SpaceFormShown`, `DocumentFormShown`), for which a request or
dialog to delete the row that is open must have seen it open. There are three
shapes of steps, each with a lemma: the tab asks (`AskingKeeps`), the server
serves (`ServingKeeps`), an answer ends a request and may start the load of the
effect (`AnsweringKeeps`); each action shows what it does to lists and forms and
cites one of them. With nothing under way the exceptions are void
(`SettledIsExact`). `Dropped` picks what is kept by its place, about which
`FiniteSetTheorems` suffices; `SelectSeq` would need induction.

`PanelsProofs` holds the proofs of the smaller parts. That of `MessagePages` is about
intervals: a page, shown or on its way, is an interval of its conversation's
rows and stays one while replies end; an older page that still continues what is
shown is the interval before it.

`ChatSettingsProofs` proves that the settings have their types
(`SettingsTypeCorrect`) and, with them, that a save stores all or nothing. The
types say of each request what it asks, and what it is answered, so one lemma for
each action is about the list operators and the copies of rows
(`<Action>Types`). For the save, `SavesInv` says that a request that counts itself
alone is the only write (`AloneAre`), that what a load or a save alone was
answered is still stored (`RepliesAreStored`), that the tab's copy of the
settings of every chat is the stored one once it is `known` and until the server
takes another (`KnownIsStored`), and, stage by stage, what a save that nothing
crossed finds stored (`StageIsPlain`). Other requests can only end a save's being
alone, or are loads of a row. `SavesAreWholeStep` reads the property off the stage
in which a save ends.

`SwitchesSettle` needs to know what the dialog, the server and the list will say
when some switches of spaces are still to be served, answered or undone.
`SpacesInv` says it while nothing else crosses them: each switch sends the whole
list of spaces it was made in, so the last one still to be served says what will
be stored, and that is what is shown, or what a failed one will be rolled back to
(`DraftIsExpected`); a space has one switch at a time, so each answer counts
(`SwitchesLatest`); an answer that was refused because a later switch was made has
that later one, which overlapped it, still to come (`FollowedHasNext`); and the
list agrees already, or will by an answer on its way, or missed one
(`ListWillAgree`). A switch that fails with none after it is undone exactly
(`ToggleUndone`, about `Toggled` and `RolledBack`). While no switch is under way
the draft and the list are the stored spaces (`DraftAgrees`, `ListAgrees`), and so
are those in every answer and in what a save would put back (`AnswersAgree`).

It also lifts the parts to `Panels` (`SavesStayWhole`: no other part has a
request of a save, which for the knowledge base is shown action by action;
`ShownSpacesAreStored`: the dialog is open only while the settings are used;
`ListsMirrorServer`: nothing of the knowledge base is loaded or open elsewhere): while
another part is used, a part rests in its start. For the presets, the invariant is that requests that write
come one at a time (`OneAtATime`), a confirmation is about a preset there is
(`Confirming`), and the form and the list are those of the last answer
(`FormIsTarget`, `ListIsServers`). For the accounts it follows the cookie: the
users every answer under way speaks of exist and are as fresh as their session
version (`Fresh`), all that is shown is of one user (`SameUser`), the route is one
the role may see (`OnItsPage`), and the copies of the admin page are rows as they
are unless a request that will replace them is under way (`Undisturbed`,
`Loading`, `PageAgrees`).

### What the proofs found

Attempts to prove these corrected the models. `OnlyActive` held in its run only
because that has one generation: with two, one may begin on a screen that still
shows another conversation, and carries its messages along (`over` covers it).
Two loads of older messages that overlap, one of them from before a switch, tear
the screen after seven acts. In the admin page, answers about one user cross
after four acts (`stale`). `SpacesSettle` failed with two conversations in the
list: the dialog is opened on one, the browser goes to another, a space is
switched there, and back: the draft is then that of neither, so `spacesOf`
becomes `None`. `InOrder` failed with four generations and two conversations, far beyond
its run: the user leaves a reply that was read in part and comes back before
anything replaced the screen; the message he then sends is refused, because the
reply still runs, but has set the sequence number back to 0, and what the screen
held is merged into the rows; the reply is resumed from 0 while he is away again,
so `message_start` does not empty its text, and back in view its deltas are
appended a second time (`cut`). `SaveAllOrNothing` failed after four acts: the answer to an
earlier save was lost, so the list's folder and tags are old, and a later save
that sets them back believes there is nothing to send; it is excused by the
save's `sure`. `KnowledgeExact` failed twice, after more acts than its run has. A
document is put into the form, another space or none is selected, and the
document's space is deleted: what the end of the deletion resets was decided at
the click, by the space open then (`use-knowledge-settings-state.ts:215`), so the
form keeps a document that is gone. And the confirmation can be cancelled while
its deletion is under way, so the user can open the row again and keeps it open
when it is gone (`reopened`). `NothingLost` failed in four ways outside its
run, and `Shifts` names the changes that do it, each of which makes the next page,
asked for by a count, skip rows: a loaded row is unpinned while pinned ones are not
loaded, and moves behind them but stays counted; under a search a row is renamed
so that it no longer matches, and stays loaded and counted; a conversation created or
imported in this tab, which no page brought, is changed and moves among those that
are counted; and one that is no longer loaded is changed through a dialog that was
opened before. Where two arms of a `CASE` overlapped they were made exclusive,
and that `None` is no kind, row or conversation became an assumption.

### What is only model-checked

- `RunEnds`, `CancelTakesEffect`, `FilesSettle`, `ExpiredAreSwept`,
  `GenerationEnds`: liveness under fairness, and `ENABLED`, are out of the
  prover's reach.
- `ViewMatchesStored`: it needs which of the overlapping answers came last, and
  that the rows of the tab's own runs no longer change once these are through.
- `Panels`' `TypeOK`, for one of its parts, that numbers of requests are not used
  twice; the types of each part are in the invariants that are proved.

What a recursive definition computes for every input would need induction over
data, which the installed provers cannot do; the modules proved about have none.

## 6. Not modelled

Planned next (section 2): quotas, two tabs of two administrators, the reasoning
parser and chunking. Left out of modelled parts: the login limiter, the audit
log, statistics and the purge in the admin page, the list of models in a preset's
form and the encryption of its key, resolving a preset for a reply, chunks and
retrieval, and other tabs of the same user in `ConversationList` and `Panels`.

Out of scope: the adapters of model providers (translation of external
protocols; `Generation` chooses what a call returns), tools, audit, network and
configuration (functions of their input or single writes), the schema and its
migrations (start-up only, among them the one that inserts the links that rows of
messages imply, which `Attachments.Crash` leaves out; a transaction is an atomic
action), HTTP routing and
formatting, translations (catalogues of text), and React components but for
what their controls do and when they are there.

Some behaviours the models contain are worth knowing. A request that fails or is
refused as busy after its transaction leaves its reply marked `streaming`, and
so does a restart; nothing settles such a reply later. And the callback of a
detach timer that has started when a client resumes cancels the run although it
is watched again. The repository promises neither otherwise.

Others were found by TLC and are left out of a property by a history variable,
because nothing in the repository says what should happen: an older page of
messages that arrives after a switch or a reconciliation is merged into what is
shown, which leaves a gap nothing fills; a document that is embedded while its
space is deleted is stored without a space, and one that is deleted meanwhile is
inserted again; settings saved before they were loaded once are the built-in
ones; after a save whose answer was lost, the next one does not send a folder and
tags the list still has; the folder and tags typed for a conversation the filters hide are
dropped by a save that succeeds; a failed save writes the drafts of its
conversation over those of the one open by then; a late answer to a password change signs the browser in again as
the user who had logged out; a logout that fails keeps the session; a document
stays in its form after its space, which is not the one that is open, was
deleted; a row that is opened while it is deleted stays open.
