--------------------------- MODULE ConversationList ---------------------------
(***************************************************************************)
(* The list of conversations in the sidebar of one tab.                    *)
(* frontend/src/pages/chat-page: conversation-list-utils/*,                *)
(* hooks/conversation-list-reducer, hooks/conversation-list/*,             *)
(* hooks/use-conversation-list, hooks/chat-page-actions/*,                 *)
(* hooks/use-chat-transfer and the sidebar's components.                   *)
(*                                                                         *)
(* The server keeps rows; the tab loads them page by page, filters what it *)
(* loaded, and merges the answers of the requests it makes about single    *)
(* conversations.  Every request is taken by the server at one moment and  *)
(* applied by the tab at a later one.  Lists are sets of copies of rows:   *)
(* their order (pinned first, then the latest) is a function of the set.   *)
(* A search is the presence of one word; other tabs are left out.          *)
(***************************************************************************)
EXTENDS Integers, FiniteSets

CONSTANTS
  Conversations,      \* every conversation there may be
  Mentioned,          \* those whose messages contain the word searched for
  Start,              \* the rows at first
  Folders, Tags,
  NewPlaces,          \* bound: the folders new conversations get
  Unfiled,            \* SIDEBAR_UNFILED_FOLDER_KEY: the folder '' of a row
  Anywhere,                \* no folder selected
  None,
  PageSize,           \* CONVERSATION_PAGE_SIZE
  MaxMoves            \* bound: what the user does and what fails

Places == Folders \cup {Unfiled}
Copy == [id : Conversations, pinned : BOOLEAN, hit : BOOLEAN, archived : BOOLEAN,
         folder : Places, tags : SUBSET Tags, at : Int]

Phases == {"create", "made", "run", "ran", "settle", "refused", "failed", "clean", "reload"}
Flows == [kind : {"send", "import"}, search : BOOLEAN, id : Conversations \cup {None},
          row : Copy \cup {None}, made : BOOLEAN, phase : Phases]

ASSUME DistinctAssumption ==
  /\ None \notin Conversations /\ None \notin Copy /\ None \notin Flows
  /\ None \notin {"effect", "append", "reload"}
  /\ Anywhere \notin Places /\ Unfiled \notin Folders /\ NewPlaces \subseteq Places
ASSUME StartAssumption ==
  /\ DOMAIN Start \subseteq Conversations /\ IsFiniteSet(DOMAIN Start)
  /\ \A i \in DOMAIN Start : Start[i] \in Copy /\ Start[i].id = i
  \* updated_at: no two rows at a time, and none in the future
  /\ \A i, j \in DOMAIN Start : Start[i].at = Start[j].at => i = j
  /\ \A i \in DOMAIN Start : Start[i].at <= Cardinality(DOMAIN Start)
ASSUME BoundsAssumption ==
  PageSize \in Nat \ {0} /\ MaxMoves \in Nat

VARIABLES
  rows,       \* server: the row of each conversation
  clock,      \* server: the next updated_at
  list,       \* ConversationListState
  deferred,   \* deferredConversationSearch, as it was rendered last
  latest,     \* requestVersionRef: the request that carries its value, or None
  pages,      \* requests for pages that are not cancelled
  localOnly,  \* localOnlyConversationIdsRef
  active,     \* activeConversationId and its ref
  calls,      \* requests about one conversation
  dialog,     \* the prompt or confirmation that is open, or None
  batches,    \* submitted prompts and confirmations: their requests to come
  flow,       \* a message sent or a file imported, or None
  used,       \* ids that were given out
  moves,
  failed,     \* history: a request failed
  whole,      \* history: a page of the query was applied, and since then
              \* nothing hid a row or moved one past the end of what is loaded
  unsure      \* history: an answer about these came late or was lost

serverVars == <<rows, clock, used>>
listVars == <<list, latest, localOnly>>
history == <<whole, unsure>>
bounds == <<moves, failed>>
dialogs == <<dialog, batches>>
vars == <<serverVars, listVars, deferred, pages, active, calls, dialogs, flow,
          bounds, history>>

-----------------------------------------------------------------------------
(* What is shown of what is loaded.                                        *)

Ids(cs) == {c.id : c \in cs}
Without(cs, i) == {c \in cs : c.id # i}
Later(n) == IF n > 0 THEN n ELSE 0

(* matchesConversationFilters.                                             *)
Matches(c, archived, search, folder, tags) ==
  /\ c.archived = archived
  /\ folder \in {Anywhere, c.folder}
  /\ tags = {} \/ tags \cap c.tags # {}
  /\ search => c.hit

(* deriveVisibleConversations.                                             *)
Visible(s) ==
  {c \in s.loaded : Matches(c, s.archived, s.search, s.folder, s.tags)}

(* Slip to catch: what is no longer shown stays selected.                  *)
PruneNothing(s) == s

(* pruneSelectedConversationIds.                                           *)
Prune(s) == [s EXCEPT !.selected = @ \cap Ids(s.shown)]

Derive(s) == Prune([s EXCEPT !.shown = Visible(s)])

(* reconcileConversationFilterState: the folder and tags that are left.    *)
KeptFolder(s) ==
  IF s.folder \in {Anywhere, Unfiled} \cup {c.folder : c \in s.loaded} THEN s.folder ELSE Anywhere
AvailableTags(s, folder) ==
  UNION {c.tags : c \in {d \in s.loaded : d.archived = s.archived /\ folder \in {Anywhere, d.folder}}}
KeepTags(s) == [s EXCEPT !.tags = @ \cap AvailableTags(s, KeptFolder(s))]

SetSearch(s, v) == Derive([s EXCEPT !.search = v])
SetShowArchived(s, v) == Derive(KeepTags([s EXCEPT !.archived = v]))
SetSelectedFolder(s, v) == Derive(KeepTags([s EXCEPT !.folder = v]))
ToggleSelectedTag(s, t) ==
  Derive([s EXCEPT !.tags = IF t \in @ THEN @ \ {t} ELSE @ \cup {t}])
SetSelectionMode(s, v) ==
  [s EXCEPT !.selecting = v, !.selected = IF v THEN @ ELSE {}]
ToggleSelection(s, i) ==
  [s EXCEPT !.selected = IF i \in @ THEN @ \ {i} ELSE @ \cup {i}]

(* apply_page: an appended page replaces the copies it brings again; the   *)
(* first page leaves only the open conversation of what was loaded.        *)
AppendPage(s, p, count) ==
  Derive([s EXCEPT !.loaded = {c \in @ : c.id \notin Ids(p.rows)} \cup p.rows,
                   !.total = p.total, !.count = count])
Kept(s, p, open, search) ==
  {c \in s.loaded : /\ c.id = open /\ open \notin Ids(p.rows)
                    /\ Matches(c, s.archived, search, Anywhere, {})}
FirstPage(s, p, open, search) ==
  LET n == [s EXCEPT !.loaded = p.rows \cup Kept(s, p, open, search)]
  IN  Derive([KeepTags(n) EXCEPT !.folder = KeptFolder(n), !.total = p.total,
                                 !.count = Cardinality(p.rows)])

(* Slip to catch: the count of what is loaded is left behind by a removal. *)
MergedKeepingCount(s, loaded, shown, total, count) ==
  Prune([s EXCEPT !.loaded = loaded, !.shown = shown, !.total = Later(@ + total),
                  !.count = IF count < 0 THEN @ ELSE Later(@ + count)])

(* apply_mutation.                                                         *)
Merged(s, loaded, shown, total, count) ==
  Prune([s EXCEPT !.loaded = loaded, !.shown = shown,
                  !.total = Later(@ + total), !.count = Later(@ + count)])

-----------------------------------------------------------------------------
(* Answers about one conversation: applyConversationSync under the search  *)
(* of the render whose closure applies it.                                 *)

Loaded(s, c) == c.id \in Ids(s.loaded)
Stays(s, c, search) ==
  IF search THEN Loaded(s, c) /\ c.archived = s.archived
            ELSE Matches(c, s.archived, FALSE, s.folder, s.tags)
With(s, c, search) ==
  Without(s.loaded, c.id) \cup IF Stays(s, c, search) THEN {c} ELSE {}

(* The change of the total and of the count of loaded rows.                *)
Left(s, c, search) == IF Loaded(s, c) /\ ~Stays(s, c, search) THEN -1 ELSE 0
Entered(s, c, search) == ~Loaded(s, c) /\ Stays(s, c, search)

TotalChange(s, c, search, counting) ==
  IF Entered(s, c, search) /\ counting /\
       (c.id \in localOnly \/ (c.id # active /\ s.count >= s.total))
  THEN 1 ELSE Left(s, c, search)
CountChange(s, c, search, counting) ==
  IF c.id \in localOnly THEN 0
  ELSE IF Entered(s, c, search) /\ counting /\ c.id # active THEN 1
       ELSE Left(s, c, search)

(* What is shown after a mutation: under a search a shown copy that the    *)
(* answer no longer matches stays as it was.                               *)
ShownAfter(s, c, loaded) ==
  LET v == Visible([s EXCEPT !.loaded = loaded])
      old == {d \in s.shown : /\ s.search /\ d.id = c.id
                              /\ c.id \in Ids(loaded) \ Ids(v)
                              /\ Matches(d, s.archived, FALSE, s.folder, s.tags)}
  IN  v \cup old

Sync(s, c, search, counting) ==
  Merged(s, With(s, c, search), ShownAfter(s, c, With(s, c, search)),
         TotalChange(s, c, search, counting), CountChange(s, c, search, counting))

(* History: a filter may hide the row of an answer for good.               *)
Unfiltered(search) == search = deferred /\ list.folder = Anywhere /\ list.tags = {}

StillLocal(c, search) ==
  IF Stays(list, c, search) THEN localOnly ELSE localOnly \ {c.id}

(* syncConversationIntoList.                                               *)
(* History: a change that moves a row past the end of what is loaded, or    *)
(* counts one that no page brought: the rows in between are skipped by the *)
(* next page.  The row is not loaded, or only here, or unpinned, or its    *)
(* title may have lost the word searched for.                              *)
Shifts(k) ==
  \/ k.id \notin Ids(list.loaded)
  \/ k.id \in localOnly /\ "archived" \notin DOMAIN k.patch
  \/ "pinned" \in DOMAIN k.patch /\ ~k.patch.pinned
  \/ deferred /\ "hit" \in DOMAIN k.patch

SyncConversationIntoList(c, search, counting, shifts) ==
  /\ list' = Sync(list, c, search, counting)
  /\ localOnly' = StillLocal(c, search)
  /\ whole' = (whole /\ Unfiltered(search) /\ ~shifts)
  /\ latest' = None

(* insertCreatedConversation, which leaves the pages under way valid.      *)
Inserted(c, search) ==
  LET loaded == With(list, c, search) IN
  Merged(list, loaded, Visible([list EXCEPT !.loaded = loaded]),
         IF Entered(list, c, search) THEN 1 ELSE Left(list, c, search),
         Left(list, c, search))
NowLocal(c, search) == localOnly \cup (Ids(With(list, c, search)) \cap {c.id})

(* removeConversationFromList.                                             *)
RemoveConversationFromList(i) ==
  LET loaded == Without(list.loaded, i)
      gone == IF i \in Ids(list.loaded) THEN -1 ELSE 0
  IN  /\ list' = Merged(list, loaded, Visible([list EXCEPT !.loaded = loaded]),
                        gone, IF i \in localOnly THEN 0 ELSE gone)
      /\ localOnly' = localOnly \ {i}
      /\ latest' = None
      /\ UNCHANGED whole

-----------------------------------------------------------------------------
(* Pages of the list.                                                      *)

Spend == moves < MaxMoves /\ moves' = moves + 1
Fault == Spend /\ failed' = TRUE

Init ==
  /\ rows = Start /\ used = DOMAIN Start
  /\ clock = 1 + Cardinality(DOMAIN Start)
  /\ list = [loaded |-> {}, shown |-> {}, total |-> 0, count |-> 0,
             search |-> FALSE, archived |-> FALSE, folder |-> Anywhere, tags |-> {},
             selecting |-> FALSE, selected |-> {}, loading |-> TRUE, more |-> FALSE]
  /\ deferred = FALSE /\ latest = "effect" /\ localOnly = {}
  /\ pages = {[kind |-> "effect", archived |-> FALSE, key |-> FALSE,
               search |-> FALSE, from |-> 0, answer |-> None]}
  /\ dialog = None /\ batches = {} /\ flow = None /\ moves = 0 /\ failed = FALSE
  /\ whole = FALSE /\ unsure = {}
  \* a tab opens on the start page or on the address of a conversation
  /\ active \in {None} \cup DOMAIN Start
  /\ calls = IF active = None THEN {}
             ELSE {[op |-> "look", id |-> active, patch |-> <<>>, search |-> FALSE,
                    home |-> FALSE, answer |-> None]}

(* Service.ListConversations.                                              *)
Found(archived, search) ==
  {c \in {rows[i] : i \in DOMAIN rows} :
     c.archived = archived /\ (search => c.hit \/ c.id \in Mentioned)}
Before(c, d) == IF c.pinned = d.pinned THEN c.at > d.at ELSE c.pinned
PageOf(r) ==
  LET all == Found(r.archived, r.search)
      place(c) == Cardinality({d \in all : Before(d, c)})
  IN  [rows |-> {c \in all : place(c) \in r.from..(r.from + PageSize - 1)},
       total |-> Cardinality(all)]

Request(kind, archived, key, search, from) ==
  [kind |-> kind, archived |-> archived, key |-> key, search |-> search,
   from |-> from, answer |-> None]

(* The fetch effect of a render with another query cancels the fetch of    *)
(* the one before; "s" is the state of that render.                        *)
Fetch(s, search) ==
  /\ list' = [s EXCEPT !.loading = TRUE]
  /\ deferred' = search /\ latest' = "effect" /\ whole' = FALSE
  /\ pages' = {r \in pages : r.kind # "effect"}
                \cup {Request("effect", s.archived, search, search, 0)}

(* The deferred value catches up with the text that was typed.             *)
Defer ==
  /\ deferred # list.search /\ Fetch(list, list.search)
  /\ UNCHANGED <<serverVars, localOnly, active, calls, dialogs, flow, bounds, unsure>>

AnswerPage(r) ==
  /\ r.answer = None
  /\ pages' = (pages \ {r}) \cup {[r EXCEPT !.answer = PageOf(r)]}
  /\ UNCHANGED <<serverVars, listVars, deferred, active, calls, dialogs, flow,
                 bounds, history>>

(* Slip to catch: the check of the version is forgotten.                   *)
AnyVersion(r) == r.archived = list.archived /\ r.key = deferred

(* An answer counts for the query and the version it was asked for.        *)
Current(r) ==
  r.archived = list.archived /\ r.key = deferred /\ latest = r.kind

(* Slip to catch: only an answer that counts ends the loading.             *)
SettledIfCurrent(s, r) ==
  [s EXCEPT !.loading = @ /\ ~Current(r), !.more = IF r.kind = "append" THEN FALSE ELSE @]

Settled(s, r) ==
  [s EXCEPT !.loading = FALSE, !.more = IF r.kind = "append" THEN FALSE ELSE @]

(* What follows a reload: an import opens the conversation it made.        *)
AfterReload(r) ==
  IF r.kind # "reload" THEN UNCHANGED <<active, calls, flow, unsure>>
  ELSE /\ flow' = None
       /\ IF flow.kind = "send" THEN UNCHANGED <<active, calls, unsure>>
          ELSE /\ active' = flow.id
               /\ calls' = {k \in calls : k.op # "look"}
                    \cup {[op |-> "look", id |-> flow.id, patch |-> <<>>,
                           search |-> FALSE, home |-> FALSE, answer |-> None]}
               /\ UNCHANGED unsure

(* applyConversationPage, and the end of a request.                        *)
ApplyPage(r) ==
  /\ r.answer # None
  /\ pages' = pages \ {r}
  /\ IF Current(r)
     THEN /\ list' = Settled(IF r.kind = "append"
                             THEN AppendPage(list, r.answer, r.from + Cardinality(r.answer.rows))
                             ELSE FirstPage(list, r.answer, active, r.search), r)
          /\ localOnly' = localOnly \ Ids(r.answer.rows)
          /\ whole' = /\ IF r.kind = "append" THEN whole ELSE r.search = deferred
                      /\ \A k \in calls : k.op \in {"look", "settle"}
     ELSE /\ list' = Settled(list, r)
          /\ whole' = (whole /\ r.kind # "reload")
          /\ UNCHANGED localOnly
  /\ AfterReload(r)
  /\ UNCHANGED <<serverVars, latest, deferred, dialogs, bounds>>

PageFails(r) ==
  /\ Fault
  /\ pages' = pages \ {r} /\ list' = Settled(list, r)
  /\ AfterReload(r)
  /\ UNCHANGED <<serverVars, latest, localOnly, deferred, dialogs, whole>>

Pages == \E r \in pages : AnswerPage(r) \/ ApplyPage(r) \/ PageFails(r)

-----------------------------------------------------------------------------
(* Requests about one conversation.                                        *)

Sending == flow # None /\ flow.kind = "send"

(* Not known for sure from here on: a conversation two requests are about. *)
Doubts(i) == unsure \cup IF (\E k \in calls : k.id = i) \/ (flow # None /\ flow.id = i)
                         THEN {i} ELSE {}

Call(op, i, patch, search, home) ==
  [op |-> op, id |-> i, patch |-> patch, search |-> search, home |-> home,
   answer |-> None]
NotLooking == {k \in calls : k.op # "look"}

(* Service.UpdateConversation changes the fields it is given.              *)
Patched(row, patch) ==
  [f \in DOMAIN row |-> IF f \in DOMAIN patch THEN patch[f]
                        ELSE IF f = "at" THEN clock ELSE row[f]]

Serve(k) ==
  /\ k.answer = None /\ k.id \in DOMAIN rows
  /\ CASE k.op \in {"patch", "ask"} ->
            /\ rows' = [rows EXCEPT ![k.id] = Patched(@, k.patch)]
            /\ clock' = clock + 1
       [] k.op \in {"delete", "clean"} ->
            /\ rows' = [i \in DOMAIN rows \ {k.id} |-> rows[i]]
            /\ UNCHANGED clock
       [] OTHER -> UNCHANGED <<rows, clock>>
  /\ calls' = (calls \ {k}) \cup
       {[k EXCEPT !.answer = IF k.id \in DOMAIN rows' THEN rows'[k.id] ELSE rows[k.id]]}
  /\ UNCHANGED <<used, listVars, deferred, pages, active, dialogs, flow, bounds, history>>

(* navigateHome cancels the fetch of the conversation that was open.       *)
GoHome(home, k) ==
  /\ active' = IF home THEN None ELSE active
  /\ calls' = {j \in calls \ {k} : home => j.op # "look"}

Changed(k) ==
  /\ k.op \in {"patch", "ask"} /\ GoHome(k.home, k)
  /\ SyncConversationIntoList(k.answer, k.search, TRUE, Shifts(k))
  /\ UNCHANGED <<pages, flow>>

Deleted(k) ==
  /\ k.op \in {"delete", "clean"} /\ GoHome(k.home, k)
  /\ RemoveConversationFromList(k.id)
  /\ flow' = IF k.op = "clean" THEN None ELSE flow
  /\ UNCHANGED pages

Looked(k) ==
  /\ k.op = "look" /\ GoHome(FALSE, k)
  /\ SyncConversationIntoList(k.answer, deferred, FALSE, FALSE)
  /\ UNCHANGED <<pages, flow>>

Reload(search) == Request("reload", list.archived, deferred, search, 0)

(* The snapshot at the end of a generation.  Then the first page is loaded *)
(* again; a message that failed does without, and a conversation created   *)
(* for a message that never arrived is deleted.                            *)
Reconciled(k) ==
  LET again == flow.phase = "settle"
      empty == flow.phase = "refused" /\ flow.made
  IN  /\ k.op = "settle"
      /\ list' = [Sync(list, k.answer, deferred, FALSE) EXCEPT !.loading = @ \/ again]
      /\ localOnly' = StillLocal(k.answer, deferred)
      /\ whole' = (whole /\ Unfiltered(deferred))
      /\ latest' = IF again THEN "reload" ELSE None
      /\ pages' = IF again THEN pages \cup {Reload(flow.search)} ELSE pages
      /\ calls' = (calls \ {k}) \cup IF empty THEN {Call("clean", k.id, <<>>, FALSE, TRUE)}
                                     ELSE {}
      /\ flow' = IF again THEN [flow EXCEPT !.phase = "reload"]
                 ELSE IF empty THEN [flow EXCEPT !.phase = "clean"] ELSE None
      /\ UNCHANGED active

Receive(k) ==
  /\ k.answer # None
  /\ Changed(k) \/ Deleted(k) \/ Looked(k) \/ Reconciled(k)
  /\ UNCHANGED <<serverVars, deferred, dialogs, bounds, unsure>>

(* A request fails on its way or back, or its conversation is gone.        *)
CallFails(k) ==
  LET gone == k.answer = None /\ k.id \notin DOMAIN rows
      again == k.op = "settle" /\ flow.phase = "settle"
  IN  /\ IF gone THEN UNCHANGED bounds ELSE Fault
      /\ GoHome(gone /\ k.op \in {"look", "settle"} /\ active = k.id, k)
      /\ unsure' = unsure \cup {k.id}
      /\ IF again
         THEN /\ flow' = [flow EXCEPT !.phase = "reload"]
              /\ pages' = pages \cup {Reload(flow.search)} /\ latest' = "reload"
              /\ list' = [list EXCEPT !.loading = TRUE]
         ELSE /\ flow' = IF k.op \in {"settle", "clean"} THEN None ELSE flow
              /\ UNCHANGED <<pages, latest, list>>
      /\ UNCHANGED <<serverVars, localOnly, deferred, dialogs, whole>>

Calls == \E k \in calls : Serve(k) \/ Receive(k) \/ CallFails(k)

-----------------------------------------------------------------------------
(* Messages sent and files imported.                                       *)

Begin(kind) ==
  /\ flow = None /\ dialog = None /\ Spend /\ UNCHANGED failed
  /\ flow' = [kind |-> kind, search |-> deferred,
              id |-> IF kind = "send" THEN active ELSE None, row |-> None,
              made |-> kind = "import" \/ active = None,
              phase |-> IF kind = "send" /\ active # None THEN "run" ELSE "create"]
  /\ unsure' = unsure \cup {k.id : k \in {j \in calls : kind = "send" /\ j.id = active}}
  /\ UNCHANGED <<serverVars, listVars, deferred, pages, active, calls, dialogs,
                 whole>>

Create(i, folder) ==
  /\ flow.phase = "create" /\ i \notin used
  /\ used' = used \cup {i} /\ clock' = clock + 1
  /\ LET row == [id |-> i, pinned |-> FALSE, hit |-> FALSE, archived |-> FALSE,
                 folder |-> folder, tags |-> {}, at |-> clock]
     IN  /\ rows' = [j \in DOMAIN rows \cup {i} |-> IF j = i THEN row ELSE rows[j]]
         /\ flow' = [flow EXCEPT !.id = i, !.row = row, !.phase = "made"]
  /\ UNCHANGED <<listVars, deferred, pages, active, calls, dialogs, bounds, history>>

(* The new conversation enters the list; a send opens it, an import loads  *)
(* the first page again.                                                   *)
Created ==
  LET import == flow.kind = "import" IN
  /\ flow.phase = "made"
  /\ IF import
     THEN /\ LET s == Inserted(flow.row, flow.search)
             IN  list' = [s EXCEPT !.loading = TRUE]
          /\ latest' = "reload" /\ pages' = pages \cup {Reload(flow.search)}
          /\ UNCHANGED <<active, calls>>
     ELSE /\ list' = Inserted(flow.row, flow.search)
          /\ active' = flow.id /\ calls' = NotLooking
          /\ UNCHANGED <<latest, pages>>
  /\ localOnly' = NowLocal(flow.row, flow.search)
  /\ whole' = (whole /\ Unfiltered(flow.search))
  /\ flow' = [flow EXCEPT !.phase = IF import THEN "reload" ELSE "run",
                        !.row = None]
  /\ UNCHANGED <<serverVars, deferred, dialogs, bounds, unsure>>

CreateFails ==
  /\ flow.phase = "create" /\ Fault
  /\ flow' = None
  /\ UNCHANGED <<serverVars, listVars, deferred, pages, active, calls, dialogs,
                 history>>

(* The server stores the message and the reply of the generation.          *)
Run ==
  /\ flow.phase = "run" /\ flow.id \in DOMAIN rows
  /\ rows' = [rows EXCEPT ![flow.id].at = clock] /\ clock' = clock + 1
  /\ flow' = [flow EXCEPT !.phase = "ran"]
  /\ UNCHANGED <<used, listVars, deferred, pages, active, calls, dialogs, bounds, history>>

Settle(phase) ==
  /\ flow' = [flow EXCEPT !.phase = phase]
  /\ calls' = calls \cup {Call("settle", flow.id, <<>>, FALSE, FALSE)}
  /\ unsure' = unsure \cup {k.id : k \in {j \in calls : j.id = flow.id}}
  /\ UNCHANGED <<serverVars, listVars, deferred, pages, active, dialogs, whole>>

RunEnds == flow.phase = "ran" /\ Settle("settle") /\ UNCHANGED bounds

RunFails ==
  \/ /\ flow.phase \in {"run", "ran"} /\ Fault
     /\ Settle(IF flow.phase = "run" THEN "refused" ELSE "failed")
  \/ /\ flow.phase = "run" /\ flow.id \notin DOMAIN rows /\ UNCHANGED bounds
     /\ Settle("failed")

Flow ==
  \/ \E kind \in {"send", "import"} : Begin(kind)
  \/ /\ flow # None
     /\ \/ \E i \in Conversations, f \in NewPlaces : Create(i, f)
        \/ Created \/ CreateFails \/ Run \/ RunEnds \/ RunFails

-----------------------------------------------------------------------------
(* What the user does in the sidebar.                                      *)

Move == dialog = None /\ Spend /\ UNCHANGED failed

Reduce(s) ==
  /\ list' = s
  /\ UNCHANGED <<serverVars, latest, localOnly, deferred, pages, active, calls,
                 dialogs, flow, history>>

Search == Move /\ Reduce(SetSearch(list, ~list.search))
SelectFolder(f) == Move /\ f # list.folder /\ Reduce(SetSelectedFolder(list, f))
ToggleTag(t) ==
  Move /\ t \in AvailableTags(list, list.folder) /\ Reduce(ToggleSelectedTag(list, t))
SetSelecting == Move /\ Reduce(SetSelectionMode(list, ~list.selecting))
ToggleSelected(c) ==
  /\ Move /\ list.selecting /\ ~list.loading /\ Reduce(ToggleSelection(list, c.id))

ShowArchived ==
  /\ Move /\ Fetch(SetShowArchived(list, ~list.archived), deferred)
  /\ UNCHANGED <<serverVars, localOnly, active, calls, dialogs, flow, unsure>>

(* Slip to catch: more is asked for while more is loading.                 *)
LoadMoreAgain ==
  /\ Move /\ ~list.loading /\ list.count < list.total
  /\ list' = [list EXCEPT !.more = TRUE] /\ latest' = "append"
  /\ pages' = pages \cup {Request("append", list.archived, deferred, deferred, list.count)}
  /\ UNCHANGED <<serverVars, localOnly, deferred, active, calls, dialogs, flow,
                 history>>

LoadMore ==
  /\ Move /\ ~list.loading /\ ~list.more /\ list.count < list.total
  /\ list' = [list EXCEPT !.more = TRUE] /\ latest' = "append"
  /\ pages' = pages \cup {Request("append", list.archived, deferred, deferred, list.count)}
  /\ UNCHANGED <<serverVars, localOnly, deferred, active, calls, dialogs, flow,
                 history>>

(* A click on a conversation opens it; its messages are fetched unless the *)
(* active generation is its own.                                           *)
Open(c) ==
  /\ Move /\ ~list.selecting /\ ~list.loading /\ c.id # active
  /\ active' = c.id
  /\ IF Sending /\ flow.id = c.id THEN calls' = NotLooking /\ UNCHANGED unsure
     ELSE /\ calls' = NotLooking \cup {Call("look", c.id, <<>>, FALSE, FALSE)}
          /\ unsure' = Doubts(c.id)
  /\ UNCHANGED <<serverVars, listVars, deferred, pages, dialogs, flow, whole>>

NewChat ==
  /\ Move /\ ~Sending /\ (active # None \/ list.archived)
  /\ active' = None /\ calls' = NotLooking
  /\ IF list.archived THEN Fetch(SetShowArchived(list, FALSE), deferred)
     ELSE /\ list' = SetShowArchived(list, FALSE)
          /\ UNCHANGED <<deferred, latest, whole, pages>>
  /\ UNCHANGED <<serverVars, localOnly, dialogs, flow, unsure>>

(* The menu of a conversation: closed while its list loads, while several  *)
(* are being selected and during a generation.                             *)
Menu == ~list.selecting /\ ~list.loading /\ ~Sending

Ask(op, i, patch, search, home) ==
  /\ Call(op, i, patch, search, home) \notin calls
  /\ calls' = calls \cup {Call(op, i, patch, search, home)}
  /\ unsure' = Doubts(i)
  /\ UNCHANGED <<serverVars, listVars, deferred, pages, active, flow, whole>>

TogglePinned(c) ==
  /\ Move /\ Menu /\ Ask("patch", c.id, [pinned |-> ~c.pinned], deferred, FALSE)
  /\ UNCHANGED dialogs
ToggleArchived(c) ==
  /\ Move /\ Menu /\ UNCHANGED dialogs
  /\ Ask("patch", c.id, [archived |-> ~c.archived], deferred,
         active = c.id /\ c.archived = list.archived)

OpenDialog(op, left) ==
  /\ Move
  /\ dialog' = [op |-> op, left |-> left, many |-> list.selecting, search |-> deferred,
                open |-> active]
  /\ UNCHANGED <<serverVars, listVars, deferred, pages, active, calls, batches, flow,
                 history>>

Single == {"rename", "folder", "addTag", "dropTag", "delete"}
Many == {"folder", "addTag", "dropTag"}

AskAboutOne(op, c) == Menu /\ OpenDialog(op, {c})
AskAboutSelected(op) ==
  /\ list.selecting /\ list.selected # {}
  /\ OpenDialog(op, {c \in list.shown : c.id \in list.selected})

Values(op) ==
  CASE op = "folder" -> Places
    [] op \in {"addTag", "dropTag"} -> Tags
    [] OTHER -> {None}

(* The fields that are sent are made of the copy that was on the screen    *)
(* when the dialog opened.                                                 *)
PatchOf(op, v, c) ==
  CASE op = "rename" -> [hit |-> ~c.hit]
    [] op = "folder" -> [folder |-> v]
    [] op = "addTag" -> [tags |-> c.tags \cup {v}]
    [] op = "dropTag" -> [tags |-> c.tags \ {v}]
    [] op = "delete" -> <<>>

(* The prompt and the confirmation each submit one thing at a time.        *)
CallOf(op) == IF op = "delete" THEN "delete" ELSE "ask"

Submit(v) ==
  /\ \A b \in batches : CallOf(b.op) # CallOf(dialog.op)
  /\ batches' = batches \cup
       {[op |-> dialog.op, left |-> dialog.left, many |-> dialog.many,
         search |-> dialog.search, open |-> dialog.open, value |-> v]}
  /\ UNCHANGED <<serverVars, listVars, deferred, pages, active, calls, dialog, flow,
                 bounds, history>>

(* "Cancel" closes a dialog whose requests go on.                          *)
Cancel ==
  /\ dialog' = None /\ Spend
  /\ UNCHANGED <<serverVars, listVars, deferred, pages, active, calls, batches, flow,
                 failed, history>>

(* runBulkConversationUpdate: one request after the other.                 *)
Busy(b) == \E k \in calls : k.op = CallOf(b.op)

AskNext(b, c) ==
  /\ ~Busy(b)
  /\ batches' = (batches \ {b}) \cup {[b EXCEPT !.left = @ \ {c}]}
  /\ Ask(CallOf(b.op), c.id, PatchOf(b.op, b.value, c), b.search,
         b.op = "delete" /\ b.open = c.id)
  /\ UNCHANGED <<bounds, dialog>>

(* The end closes the dialog, or the one that was opened since.            *)
BatchEnds(b) ==
  /\ b.left = {} /\ ~Busy(b)
  /\ batches' = batches \ {b}
  /\ dialog' = IF dialog # None /\ CallOf(dialog.op) = CallOf(b.op) THEN None ELSE dialog
  /\ list' = IF b.many THEN [list EXCEPT !.selected = {}] ELSE list
  /\ UNCHANGED <<serverVars, latest, localOnly, deferred, pages, active, calls,
                 flow, bounds, history>>

Dialog ==
  \/ dialog # None /\ (Cancel \/ \E v \in Values(dialog.op) : Submit(v))
  \/ \E b \in batches : BatchEnds(b) \/ \E c \in b.left : AskNext(b, c)

Sidebar ==
  \/ Search \/ ShowArchived \/ SetSelecting \/ LoadMore \/ NewChat
  \/ \E f \in {Anywhere, Unfiled} \cup {c.folder : c \in {d \in list.loaded : d.archived = list.archived}} :
       SelectFolder(f)
  \/ \E t \in Tags : ToggleTag(t)
  \/ \E c \in list.shown :
       \/ ToggleSelected(c) \/ Open(c) \/ TogglePinned(c) \/ ToggleArchived(c)
       \/ \E op \in Single : AskAboutOne(op, c)
  \/ \E op \in Many : AskAboutSelected(op)

Next == Defer \/ Pages \/ Calls \/ Flow \/ Sidebar \/ Dialog

Spec == Init /\ [][Next]_vars

-----------------------------------------------------------------------------
(* Properties.                                                             *)

(* The list is made of copies of rows, its counters never go below zero,   *)
(* and there is at most one request of a kind for pages: the fetch of the  *)
(* query before is cancelled and "load more" waits for its answer.         *)
TypeOK ==
  /\ DOMAIN rows \subseteq used /\ \A i \in DOMAIN rows : rows[i] \in Copy /\ rows[i].id = i
  /\ list.loaded \cup list.shown \subseteq Copy
  /\ {list.total, list.count, clock, moves} \subseteq Nat
  /\ list.folder \in Places \cup {Anywhere} /\ list.tags \subseteq Tags
  /\ list.selected \cup localOnly \cup unsure \subseteq Conversations
  /\ {list.search, list.archived, list.selecting, list.loading, list.more,
      deferred, whole, failed} \subseteq BOOLEAN
  /\ latest \in {"effect", "append", "reload", None}
  /\ active \in Conversations \cup {None}
  /\ \A r \in pages : /\ r.kind \in {"effect", "append", "reload"}
                      /\ \A q \in pages : q.kind = r.kind => q = r
                      /\ r.answer # None => r.answer.rows \subseteq Copy
  /\ \A i \in Conversations : \A c, d \in list.loaded : c.id = d.id => c = d

(* Nothing is under way.                                                   *)
AtRest ==
  pages = {} /\ calls = {} /\ flow = None /\ batches = {} /\ deferred = list.search

(* What the tab loaded is what the server has: a late page never brings    *)
(* back a conversation that was deleted, renamed or moved since, whatever  *)
(* the order in which pages and answers arrive, unless two requests about  *)
(* the same conversation overlapped or an answer was lost.  Without a      *)
(* search the screen shows all that the filters let through.               *)
LoadedIsCurrent ==
  /\ AtRest => \A c \in list.loaded :
       c.id \in unsure \/ (c.id \in DOMAIN rows /\ c = rows[c.id])
  /\ ~list.search => list.shown = Visible(list)

(* The bookkeeping of totals and offsets loses no conversation: after a    *)
(* page of the query, and whatever was created, changed, archived, deleted *)
(* or loaded since, each conversation of the view is loaded or more are    *)
(* offered, if no request failed and no change was of those that offsets   *)
(* do not follow (Shifts).                                                 *)
NothingLost ==
  AtRest /\ whole /\ ~failed /\ unsure = {} =>
    \A c \in Found(list.archived, list.search) :
      c.id \in Ids(list.loaded) \/ list.count < list.total

(* Bulk changes reach only conversations that are on the screen.           *)
SelectedAreShown ==
  list.selected \subseteq Ids(list.shown) /\ (~list.selecting => list.selected = {})

(* The sidebar says "loading" only while a request is under way whose end  *)
(* says otherwise: a fetch that was cancelled leaves that to the next one. *)
LoadingHasRequest ==
  /\ list.loading => pages # {}
  /\ list.more <=> \E r \in pages : r.kind = "append"

=============================================================================
