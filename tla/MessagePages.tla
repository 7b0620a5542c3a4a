----------------------------- MODULE MessagePages -----------------------------
(***************************************************************************)
(* The pages of a conversation's messages: frontend/src/pages/chat-page/   *)
(* hooks/use-chat-history and its chat-history operations, against         *)
(* backend/internal/chat/messages_page.                                    *)
(*                                                                         *)
(* The tab shows the newest page of the open conversation and loads older  *)
(* ones on demand.  A reply that ends, in this conversation or another,    *)
(* fetches the newest page again.  How a reply reaches the screen before   *)
(* that, and a conversation opened while its reply runs, are the subject   *)
(* of GenerationClient and left out.  Messages are their ids.              *)
(***************************************************************************)
EXTENDS Requests

CONSTANTS
  Chats,              \* conversations
  NoChat,             \* null: home, no cursor
  PageSize,           \* MESSAGE_PAGE_SIZE
  MaxMessages,        \* bound: message ids
  FirstMessages       \* the messages of each conversation at first

MessageIds == 1 .. MaxMessages

ASSUME PagesAssumption ==
  /\ NoChat \notin Chats /\ NoChat \notin Int /\ PageSize \in Nat \ {0} /\ MaxMessages \in Nat
  /\ FirstMessages \in [Chats -> (SUBSET MessageIds) \ {{}}]

VARIABLES
  messageRows,                  \* server: the ids of each conversation's messages
  openChat,                     \* activeConversationId
  messages,                     \* shown
  hasMoreMessages, nextBeforeMessageId,
  isLoadingMessages, isLoadingOlderMessages,
  torn                          \* history: pages were applied over others they do not continue

pageState == <<messageRows, openChat, messages, hasMoreMessages, nextBeforeMessageId,
               isLoadingMessages, isLoadingOlderMessages, torn>>
pageVars == <<pageState, requestVars>>
pagination == <<hasMoreMessages, nextBeforeMessageId>>

Oldest(ids) == CHOOSE id \in ids : \A d \in ids : id <= d
Newest(ids) == CHOOSE id \in ids : \A d \in ids : id >= d
AllIds == UNION {messageRows[ch] : ch \in Chats}

-----------------------------------------------------------------------------
(* What is done.                                                           *)

(* The pages that were asked for do not continue what is shown from here.  *)
Overtaken(cs) == {IF c.kind = "older" THEN [c EXCEPT !.after = FALSE] ELSE c : c \in cs}

(* The sync effect: the answer of an earlier one is ignored.  Home empties *)
(* the history.                                                            *)
OpenAt(ch, cs) ==
  LET rest == Overtaken({c \in cs : c.kind # "sync"})
  IN  /\ openChat' = ch
      /\ IF ch = NoChat
         THEN /\ messages' = {} /\ hasMoreMessages' = FALSE /\ nextBeforeMessageId' = NoChat
              /\ isLoadingOlderMessages' = FALSE /\ calls' = rest
              /\ UNCHANGED isLoadingMessages
         ELSE /\ isLoadingMessages' = TRUE
              /\ calls' = rest \cup {AsNext(rest, [kind |-> "sync", chat |-> ch,
                                                   before |-> NoChat, after |-> TRUE])}
              /\ UNCHANGED <<messages, pagination, isLoadingOlderMessages>>

OpenChat ==
  \E ch \in Chats \cup {NoChat} :
    /\ ch # openChat /\ Act
    /\ OpenAt(ch, calls)
    /\ UNCHANGED <<messageRows, torn>>

(* loadOlderMessages; the button is there when messages are.               *)
LoadOlder ==
  /\ openChat # NoChat /\ ~isLoadingMessages /\ messages # {}
  /\ hasMoreMessages /\ nextBeforeMessageId # NoChat /\ ~isLoadingOlderMessages /\ Act
  /\ isLoadingOlderMessages' = TRUE
  /\ calls' = calls \cup {AsNext(calls, [kind |-> "older", chat |-> openChat, after |-> TRUE,
                                                  before |-> nextBeforeMessageId])}
  /\ UNCHANGED <<messageRows, openChat, messages, pagination, isLoadingMessages, torn>>

(* A reply ends, or replaces the last one; its conversation is fetched.    *)
EndReply ==
  \E ch \in Chats : \E gone \in {{}, {Newest(messageRows[ch])}} :
    /\ Newest(AllIds) < MaxMessages /\ Act
    /\ messageRows' = [messageRows EXCEPT ![ch] = (@ \ gone) \cup {Newest(AllIds) + 1}]
    /\ calls' = calls \cup {AsNext(calls, [kind |-> "reconcile", chat |-> ch, after |-> TRUE,
                                                    before |-> NoChat])}
    /\ UNCHANGED <<openChat, messages, pagination, isLoadingMessages, isLoadingOlderMessages, torn>>

-----------------------------------------------------------------------------
(* The server.                                                             *)

Older(ids, before) == {id \in ids : before = NoChat \/ id < before}
LastPage(ids) == {id \in ids : Cardinality({d \in ids : d > id}) < PageSize}

(* Slip to catch: the cursor is taken from the row that only tells there   *)
(* is more.                                                                *)
CursorBeyond(ids) == IF ids = LastPage(ids) THEN NoChat ELSE Newest(ids \ LastPage(ids))

(* ListMessagesPage reads one row more than the page has.                  *)
Cursor(ids) == IF ids = LastPage(ids) THEN NoChat ELSE Oldest(LastPage(ids))

PagesServe ==
  \E c \in calls :
    /\ c.phase = "sent"
    /\ LET ids == Older(messageRows[c.chat], c.before)
       IN  Become(c, Reply(c, [ids |-> LastPage(ids), hasMore |-> ids # LastPage(ids), next |-> Cursor(ids)]))
    /\ UNCHANGED <<messageRows, openChat, messages, pagination, isLoadingMessages,
                   isLoadingOlderMessages, torn, acts>>

PagesFail ==
  \E c \in calls :
    /\ c.phase = "sent"          \* nothing is written
    /\ Become(c, Broken(c))
    /\ UNCHANGED <<messageRows, openChat, messages, pagination, isLoadingMessages,
                   isLoadingOlderMessages, torn, acts>>

-----------------------------------------------------------------------------
(* Answers.                                                                *)

Paginate(reply) == hasMoreMessages' = reply.hasMore /\ nextBeforeMessageId' = reply.next

(* applyConversationSnapshot.                                              *)
Synced ==
  \E c \in Answered("sync") :
    /\ messages' = c.reply.ids /\ Paginate(c.reply)
    /\ isLoadingMessages' = FALSE /\ torn' = FALSE
    /\ calls' = Overtaken(calls \ {c})
    /\ UNCHANGED <<messageRows, openChat, isLoadingOlderMessages, acts>>

SyncFailed ==
  \E c \in Failed("sync"), notFound \in BOOLEAN :
    /\ IF notFound THEN OpenAt(NoChat, calls \ {c}) /\ UNCHANGED <<messageRows, torn, acts>>
       ELSE /\ messages' = {} /\ isLoadingMessages' = FALSE /\ Done(c) /\ torn' = TRUE
            /\ UNCHANGED <<messageRows, openChat, pagination, isLoadingOlderMessages, acts>>

(* The pagination is taken from the snapshot whichever conversation it is. *)
Reconciled ==
  \E c \in Answered("reconcile") :
    /\ Paginate(c.reply)
    /\ IF c.chat = openChat
       THEN messages' = c.reply.ids /\ torn' = FALSE /\ calls' = Overtaken(calls \ {c})
       ELSE torn' = TRUE /\ Done(c) /\ UNCHANGED messages
    /\ UNCHANGED <<messageRows, openChat, isLoadingMessages, isLoadingOlderMessages, acts>>

ReconcileFailed ==
  \E c \in Failed("reconcile"), notFound \in BOOLEAN :
    IF notFound /\ c.chat = openChat
    THEN OpenAt(NoChat, calls \ {c}) /\ UNCHANGED <<messageRows, torn, acts>>
    ELSE /\ Done(c)
         /\ UNCHANGED <<messageRows, openChat, messages, pagination, isLoadingMessages,
                        isLoadingOlderMessages, torn, acts>>

(* Nothing tells for which conversation the page was asked.                *)
OlderLoaded ==
  \E c \in Answered("older") :
    /\ messages' = c.reply.ids \cup messages /\ Paginate(c.reply)
    /\ isLoadingOlderMessages' = FALSE /\ torn' = (torn \/ ~c.after)
    /\ calls' = Overtaken(calls \ {c})
    /\ UNCHANGED <<messageRows, openChat, isLoadingMessages, acts>>

OlderFailed ==
  \E c \in Failed("older") :
    /\ isLoadingOlderMessages' = FALSE /\ Done(c)
    /\ UNCHANGED <<messageRows, openChat, messages, pagination, isLoadingMessages, torn, acts>>

-----------------------------------------------------------------------------
PagesStart ==
  /\ messageRows = FirstMessages
  /\ openChat = NoChat /\ messages = {} /\ hasMoreMessages = FALSE /\ nextBeforeMessageId = NoChat
  /\ isLoadingMessages = FALSE /\ isLoadingOlderMessages = FALSE /\ torn = FALSE
PagesFirst == {}

PagesActs == OpenChat \/ LoadOlder \/ EndReply
PagesNext ==
  \/ PagesActs \/ PagesServe \/ PagesFail
  \/ Synced \/ SyncFailed \/ Reconciled \/ ReconcileFailed \/ OlderLoaded \/ OlderFailed

PagesInit == PagesStart /\ calls = PagesFirst /\ acts = 0
PagesSpec == PagesInit /\ [][PagesNext]_pageVars

-----------------------------------------------------------------------------
(* Properties.                                                             *)

(* The types; home shows no messages but those a late page brings.         *)
PagesOK ==
  /\ messageRows \in [Chats -> SUBSET MessageIds]
  /\ openChat \in Chats \cup {NoChat} /\ messages \subseteq MessageIds
  /\ hasMoreMessages \in BOOLEAN /\ nextBeforeMessageId \in MessageIds \cup {NoChat}
  /\ hasMoreMessages = (nextBeforeMessageId # NoChat)
  /\ (openChat = NoChat /\ ~torn) => messages = {}

(* PagesContiguous: no message is missing between the oldest and the       *)
(* newest shown, and the button for older ones is there, and asks from the *)
(* right place, when there are any, however loads, replies that end and    *)
(* navigation alternate.  Left out: a page applied after what it continues *)
(* was replaced or continued by another, and the pagination of another     *)
(* conversation or of one that could not be loaded, until the next         *)
(* snapshot.                                                               *)
PagesContiguous ==
  (openChat # NoChat /\ ~isLoadingMessages /\ messages # {} /\ ~torn) =>
    /\ \A id \in messageRows[openChat] :
         Oldest(messages) <= id /\ id <= Newest(messages) => id \in messages
    /\ hasMoreMessages = (\E id \in messageRows[openChat] : id < Oldest(messages))
    /\ hasMoreMessages => nextBeforeMessageId = Oldest(messages)

=============================================================================
