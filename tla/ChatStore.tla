----------------------------- MODULE ChatStore -----------------------------
(***************************************************************************)
(* Chat sessions, messages and folders in MongoDB (ChatStore of            *)
(* infrastructure/chat_store.py) under concurrent requests of the routes   *)
(* in api/chat_sessions_routes.py and api/chat_folders_routes.py.          *)
(*                                                                         *)
(* A request reads and writes one document at a time and other requests    *)
(* run between two of its steps.  Writes through _write_with_retry are     *)
(* repeated after a transient error, whether or not the server had applied *)
(* them.  Documents keep what the properties tell apart: owner, key,       *)
(* title, folder.                                                          *)
(***************************************************************************)
EXTENDS Naturals, FiniteSets

CONSTANTS
    ChatRequests,       \* HTTP requests
    ChatUsers,          \* authenticated users
    FirstUser,          \* owner of the chat at the start
    max_attempts,       \* of _write_with_retry
    Ops,                \* the operations requests ask for
    NoDoc               \* no document, no folder, no key

ASSUME ChatAssumption ==
    /\ IsFiniteSet(ChatRequests)
    /\ FirstUser \in ChatUsers
    /\ max_attempts \in Nat \ {0}
    /\ "first" \notin ChatRequests
    /\ NoDoc \notin ChatUsers \cup ChatRequests \cup {"first"}

\* Documents are named after the request that creates them.
DocId == ChatRequests \cup {"first"}

VARIABLES
    chats,      \* collection chat_sessions
    messages,   \* collection chat_messages; late (history): its session was gone
    folders,    \* collection chat_folders
    chatReq,        \* chatReq[r]: the request
    seen        \* seen[r]: ids of the chats in its response

chatVars == <<chats, messages, folders, chatReq, seen>>

Chat == [owner : ChatUsers, key : ChatUsers \cup {NoDoc},
         title : {"Untitled Chat", "generated", "chosen"}, folder : DocId \cup {NoDoc}]

Message == [id : ChatRequests \X (0..max_attempts), key : DocId \cup {NoDoc},
            chat : DocId, late : BOOLEAN]

Folder == [owner : ChatUsers, name : {"old", "new"}]

AllOps == {"create", "list", "get", "append", "auto_title", "rename", "assign", "delete",
           "folder_create", "folder_update", "folder_delete"}

RequestStep == {"new", "start", "check", "write", "touch", "sweep", "messages", "done",
                "error"}

ChatRequest == [op : AllOps \cup {NoDoc}, step : RequestStep, user : ChatUsers, doc : DocId,
            keyed : BOOLEAN, fold : DocId \cup {NoDoc}, title : BOOLEAN,
            tries : 0..max_attempts]

ChatTypeOK ==
    /\ chats \in [DocId -> Chat \cup {NoDoc}]
    /\ messages \subseteq Message
    /\ folders \in [DocId -> Folder \cup {NoDoc}]
    /\ chatReq \in [ChatRequests -> ChatRequest]
    /\ seen \in [ChatRequests -> SUBSET DocId]

NewChat(user, key) ==
    [owner |-> user, key |-> key, title |-> "Untitled Chat", folder |-> NoDoc]

ChatInit ==
    /\ chats = [d \in DocId |-> IF d = "first" THEN NewChat(FirstUser, NoDoc) ELSE NoDoc]
    /\ messages = {}
    /\ \E owner \in ChatUsers :
          folders = [d \in DocId |-> IF d = "first" THEN [owner |-> owner, name |-> "old"]
                                     ELSE NoDoc]
    /\ chatReq = [r \in ChatRequests |->
                [op |-> NoDoc, step |-> "new", user |-> FirstUser, doc |-> "first",
                 keyed |-> FALSE, fold |-> NoDoc, title |-> FALSE, tries |-> 0]]
    /\ seen = [r \in ChatRequests |-> {}]

-----------------------------------------------------------------------------
(* Requests and writes *)

At(r, op, step) == chatReq[r].op = op /\ chatReq[r].step = step

Goes(r, step) == chatReq' = [chatReq EXCEPT ![r].step = step, ![r].tries = 0]

\* A request arrives at its route, with the ids and the key the client sent.
Arrive(r) ==
    /\ chatReq[r].step = "new"
    /\ \E op \in Ops, user \in ChatUsers, doc \in DocId, keyed \in BOOLEAN,
          fold \in DocId \cup {NoDoc} :
          /\ op \in {"create", "list", "folder_create"} => doc = "first"
          /\ op \notin {"create", "append"} => ~keyed
          /\ op \notin {"assign", "list"} => fold = NoDoc
          /\ chatReq' = [chatReq EXCEPT ![r] = [@ EXCEPT !.op = op, !.step = "start",
                        !.user = user, !.doc = doc, !.keyed = keyed, !.fold = fold]]
    /\ UNCHANGED <<chats, messages, folders, seen>>

\* _write_with_retry: a transient error, before or after the server applied the
\* write, repeats it; the last attempt raises.
WriteWithRetry(r, Applied, NotApplied, next) ==
    \/ Applied /\ Goes(r, next)
    \/ /\ Applied \/ NotApplied
       /\ chatReq' = IF chatReq[r].tries < max_attempts - 1
                 THEN [chatReq EXCEPT ![r].tries = @ + 1]
                 ELSE [chatReq EXCEPT ![r].step = "error"]

\* Any other error of the database ends the request (HTTP 500).
RequestFails(r) ==
    /\ chatReq[r].step \notin {"new", "done", "error"}
    /\ chatReq' = [chatReq EXCEPT ![r].step = "error"]
    /\ UNCHANGED <<chats, messages, folders, seen>>

\* insert_one writes the id it chose into the document, so an attempt that
\* repeats it inserts the same id.
RowId(r) == <<r, 0>>

Visible(r, doc) == doc # NoDoc /\ doc.owner = chatReq[r].user

-----------------------------------------------------------------------------
(* Sessions *)

\* create_session with a key: an upsert on the unique key.  Without: insert_one,
\* which a repetition of an applied attempt finds occupied (RequestFails).
CreateSession(r) ==
    /\ At(r, "create", "start")
    /\ LET key == IF chatReq[r].keyed THEN chatReq[r].user ELSE NoDoc
           taken == IF chatReq[r].keyed THEN \E d \in DocId : chats[d] # NoDoc /\ chats[d].key = key
                    ELSE chats[r] # NoDoc
       IN /\ chatReq[r].keyed \/ ~taken
          /\ WriteWithRetry(r,
                chats' = IF taken THEN chats
                         ELSE [chats EXCEPT ![r] = NewChat(chatReq[r].user, key)],
                UNCHANGED chats, "done")
    /\ UNCHANGED <<messages, folders, seen>>

\* list_sessions, list_sessions_all: the rows of the user, of one folder if given.
ListSessions(r) ==
    /\ At(r, "list", "start")
    /\ seen' = [seen EXCEPT ![r] =
                  {d \in DocId : /\ Visible(r, chats[d])
                                 /\ chatReq[r].fold \in {NoDoc, chats[d].folder}}]
    /\ Goes(r, "done")
    /\ UNCHANGED <<chats, messages, folders>>

\* The find_one and the ownership test every operation on a session begins with.
ReadSession(r) ==
    /\ chatReq[r].step = "start"
    /\ chatReq[r].op \in {"get", "append", "auto_title", "rename", "assign", "delete"}
    /\ LET doc == chats[chatReq[r].doc]
           next == CASE chatReq[r].op = "get" -> "messages"
                     [] chatReq[r].op = "auto_title" -> "check"
                     [] OTHER -> "write"
       IN IF ~Visible(r, doc) THEN Goes(r, "done")
          ELSE IF chatReq[r].op = "auto_title" /\ doc.title # "Untitled Chat" THEN Goes(r, "done")
          ELSE chatReq' = [chatReq EXCEPT ![r].step = next,
                                  ![r].title = (doc.title = "Untitled Chat")]
    /\ UNCHANGED <<chats, messages, folders, seen>>

\* get_session reads the messages after the session.
ReadMessages(r) ==
    /\ At(r, "get", "messages")
    /\ seen' = [seen EXCEPT ![r] = {chatReq[r].doc}]
    /\ Goes(r, "done")
    /\ UNCHANGED <<chats, messages, folders>>

\* append_message writes the row: an upsert on the key both sides send for the
\* same message, or an insert.
WriteMessage(r) ==
    /\ At(r, "append", "write")
    /\ LET chat == chatReq[r].doc
           key == IF chatReq[r].keyed THEN chat ELSE NoDoc
           taken == IF chatReq[r].keyed THEN \E m \in messages : m.key = key
                    ELSE \E m \in messages : m.id = RowId(r)
       IN /\ chatReq[r].keyed \/ ~taken
          /\ WriteWithRetry(r,
                messages' = IF taken THEN messages
                            ELSE messages \cup {[id |-> RowId(r), key |-> key, chat |-> chat,
                                                 late |-> chats[chat] = NoDoc]},
                UNCHANGED messages, "touch")
    /\ UNCHANGED <<chats, folders, seen>>

\* ... and then touches the session, with a generated title when the title read
\* at the start was still the default (for a user's message; an assistant's
\* message leaves it).
TouchSession(r) ==
    /\ At(r, "append", "touch")
    /\ \E titled \in {FALSE, chatReq[r].title} :
          WriteWithRetry(r,
             chats' = IF chats[chatReq[r].doc] # NoDoc /\ titled
                      THEN [chats EXCEPT ![chatReq[r].doc].title = "generated"] ELSE chats,
             UNCHANGED chats, "done")
    /\ UNCHANGED <<messages, folders, seen>>

\* auto_title calls update_session, which reads the session once more.
ReadAgain(r) ==
    /\ At(r, "auto_title", "check")
    /\ Goes(r, IF Visible(r, chats[chatReq[r].doc]) THEN "write" ELSE "done")
    /\ UNCHANGED <<chats, messages, folders, seen>>

\* update_session: one update_one by id; a deleted row stays deleted.
UpdateSession(r) ==
    /\ chatReq[r].op \in {"auto_title", "rename", "assign"} /\ chatReq[r].step = "write"
    /\ LET d == chatReq[r].doc IN
       chats' = IF chats[d] = NoDoc THEN chats
                ELSE CASE chatReq[r].op = "auto_title" -> [chats EXCEPT ![d].title = "generated"]
                       [] chatReq[r].op = "rename" -> [chats EXCEPT ![d].title = "chosen"]
                       [] chatReq[r].op = "assign" -> [chats EXCEPT ![d].folder = chatReq[r].fold]
    /\ Goes(r, "done")
    /\ UNCHANGED <<messages, folders, seen>>

\* Faulty variant: the messages are left to nobody.
DeleteSessionOnly(r) ==
    /\ At(r, "delete", "write")
    /\ chats' = [chats EXCEPT ![chatReq[r].doc] = NoDoc]
    /\ Goes(r, "done")
    /\ UNCHANGED <<messages, folders, seen>>

\* delete_session deletes the session ...
DeleteSession(r) ==
    /\ At(r, "delete", "write")
    /\ chats' = [chats EXCEPT ![chatReq[r].doc] = NoDoc]
    /\ Goes(r, "sweep")
    /\ UNCHANGED <<messages, folders, seen>>

\* ... and then its messages.
DeleteMessages(r) ==
    /\ At(r, "delete", "sweep")
    /\ messages' = {m \in messages : m.chat # chatReq[r].doc}
    /\ Goes(r, "done")
    /\ UNCHANGED <<chats, folders, seen>>

-----------------------------------------------------------------------------
(* Folders *)

CreateFolder(r) ==
    /\ At(r, "folder_create", "start")
    /\ folders' = [folders EXCEPT ![r] = [owner |-> chatReq[r].user, name |-> "old"]]
    /\ Goes(r, "done")
    /\ UNCHANGED <<chats, messages, seen>>

\* The find_one and the ownership test of update_folder and delete_folder.
ReadFolder(r) ==
    /\ chatReq[r].op \in {"folder_update", "folder_delete"} /\ chatReq[r].step = "start"
    /\ Goes(r, IF Visible(r, folders[chatReq[r].doc]) THEN "write" ELSE "done")
    /\ UNCHANGED <<chats, messages, folders, seen>>

UpdateFolder(r) ==
    /\ At(r, "folder_update", "write")
    /\ folders' = IF folders[chatReq[r].doc] = NoDoc THEN folders
                  ELSE [folders EXCEPT ![chatReq[r].doc].name = "new"]
    /\ Goes(r, "done")
    /\ UNCHANGED <<chats, messages, seen>>

DeleteFolder(r) ==
    /\ At(r, "folder_delete", "write")
    /\ folders' = [folders EXCEPT ![chatReq[r].doc] = NoDoc]
    /\ Goes(r, "sweep")
    /\ UNCHANGED <<chats, messages, seen>>

\* Faulty variant: every session in the folder is unassigned.
UnassignAll(r) ==
    /\ At(r, "folder_delete", "sweep")
    /\ chats' = [d \in DocId |->
                   IF chats[d] # NoDoc /\ chats[d].folder = chatReq[r].doc
                   THEN [chats[d] EXCEPT !.folder = NoDoc] ELSE chats[d]]
    /\ Goes(r, "done")
    /\ UNCHANGED <<messages, folders, seen>>

\* The sessions of the owner leave the deleted folder.
UnassignSessions(r) ==
    /\ At(r, "folder_delete", "sweep")
    /\ chats' = [d \in DocId |->
                   IF Visible(r, chats[d]) /\ chats[d].folder = chatReq[r].doc
                   THEN [chats[d] EXCEPT !.folder = NoDoc] ELSE chats[d]]
    /\ Goes(r, "done")
    /\ UNCHANGED <<messages, folders, seen>>

ServeRequest(r) ==
    \/ CreateSession(r) \/ ListSessions(r) \/ ReadSession(r) \/ ReadMessages(r)
    \/ WriteMessage(r) \/ TouchSession(r) \/ ReadAgain(r) \/ UpdateSession(r)
    \/ DeleteSession(r) \/ DeleteMessages(r)
    \/ CreateFolder(r) \/ ReadFolder(r) \/ UpdateFolder(r) \/ DeleteFolder(r)
    \/ UnassignSessions(r)

ChatNext == \E r \in ChatRequests : Arrive(r) \/ ServeRequest(r) \/ RequestFails(r)

ChatSpec == ChatInit /\ [][ChatNext]_chatVars

-----------------------------------------------------------------------------
(* Properties *)

\* However often a write is repeated, by the client with its key or by
\* _write_with_retry after a lost acknowledgement, a submission leaves one row:
\* one per key, one per request.
SubmittedOnce ==
    /\ \A c, d \in {i \in DocId : chats[i] # NoDoc} :
          chats[c].key # NoDoc /\ chats[c].key = chats[d].key => c = d
    /\ \A m, n \in messages : (m.key # NoDoc /\ m.key = n.key) \/ m.id[1] = n.id[1] => m = n

\* Once a deletion has run to its end, a message outlives its session only if it
\* was written after the session was gone, by a request that had passed its test
\* before: the session goes first, the messages second.
OrphansOnlyLate ==
    \A m \in messages :
       chats[m.chat] = NoDoc /\ ~m.late
          => \E r \in ChatRequests : /\ chatReq[r].op = "delete" /\ chatReq[r].doc = m.chat
                                     /\ chatReq[r].step \in {"sweep", "error"}

\* A document is changed or deleted by a request of its owner only, and a
\* response lists no chat of another: the test is made steps before the write,
\* and the sweep over a deleted folder meets chats others filed there.
OwnersOnly ==
    [][/\ \A d \in DocId :
             chats[d] # NoDoc /\ chats'[d] # chats[d] =>
                \E r \in ChatRequests : chatReq'[r] # chatReq[r] /\ chatReq[r].user = chats[d].owner
       /\ \A d \in DocId :
             folders[d] # NoDoc /\ folders'[d] # folders[d] =>
                \E r \in ChatRequests : chatReq'[r] # chatReq[r] /\ chatReq[r].user = folders[d].owner
       /\ \A r \in ChatRequests : \A d \in seen'[r] \ seen[r] :
             chats[d] = NoDoc \/ chats[d].owner = chatReq[r].user]_chatVars

\* The chat history is intact: nothing twice, nothing left over by a deletion.
HistoryIntact == SubmittedOnce /\ OrphansOnlyLate

=============================================================================
