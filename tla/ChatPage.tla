------------------------------ MODULE ChatPage ------------------------------
(***************************************************************************)
(* Questions to the Claude API from the page (web_ui/static/js/            *)
(* chat-research.js and app.js) together with the handler that answers     *)
(* them (api/chat_research_routes.py, _query_persistence.py): sending,     *)
(* stopping, changing the chat meanwhile, and resuming a query that the    *)
(* banner offers.                                                          *)
(*                                                                         *)
(* The steps are the callbacks of the page between two awaits, and those   *)
(* of the handler.  A request carries what the page's fields held when it  *)
(* was built.  A row of the chat history is a record of its chat, query,   *)
(* role and key.  Changing the mode here is a change between research and   *)
(* coding, which both ask in this way.                                     *)
(***************************************************************************)
EXTENDS Naturals, FiniteSets

CONSTANTS
    Queries,    \* questions the user sends, each once
    Pipelines,  \* queries of an earlier page that a pipeline is working on
    ChatIds,    \* identifiers of chats
    FirstChat,  \* the chat that exists at the start
    NoChat,     \* chatSessionId = null
    NoQuery,     \* a field that is null
    MaxEvents   \* bound: what the user does, and what fails, together

ASSUME ChatPageAssumption ==
    /\ FirstChat \in ChatIds
    /\ NoChat \notin ChatIds
    /\ Queries \cap Pipelines = {}
    /\ NoQuery \notin Queries \cup Pipelines
    /\ MaxEvents \in Nat

VARIABLES
    open,        \* the chat that is open: chatSessionId
    made,        \* chats that exist at the server
    processing,  \* isProcessing
    current,     \* the _current fields: the record, the keys, the controller
    asked,       \* asked[q]: where sendMessage of q is
    aborted,     \* queries whose controller has been aborted
    checks,      \* chats whose active query has been asked for
    banners,     \* queries a banner offers
    watched,     \* queries that are watched after a click on Resume
    cancels,     \* cancel requests under way
    job,         \* job[q]: where the handler of q is
    status,      \* status[q]: the query's record
    rows,        \* the rows of the chat history
    unknown,     \* queries with a record that the page was not told of (history)
    moved,       \* queries during which the chat was changed (history)
    disturbed,   \* queries during which something was resumed (history)
    events       \* what the user did, and what failed, so far

openVars == <<open, made, checks, moved>>
lockVars == <<processing, current, disturbed, unknown>>
resumeVars == <<banners, watched>>
handlerVars == <<job, status, rows>>
chatPageVars == <<openVars, lockVars, asked, aborted, resumeVars, cancels,
                  handlerVars, events>>

Nothing == [record |-> NoQuery, keys |-> NoQuery, abort |-> NoQuery]

NotAsked == [step |-> "idle", at |-> NoChat, to |-> NoChat, fields |-> Nothing]

Ended == {"completed", "failed", "cancelled"}

InFlight == {q \in Queries : asked[q].step \notin {"idle", "done"}}

\* Every field names a chat or a query of the instance, or is null.
ChatPageTypeOK ==
    /\ open \in ChatIds \cup {NoChat}
    /\ made \subseteq ChatIds
    /\ processing \in BOOLEAN
    /\ \A f \in DOMAIN current : current[f] \in Queries \cup Pipelines \cup {NoQuery}
    /\ \A q \in Queries :
          /\ asked[q].step \in {"idle", "session", "record", "say", "answer",
                                "reply", "error", "done"}
          /\ {asked[q].at, asked[q].to} \subseteq made \cup {NoChat}
          /\ job[q] \in Ended \cup {"none", "saving", "working", "answered", "refused"}
    /\ aborted \subseteq Queries
    /\ checks \subseteq made
    /\ banners \subseteq Queries \cup Pipelines
    /\ cancels \subseteq (Queries \cup Pipelines) \X {"task", "record"}
    /\ watched \subseteq Pipelines
    /\ \A q \in Queries \cup Pipelines : status[q].state \in Ended \cup {"none", "running"}
    /\ \A r \in rows : r.chat \in made /\ r.query \in Queries

ChatPageInit ==
    /\ open \in {FirstChat, NoChat}
    /\ made = {FirstChat}
    /\ processing = FALSE
    /\ current = Nothing
    /\ asked = [q \in Queries |-> NotAsked]
    /\ aborted = {}
    /\ checks = made \cap {open}
    /\ banners = {}
    /\ watched = {}
    /\ cancels = {}
    /\ job = [q \in Queries |-> "none"]
    /\ status = [q \in Queries \cup Pipelines |->
                   IF q \in Pipelines THEN [state |-> "running", chat |-> FirstChat]
                                      ELSE [state |-> "none", chat |-> NoChat]]
    /\ rows = {}
    /\ unknown = {}
    /\ moved = {}
    /\ disturbed = {}
    /\ events = 0

-----------------------------------------------------------------------------
(* sendMessage *)

\* One more click of the user, or failure of a request or a write.
Event == events < MaxEvents /\ events' = events + 1

\* Faulty variant: the lock is taken after the chat has been created.
SendLocksLate(q) ==
    /\ Event
    /\ asked[q].step = "idle"
    /\ ~processing
    /\ processing' = (open # NoChat)
    /\ asked' = [asked EXCEPT ![q].step = IF open = NoChat THEN "session" ELSE "record",
                              ![q].at = open]
    /\ disturbed' = IF InFlight \cap disturbed = {} THEN disturbed ELSE disturbed \cup {q}
    /\ UNCHANGED <<openVars, current, unknown, aborted, resumeVars, cancels, handlerVars>>

\* The lock is taken before anything is awaited: the creation of a chat, when
\* none is open, or that of the query's record.
Send(q) ==
    /\ Event
    /\ asked[q].step = "idle"
    /\ ~processing
    /\ processing' = TRUE
    /\ asked' = [asked EXCEPT ![q].step = IF open = NoChat THEN "session" ELSE "record",
                              ![q].at = open]
    /\ disturbed' = IF InFlight \cap disturbed = {} THEN disturbed ELSE disturbed \cup {q}
    /\ UNCHANGED <<openVars, current, unknown, aborted, resumeVars, cancels, handlerVars>>

\* setChatSessionId: the page asks for the active query of the chat it opens.
Enter(c) ==
    /\ open' = c
    /\ made' = made \cup {c}
    /\ checks' = checks \cup {c}

\* ensureCurrentServerSession returns, with a chat or after an error.
SessionMade(q) ==
    /\ asked[q].step = "session"
    /\ \/ /\ \E c \in ChatIds \ made : Enter(c)
          /\ moved' = moved \cup (InFlight \ {q})
          /\ UNCHANGED events
       \/ Event /\ UNCHANGED <<open, made, checks, moved>>
    /\ asked' = [asked EXCEPT ![q].step = "record", ![q].at = open']
    /\ UNCHANGED <<lockVars, aborted, resumeVars, cancels, handlerVars>>

\* _createQueryRecord returns; the question goes to the chat that is open now.
\* When the request fails the page has no record, and the server may have made
\* one all the same: the reply was lost, or the read after the write failed.
RecordMade(q) ==
    /\ asked[q].step = "record"
    /\ \E applied, told \in BOOLEAN :
          /\ told => applied
          /\ applied => asked[q].at # NoChat
          /\ status' = IF applied
                       THEN [status EXCEPT ![q] = [state |-> "running", chat |-> asked[q].at]]
                       ELSE status
          /\ current' = [record |-> IF told THEN q ELSE NoQuery, keys |-> q, abort |-> q]
          /\ unknown' = IF applied /\ ~told THEN unknown \cup {q} ELSE unknown
          /\ IF told \/ asked[q].at = NoChat THEN UNCHANGED events ELSE Event
    /\ asked' = [asked EXCEPT ![q].step = "say", ![q].at = open]
    /\ UNCHANGED <<openVars, processing, disturbed, aborted, resumeVars, cancels, job, rows>>

Row(c, q, r, k) == [chat |-> c, query |-> q, role |-> r, key |-> k]

\* append_message: no chat, no row; a key that is taken makes no second row.
\* A write that fails is only logged, by the page and by the handler.
AppendRow(c, q, r, k) ==
    \/ /\ rows' = IF c = NoChat \/ (k # NoQuery /\ \E x \in rows : x.role = r /\ x.key = k)
                  THEN rows
                  ELSE rows \cup {Row(c, q, r, k)}
       /\ UNCHANGED events
    \/ c # NoChat /\ Event /\ UNCHANGED rows

\* The question is stored, and processWithClaude sends the request with what
\* the page's fields hold now; an aborted controller refuses it at once.
UserSaved(q) ==
    /\ asked[q].step = "say"
    /\ AppendRow(asked[q].at, q, "user", q)
    /\ LET stopped == current.abort \in aborted
       IN  /\ asked' = [asked EXCEPT ![q] =
                          [step |-> IF stopped THEN "error" ELSE "answer",
                           at |-> open, to |-> open, fields |-> current]]
           /\ job' = IF stopped THEN job ELSE [job EXCEPT ![q] = "saving"]
    /\ UNCHANGED <<openVars, lockVars, aborted, resumeVars, cancels, status>>

\* The request returns with the answer; or with an error, also because its
\* controller was aborted.
Replied(q) ==
    /\ asked[q].step = "answer"
    /\ \/ job[q] = "answered" /\ asked' = [asked EXCEPT ![q].step = "reply", ![q].at = open]
       \/ /\ job[q] = "refused" \/ asked[q].fields.abort \in aborted
          /\ asked' = [asked EXCEPT ![q].step = "error", ![q].at = open]
    /\ UNCHANGED <<openVars, lockVars, aborted, resumeVars, cancels, handlerVars, events>>

\* The answer, or the error, is stored without a key, and sendMessage ends.
ReplySaved(q) ==
    /\ asked[q].step \in {"reply", "error"}
    /\ AppendRow(asked[q].at, q, asked[q].step, NoQuery)
    /\ asked' = [asked EXCEPT ![q] = [@ EXCEPT !.step = "done", !.at = NoChat]]
    /\ processing' = FALSE
    /\ current' = Nothing
    /\ UNCHANGED <<openVars, disturbed, unknown, aborted, resumeVars, cancels, job, status>>

\* cancelCurrentQuery: the fetch is aborted, the record cancelled, and also
\* the task if the page is in the mode, and with the provider, it began in.
Stop ==
    /\ Event
    /\ processing
    /\ aborted' = aborted \cup ({current.abort} \ {NoQuery})
    /\ \E kinds \in {{"task", "record"}, {"record"}} :
          cancels' = cancels \cup (({current.record} \ {NoQuery}) \X kinds)
    /\ UNCHANGED <<openVars, lockVars, asked, resumeVars, handlerVars>>

-----------------------------------------------------------------------------
(* _run_claude_with_persistence *)

\* The question is stored with the key of the page's row; without an API key
\* the handler ends before that.
JobSaves(q) ==
    /\ job[q] = "saving"
    /\ \/ /\ AppendRow(asked[q].to, q, "user", asked[q].fields.keys)
          /\ job' = [job EXCEPT ![q] = "working"]
       \/ job' = [job EXCEPT ![q] = "refused"] /\ UNCHANGED <<rows, events>>
    /\ UNCHANGED <<openVars, lockVars, asked, aborted, resumeVars, cancels, status>>

\* The call of the API returns and the answer is stored; or it raises.
JobWorks(q) ==
    /\ job[q] = "working"
    /\ \/ /\ AppendRow(asked[q].to, q, "assistant", asked[q].fields.keys)
          /\ job' = [job EXCEPT ![q] = "completed"]
       \/ job' = [job EXCEPT ![q] = "failed"] /\ UNCHANGED <<rows, events>>
    /\ UNCHANGED <<openVars, lockVars, asked, aborted, resumeVars, cancels, status>>

\* mark_query_completed, mark_query_failed, mark_query_cancelled: there is no
\* test of the status that the record has, and a failure is only logged.
JobMarks(q) ==
    /\ job[q] \in Ended
    /\ \/ /\ status' = [r \in DOMAIN status |->
                          IF r = asked[q].fields.record
                          THEN [status[r] EXCEPT !.state = job[q]] ELSE status[r]]
          /\ UNCHANGED events
       \/ Event /\ UNCHANGED status
    /\ job' = [job EXCEPT ![q] = IF @ = "completed" THEN "answered" ELSE "refused"]
    /\ UNCHANGED <<openVars, lockVars, asked, aborted, resumeVars, cancels, rows>>

\* cancel_chat_request: the task is cancelled if this replica runs it, and the
\* record is marked whatever its status; a pipeline tests the status first.
CancelOfTask(r) ==
    /\ <<r, "task">> \in cancels
    /\ cancels' = cancels \ {<<r, "task">>}
    /\ \/ UNCHANGED job
       \/ \E q \in Queries :
             /\ job[q] = "working"
             /\ asked[q].fields.record = r
             /\ job' = [job EXCEPT ![q] = "cancelled"]
    /\ status' = IF r \in Pipelines /\ status[r].state \in Ended THEN status
                 ELSE [status EXCEPT ![r].state = "cancelled"]
    /\ UNCHANGED <<openVars, lockVars, asked, aborted, resumeVars, rows, events>>

\* The cancellation of the record alone, which leaves a final status.
CancelOfRecord(r) ==
    /\ <<r, "record">> \in cancels
    /\ cancels' = cancels \ {<<r, "record">>}
    /\ status' = IF status[r].state \in Ended THEN status
                 ELSE [status EXCEPT ![r].state = "cancelled"]
    /\ UNCHANGED <<openVars, lockVars, asked, aborted, resumeVars, job, rows, events>>

PipelineIsOver(p) ==
    /\ status[p].state = "running"
    /\ status' = [status EXCEPT ![p].state = "completed"]
    /\ UNCHANGED <<openVars, lockVars, asked, aborted, resumeVars, cancels, job, rows, events>>

-----------------------------------------------------------------------------
(* Changing the chat: no step of this looks at isProcessing *)

Move ==
    /\ Event
    /\ moved' = moved \cup InFlight
    /\ UNCHANGED <<lockVars, asked, aborted, resumeVars, cancels, handlerVars>>

\* loadSession, of a chat of the list.
LoadSession(c) ==
    /\ c \in made \ {open}
    /\ Enter(c)
    /\ Move

\* createNewChat, which reads nothing before the chat it asked for is there.
CreateNewChat(c) ==
    /\ c \notin made
    /\ Enter(c)
    /\ Move

\* switchMode leaves the chat.
SwitchMode ==
    /\ open # NoChat
    /\ open' = NoChat
    /\ UNCHANGED <<made, checks>>
    /\ Move

-----------------------------------------------------------------------------
(* Resuming *)

\* _checkAndResumeActiveQuery: the answer may be a query of this very page.
CheckReturns(c) ==
    /\ c \in checks
    /\ checks' = checks \ {c}
    /\ \/ UNCHANGED banners
       \/ \E q \in Queries \cup Pipelines :
             /\ status[q] = [state |-> "running", chat |-> c]
             /\ banners' = banners \cup {q}
    /\ UNCHANGED <<open, made, moved, lockVars, asked, aborted, watched,
                   cancels, handlerVars, events>>

\* _resumeFromRecord takes the fields of a query that is under way; for one
\* that has no session of a pipeline it clears them at once.
Resume(q) ==
    /\ Event
    /\ q \in banners
    /\ banners' = banners \ {q}
    /\ disturbed' = disturbed \cup InFlight
    /\ UNCHANGED unknown
    /\ \/ /\ q \in Pipelines
          /\ current' = [current EXCEPT !.record = q, !.abort = NoQuery]
          /\ processing' = TRUE
          /\ watched' = watched \cup {q}
       \/ /\ q \in Queries
          /\ current' = [current EXCEPT !.record = NoQuery, !.abort = NoQuery]
          /\ UNCHANGED <<processing, watched>>
    /\ UNCHANGED <<openVars, asked, aborted, cancels, handlerVars>>

\* Its end releases the lock, whoever holds it.
ResumeEnds(p) ==
    /\ p \in watched
    /\ watched' = watched \ {p}
    /\ processing' = FALSE
    /\ current' = [current EXCEPT !.record = NoQuery, !.abort = NoQuery]
    /\ disturbed' = disturbed \cup InFlight
    /\ UNCHANGED <<openVars, unknown, asked, aborted, banners, cancels, handlerVars, events>>

\* The banner's other button.
CancelFromBanner(q) ==
    /\ Event
    /\ q \in banners
    /\ banners' = banners \ {q}
    /\ cancels' = cancels \cup {<<q, "record">>}
    /\ UNCHANGED <<openVars, lockVars, asked, aborted, watched, handlerVars>>

-----------------------------------------------------------------------------

Asking(q) == Send(q) \/ SessionMade(q) \/ RecordMade(q) \/ UserSaved(q)
             \/ Replied(q) \/ ReplySaved(q)

Handling(q) == JobSaves(q) \/ JobWorks(q) \/ JobMarks(q)

ChatPageNext ==
    \/ \E q \in Queries : Asking(q) \/ Handling(q)
    \/ \E p \in Pipelines : PipelineIsOver(p) \/ ResumeEnds(p)
    \/ \E q \in Queries \cup Pipelines : Resume(q) \/ CancelFromBanner(q)
                                          \/ CancelOfTask(q) \/ CancelOfRecord(q)
    \/ \E c \in ChatIds : LoadSession(c) \/ CreateNewChat(c) \/ CheckReturns(c)
    \/ Stop \/ SwitchMode

ChatPageSpec == ChatPageInit /\ [][ChatPageNext]_chatPageVars

-----------------------------------------------------------------------------
(* Properties *)

\* A second question is sent before the first one is over only if something
\* was resumed in between (the end of a resumed query releases the lock).
OneSend ==
    \A q1, q2 \in InFlight : q1 # q2 => {q1, q2} \cap disturbed # {}

\* Stop reaches the question that waits for its answer: the fields hold its
\* controller and its record, unless something was resumed meanwhile.  A
\* record that was made while its request failed is out of Stop's reach.
StopReaches ==
    \A q \in InFlight \ disturbed :
       asked[q].step = "answer" =>
          /\ asked[q].fields = current
          /\ current.abort = q
          /\ current.record = IF status[q].state = "none" \/ q \in unknown
                              THEN NoQuery ELSE q

\* Nothing that the page or the handler of the query does ends a record that
\* the page was not told of: only the Cancel button of the banner does.
UnknownIsLeft ==
    \A q \in unknown : status[q].state \in {"running", "cancelled"}

\* A question, its answer and its error are in one chat unless the user
\* changed the chat while it was under way.
RowsTogether ==
    \A r1, r2 \in rows : r1.query = r2.query /\ r1.query \notin moved => r1.chat = r2.chat

\* The page and the handler both store the question; it has one row, also
\* when the two writes name different chats.
SaidOnce ==
    \A r1, r2 \in rows :
       /\ r1.query = r2.query
       /\ r1.role = "user" /\ r2.role = "user"
       /\ r1.query \notin disturbed
       => r1 = r2

\* One question at a time, which Stop reaches, stored once and in one place:
\* what the lock, the _current fields and the keys are for.
ConversationSound == OneSend /\ StopReaches /\ UnknownIsLeft /\ RowsTogether /\ SaidOnce

=============================================================================
