--------------------------- MODULE ThinkingSession ---------------------------
(***************************************************************************)
(* One thinking session of api/thinking_routes.py on an application that   *)
(* runs in several replicas.  The session dictionary lives in three kinds  *)
(* of places: the in-process cache _sessions of each replica, the copy in  *)
(* Redis that _persist writes, and the query record of                     *)
(* infrastructure/chat_store.py that the chat page reads.  The background  *)
(* task _run_session mutates the dictionary of its own replica; cancel and *)
(* status requests arrive at any replica and go through _load.             *)
(*                                                                         *)
(* Every await is a point where another coroutine or replica may run: a    *)
(* _persist captures the dictionary when it is called (json.dumps) and     *)
(* reaches Redis one step later.                                           *)
(***************************************************************************)
EXTENDS Naturals

CONSTANTS
    Replicas,       \* processes of the application behind the gateway
    Clients,        \* HTTP requests made while the session lives, one each
    Kinds,          \* what those requests may ask for
    Phases,         \* bound on the phases the engine reports
    MaxCrashes,     \* bound on replica restarts
    StoreMayFail,   \* TRUE iff a Redis or MongoDB write may be lost
    Nobody          \* the replica of a session that was not started

ASSUME ThinkingAssumption ==
    /\ Phases \in Nat \ {0}
    /\ MaxCrashes \in Nat
    /\ StoreMayFail \in BOOLEAN
    /\ Nobody \notin Replicas
    /\ Kinds \subseteq {"status", "cancel", "record_cancel"}

VARIABLES
    mem,       \* mem[r]: the session dictionary cached by replica r
    redis,     \* the session dictionary in Redis
    record,    \* status of the query record in MongoDB
    chat,      \* roles of the messages the session added to the chat
    run,       \* where start_think and then _run_session are
    payload,   \* the copy the runner's pending _persist captured
    home,      \* replica that runs the session
    req,       \* req[c]: the state of client c's request
    crashes    \* restarts so far

vars == <<mem, redis, record, chat, run, payload, home, req, crashes>>

Final == {"completed", "failed", "cancelled"}

\* The parts of a session dictionary the properties tell apart: its status, the
\* number of phases reported in it, and whether it holds a deliverable.
Copy == [status : {"absent", "started", "in_progress"} \cup Final,
         done : 0..Phases, result : {"none", "text"}]

NoCopy == [status |-> "absent", done |-> 0, result |-> "none"]

Saving == {"save_started", "save_begun", "save_phase", "save_final"}

RunStep == Saving \cup {"idle", "link", "queued", "thinking", "say_user",
                        "say_assistant", "mark", "ended", "dead", "unanswered"}

ReqStep == {"idle", "loading", "saving", "marking", "checked",
            "answered", "acknowledged", "dead"}

Idle == [kind |-> "none", at |-> Nobody, step |-> "idle", copy |-> NoCopy]

\* Everything the stores and the requests can hold.
TypeOK ==
    /\ mem \in [Replicas -> Copy]
    /\ redis \in Copy
    /\ record \in {"pending", "running"} \cup Final
    /\ chat \subseteq {"user", "assistant"}
    /\ run \in RunStep
    /\ payload \in Copy
    /\ home \in Replicas \cup {Nobody}
    /\ req \in [Clients -> [kind : {"none"} \cup Kinds,
                            at : Replicas \cup {Nobody},
                            step : ReqStep, copy : Copy]]
    /\ crashes \in 0..MaxCrashes

\* The page has created the query record; the request to /think is next.
Init ==
    /\ mem = [r \in Replicas |-> NoCopy]
    /\ redis = NoCopy
    /\ record = "pending"
    /\ chat = {}
    /\ run = "idle"
    /\ payload = NoCopy
    /\ home = Nobody
    /\ req = [c \in Clients |-> Idle]
    /\ crashes = 0

-----------------------------------------------------------------------------
\* A best-effort write: the callers swallow every exception.
Written(old, new) == IF StoreMayFail THEN {old, new} ELSE {new}

Mutate(r, copy) == mem' = [mem EXCEPT ![r] = copy]

\* The runner changes its dictionary and calls _persist.
MutateAndSave(copy, step) ==
    /\ Mutate(home, copy)
    /\ payload' = copy
    /\ run' = step

(***************************************************************************)
(* start_think                                                             *)
(***************************************************************************)
StartThink(r) ==
    /\ run = "idle"
    /\ home' = r
    /\ LET new == [NoCopy EXCEPT !.status = "started"] IN
       /\ Mutate(r, new)
       /\ payload' = new
    /\ run' = "save_started"
    /\ UNCHANGED <<redis, record, chat, req, crashes>>

LinkRecord ==
    /\ run = "link"
    /\ record' \in Written(record, "running")
    /\ run' = "queued"
    /\ UNCHANGED <<mem, redis, chat, payload, home, req, crashes>>

(***************************************************************************)
(* _run_session                                                            *)
(***************************************************************************)
Begin ==
    /\ run = "queued"
    /\ MutateAndSave([mem[home] EXCEPT !.status = "in_progress"], "save_begun")
    /\ UNCHANGED <<redis, record, chat, home, req, crashes>>

\* on_event for the end of a phase; synthesize leaves a deliverable.
PhaseEnds ==
    /\ run = "thinking"
    /\ mem[home].done < Phases
    /\ \E result \in {mem[home].result, "text"} :
          MutateAndSave([mem[home] EXCEPT !.done = @ + 1, !.result = result],
                        "save_phase")
    /\ UNCHANGED <<redis, record, chat, home, req, crashes>>

\* Faulty variant: the final status goes to a copy of the dictionary.
CompletesInACopy ==
    /\ run = "thinking"
    /\ mem[home].done > 0
    /\ payload' = [mem[home] EXCEPT !.status = "completed"]
    /\ run' = "save_final"
    /\ UNCHANGED <<mem, redis, record, chat, home, req, crashes>>

\* engine.run returned; it may have skipped phases but reported the first.
Completes ==
    /\ run = "thinking"
    /\ mem[home].done > 0
    /\ MutateAndSave([mem[home] EXCEPT !.status = "completed"], "save_final")
    /\ UNCHANGED <<redis, record, chat, home, req, crashes>>

\* The engine is stopped while it thinks or while on_event persists; in the
\* second case the write may or may not have reached Redis.
StoppedAs(status) ==
    /\ run \in {"thinking", "save_phase"}
    /\ redis' \in IF run = "save_phase" THEN {redis, payload} ELSE {redis}
    /\ MutateAndSave([mem[home] EXCEPT !.status = status], "save_final")
    /\ UNCHANGED <<record, chat, home, req, crashes>>

\* Faulty variant: no ceiling on the engine's run.
NeverTimesOut == FALSE /\ UNCHANGED vars

\* The effort tier's ceiling, or an exception of the engine.
TimesOut == StoppedAs("failed")

\* The event loop cancels the task while it thinks ...
Interrupted == StoppedAs("cancelled")

\* ... or while it stores its results: the handler of the same try block makes a
\* completed session a cancelled one.  The dictionary is as it was captured, and
\* an abandoned stamp may have reached the record.
InterruptedLate ==
    /\ run \in {"save_final", "say_user", "say_assistant", "mark"}
    /\ payload.status = "completed"
    /\ record' \in IF run = "mark" THEN {record, "completed"} ELSE {record}
    /\ MutateAndSave([payload EXCEPT !.status = "cancelled"], "save_final")
    /\ UNCHANGED <<redis, chat, home, req, crashes>>

\* Faulty variant: the record is stamped before the messages are stored.
MarkFirst(step) ==
    CASE step = "save_started" -> "link"
      [] step \in {"save_begun", "save_phase"} -> "thinking"
      [] step = "save_final" -> "mark"

\* What the runner does once its _persist returned.
AfterSave(step) ==
    CASE step = "save_started" -> "link"
      [] step \in {"save_begun", "save_phase"} -> "thinking"
      [] step = "save_final" ->
            IF payload.status = "completed" THEN "say_user" ELSE "mark"

Persist ==
    /\ run \in Saving
    /\ redis' \in Written(redis, payload)
    /\ run' = AfterSave(run)
    /\ UNCHANGED <<mem, record, chat, payload, home, req, crashes>>

SayUser ==
    /\ run = "say_user"
    /\ chat' \in Written(chat, chat \cup {"user"})
    /\ run' = "say_assistant"
    /\ UNCHANGED <<mem, redis, record, payload, home, req, crashes>>

\* persist_assistant_message returns at once when there is no content.
SayAssistant ==
    /\ run = "say_assistant"
    /\ chat' \in IF payload.result = "text"
                 THEN Written(chat, chat \cup {"assistant"})
                 ELSE {chat}
    /\ run' = "mark"
    /\ UNCHANGED <<mem, redis, record, payload, home, req, crashes>>

\* Faulty variant: the record gets the name of the SSE event of a failure.
MarkAsError ==
    /\ run = "mark"
    /\ record' = IF payload.status = "failed" THEN "error" ELSE payload.status
    /\ run' = "ended"
    /\ UNCHANGED <<mem, redis, chat, payload, home, req, crashes>>

Mark ==
    /\ run = "mark"
    /\ record' \in Written(record, payload.status)
    /\ run' = "ended"
    /\ UNCHANGED <<mem, redis, chat, payload, home, req, crashes>>

-----------------------------------------------------------------------------
(***************************************************************************)
(* Requests.  A client learns the session's id from start_think's answer.  *)
(***************************************************************************)
Known == run \notin {"idle", "save_started", "link", "unanswered"}

Request(c, step, copy) ==
    req' = [req EXCEPT ![c].step = step, ![c].copy = copy]

Open(c, kind, r, step, copy) ==
    req' = [req EXCEPT ![c] = [kind |-> kind, at |-> r, step |-> step,
                               copy |-> copy]]

\* Faulty variant: cancel_thinking without its test of the final statuses.
CancelOpenNoTest(copy) == copy.status # "absent"

\* cancel_thinking goes on unless the dictionary it loaded is final.
CancelOpen(copy) == copy.status \notin Final

Cancelled(copy) == [copy EXCEPT !.status = "cancelled"]

\* get_status or cancel_thinking at a replica that has the session in memory:
\* there is no await between the load and the end of the test and update.
AskHit(c, r) ==
    /\ Known
    /\ req[c].step = "idle"
    /\ mem[r] # NoCopy
    /\ \/ /\ "status" \in Kinds
          /\ Open(c, "status", r, "answered", mem[r])
          /\ UNCHANGED mem
       \/ /\ "cancel" \in Kinds
          /\ CancelOpen(mem[r])
          /\ Mutate(r, Cancelled(mem[r]))
          /\ Open(c, "cancel", r, "saving", Cancelled(mem[r]))
       \/ /\ "cancel" \in Kinds
          /\ ~CancelOpen(mem[r])
          /\ Open(c, "cancel", r, "answered", mem[r])
          /\ UNCHANGED mem
    /\ UNCHANGED <<redis, record, chat, run, payload, home, crashes>>

\* The same at a replica that has to read Redis.
AskMiss(c, r) ==
    /\ Known
    /\ req[c].step = "idle"
    /\ mem[r] = NoCopy
    /\ \E kind \in Kinds \ {"record_cancel"} : Open(c, kind, r, "loading", redis)
    /\ UNCHANGED <<mem, redis, record, chat, run, payload, home, crashes>>

\* The answer of Redis is cached in _sessions, whatever is there by now.
Loaded(c) ==
    LET copy == req[c].copy
        cancels == req[c].kind = "cancel" /\ copy # NoCopy /\ CancelOpen(copy)
    IN  /\ req[c].step = "loading"
        /\ \/ /\ cancels
              /\ Mutate(req[c].at, Cancelled(copy))
              /\ Request(c, "saving", Cancelled(copy))
           \/ /\ ~cancels
              /\ IF copy = NoCopy THEN UNCHANGED mem ELSE Mutate(req[c].at, copy)
              /\ Request(c, "answered", copy)
        /\ UNCHANGED <<redis, record, chat, run, payload, home, crashes>>

CancelPersist(c) ==
    /\ req[c].step = "saving"
    /\ redis' \in Written(redis, req[c].copy)
    /\ Request(c, "marking", req[c].copy)
    /\ UNCHANGED <<mem, record, chat, run, payload, home, crashes>>

\* mark_query_cancelled, and the answer {"cancelled": True}.
CancelMark(c) ==
    /\ req[c].step = "marking"
    /\ record' \in Written(record, "cancelled")
    /\ Request(c, "acknowledged", req[c].copy)
    /\ UNCHANGED <<mem, redis, chat, run, payload, home, crashes>>

\* cancel_query_record reads the record ...
RecordCancelRead(c, r) ==
    /\ "record_cancel" \in Kinds
    /\ req[c].step = "idle"
    /\ Open(c, "record_cancel", r,
            IF record \in Final THEN "answered" ELSE "checked", NoCopy)
    /\ UNCHANGED <<mem, redis, record, chat, run, payload, home, crashes>>

\* ... and updates it after an await, whatever it says by then.
RecordCancelWrite(c) ==
    /\ req[c].step = "checked"
    /\ record' \in Written(record, "cancelled")
    /\ Request(c, "acknowledged", NoCopy)
    /\ UNCHANGED <<mem, redis, chat, run, payload, home, crashes>>

-----------------------------------------------------------------------------
\* A replica restarts: its cache, its background task and its requests are
\* gone, and nothing in the application looks for them again.
Crash(r) ==
    /\ crashes < MaxCrashes
    /\ crashes' = crashes + 1
    /\ Mutate(r, NoCopy)
    /\ run' = IF home # r \/ run \in {"ended", "dead", "unanswered"} THEN run
              ELSE IF Known THEN "dead" ELSE "unanswered"
    /\ req' = [c \in Clients |->
                 IF req[c].at = r /\ req[c].step \in
                       {"loading", "saving", "marking", "checked"}
                 THEN [req[c] EXCEPT !.step = "dead"] ELSE req[c]]
    /\ UNCHANGED <<redis, record, chat, payload, home>>

Run == \/ \E r \in Replicas : StartThink(r)
       \/ LinkRecord \/ Begin \/ PhaseEnds \/ Completes \/ TimesOut \/ Interrupted
       \/ InterruptedLate \/ Persist \/ SayUser \/ SayAssistant \/ Mark

Serve(c) == \/ \E r \in Replicas : AskHit(c, r) \/ AskMiss(c, r) \/ RecordCancelRead(c, r)
            \/ Loaded(c) \/ CancelPersist(c) \/ CancelMark(c) \/ RecordCancelWrite(c)

Next == Run \/ (\E c \in Clients : Serve(c)) \/ (\E r \in Replicas : Crash(r))

Spec == Init /\ [][Next]_vars

\* Scheduled coroutines make progress and the ceiling of wait_for expires.
\* PhaseEnds and Completes have no fairness: the model service may hang.
Fairness ==
    /\ WF_vars(LinkRecord) /\ WF_vars(Begin) /\ WF_vars(TimesOut)
    /\ WF_vars(Persist) /\ WF_vars(SayUser) /\ WF_vars(SayAssistant) /\ WF_vars(Mark)

FairSpec == Spec /\ Fairness

-----------------------------------------------------------------------------
(* Properties *)

\* A query record that says "completed" is one whose answer is in the chat: the
\* page that stops polling on it finds the messages (_run_session, 488-541).
RecordAfterHistory ==
    record = "completed" =>
        /\ "user" \in chat
        /\ payload.result = "text" => "assistant" \in chat

\* On the replica that runs the session the outcome in memory is settled: once
\* completed or failed, neither a cancel nor a late load changes it, as long as
\* no replica restarted (cancel_thinking tests and sets without an await, and
\* _load never reads Redis for a session it has in memory).  Only the event
\* loop, which cancels the runner itself, turns it into "cancelled".
HomeOutcomeSettled ==
    [][\A r \in Replicas :
          r = home /\ mem[r].status \in {"completed", "failed"} /\ crashes' = 0
             => mem'[r] = mem[r] \/ (req' = req /\ mem'[r].status = "cancelled")]_vars

Quiet == /\ run = "ended"
         /\ \A c \in Clients : req[c].step \in {"idle", "answered", "acknowledged"}

\* When the pipeline has ended and no request is in flight, both stores carry a
\* final status, whatever the cancels overwrote in between.
QuietIsFinal == Quiet => record \in Final /\ redis.status \in Final

\* A run nobody cancelled leaves the same outcome in the record, in Redis and in
\* the memory of its replica, unless that has restarted since.
OutcomeAgrees ==
    Quiet /\ (\A c \in Clients : req[c].step # "acknowledged")
       => record = redis.status /\ mem[home].status \in {record, "absent"}

\* Both: what is left once everything is quiet is final and consistent.
QuietIsSettled == QuietIsFinal /\ OutcomeAgrees

\* A started session ends even when the model service never answers and the
\* stores lose writes: the effort ceiling stops it (_run_session, 452-469).
PipelineEnds == (run = "save_started") ~> (run = "ended")

\* "Redis remains the durable store; this dict is only a hot cache": a result
\* that reached Redis is not replaced by a request with a replica's older copy.
ResultStays ==
    [][redis.status = "completed" /\ req' # req => redis'.done >= redis.done
                                     /\ redis'.status = "completed"]_vars

=============================================================================
