--------------------------- MODULE ResearchSession ---------------------------
(***************************************************************************)
(* One research session of api/local_ai_routes_simple.py on an application *)
(* of several replicas, with the lifetimes of its copies.  The background  *)
(* task execute_advanced_research holds the session dictionary it found in *)
(* research_sessions, a TTL cache whose clock starts when an entry is put  *)
(* there; Redis holds what _persist_session wrote, with a clock that every *)
(* write restarts.  Requests reach any replica and go through              *)
(* _load_session, which caches what it reads from Redis.                   *)
(*                                                                         *)
(* Once the cache has dropped the dictionary the task goes on with it: a   *)
(* request then loads a copy, and the two are different objects.           *)
(*                                                                         *)
(* Every write to Redis, to the chat and to the record is best effort: an  *)
(* error is logged and the code goes on as if the write had been made.     *)
(***************************************************************************)
EXTENDS Naturals

CONSTANTS
    ResearchReplicas,
    ResearchClients,    \* one request of the owner each
    Asks,               \* what the requests may ask for
    ResearchPhases,     \* bound on the phase events
    RedisTTL,           \* SESSION_CACHE_TTL_SECONDS, in ticks of the clock
    CacheTTL,           \* lifetime of an entry of research_sessions
    Nowhere             \* the replica of a session that was not started

ASSUME ResearchAssumption ==
    /\ ResearchPhases \in Nat \ {0}
    /\ RedisTTL \in Nat \ {0, 1} /\ CacheTTL \in Nat
    /\ CacheTTL > RedisTTL
    /\ Nowhere \notin ResearchReplicas
    /\ Asks \subseteq {"status", "cancel"}

VARIABLES
    session,    \* the dictionary the background task holds
    cache,      \* cache[r]: replica r's entry of research_sessions
    shared,     \* TRUE iff the entry of the task's replica is that dictionary
    age,        \* age[r]: ticks since the entry was made
    stored,     \* the copy in Redis
    storedAge,  \* ticks since it was written
    research,   \* status of the query record
    history,    \* messages added to the chat
    task,       \* where start_research and then the background task are
    saved,      \* the copy its pending _persist_session captured
    site,       \* replica of the task
    ask,        \* ask[c]: the state of client c's request
    lost        \* of the task's last write to each place, those that failed

sessionVars == <<session, cache, shared, age, stored, storedAge, research, history,
                 task, saved, site, ask, lost>>

Outcome == {"completed", "failed", "cancelled"}

Dict == [status : {"absent", "started", "in_progress"} \cup Outcome,
         done : 0..ResearchPhases, report : BOOLEAN]

Absent == [status |-> "absent", done |-> 0, report |-> FALSE]

Persisting == {"persist_started", "persist_begun", "persist_event", "persist_outcome"}

NoAsk == [kind |-> "none", at |-> Nowhere, step |-> "idle", copy |-> Absent]

ResearchTypeOK ==
    /\ session \in Dict
    /\ cache \in [ResearchReplicas -> Dict]
    /\ shared \in BOOLEAN
    /\ age \in [ResearchReplicas -> 0..CacheTTL]
    /\ stored \in Dict
    /\ storedAge \in 0..RedisTTL
    /\ research \in {"pending", "running"} \cup Outcome
    /\ history \subseteq {"user", "assistant"}
    /\ task \in Persisting \cup {"idle", "link", "queued", "running", "publish",
                                 "say_user", "say_assistant", "mark", "ended", "dropped"}
    /\ saved \in Dict
    /\ site \in ResearchReplicas \cup {Nowhere}
    /\ ask \in [ResearchClients ->
                  [kind : {"none"} \cup Asks, at : ResearchReplicas \cup {Nowhere},
                   step : {"idle", "loading", "persist", "mark", "answered",
                           "acknowledged"}, copy : Dict]]
    /\ lost \subseteq {"redis", "user", "assistant", "record"}

ResearchInit ==
    /\ session = Absent
    /\ cache = [r \in ResearchReplicas |-> Absent]
    /\ shared = FALSE
    /\ age = [r \in ResearchReplicas |-> 0]
    /\ stored = Absent
    /\ storedAge = 0
    /\ research = "pending"
    /\ history = {}
    /\ task = "idle"
    /\ saved = Absent
    /\ site = Nowhere
    /\ ask = [c \in ResearchClients |-> NoAsk]
    /\ lost = {}

-----------------------------------------------------------------------------
\* The task's change of its dictionary, seen in the cache while that holds it.
Update(dict) ==
    /\ session' = dict
    /\ cache' = IF shared THEN [cache EXCEPT ![site] = dict] ELSE cache

\* A request's change of the entry it found or made at r.
UpdateEntry(r, dict) ==
    /\ cache' = [cache EXCEPT ![r] = dict]
    /\ session' = IF shared /\ r = site THEN dict ELSE session

Write(dict) == stored' = dict /\ storedAge' = 0

\* What a best-effort write leaves: it is made, or its error is swallowed.
Made(place) == lost' = lost \ {place}
Swallowed(place) == lost' = lost \cup {place}

\* start_research, once the model is ready: without it nothing is stored.
StartResearch(r) ==
    /\ task = "idle"
    /\ site' = r
    /\ session' = [Absent EXCEPT !.status = "started"]
    /\ cache' = [cache EXCEPT ![r] = session']
    /\ age' = [age EXCEPT ![r] = 0]
    /\ shared' = TRUE
    /\ saved' = session'
    /\ task' = "persist_started"
    /\ UNCHANGED <<stored, storedAge, research, history, ask, lost>>

\* The record gets the session's id and "running"; then the task is queued and
\* the client answered.
LinkResearchRecord ==
    /\ task = "link"
    /\ research' \in {"running", research}
    /\ task' = "queued"
    /\ UNCHANGED <<session, cache, shared, age, stored, storedAge, history, saved, site,
                   ask, lost>>

\* execute_advanced_research takes what research_sessions has under the id.
BeginResearch ==
    /\ task = "queued"
    /\ cache[site] # Absent
    /\ session' = [cache[site] EXCEPT !.status = "in_progress"]
    /\ cache' = [cache EXCEPT ![site] = session']
    /\ shared' = TRUE
    /\ saved' = session'
    /\ task' = "persist_begun"
    /\ UNCHANGED <<age, stored, storedAge, research, history, site, ask, lost>>

\* "if session is None: return": the entry was dropped before the task began.
BeginFindsNothing ==
    /\ task = "queued"
    /\ cache[site] = Absent
    /\ task' = "dropped"
    /\ UNCHANGED <<session, cache, shared, age, stored, storedAge, research, history,
                   saved, site, ask, lost>>

\* on_event for a phase.
PhaseReported ==
    /\ task = "running"
    /\ session.done < ResearchPhases
    /\ Update([session EXCEPT !.done = @ + 1])
    /\ saved' = session'
    /\ task' = "persist_event"
    /\ UNCHANGED <<shared, age, stored, storedAge, research, history, site, ask, lost>>

\* researcher.run() returned a report.
ResearchCompletes ==
    /\ task = "running"
    /\ session.done = ResearchPhases
    /\ Update([session EXCEPT !.status = "completed", !.report = TRUE])
    /\ saved' = session'
    /\ task' = "persist_outcome"
    /\ UNCHANGED <<shared, age, stored, storedAge, research, history, site, ask, lost>>

\* run() did not return, while the pipeline worked or while on_event persisted;
\* the abandoned write may have reached Redis.
StopsWith(outcome) ==
    /\ task \in {"running", "persist_event"}
    /\ \/ UNCHANGED <<stored, storedAge>>
       \/ task = "persist_event" /\ Write(saved)
    /\ Update([session EXCEPT !.status = outcome])
    /\ saved' = session'
    /\ task' = "persist_outcome"
    /\ UNCHANGED <<shared, age, research, history, site, ask, lost>>

\* The depth's ceiling expired or the pipeline raised.
ResearchFails == StopsWith("failed")

\* CancelledError: the server cancelled the background task.  (cancel_research
\* does not: it has no handle on the task.)
ResearchCancelled == StopsWith("cancelled")

PersistSession ==
    /\ task \in Persisting
    /\ \/ Write(saved) /\ Made("redis")
       \/ UNCHANGED <<stored, storedAge>> /\ Swallowed("redis")
    /\ task' = CASE task = "persist_started" -> "link"
                 [] task \in {"persist_begun", "persist_event"} -> "running"
                 [] task = "persist_outcome" ->
                       IF saved.status = "completed" THEN "say_user" ELSE "mark"
    /\ UNCHANGED <<session, cache, shared, age, research, history, saved, site, ask>>

\* persist_user_message and persist_assistant_message.
Say(role) ==
    /\ \/ history' = history \cup {role} /\ Made(role)
       \/ history' = history /\ Swallowed(role)
    /\ UNCHANGED <<session, cache, shared, age, stored, storedAge, research, saved, site, ask>>

SayQuestion ==
    /\ task = "say_user"
    /\ Say("user")
    /\ task' = "say_assistant"

SayReport ==
    /\ task = "say_assistant"
    /\ Say("assistant")
    /\ task' = "mark"

\* update_query_record with the status.
MarkQuery(status) ==
    /\ \/ research' = status /\ Made("record")
       \/ research' = research /\ Swallowed("record")
    /\ UNCHANGED <<session, cache, shared, age, stored, storedAge, history, saved, site, ask>>

\* Faulty variant: the record gets the status the dictionary has by now.
MarkWithCurrent ==
    /\ task = "mark"
    /\ MarkQuery(IF cache[site] = Absent THEN session.status ELSE cache[site].status)
    /\ task' = "ended"

\* mark_query_completed, mark_query_failed or mark_query_cancelled.
MarkRecord ==
    /\ task = "mark"
    /\ MarkQuery(saved.status)
    /\ task' = "ended"

-----------------------------------------------------------------------------
(* Requests of the owner, who knows the id from start_research's answer *)

IdKnown == task \notin {"idle", "persist_started", "link"}

Ask(c, kind, r, step, copy) ==
    ask' = [ask EXCEPT ![c] = [kind |-> kind, at |-> r, step |-> step, copy |-> copy]]

Stopped(dict) == [dict EXCEPT !.status = "cancelled"]

\* get_research_status, get_research_result or cancel_research with the session
\* they found: there is no await between the load and the answer or the update.
Handle(c, kind, r, dict) ==
    \/ /\ kind = "status" \/ dict.status \in Outcome
       /\ Ask(c, kind, r, "answered", dict)
       /\ UpdateEntry(r, dict)
    \/ /\ kind = "cancel" /\ dict.status \notin Outcome
       /\ Ask(c, kind, r, "persist", Stopped(dict))
       /\ UpdateEntry(r, Stopped(dict))

AskCached(c, r) ==
    /\ IdKnown
    /\ ask[c].step = "idle"
    /\ cache[r] # Absent
    /\ \E kind \in Asks : Handle(c, kind, r, cache[r])
    /\ UNCHANGED <<shared, age, stored, storedAge, research, history, task, saved, site, lost>>

\* A session neither cached nor in Redis is answered with 404, and so is one that
\* Redis fails to return.
AskRedis(c, r) ==
    /\ IdKnown
    /\ ask[c].step = "idle"
    /\ cache[r] = Absent
    /\ \E kind \in Asks, read \in {stored, Absent} :
          Ask(c, kind, r, IF read = Absent THEN "answered" ELSE "loading", read)
    /\ UNCHANGED <<session, cache, shared, age, stored, storedAge, research, history,
                   task, saved, site, lost>>

\* What Redis answered becomes the entry of the replica, a new object.
AskLoaded(c) ==
    LET r == ask[c].at IN
    /\ ask[c].step = "loading"
    /\ \/ /\ ask[c].kind = "status" \/ ask[c].copy.status \in Outcome
          /\ Ask(c, ask[c].kind, r, "answered", ask[c].copy)
          /\ cache' = [cache EXCEPT ![r] = ask[c].copy]
       \/ /\ ask[c].kind = "cancel" /\ ask[c].copy.status \notin Outcome
          /\ Ask(c, ask[c].kind, r, "persist", Stopped(ask[c].copy))
          /\ cache' = [cache EXCEPT ![r] = Stopped(ask[c].copy)]
    /\ age' = [age EXCEPT ![r] = 0]
    /\ shared' = (shared /\ r # site)
    /\ UNCHANGED <<session, stored, storedAge, research, history, task, saved, site, lost>>

CancelSaved(c) ==
    /\ ask[c].step = "persist"
    /\ Write(ask[c].copy) \/ UNCHANGED <<stored, storedAge>>
    /\ ask' = [ask EXCEPT ![c].step = "mark"]
    /\ UNCHANGED <<session, cache, shared, age, research, history, task, saved, site, lost>>

CancelMarked(c) ==
    /\ ask[c].step = "mark"
    /\ research' \in {"cancelled", research}
    /\ ask' = [ask EXCEPT ![c].step = "acknowledged"]
    /\ UNCHANGED <<session, cache, shared, age, stored, storedAge, history, task, saved,
                   site, lost>>

-----------------------------------------------------------------------------
(* Time *)

Working == task \notin {"idle", "ended", "dropped"}

\* Old entries disappear from the caches and from Redis.  While the task works
\* an event is persisted at least every RedisTTL, if Redis takes it.
ResearchTick ==
    /\ Working /\ "redis" \notin lost => storedAge + 1 < RedisTTL
    /\ LET older == [r \in ResearchReplicas |-> IF cache[r] = Absent THEN 0 ELSE age[r] + 1]
       IN  /\ age' = [r \in ResearchReplicas |-> IF older[r] = CacheTTL THEN 0 ELSE older[r]]
           /\ cache' = [r \in ResearchReplicas |->
                          IF older[r] = CacheTTL THEN Absent ELSE cache[r]]
           /\ shared' = (shared /\ older[site] < CacheTTL)
    /\ IF stored = Absent \/ storedAge + 1 = RedisTTL
       THEN stored' = Absent /\ storedAge' = 0
       ELSE stored' = stored /\ storedAge' = storedAge + 1
    /\ UNCHANGED <<session, research, history, task, saved, site, ask, lost>>

RunTask == \/ \E r \in ResearchReplicas : StartResearch(r)
           \/ LinkResearchRecord \/ BeginResearch \/ BeginFindsNothing \/ PhaseReported
           \/ ResearchCompletes \/ ResearchFails \/ ResearchCancelled \/ PersistSession
           \/ SayQuestion \/ SayReport \/ MarkRecord

ServeAsk(c) == \/ \E r \in ResearchReplicas : AskCached(c, r) \/ AskRedis(c, r)
               \/ AskLoaded(c) \/ CancelSaved(c) \/ CancelMarked(c)

ResearchSessionNext == RunTask \/ (\E c \in ResearchClients : ServeAsk(c)) \/ ResearchTick

ResearchSessionSpec == ResearchInit /\ [][ResearchSessionNext]_sessionVars

-----------------------------------------------------------------------------
(* Properties *)

\* A record that says "completed" has its question and its report in the chat
\* but for a message whose own write failed, although cancels of other replicas
\* and the expiry of the caches come between: the record is marked last.
ReportInHistory ==
    research = "completed" => {"user", "assistant"} \subseteq history \cup lost

\* The task has the last word unless a cancel was acknowledged: with the task
\* over and no request pending, the record and, while it lasts, the copy in
\* Redis carry the outcome of the run, whatever copies other replicas cached and
\* whichever earlier writes were lost, unless the very write of it failed.
OutcomeStands ==
    /\ task = "ended"
    /\ \A c \in ResearchClients : ask[c].step \in {"idle", "answered"}
    => /\ research = session.status \/ "record" \in lost
       /\ stored \in {session, Absent} \/ "redis" \in lost

\* Both: the report stands where its reader looks for it.
ReportStands == ReportInHistory /\ OutcomeStands

\* A cancel_research came before the last phase began.
CancelInTime ==
    \E c \in ResearchClients :
       /\ ask[c].kind = "cancel" /\ ask[c].copy.status = "cancelled"
       /\ ask[c].copy.done + 1 < ResearchPhases

\* "The pipeline checks session["cancel_requested"] between phases and raises
\* CancelledError when set": a session its task's own replica cancelled while
\* the pipeline ran, with phases still to come, does not become a completed one.
CancelIsFinal ==
    [][session.status = "cancelled" /\ CancelInTime
         => session'.status # "completed"]_sessionVars

=============================================================================
