----------------------------- MODULE EventStream -----------------------------
(***************************************************************************)
(* The server-sent events of one session (api/thinking_routes.py, and the  *)
(* same code in api/local_ai_routes_simple.py): the runner publishes       *)
(* events 1..Events, the last of them "done", to the queue of its own      *)
(* replica and to a Redis channel; every open stream reads the queue of    *)
(* its replica, into which a pump task of its own copies what it hears on  *)
(* the channel, and drops the event ids it has seen.  A request to cancel  *)
(* publishes one more event, from any replica; the runner does not notice. *)
(*                                                                         *)
(* The steps are those between two awaits.  Queue objects have an identity *)
(* because _event_queues forgets a queue that an open stream still reads;  *)
(* an identity that nothing refers to any more is used again.              *)
(***************************************************************************)
EXTENDS Naturals, Sequences, FiniteSets

CONSTANTS
    Replicas,     \* processes of the application
    Home,         \* the one that runs the session
    Streams,      \* connections to /events, each used once
    Events,       \* number of events; the last one is "done"
    QueueMax,     \* _EVENT_QUEUE_MAXSIZE
    SeenMax       \* length of seen_ids, which is the smaller one

ASSUME EventStreamAssumption ==
    /\ Home \in Replicas
    /\ {Events, QueueMax, SeenMax} \subseteq Nat \ {0}
    /\ SeenMax < QueueMax

VARIABLES
    put,      \* events put in the local queue so far
    fanned,   \* events published to Redis so far
    lost,     \* those whose publication failed (history)
    finals,   \* the runner's last steps: "none", "set" or "persisted"
    status,   \* the session's status at its replica
    redis,    \* the session's status in Redis
    cached,   \* cached[r]: the status in replica r's _sessions
    queues,   \* queues[q]: the events in queue q
    current,  \* current[r]: the queue of r's _event_queues, 0 for none
    stream,   \* stream[s]: the state of connection s
    cancel    \* where cancel_thinking is, and at which replica

vars == <<put, fanned, lost, finals, status, redis, cached, queues, current, stream,
          cancel>>

Closed == [step |-> "idle", at |-> Home, queue |-> 0, pump |-> "none",
           heard |-> <<>>, seen |-> <<>>, got |-> <<>>]

\* The events of the runner, and the one of cancel_thinking.
CancelledId == Events + 1
Ids == 1..CancelledId

Terminal == {"completed", "cancelled"}

\* Enough identities: each replica and each stream refers to one queue at most.
QueueId == 1..(Cardinality(Replicas) + Cardinality(Streams))

\* A stream's pump is absent, not yet subscribed, or subscribed.
TypeOK ==
    /\ put \in 0..Events
    /\ fanned \in 0..put
    /\ lost \subseteq (1..fanned) \cup {CancelledId}
    /\ finals \in {"none", "set", "persisted"}
    /\ {status, redis} \subseteq {"in_progress"} \cup Terminal
    /\ cached \in [Replicas -> {"absent", "in_progress"} \cup Terminal]
    /\ DOMAIN queues = QueueId
    /\ \A q \in QueueId : queues[q] \in Seq(Ids) /\ Len(queues[q]) <= QueueMax
    /\ current \in [Replicas -> QueueId \cup {0}]
    /\ \A s \in Streams :
          /\ stream[s].step \in {"idle", "accepted", "open", "closing", "closed"}
          /\ stream[s].at \in Replicas
          /\ stream[s].queue \in QueueId \cup {0}
          /\ stream[s].pump \in {"none", "starting", "subscribed"}
          /\ Len(stream[s].seen) <= SeenMax
    /\ cancel \in [step : {"none", "persist", "put", "fan", "over"}, at : Replicas]

Init ==
    /\ put = 0
    /\ fanned = 0
    /\ lost = {}
    /\ finals = "none"
    /\ status = "in_progress"
    /\ redis = "in_progress"
    /\ cached = [r \in Replicas |-> "absent"]
    /\ queues = [q \in QueueId |-> <<>>]
    /\ current = [r \in Replicas |-> 0]
    /\ stream = [s \in Streams |-> Closed]
    /\ cancel = [step |-> "none", at |-> Home]

-----------------------------------------------------------------------------
(* _event_queues *)

Read(q) == \E s \in Streams : stream[s].queue = q

Registered(q, replicas) == \E r \in replicas : current[r] = q

\* What is in a queue that nothing refers to is gone.
Content(q) == IF Read(q) \/ Registered(q, Replicas) THEN queues[q] ELSE <<>>

\* _event_queue: the queue of the replica, a new one when there is none.
QueueOf(r) == IF current[r] # 0 THEN current[r]
              ELSE CHOOSE q \in QueueId : ~Read(q) /\ ~Registered(q, Replicas)

\* _event_queues.pop
Forget(r) ==
    /\ current' = [current EXCEPT ![r] = 0]
    /\ queues' = [q \in QueueId |->
          IF Read(q) \/ Registered(q, Replicas \ {r}) THEN queues[q] ELSE <<>>]

-----------------------------------------------------------------------------
(* _publish, in two halves *)

\* put_nowait, dropping the oldest event of a full queue.
Push(q, e) == IF Len(q) < QueueMax THEN Append(q, e) ELSE Append(Tail(q), e)

\* The first half: the queue of the replica.
PutAt(r, e) ==
    /\ queues' = [queues EXCEPT ![QueueOf(r)] = Push(Content(QueueOf(r)), e)]
    /\ current' = [current EXCEPT ![r] = QueueOf(r)]

\* The second half: every subscribed pump hears the event, in order, or Redis
\* fails, which publish_event hides.
FanOut(e) ==
    \/ /\ stream' = [s \in Streams |->
             IF stream[s].pump = "subscribed"
             THEN [stream[s] EXCEPT !.heard = Append(@, e)]
             ELSE stream[s]]
       /\ UNCHANGED lost
    \/ lost' = lost \cup {e} /\ UNCHANGED stream

-----------------------------------------------------------------------------
(* The runner *)

\* _run_session sets the final status, persists it, and then publishes "done".
SetFinal ==
    /\ finals = "none"
    /\ fanned = Events - 1
    /\ finals' = "set"
    /\ status' = "completed"
    /\ UNCHANGED <<put, fanned, lost, redis, cached, queues, current, stream, cancel>>

PersistFinal ==
    /\ finals = "set"
    /\ finals' = "persisted"
    /\ redis' = "completed"
    /\ UNCHANGED <<put, fanned, lost, status, cached, queues, current, stream, cancel>>

RunnerPuts ==
    /\ put = fanned
    /\ put + 1 < Events \/ (put + 1 = Events /\ finals = "persisted")
    /\ put' = put + 1
    /\ PutAt(Home, put')
    /\ UNCHANGED <<fanned, lost, finals, status, redis, cached, stream, cancel>>

RunnerFansOut ==
    /\ fanned < put
    /\ fanned' = put
    /\ FanOut(put)
    /\ UNCHANGED <<put, finals, status, redis, cached, queues, current, cancel>>

-----------------------------------------------------------------------------
(* cancel_thinking *)

\* _load at replica r.
Load(r) == IF r = Home THEN status
           ELSE IF cached[r] # "absent" THEN cached[r] ELSE redis

\* A request finds the session at r and, unless it is over, marks r's copy.
CancelBegins(r) ==
    /\ cancel.step = "none"
    /\ Load(r) \notin Terminal
    /\ cancel' = [step |-> "persist", at |-> r]
    /\ status' = IF r = Home THEN "cancelled" ELSE status
    /\ cached' = IF r = Home THEN cached ELSE [cached EXCEPT ![r] = "cancelled"]
    /\ UNCHANGED <<put, fanned, lost, finals, redis, queues, current, stream>>

CancelPersists ==
    /\ cancel.step = "persist"
    /\ cancel' = [cancel EXCEPT !.step = "put"]
    /\ redis' = "cancelled"
    /\ UNCHANGED <<put, fanned, lost, finals, status, cached, queues, current, stream>>

CancelPuts ==
    /\ cancel.step = "put"
    /\ cancel' = [cancel EXCEPT !.step = "fan"]
    /\ PutAt(cancel.at, CancelledId)
    /\ UNCHANGED <<put, fanned, lost, finals, status, redis, cached, stream>>

CancelFansOut ==
    /\ cancel.step = "fan"
    /\ cancel' = [cancel EXCEPT !.step = "over"]
    /\ FanOut(CancelledId)
    /\ UNCHANGED <<put, fanned, finals, status, redis, cached, queues, current>>

-----------------------------------------------------------------------------
(* The streams *)

\* stream_events loads the session, which leaves a copy of it at the replica.
Connect(s, r) ==
    /\ stream[s].step = "idle"
    /\ stream' = [stream EXCEPT ![s].step = "accepted", ![s].at = r]
    /\ cached' = [cached EXCEPT ![r] = IF r = Home THEN @ ELSE Load(r)]
    /\ UNCHANGED <<put, fanned, lost, finals, status, redis, queues, current, cancel>>

\* The stream's loop is over: event_stream cancels its pump and awaits it.
Leave(st) == [st EXCEPT !.step = "closing", !.queue = 0, !.pump = "none",
                        !.heard = <<>>, !.seen = <<>>]

\* event_stream takes the replica's queue, starts its pump and sends the
\* snapshot; a session that is already over ends the stream.
OpenStream(s) ==
    LET r == stream[s].at
        q == QueueOf(r)
    IN  /\ stream[s].step = "accepted"
        /\ queues' = [queues EXCEPT ![q] = Content(q)]
        /\ current' = [current EXCEPT ![r] = q]
        /\ stream' = [stream EXCEPT ![s] =
              IF Load(r) = "completed" THEN Leave(@)
              ELSE [@ EXCEPT !.step = "open", !.queue = q, !.pump = "starting"]]
        /\ UNCHANGED <<put, fanned, lost, finals, status, redis, cached, cancel>>

\* The subscription of the pump task reaches Redis.
Subscribe(s) ==
    /\ stream[s].pump = "starting"
    /\ stream' = [stream EXCEPT ![s].pump = "subscribed"]
    /\ UNCHANGED <<put, fanned, lost, finals, status, redis, cached, queues, current,
                   cancel>>

\* subscribe_events ends silently on a Redis error, and the pump with it.
PumpDies(s) ==
    /\ stream[s].pump # "none"
    /\ stream' = [stream EXCEPT ![s].pump = "none", ![s].heard = <<>>]
    /\ UNCHANGED <<put, fanned, lost, finals, status, redis, cached, queues, current,
                   cancel>>

\* Faulty variant: the pump puts its event without waiting for room.
PumpUnbounded(s) ==
    LET q == stream[s].queue
    IN  /\ stream[s].heard # <<>>
        /\ queues' = [queues EXCEPT ![q] = Append(@, Head(stream[s].heard))]
        /\ stream' = [stream EXCEPT ![s].heard = Tail(@)]
        /\ UNCHANGED <<put, fanned, lost, finals, status, redis, cached, current, cancel>>

\* Faulty variant: the pump makes room the way _publish does.
PumpDropsOldest(s) ==
    LET q == stream[s].queue
    IN  /\ stream[s].heard # <<>>
        /\ queues' = [queues EXCEPT ![q] = Push(@, Head(stream[s].heard))]
        /\ stream' = [stream EXCEPT ![s].heard = Tail(@)]
        /\ UNCHANGED <<put, fanned, lost, finals, status, redis, cached, current, cancel>>

\* queue.put waits for room.
Pump(s) ==
    LET q == stream[s].queue
    IN  /\ stream[s].heard # <<>>
        /\ Len(queues[q]) < QueueMax
        /\ queues' = [queues EXCEPT ![q] = Append(@, Head(stream[s].heard))]
        /\ stream' = [stream EXCEPT ![s].heard = Tail(@)]
        /\ UNCHANGED <<put, fanned, lost, finals, status, redis, cached, current, cancel>>

Latest(seq) == IF Len(seq) <= SeenMax THEN seq ELSE Tail(seq)

Fresh(s, e) == \A i \in DOMAIN stream[s].seen : stream[s].seen[i] # e

\* A stream takes an event from its queue: seen before, new, or the last one.
Receive(s) ==
    LET q == stream[s].queue
        e == Head(queues[q])
    IN  /\ stream[s].step = "open"
        /\ queues[q] # <<>>
        /\ queues' = [queues EXCEPT ![q] = Tail(@)]
        /\ \/ /\ ~Fresh(s, e)
              /\ UNCHANGED stream
           \/ /\ Fresh(s, e)
              /\ e # Events
              /\ stream' = [stream EXCEPT ![s].seen = Latest(Append(@, e)),
                                          ![s].got = Append(@, e)]
           \/ /\ Fresh(s, e)
              /\ e = Events
              /\ stream' = [stream EXCEPT ![s] =
                               Leave([@ EXCEPT !.got = Append(@, e)])]
        /\ UNCHANGED <<put, fanned, lost, finals, status, redis, cached, current, cancel>>

\* The client goes away.
Disconnect(s) ==
    /\ stream[s].step = "open"
    /\ stream' = [stream EXCEPT ![s] = Leave(@)]
    /\ UNCHANGED <<put, fanned, lost, finals, status, redis, cached, queues, current,
                   cancel>>

\* The pump has ended: the queue of the replica is forgotten, whichever it is.
Close(s) ==
    /\ stream[s].step = "closing"
    /\ stream' = [stream EXCEPT ![s].step = "closed", ![s].got = <<>>]
    /\ Forget(stream[s].at)
    /\ UNCHANGED <<put, fanned, lost, finals, status, redis, cached, cancel>>

\* sweep_stale_event_queues forgets the queue of a session that is over or that
\* was cancelled.
Sweep(r) ==
    /\ current[r] # 0
    /\ Load(r) \in Terminal
    /\ Forget(r)
    /\ UNCHANGED <<put, fanned, lost, finals, status, redis, cached, stream, cancel>>

Publisher == SetFinal \/ PersistFinal \/ RunnerPuts \/ RunnerFansOut

Canceller == CancelPersists \/ CancelPuts \/ CancelFansOut

Serve(s) == OpenStream(s) \/ Subscribe(s) \/ Pump(s) \/ Receive(s) \/ Close(s)

Next == \/ Publisher \/ Canceller
        \/ \E s \in Streams : Serve(s) \/ PumpDies(s) \/ Disconnect(s)
        \/ \E s \in Streams, r \in Replicas : Connect(s, r)
        \/ \E r \in Replicas : Sweep(r) \/ CancelBegins(r)

Spec == Init /\ [][Next]_vars

\* The runner and the coroutines of every open stream go on.
Fairness == WF_vars(Publisher) /\ \A s \in Streams : WF_vars(Serve(s))

FairSpec == Spec /\ Fairness

-----------------------------------------------------------------------------
(* Properties *)

\* A stream sends an event again only when at least SeenMax others came between,
\* although the replica of the runner receives every event on two paths: seen_ids
\* (679, 711-716) remembers fewer ids than the queue holds events.
NoDuplicates ==
    \A s \in Streams : \A i, j \in DOMAIN stream[s].got :
       i < j /\ stream[s].got[i] = stream[s].got[j] => j - i > SeenMax

\* No other connection ever came to the replica of s, and no request to cancel.
Alone(s) ==
    /\ \A t \in Streams \ {s} : stream[t].step = "idle" \/ stream[t].at # stream[s].at
    /\ cancel.step = "none" \/ cancel.at # stream[s].at

\* What s has sent of the runner's events.
Progress(s) == SelectSeq(stream[s].got, LAMBDA e : e # CancelledId)

\* A stream on another replica than the runner's, alone there, sends what it
\* heard in order and misses between two events only what Redis lost, however
\* slow its client is: its pump waits for room where _publish drops (684-691
\* against 139-148).
RemoteUnbroken ==
    \A s \in Streams : stream[s].at # Home /\ Alone(s) =>
       \A i \in 2..Len(Progress(s)) :
          /\ Progress(s)[i - 1] < Progress(s)[i]
          /\ (Progress(s)[i - 1] + 1)..(Progress(s)[i] - 1) \subseteq lost

\* Both: what a stream has sent is in order and without a gap where no queue is
\* shared, and without repetition within the memory of seen_ids everywhere.
StreamSound == NoDuplicates /\ RemoteUnbroken

\* Another stream reads the queue of s, _event_queues has forgotten it, or a
\* request to cancel has put its own event there.
Contended(s) ==
    \/ \E t \in Streams \ {s} : stream[t].step = "open" /\ stream[t].queue = stream[s].queue
    \/ current[Home] # stream[s].queue
    \/ cancel.step \in {"fan", "over"} /\ cancel.at = Home

\* A stream at the runner's replica ends with the session even when Redis loses
\* every event and the queue overflows ("silently degrade - local queue still
\* delivers", infrastructure/cache.py 469), as long as it is the one reader of
\* the queue _publish writes to and the runner the one writer but for its pump.
StreamEnds(s) ==
    (stream[s].step = "open" /\ stream[s].at = Home)
       ~> (stream[s].step # "open" \/ Contended(s))

=============================================================================
