----------------------------- MODULE TaskManager -----------------------------
(***************************************************************************)
(* orchestration/task_manager.py: TaskManager processes that share one     *)
(* Kafka topic and one Redis.                                              *)
(*                                                                         *)
(* A process is a single asyncio event loop, so a step here is the code    *)
(* between two awaits.  Three kinds of coroutine interleave: submit_task   *)
(* (one per task), cancel_task (one per canceller) and _execute_task (one  *)
(* per attempt at a delivery of a task), beside the consumer loop and      *)
(* stop().  _save_task serialises the task when it is called and its SETEX *)
(* reaches Redis later, on a pooled connection, in any order with the      *)
(* writes of the others: a pending write is a value in submitSave,         *)
(* cancelSave or workerSave, and its coroutine waits until it is "none".   *)
(*                                                                         *)
(* The semaphore of _process_task is released before the coroutine next    *)
(* suspends, so it never makes anyone wait and has no state here.          *)
(***************************************************************************)
EXTENDS Integers, Sequences, FiniteSets

CONSTANTS
    Tasks,              \* task ids
    Managers,           \* processes
    Cancellers,         \* concurrent cancel_task calls
    Handled,            \* the tasks whose type has a registered handler
    UseKafka,           \* is the Kafka producer connected?
    max_retries,
    max_workers,
    MaxFaults,          \* bound on process crashes and group rebalances
    Rebalances          \* may the group take the partition from a live process?

ASSUME TaskAssumption ==
    /\ Handled \subseteq Tasks
    /\ UseKafka \in BOOLEAN
    /\ Rebalances \in BOOLEAN
    /\ max_retries \in Nat \ {0}
    /\ max_workers \in Nat \ {0}
    /\ MaxFaults \in Nat

(* The Task object built from the d-th delivery of a task's message (the   *)
(* submitter's own object, when there is no Kafka).  Bound: one delivery   *)
(* more than there are faults.                                             *)
Deliveries == 1 .. MaxFaults + 1
Jobs == Tasks \X Deliveries

(* The a-th _execute_task coroutine of a job.                              *)
Attempts == 0 .. max_retries - 1
Workers == Jobs \X Attempts

TaskState == {"pending", "queued", "running", "completed", "failed",
              "cancelled", "retrying"}
Unsaved == TaskState \cup {"none"}

Fields == {"total", "pending", "running", "completed", "failed", "retried"}

NoOffset == -1

VARIABLES
    \* shared services
    log,            \* Kafka: the messages of the subscribed topics
    committed,      \* Kafka: the consumer group's committed offset
    owner,          \* Kafka: the process the partition is assigned to
    position,       \* Kafka: how far the owner has read
    redis,          \* Redis: task:<id>, or "absent"
    \* one process
    mode,           \* initialized, running, stopping or stopped
    consumer,       \* the coroutine _start_consumer
    gathered,       \* the workers stop() waits for
    stats,          \* TaskStats
    \* coroutines
    submit, submitter, submitSave,
    cancel, cancelTask, canceller, cancelSave,
    state, retry_count, host,           \* of the Task object of each job
    worker, workerSave,
    faults

kafkaVars == <<log, committed, owner, position>>
processVars == <<mode, consumer, gathered>>
submitVars == <<submit, submitter, submitSave>>
cancelVars == <<cancel, cancelTask, canceller, cancelSave>>
jobVars == <<state, retry_count, host>>
workerVars == <<worker, workerSave>>
services == <<kafkaVars, redis, faults>>
vars == <<services, processVars, stats, submitVars, cancelVars, jobVars, workerVars>>

SubmitPc == {"new", "saving", "appended", "saving_queued", "submitted", "error"}
CancelPc == {"idle", "cancelling", "cancelled", "refused", "error"}
WorkerPc == {"none", "spawned", "no_handler", "starting", "handling",
             "backoff", "finishing", "done", "dead"}
Nobody == "nobody"

TypeOK ==
    /\ log \in Seq(Tasks)
    /\ committed \in Nat \cup {NoOffset}
    /\ owner \in Managers \cup {Nobody}
    /\ position \in Nat
    /\ redis \in [Tasks -> TaskState \cup {"absent"}]
    /\ mode \in [Managers -> {"initialized", "running", "stopping", "stopped"}]
    /\ consumer \in [Managers -> {"off", "polling", "committing", "ended"}]
    /\ gathered \in [Managers -> SUBSET Workers]
    /\ stats \in [Managers -> [Fields -> Int]]
    /\ submit \in [Tasks -> SubmitPc]
    /\ submitter \in [Tasks -> Managers \cup {Nobody}]
    /\ submitSave \in [Tasks -> Unsaved]
    /\ cancel \in [Cancellers -> CancelPc]
    /\ cancelTask \in [Cancellers -> Tasks \cup {Nobody}]
    /\ canceller \in [Cancellers -> Managers \cup {Nobody}]
    /\ cancelSave \in [Cancellers -> Unsaved]
    /\ state \in [Jobs -> TaskState]
    /\ retry_count \in [Jobs -> 0 .. max_retries]
    /\ host \in [Jobs -> Managers \cup {Nobody}]
    /\ worker \in [Workers -> WorkerPc]
    /\ workerSave \in [Workers -> Unsaved]
    /\ faults \in 0 .. MaxFaults

NoStats == [f \in Fields |-> 0]

(* log starts where the model does; the group may have run before.         *)
Init ==
    /\ log = <<>>
    /\ committed \in IF UseKafka THEN {NoOffset, 0} ELSE {NoOffset}
    /\ owner = Nobody
    /\ position = 0
    /\ redis = [t \in Tasks |-> "absent"]
    /\ mode = [m \in Managers |-> "initialized"]
    /\ consumer = [m \in Managers |-> "off"]
    /\ gathered = [m \in Managers |-> {}]
    /\ stats = [m \in Managers |-> NoStats]
    /\ submit = [t \in Tasks |-> "new"]
    /\ submitter = [t \in Tasks |-> Nobody]
    /\ submitSave = [t \in Tasks |-> "none"]
    /\ cancel = [c \in Cancellers |-> "idle"]
    /\ cancelTask = [c \in Cancellers |-> Nobody]
    /\ canceller = [c \in Cancellers |-> Nobody]
    /\ cancelSave = [c \in Cancellers |-> "none"]
    /\ state = [j \in Jobs |-> "pending"]
    /\ retry_count = [j \in Jobs |-> 0]
    /\ host = [j \in Jobs |-> Nobody]
    /\ worker = [w \in Workers |-> "none"]
    /\ workerSave = [w \in Workers |-> "none"]
    /\ faults = 0

(* One is added to the counters up of process m and taken from those down. *)
Tally(m, up, down) ==
    stats' = [stats EXCEPT ![m] =
                [f \in Fields |-> @[f] + (IF f \in up THEN 1 ELSE 0)
                                      - (IF f \in down THEN 1 ELSE 0)]]

(* _workers of process m.                                                  *)
Live(m) == {w \in Workers : /\ host[w[1]] = m
                            /\ worker[w] \notin {"none", "done", "dead"}}

-----------------------------------------------------------------------------
(* submit_task                                                             *)

(* The Task is built and its first save issued.                            *)
SubmitTask(t, m) ==
    /\ submit[t] = "new"
    /\ mode[m] # "stopped"
    /\ submit' = [submit EXCEPT ![t] = "saving"]
    /\ submitter' = [submitter EXCEPT ![t] = m]
    /\ submitSave' = [submitSave EXCEPT ![t] = "pending"]
    /\ UNCHANGED <<services, processVars, stats, cancelVars, jobVars, workerVars>>

(* A submit_task coroutine goes on once its save was acknowledged.         *)
SubmitMoves(t, from, to) ==
    /\ submit[t] = from
    /\ submitSave[t] = "none"
    /\ submit' = [submit EXCEPT ![t] = to]
    /\ UNCHANGED <<submitter, processVars, cancelVars>>

(* A new Task object at process m, with its first _execute_task scheduled. *)
Spawn(j, m) ==
    /\ host' = [host EXCEPT ![j] = m]
    /\ worker' = [worker EXCEPT ![<<j, 0>>] = "spawned"]
    /\ UNCHANGED <<state, retry_count, workerSave>>

(* No Kafka: the submitter's own Task is processed in this process.        *)
SubmitLocal(t) ==
    /\ ~UseKafka
    /\ SubmitMoves(t, "saving", "submitted")
    /\ Spawn(<<t, 1>>, submitter[t])
    /\ Tally(submitter[t], {"total", "pending"}, {})
    /\ UNCHANGED <<submitSave, services>>

(* The broker appends the message.  A type without a handler has a topic   *)
(* nobody subscribes to.  After stop() the producer is closed.             *)
SubmitSend(t) ==
    /\ UseKafka
    /\ submit[t] = "saving"
    /\ IF mode[submitter[t]] = "stopped"
       THEN /\ SubmitMoves(t, "saving", "error")
            /\ UNCHANGED log
       ELSE /\ SubmitMoves(t, "saving", "appended")
            /\ log' = IF t \in Handled THEN Append(log, t) ELSE log
    /\ UNCHANGED <<submitSave, committed, owner, position, redis, faults, stats,
                   jobVars, workerVars>>

(* The d-th delivery of task t is its first one that made no job yet.      *)
NextDelivery(t, d) ==
    /\ worker[<<<<t, d>>, 0>>] = "none"
    /\ \A e \in 1 .. d - 1 : worker[<<<<t, e>>, 0>>] # "none"

(* Faulty variant: the submitter also processes the task it has sent.      *)
SubmitAckedProcesses(t) ==
    /\ SubmitMoves(t, "appended", "saving_queued")
    /\ submitSave' = [submitSave EXCEPT ![t] = "queued"]
    /\ \E d \in Deliveries : NextDelivery(t, d) /\ Spawn(<<t, d>>, submitter[t])
    /\ UNCHANGED <<services, stats>>

(* send_and_wait returned: the submitter's object becomes QUEUED.          *)
SubmitAcked(t) ==
    /\ SubmitMoves(t, "appended", "saving_queued")
    /\ submitSave' = [submitSave EXCEPT ![t] = "queued"]
    /\ UNCHANGED <<services, stats, jobVars, workerVars>>

SubmitReturns(t) ==
    /\ SubmitMoves(t, "saving_queued", "submitted")
    /\ Tally(submitter[t], {"total", "pending"}, {})
    /\ UNCHANGED <<submitSave, services, jobVars, workerVars>>

-----------------------------------------------------------------------------
(* cancel_task                                                             *)

(* The record is read; the call returns False, or writes CANCELLED back.   *)
CancelTask(c, t, m) ==
    /\ cancel[c] = "idle"
    /\ mode[m] # "stopped"
    /\ cancelTask' = [cancelTask EXCEPT ![c] = t]
    /\ canceller' = [canceller EXCEPT ![c] = m]
    /\ IF redis[t] \in {"pending", "queued"}
       THEN /\ cancel' = [cancel EXCEPT ![c] = "cancelling"]
            /\ cancelSave' = [cancelSave EXCEPT ![c] = "cancelled"]
       ELSE /\ cancel' = [cancel EXCEPT ![c] = "refused"]
            /\ UNCHANGED cancelSave
    /\ UNCHANGED <<services, processVars, stats, submitVars, jobVars, workerVars>>

(* The write was acknowledged: the call returns True.                      *)
CancelReturns(c) ==
    /\ cancel[c] = "cancelling"
    /\ cancelSave[c] = "none"
    /\ cancel' = [cancel EXCEPT ![c] = "cancelled"]
    /\ Tally(canceller[c], {}, {"pending"})
    /\ UNCHANGED <<cancelTask, canceller, cancelSave, services, processVars,
                   submitVars, jobVars, workerVars>>

-----------------------------------------------------------------------------
(* Redis executes a pending SETEX                                          *)

Store(t, st) ==
    /\ st # "none"
    /\ redis' = [redis EXCEPT ![t] = st]
    /\ UNCHANGED <<kafkaVars, faults, processVars, stats, submit, submitter,
                   cancel, cancelTask, canceller, jobVars, worker>>

ApplySubmitSave(t) ==
    /\ Store(t, submitSave[t])
    /\ submitSave' = [submitSave EXCEPT ![t] = "none"]
    /\ UNCHANGED <<cancelSave, workerSave>>

ApplyCancelSave(c) ==
    /\ Store(cancelTask[c], cancelSave[c])
    /\ cancelSave' = [cancelSave EXCEPT ![c] = "none"]
    /\ UNCHANGED <<submitSave, workerSave>>

ApplyWorkerSave(w) ==
    /\ Store(w[1][1], workerSave[w])
    /\ workerSave' = [workerSave EXCEPT ![w] = "none"]
    /\ UNCHANGED <<submitSave, cancelSave>>

-----------------------------------------------------------------------------
(* start() and the consumer loop                                           *)

(* _start_consumer subscribes to the topics of the registered handlers.    *)
Start(m) ==
    /\ mode[m] = "initialized"
    /\ mode' = [mode EXCEPT ![m] = "running"]
    /\ consumer' = [consumer EXCEPT ![m] =
                      IF UseKafka /\ Handled # {} THEN "polling" ELSE "off"]
    /\ UNCHANGED <<gathered, services, stats, submitVars, cancelVars, jobVars,
                   workerVars>>

(* The group gives the partition to one polling member.  It reads on from  *)
(* the committed offset; without one aiokafka starts at the end of the log *)
(* (auto_offset_reset is left at "latest").                                *)
Assign(m) ==
    /\ owner = Nobody
    /\ consumer[m] = "polling"
    /\ owner' = m
    /\ position' = IF committed = NoOffset THEN Len(log) ELSE committed
    /\ UNCHANGED <<log, committed, redis, faults, processVars, stats, submitVars,
                   cancelVars, jobVars, workerVars>>

(* The consumer's position once the current message has been handed out.   *)
NextPosition == position + 1

(* A message: the task is rebuilt from it and scheduled, and the offset    *)
(* commit is sent at once; or the loop breaks, as stop() was called.       *)
Consume(m) ==
    /\ owner = m
    /\ consumer[m] = "polling"
    /\ position < Len(log)
    /\ position' = NextPosition
    /\ IF mode[m] = "running"
       THEN /\ \E d \in Deliveries :
                 /\ NextDelivery(log[position + 1], d)
                 /\ Spawn(<<log[position + 1], d>>, m)
            /\ consumer' = [consumer EXCEPT ![m] = "committing"]
            /\ UNCHANGED owner
       ELSE /\ consumer' = [consumer EXCEPT ![m] = "ended"]
            /\ owner' = Nobody
            /\ UNCHANGED <<jobVars, workerVars>>
    /\ UNCHANGED <<log, committed, redis, faults, mode, gathered, stats,
                   submitVars, cancelVars>>

(* Faulty variant: commits the end of the log.                             *)
EndOfLog == Len(log)

(* What commit() without arguments commits: what has been handed out.      *)
CommitOffset == position

Commit(m) ==
    /\ consumer[m] = "committing"
    /\ owner = m
    /\ committed' = CommitOffset
    /\ consumer' = [consumer EXCEPT ![m] = "polling"]
    /\ UNCHANGED <<log, owner, position, redis, faults, mode, gathered, stats,
                   submitVars, cancelVars, jobVars, workerVars>>

(* The group gives the partition away: a member joined, or m was slow.     *)
Rebalance(m) ==
    /\ Rebalances
    /\ faults < MaxFaults
    /\ owner = m
    /\ owner' = Nobody
    /\ faults' = faults + 1
    /\ UNCHANGED <<log, committed, position, redis, processVars, stats,
                   submitVars, cancelVars, jobVars, workerVars>>

(* commit() raises in a member that lost the partition: "Consumer error",  *)
(* and the consumer is stopped for good.                                   *)
CommitFails(m) ==
    /\ consumer[m] = "committing"
    /\ owner # m
    /\ consumer' = [consumer EXCEPT ![m] = "ended"]
    /\ UNCHANGED <<services, mode, gathered, stats, submitVars, cancelVars,
                   jobVars, workerVars>>

-----------------------------------------------------------------------------
(* _execute_task and _handle_failure                                       *)

WorkerMoves(w, from, to) ==
    /\ worker[w] = from
    /\ worker' = [worker EXCEPT ![w] = to]
    /\ UNCHANGED <<host, services, processVars, submitVars, cancelVars>>

Becomes(w, st) == state' = [state EXCEPT ![w[1]] = st]
SaveAs(w, st) == workerSave' = [workerSave EXCEPT ![w] = st]
Saved(w) == workerSave[w] = "none" /\ UNCHANGED workerSave

(* The coroutine starts: RUNNING, or FAILED if the type has no handler.    *)
Execute(w) ==
    LET known == w[1][1] \in Handled IN
    /\ WorkerMoves(w, "spawned", IF known THEN "starting" ELSE "no_handler")
    /\ Becomes(w, IF known THEN "running" ELSE "failed")
    /\ SaveAs(w, IF known THEN "running" ELSE "failed")
    /\ UNCHANGED <<retry_count, stats>>

NoHandlerReturns(w) ==
    /\ WorkerMoves(w, "no_handler", "done")
    /\ Saved(w)
    /\ Tally(host[w[1]], {"failed"}, {})
    /\ UNCHANGED <<state, retry_count>>

(* RUNNING is saved: the handler is called.                                *)
HandlerStarts(w) ==
    /\ WorkerMoves(w, "starting", "handling")
    /\ Saved(w)
    /\ Tally(host[w[1]], {"running"}, {"pending"})
    /\ UNCHANGED <<state, retry_count>>

(* The final state st and its counter, then the finally block.             *)
Ends(w, st) ==
    /\ WorkerMoves(w, "handling", "finishing")
    /\ Becomes(w, st)
    /\ SaveAs(w, st)
    /\ Tally(host[w[1]], {st}, {"running"})

HandlerReturns(w) == Ends(w, "completed") /\ UNCHANGED retry_count

(* _handle_failure: retry_count += 1, then compared with max_retries.      *)
AttemptsLeft(j) == retry_count[j] + 1 < max_retries

(* Faulty variants: the failure is not counted, or again on giving up.     *)
Uncounted(j) == retry_count[j]
CountedTwice(j) == retry_count[j] + (IF AttemptsLeft(j) THEN 1 ELSE 2)

Counted(j) == retry_count[j] + 1

(* It raised or timed out, with attempts left: _handle_failure sleeps.     *)
HandlerFails(w) ==
    /\ AttemptsLeft(w[1])
    /\ WorkerMoves(w, "handling", "backoff")
    /\ retry_count' = [retry_count EXCEPT ![w[1]] = Counted(w[1])]
    /\ Becomes(w, "retrying")
    /\ Tally(host[w[1]], {"retried"}, {})
    /\ UNCHANGED workerSave

(* It raised or timed out on the last attempt.                             *)
HandlerFailsLast(w) ==
    /\ ~AttemptsLeft(w[1])
    /\ Ends(w, "failed")
    /\ retry_count' = [retry_count EXCEPT ![w[1]] = Counted(w[1])]

(* Faulty variant: a failed attempt leaves running_tasks to the next one.  *)
RetryWithoutFinally(w) ==
    /\ worker[w] = "backoff"
    /\ worker' = [worker EXCEPT ![w] = "finishing",
                                ![<<w[1], w[2] + 1>>] = "spawned"]
    /\ SaveAs(w, state[w[1]])
    /\ UNCHANGED <<stats, jobVars, services, processVars, submitVars, cancelVars>>

(* The sleep is over: a new coroutine is scheduled on the same Task, and   *)
(* this one runs its finally block, saving the Task as it is now.          *)
Retry(w) ==
    /\ worker[w] = "backoff"
    /\ worker' = [worker EXCEPT ![w] = "finishing",
                                ![<<w[1], w[2] + 1>>] = "spawned"]
    /\ SaveAs(w, state[w[1]])
    /\ Tally(host[w[1]], {}, {"running"})
    /\ UNCHANGED <<jobVars, services, processVars, submitVars, cancelVars>>

WorkerEnds(w) ==
    /\ WorkerMoves(w, "finishing", "done")
    /\ Saved(w)
    /\ UNCHANGED <<state, retry_count, stats>>

-----------------------------------------------------------------------------
(* stop() and process crashes                                              *)

(* _running is cleared and the workers alive now are gathered, without     *)
(* those whose _process_task has not run yet.                              *)
StopBegins(m) ==
    /\ mode[m] = "running"
    /\ mode' = [mode EXCEPT ![m] = "stopping"]
    /\ \E late \in SUBSET {w \in Live(m) : worker[w] = "spawned" /\ w[2] = 0} :
         gathered' = [gathered EXCEPT ![m] = Live(m) \ late]
    /\ UNCHANGED <<consumer, services, stats, submitVars, cancelVars, jobVars,
                   workerVars>>

(* Those have ended: producer, consumer and Redis client are closed.       *)
StopEnds(m) ==
    /\ mode[m] = "stopping"
    /\ gathered[m] \cap Live(m) = {}
    /\ mode' = [mode EXCEPT ![m] = "stopped"]
    /\ gathered' = [gathered EXCEPT ![m] = {}]
    /\ consumer' = [consumer EXCEPT ![m] = "ended"]
    /\ owner' = IF owner = m THEN Nobody ELSE owner
    /\ UNCHANGED <<log, committed, position, redis, stats, submitVars,
                   cancelVars, jobVars, workerVars, faults>>

(* The process dies and is restarted with nothing in memory.  A write it   *)
(* had sent may still reach Redis.                                         *)
Crash(m) ==
    /\ faults < MaxFaults
    /\ faults' = faults + 1
    /\ mode' = [mode EXCEPT ![m] = "initialized"]
    /\ consumer' = [consumer EXCEPT ![m] = "off"]
    /\ gathered' = [gathered EXCEPT ![m] = {}]
    /\ stats' = [stats EXCEPT ![m] = NoStats]
    /\ owner' = IF owner = m THEN Nobody ELSE owner
    /\ submit' = [t \in Tasks |-> IF submitter[t] = m /\ submit[t] # "submitted"
                                  THEN "error" ELSE submit[t]]
    /\ submitter' = [t \in Tasks |-> IF submitter[t] = m THEN Nobody
                                     ELSE submitter[t]]
    /\ cancel' = [c \in Cancellers |-> IF canceller[c] = m /\ cancel[c] = "cancelling"
                                       THEN "error" ELSE cancel[c]]
    /\ canceller' = [c \in Cancellers |-> IF canceller[c] = m THEN Nobody
                                          ELSE canceller[c]]
    /\ worker' = [w \in Workers |-> IF w \in Live(m) THEN "dead" ELSE worker[w]]
    /\ host' = [j \in Jobs |-> IF host[j] = m THEN Nobody ELSE host[j]]
    /\ UNCHANGED <<log, committed, position, redis, submitSave, cancelTask,
                   cancelSave, state, retry_count, workerSave>>

-----------------------------------------------------------------------------
Submitting(t) ==
    SubmitLocal(t) \/ SubmitSend(t) \/ SubmitAcked(t) \/ SubmitReturns(t)

Working(w) ==
    \/ Execute(w) \/ NoHandlerReturns(w) \/ HandlerStarts(w) \/ HandlerReturns(w)
    \/ HandlerFails(w) \/ HandlerFailsLast(w) \/ Retry(w) \/ WorkerEnds(w)

Consuming(m) == Assign(m) \/ Consume(m) \/ Commit(m) \/ CommitFails(m)

Next ==
    \/ \E t \in Tasks :
         (\E m \in Managers : SubmitTask(t, m)) \/ Submitting(t) \/ ApplySubmitSave(t)
    \/ \E c \in Cancellers :
         \/ \E t \in Tasks, m \in Managers : CancelTask(c, t, m)
         \/ CancelReturns(c)
         \/ ApplyCancelSave(c)
    \/ \E w \in Workers : Working(w) \/ ApplyWorkerSave(w)
    \/ \E m \in Managers :
         \/ Start(m) \/ Consuming(m) \/ Rebalance(m)
         \/ StopBegins(m) \/ StopEnds(m) \/ Crash(m)

Spec == Init /\ [][Next]_vars

(* A live process runs its ready coroutines, wait_for ends every handler   *)
(* after worker_timeout, Redis and Kafka answer, and processes are started.*)
Fairness ==
    /\ \A t \in Tasks : WF_vars(Submitting(t)) /\ WF_vars(ApplySubmitSave(t))
    /\ \A c \in Cancellers : WF_vars(CancelReturns(c)) /\ WF_vars(ApplyCancelSave(c))
    /\ \A w \in Workers : WF_vars(Working(w)) /\ WF_vars(ApplyWorkerSave(w))
    /\ \A m \in Managers : WF_vars(Start(m)) /\ WF_vars(Consuming(m)) /\ WF_vars(StopEnds(m))

FairSpec == Spec /\ Fairness

-----------------------------------------------------------------------------
(* Correctness properties                                                  *)

Past == {"finishing", "done", "dead"}

(* One delivery of a task is worked on by one coroutine at a time although *)
(* _handle_failure starts the next _execute_task from inside the previous  *)
(* one: the attempts before retry_count are past their handler, those      *)
(* after it do not exist, and the current one exists unless its            *)
(* predecessor is still sleeping before the retry.                         *)
AttemptsInOrder ==
    \A j \in Jobs :
      /\ \A a \in Attempts : a > retry_count[j] => worker[<<j, a>>] = "none"
      /\ \A a \in Attempts : a < retry_count[j] =>
           \/ worker[<<j, a>>] \in Past
           \/ worker[<<j, a>>] = "backoff" /\ a + 1 = retry_count[j]
      /\ \A a \in Attempts :
           (a + 1 = retry_count[j] /\ worker[<<j, a>>] = "backoff" /\ a + 1 \in Attempts)
             => worker[<<j, a + 1>>] = "none"

(* Without rebalances a task is never handled twice at the same time by    *)
(* processes that have not been stopped: its message is delivered again    *)
(* only once the process that took it crashed or stopped.                  *)
NoConcurrentExecution ==
    \A v, w \in Workers :
      (/\ v[1][1] = w[1][1]
       /\ worker[v] = "handling" /\ mode[host[v[1]]] # "stopped"
       /\ worker[w] = "handling" /\ mode[host[w[1]]] # "stopped") => v = w

(* The committed offset only ever moves over messages that have become     *)
(* jobs: a crash between the two repeats a task and never skips one.  (The *)
(* first offset of the group also passes what was sent before it joined.)  *)
CommitsOnlySpawned ==
    [][committed' # committed =>
         \A i \in (IF committed = NoOffset THEN {committed'}
                   ELSE committed + 1 .. committed') :
           \E d \in Deliveries : worker[<<<<log[i], d>>, 0>>] # "none"]_vars

At(m, pcs) == {w \in Workers : host[w[1]] = m /\ worker[w] \in pcs}
JobsAt(m, st) == {j \in Jobs : host[j] = m /\ state[j] = st
                                /\ ~ \E a \in Attempts : worker[<<j, a>>] = "no_handler"}

(* The statistics of a process agree with its coroutines at every step:    *)
(* running_tasks counts the handlers running or sleeping before a retry,   *)
(* every finished task is counted once as completed or failed however many *)
(* attempts it took, and pending_tasks is what submit_task added less one  *)
(* for every cancellation and every attempt (so it is no number of tasks). *)
StatsAgree ==
    \A m \in Managers :
      /\ stats[m]["running"] = Cardinality(At(m, {"handling", "backoff"}))
      /\ stats[m]["completed"] = Cardinality(JobsAt(m, "completed"))
      /\ stats[m]["failed"] = Cardinality(JobsAt(m, "failed"))
      /\ stats[m]["total"] =
           Cardinality({t \in Tasks : submitter[t] = m /\ submit[t] = "submitted"})
      /\ stats[m]["pending"] =
           stats[m]["total"]
             - Cardinality({c \in Cancellers : canceller[c] = m /\ cancel[c] = "cancelled"})
             - Cardinality({w \in At(m, {"handling", "backoff", "finishing", "done"}) :
                              w[1][1] \in Handled})

Finished(j) == state[j] \in {"completed", "failed"}

(* In a process that does not crash, every scheduled task is brought to    *)
(* COMPLETED or FAILED: timeouts and retries end after max_retries, also   *)
(* when stop() is called meanwhile.                                        *)
JobsFinish == \A j \in Jobs : (worker[<<j, 0>>] = "spawned") ~> Finished(j)

=============================================================================
