-------------------------- MODULE TaskManagerProofs --------------------------
(***************************************************************************)
(* Proofs about TaskManager for every set of tasks, processes and          *)
(* cancellers, every retry limit and every number of crashes and           *)
(* rebalances, with and without Kafka.                                     *)
(***************************************************************************)
EXTENDS TaskManager, TLAPS

(* The attempts at a job, one at a time: those after retry_count do not    *)
(* exist, those before it are past their handler or sleep before the next  *)
(* one, and only the last of these sleeps, with its successor still to be  *)
(* created.                                                                *)
OrderAt(j, a) ==
    /\ a > retry_count[j] => worker[<<j, a>>] = "none"
    /\ a < retry_count[j] => worker[<<j, a>>] \in Past \cup {"backoff"}
    /\ worker[<<j, a>>] = "backoff" =>
         /\ a + 1 = retry_count[j]
         /\ a + 1 \in Attempts
         /\ worker[<<j, a + 1>>] = "none"

AttemptInv == \A j \in Jobs, a \in Attempts : OrderAt(j, a)

(* Without Kafka nothing is consumed, and a task has no job before         *)
(* submit_task makes it one.                                               *)
LocalInv ==
    ~UseKafka =>
      /\ \A m \in Managers : consumer[m] \notin {"polling", "committing"}
      /\ \A t \in Tasks : submit[t] \in {"new", "saving"}
                            => worker[<<<<t, 1>>, 0>>] = "none"

(* The inductive invariant.                                                *)
IInv == TypeOK /\ AttemptInv /\ LocalInv

-----------------------------------------------------------------------------
(* Facts about the index sets.                                             *)
LEMMA Indices ==
  /\ 0 \in Attempts
  /\ 1 \in Deliveries
  /\ \A j \in Jobs, a \in Attempts : <<j, a>> \in Workers
  /\ \A t \in Tasks, d \in Deliveries : <<t, d>> \in Jobs
  /\ \A w \in Workers : /\ w[1] \in Jobs
                        /\ w[2] \in Attempts
                        /\ w = <<w[1], w[2]>>
  /\ \A j \in Jobs : j[1] \in Tasks /\ j[2] \in Deliveries
BY TaskAssumption DEF Attempts, Deliveries, Jobs, Workers

(* The counters stay integers.                                             *)
LEMMA TallyType ==
  ASSUME stats \in [Managers -> [Fields -> Int]], NEW m, NEW up, NEW down,
         Tally(m, up, down)
  PROVE  stats' \in [Managers -> [Fields -> Int]]
<1> DEFINE row == [f \in Fields |-> stats[m][f] + (IF f \in up THEN 1 ELSE 0)
                                               - (IF f \in down THEN 1 ELSE 0)]
<1>1. stats' = [stats EXCEPT ![m] = row]
  BY DEF Tally
<1>2. m \in Managers => row \in [Fields -> Int]
  OBVIOUS
<1> HIDE DEF row
<1> QED
  BY <1>1, <1>2

(* The part of TypeOK that the order of the attempts rests on.             *)
LEMMA OrderTypes ==
  ASSUME TypeOK
  PROVE  /\ worker \in [Workers -> WorkerPc]
         /\ retry_count \in [Jobs -> 0 .. max_retries]
         /\ \A j \in Jobs : retry_count[j] \in Int
         /\ Attempts \subseteq Int
BY TaskAssumption DEF TypeOK, Attempts

(* An attempt whose coroutine runs its handler, or is about to, is the     *)
(* current one.                                                            *)
LEMMA CurrentAttempt ==
  ASSUME TypeOK, AttemptInv, NEW j \in Jobs, NEW a \in Attempts,
         worker[<<j, a>>] \notin Past \cup {"none", "backoff"}
  PROVE  a = retry_count[j]
<1>1. retry_count[j] \in Int /\ a \in Int
  BY OrderTypes
<1>2. ~(a > retry_count[j]) /\ ~(a < retry_count[j])
  BY DEF AttemptInv, OrderAt
<1> QED
  BY <1>1, <1>2

(* A coroutine that neither appears nor goes to sleep or wakes up leaves   *)
(* the order of the attempts as it is.                                     *)
LEMMA MovePreservesOrder ==
  ASSUME TypeOK, AttemptInv, NEW w \in Workers, NEW to,
         worker[w] \notin {"none", "backoff"},
         to \notin {"none", "backoff"},
         worker[w] \in Past => to \in Past,
         worker' = [worker EXCEPT ![w] = to],
         UNCHANGED retry_count
  PROVE  AttemptInv'
<1> SUFFICES ASSUME NEW j \in Jobs, NEW a \in Attempts
             PROVE  OrderAt(j, a)'
  BY DEF AttemptInv
<1>1. \A v \in Workers : worker'[v] = IF v = w THEN to ELSE worker[v]
  BY OrderTypes
<1>2. <<j, a>> \in Workers /\ (a + 1 \in Attempts => <<j, a + 1>> \in Workers)
  BY Indices
<1>3. OrderAt(j, a)
  BY DEF AttemptInv
<1> QED
  BY <1>1, <1>2, <1>3 DEF OrderAt

(* A job created by Spawn starts with its attempt 0.                       *)
LEMMA SpawnPreservesOrder ==
  ASSUME TypeOK, AttemptInv, NEW j \in Jobs, NEW m,
         worker[<<j, 0>>] = "none",
         Spawn(j, m)
  PROVE  AttemptInv'
<1>1. retry_count[j] = 0
  <2>1. retry_count[j] \in 0 .. max_retries
    BY OrderTypes
  <2>2. ~(0 < retry_count[j])
    BY Indices DEF AttemptInv, OrderAt, Past
  <2> QED
    BY <2>1, <2>2, TaskAssumption
<1>2. \A v \in Workers : worker'[v] = IF v = <<j, 0>> THEN "spawned" ELSE worker[v]
  BY OrderTypes DEF Spawn
<1>. UNCHANGED retry_count
  BY DEF Spawn
<1> SUFFICES ASSUME NEW i \in Jobs, NEW a \in Attempts
             PROVE  OrderAt(i, a)'
  BY DEF AttemptInv
<1>3. <<i, a>> \in Workers /\ (a + 1 \in Attempts => <<i, a + 1>> \in Workers)
  BY Indices
<1>4. OrderAt(i, a)
  BY DEF AttemptInv
<1>5. a \in Int /\ a >= 0
  BY TaskAssumption DEF Attempts
<1> QED
  BY <1>1, <1>2, <1>3, <1>4, <1>5 DEF OrderAt

(* A failed handler with attempts left: its attempt sleeps, and the next   *)
(* one is still to be created.                                             *)
LEMMA FailurePreservesOrder ==
  ASSUME TypeOK, AttemptInv, NEW w \in Workers, HandlerFails(w)
  PROVE  AttemptInv'
<1> DEFINE j == w[1]
           r == retry_count[j]
<1>1. j \in Jobs /\ w[2] \in Attempts /\ w = <<j, w[2]>>
  BY Indices
<1>2. worker[w] = "handling" /\ AttemptsLeft(j)
  BY DEF HandlerFails, WorkerMoves
<1>3. w[2] = r /\ w = <<j, r>>
  BY <1>1, <1>2, CurrentAttempt DEF Past
<1>4. r \in Int /\ r >= 0 /\ r + 1 \in Attempts
  BY <1>1, <1>2, OrderTypes, TaskAssumption DEF AttemptsLeft, Attempts
<1>5. \A v \in Workers : worker'[v] = IF v = w THEN "backoff" ELSE worker[v]
  BY OrderTypes DEF HandlerFails, WorkerMoves
<1>6. \A i \in Jobs : retry_count'[i] = IF i = j THEN r + 1 ELSE retry_count[i]
  BY OrderTypes DEF HandlerFails, Counted
<1>7. worker[<<j, r + 1>>] = "none"
  <2>1. OrderAt(j, r + 1)
    BY <1>1, <1>4 DEF AttemptInv
  <2>2. r + 1 > retry_count[j]
    BY <1>4
  <2> QED
    BY <2>1, <2>2 DEF OrderAt
<1> HIDE DEF j, r
<1> SUFFICES ASSUME NEW i \in Jobs, NEW a \in Attempts
             PROVE  OrderAt(i, a)'
  BY DEF AttemptInv
<1>8. <<i, a>> \in Workers /\ (a + 1 \in Attempts => <<i, a + 1>> \in Workers)
  BY Indices
<1>9. OrderAt(i, a)
  BY DEF AttemptInv
<1>10. a \in Int /\ retry_count[i] \in Int
  BY OrderTypes
<1>11. CASE i # j
  BY <1>3, <1>5, <1>6, <1>8, <1>9, <1>11 DEF OrderAt
<1>12. CASE i = j /\ a = r
  BY <1>1, <1>3, <1>4, <1>5, <1>6, <1>7, <1>8, <1>12 DEF OrderAt
<1>13. CASE i = j /\ a # r
  <2>1. worker'[<<i, a>>] = worker[<<i, a>>]
    BY <1>3, <1>5, <1>8, <1>13
  <2>2. worker[<<i, a>>] # "backoff"
    BY <1>2, <1>3, <1>9, <1>13, <1>10, <1>4 DEF OrderAt, r
  <2>3. retry_count'[i] = r + 1 /\ retry_count[i] = r
    BY <1>1, <1>6, <1>13 DEF r
  <2> QED
    BY <1>4, <1>9, <1>10, <1>13, <2>1, <2>2, <2>3 DEF OrderAt
<1> QED
  BY <1>11, <1>12, <1>13

(* The last failure: retry_count reaches max_retries and no attempt        *)
(* sleeps.                                                                 *)
LEMMA LastFailurePreservesOrder ==
  ASSUME TypeOK, AttemptInv, NEW w \in Workers, HandlerFailsLast(w)
  PROVE  AttemptInv' /\ retry_count' \in [Jobs -> 0 .. max_retries]
<1> DEFINE j == w[1]
           r == retry_count[j]
<1>1. j \in Jobs /\ w[2] \in Attempts /\ w = <<j, w[2]>>
  BY Indices
<1>2. worker[w] = "handling"
  BY DEF HandlerFailsLast, Ends, WorkerMoves
<1>3. w[2] = r /\ w = <<j, r>>
  BY <1>1, <1>2, CurrentAttempt DEF Past
<1>4. r \in Int /\ r >= 0 /\ r < max_retries
  BY <1>1, <1>3, TaskAssumption DEF Attempts
<1>5. \A v \in Workers : worker'[v] = IF v = w THEN "finishing" ELSE worker[v]
  BY OrderTypes DEF HandlerFailsLast, Ends, WorkerMoves
<1>6. retry_count' = [retry_count EXCEPT ![j] = r + 1]
  BY DEF HandlerFailsLast, Counted
<1>7. \A i \in Jobs : retry_count'[i] = IF i = j THEN r + 1 ELSE retry_count[i]
  BY <1>6, OrderTypes
<1>8. retry_count' \in [Jobs -> 0 .. max_retries]
  <2>1. r + 1 \in 0 .. max_retries
    BY <1>4, TaskAssumption
  <2> HIDE DEF r
  <2> QED
    BY <1>6, <2>1, OrderTypes
<1> HIDE DEF j, r
<1>9. ASSUME NEW i \in Jobs, NEW a \in Attempts
      PROVE  OrderAt(i, a)'
  <2>1. <<i, a>> \in Workers /\ (a + 1 \in Attempts => <<i, a + 1>> \in Workers)
    BY Indices
  <2>2. OrderAt(i, a)
    BY DEF AttemptInv
  <2>3. a \in Int /\ retry_count[i] \in Int
    BY OrderTypes
  <2>4. CASE i # j
    BY <1>3, <1>5, <1>7, <2>1, <2>2, <2>4 DEF OrderAt
  <2>5. CASE i = j /\ a = r
    BY <1>1, <1>3, <1>4, <1>5, <1>7, <2>1, <2>5 DEF OrderAt, Past
  <2>6. CASE i = j /\ a # r
    <3>1. worker'[<<i, a>>] = worker[<<i, a>>]
      BY <1>3, <1>5, <2>1, <2>6
    <3>2. worker[<<i, a>>] # "backoff"
      BY <1>2, <1>3, <2>2, <2>6, <2>3, <1>4 DEF OrderAt, r
    <3>3. retry_count'[i] = r + 1 /\ retry_count[i] = r
      BY <1>1, <1>7, <2>6 DEF r
    <3> QED
      BY <1>4, <2>2, <2>3, <2>6, <3>1, <3>2, <3>3 DEF OrderAt
  <2> QED
    BY <2>4, <2>5, <2>6
<1> QED
  BY <1>8, <1>9 DEF AttemptInv

(* The end of the sleep: the sleeper is past, its successor is the current *)
(* attempt.                                                                *)
LEMMA RetryPreservesOrder ==
  ASSUME TypeOK, AttemptInv, NEW w \in Workers, Retry(w)
  PROVE  AttemptInv' /\ worker' \in [Workers -> WorkerPc]
<1> DEFINE j == w[1]
           b == w[2]
           n == <<j, b + 1>>
<1>1. j \in Jobs /\ b \in Attempts /\ w = <<j, b>>
  BY Indices
<1>2. worker[w] = "backoff" /\ UNCHANGED retry_count
  BY DEF Retry, jobVars
<1>3. b + 1 = retry_count[j] /\ b + 1 \in Attempts /\ worker[n] = "none"
  <2>1. OrderAt(j, b)
    BY <1>1 DEF AttemptInv
  <2> QED
    BY <1>1, <1>2, <2>1 DEF OrderAt
<1>4. n \in Workers
  BY <1>1, <1>3, Indices
<1>5. worker' = [worker EXCEPT ![w] = "finishing", ![n] = "spawned"]
  BY DEF Retry
<1>6. \A v \in Workers : worker'[v] = IF v = n THEN "spawned"
                                      ELSE IF v = w THEN "finishing" ELSE worker[v]
  BY <1>4, <1>5, OrderTypes
<1>7. worker' \in [Workers -> WorkerPc]
  BY <1>4, <1>5, OrderTypes DEF WorkerPc
<1>8. b \in Int
  BY <1>1, OrderTypes
<1> HIDE DEF j, b
<1>9. ASSUME NEW i \in Jobs, NEW a \in Attempts
      PROVE  OrderAt(i, a)'
  <2>1. <<i, a>> \in Workers /\ (a + 1 \in Attempts => <<i, a + 1>> \in Workers)
    BY Indices
  <2>2. OrderAt(i, a)
    BY DEF AttemptInv
  <2>3. a \in Int /\ retry_count[i] \in Int
    BY OrderTypes
  <2>4. CASE i # j
    BY <1>1, <1>2, <1>6, <2>1, <2>2, <2>4 DEF OrderAt
  <2>5. CASE i = j /\ a = b
    BY <1>1, <1>2, <1>3, <1>6, <1>8, <2>1, <2>5 DEF OrderAt, Past
  <2>6. CASE i = j /\ a = b + 1
    BY <1>1, <1>2, <1>3, <1>6, <1>8, <2>1, <2>6 DEF OrderAt
  <2>7. CASE i = j /\ a # b /\ a # b + 1
    <3>1. worker'[<<i, a>>] = worker[<<i, a>>]
      BY <1>1, <1>6, <2>1, <2>7
    <3>2. worker[<<i, a>>] # "backoff"
      BY <1>3, <1>8, <2>2, <2>3, <2>7 DEF OrderAt
    <3> QED
      BY <1>2, <2>2, <3>1, <3>2 DEF OrderAt
  <2> QED
    BY <2>4, <2>5, <2>6, <2>7
<1> QED
  BY <1>7, <1>9 DEF AttemptInv

(* A crash turns live coroutines into dead ones.                           *)
LEMMA CrashPreservesOrder ==
  ASSUME TypeOK, AttemptInv, NEW m \in Managers, Crash(m)
  PROVE  AttemptInv'
<1> SUFFICES ASSUME NEW j \in Jobs, NEW a \in Attempts
             PROVE  OrderAt(j, a)'
  BY DEF AttemptInv
<1>1. \A v \in Workers : worker'[v] = worker[v] \/ worker'[v] = "dead"
  BY DEF Crash
<1>2. \A v \in Workers : worker[v] = "none" => worker'[v] = "none"
  BY DEF Crash, Live
<1>3. <<j, a>> \in Workers /\ (a + 1 \in Attempts => <<j, a + 1>> \in Workers)
  BY Indices
<1>4. OrderAt(j, a)
  BY DEF AttemptInv
<1>5. UNCHANGED retry_count
  BY DEF Crash
<1> QED
  BY <1>1, <1>2, <1>3, <1>4, <1>5 DEF OrderAt, Past

(* Every step keeps the types; HandlerFailsLast and Retry need the order   *)
(* of the attempts for it.                                                 *)
LEMMA TypeStep ==
  ASSUME TypeOK, AttemptInv, [Next]_vars
  PROVE  TypeOK'
<1> USE Indices DEF TypeOK, SubmitPc, CancelPc, WorkerPc, TaskState, Unsaved,
        services, kafkaVars, processVars, submitVars, cancelVars, jobVars, workerVars
<1>1. ASSUME NEW t \in Tasks, NEW m \in Managers, SubmitTask(t, m) PROVE TypeOK'
  BY <1>1 DEF SubmitTask
<1>2. ASSUME NEW t \in Tasks, SubmitLocal(t) PROVE TypeOK'
  BY <1>2, TallyType DEF SubmitLocal, SubmitMoves, Spawn
<1>3. ASSUME NEW t \in Tasks, SubmitSend(t) PROVE TypeOK'
  <2>1. UNCHANGED <<submitSave, committed, owner, position, redis, faults, stats,
                    jobVars, workerVars>>
    BY <1>3, Zenon DEF SubmitSend
  <2>2. CASE SubmitMoves(t, "saving", "error") /\ UNCHANGED log
    BY <2>1, <2>2 DEF SubmitMoves
  <2>3. CASE /\ SubmitMoves(t, "saving", "appended")
             /\ log' = IF t \in Handled THEN Append(log, t) ELSE log
    BY <2>1, <2>3 DEF SubmitMoves
  <2> QED
    BY <1>3, <2>2, <2>3, Zenon DEF SubmitSend
<1>4. ASSUME NEW t \in Tasks, SubmitAcked(t) PROVE TypeOK'
  BY <1>4 DEF SubmitAcked, SubmitMoves
<1>5. ASSUME NEW t \in Tasks, SubmitReturns(t) PROVE TypeOK'
  BY <1>5, TallyType DEF SubmitReturns, SubmitMoves
<1>6. ASSUME NEW t \in Tasks, ApplySubmitSave(t) PROVE TypeOK'
  BY <1>6 DEF ApplySubmitSave, Store
<1>7. ASSUME NEW c \in Cancellers, NEW t \in Tasks, NEW m \in Managers,
              CancelTask(c, t, m)
       PROVE  TypeOK'
  <2>1. /\ cancelTask' = [cancelTask EXCEPT ![c] = t]
        /\ canceller' = [canceller EXCEPT ![c] = m]
        /\ UNCHANGED <<services, processVars, stats, submitVars, jobVars, workerVars>>
    BY <1>7, Zenon DEF CancelTask
  <2>2. CASE /\ cancel' = [cancel EXCEPT ![c] = "cancelling"]
             /\ cancelSave' = [cancelSave EXCEPT ![c] = "cancelled"]
    BY <2>1, <2>2
  <2>3. CASE /\ cancel' = [cancel EXCEPT ![c] = "refused"]
             /\ UNCHANGED cancelSave
    BY <2>1, <2>3
  <2> QED
    BY <1>7, <2>2, <2>3, Zenon DEF CancelTask
<1>8. ASSUME NEW c \in Cancellers, CancelReturns(c) PROVE TypeOK'
  BY <1>8, TallyType DEF CancelReturns
<1>9. ASSUME NEW c \in Cancellers, ApplyCancelSave(c) PROVE TypeOK'
  BY <1>9 DEF ApplyCancelSave, Store
<1>10. ASSUME NEW w \in Workers, Execute(w) PROVE TypeOK'
  BY <1>10 DEF Execute, WorkerMoves, Becomes, SaveAs
<1>11. ASSUME NEW w \in Workers, NoHandlerReturns(w) PROVE TypeOK'
  BY <1>11, TallyType DEF NoHandlerReturns, WorkerMoves, Saved
<1>12. ASSUME NEW w \in Workers, HandlerStarts(w) PROVE TypeOK'
  BY <1>12, TallyType DEF HandlerStarts, WorkerMoves, Saved
<1>13. ASSUME NEW w \in Workers, HandlerReturns(w) PROVE TypeOK'
  BY <1>13, TallyType DEF HandlerReturns, Ends, WorkerMoves, Becomes, SaveAs
<1>14. ASSUME NEW w \in Workers, HandlerFails(w) PROVE TypeOK'
  BY <1>14, TallyType, TaskAssumption DEF HandlerFails, AttemptsLeft, Counted,
     WorkerMoves, Becomes
<1>15. ASSUME NEW w \in Workers, HandlerFailsLast(w) PROVE TypeOK'
  BY <1>15, TallyType, LastFailurePreservesOrder DEF HandlerFailsLast, Ends,
     WorkerMoves, Becomes, SaveAs
<1>16. ASSUME NEW w \in Workers, Retry(w) PROVE TypeOK'
  BY <1>16, TallyType, RetryPreservesOrder DEF Retry, SaveAs
<1>17. ASSUME NEW w \in Workers, WorkerEnds(w) PROVE TypeOK'
  BY <1>17 DEF WorkerEnds, WorkerMoves, Saved
<1>18. ASSUME NEW w \in Workers, ApplyWorkerSave(w) PROVE TypeOK'
  BY <1>18 DEF ApplyWorkerSave, Store
<1>19. ASSUME NEW m \in Managers, Start(m) PROVE TypeOK'
  BY <1>19 DEF Start
<1>20. ASSUME NEW m \in Managers, Assign(m) PROVE TypeOK'
  BY <1>20 DEF Assign
<1>21. ASSUME NEW m \in Managers, Consume(m) PROVE TypeOK'
  <2>0. /\ position' \in Nat
        /\ UNCHANGED <<log, committed, redis, faults, mode, gathered, stats,
                       submitVars, cancelVars>>
    BY <1>21 DEF Consume, NextPosition
  <2>1. CASE mode[m] = "running"
    <3>1. PICK d \in Deliveries : Spawn(<<log[position + 1], d>>, m)
      BY <1>21, <2>1 DEF Consume
    <3>2. log[position + 1] \in Tasks
      BY <1>21 DEF Consume
    <3>3. /\ host' \in [Jobs -> Managers \cup {Nobody}]
          /\ worker' \in [Workers -> WorkerPc]
          /\ UNCHANGED <<state, retry_count, workerSave>>
      BY <3>1, <3>2 DEF Spawn
    <3>4. /\ consumer' = [consumer EXCEPT ![m] = "committing"]
          /\ UNCHANGED owner
      BY <1>21, <2>1, Zenon DEF Consume
    <3> QED
      BY <2>0, <3>3, <3>4
  <2>2. CASE mode[m] # "running"
    <3>1. /\ consumer' = [consumer EXCEPT ![m] = "ended"]
          /\ owner' = Nobody
          /\ UNCHANGED <<jobVars, workerVars>>
      BY <1>21, <2>2, Zenon DEF Consume
    <3> QED
      BY <2>0, <3>1
  <2> QED
    BY <2>1, <2>2
<1>22. ASSUME NEW m \in Managers, Commit(m) PROVE TypeOK'
  BY <1>22 DEF Commit, CommitOffset
<1>23. ASSUME NEW m \in Managers, Rebalance(m) \/ CommitFails(m) PROVE TypeOK'
  <2>1. CASE Rebalance(m)
    BY <2>1, TaskAssumption DEF Rebalance
  <2>2. CASE CommitFails(m)
    BY <2>2 DEF CommitFails
  <2> QED
    BY <1>23, <2>1, <2>2
<1>24. ASSUME NEW m \in Managers, StopBegins(m) PROVE TypeOK'
  BY <1>24 DEF StopBegins, Live
<1>25. ASSUME NEW m \in Managers, StopEnds(m) PROVE TypeOK'
  BY <1>25 DEF StopEnds
<1>26. ASSUME NEW m \in Managers, Crash(m) PROVE TypeOK'
  BY <1>26, TaskAssumption DEF Crash, NoStats
<1>27. CASE UNCHANGED vars
  BY <1>27 DEF vars
<1> QED
  BY <1>1, <1>2, <1>3, <1>4, <1>5, <1>6, <1>7, <1>8, <1>9, <1>10, <1>11, <1>12, <1>13, <1>14,
     <1>15, <1>16, <1>17, <1>18, <1>19, <1>20, <1>21, <1>22, <1>23, <1>24, <1>25, <1>26, <1>27
  DEF Next, Submitting, Working, Consuming

(* A step that touches neither the coroutines nor retry_count.             *)
LEMMA OrderUnchanged ==
  ASSUME AttemptInv, UNCHANGED <<worker, retry_count>>
  PROVE  AttemptInv'
BY DEF AttemptInv, OrderAt

(* Every step keeps the attempts in order.                                 *)
LEMMA OrderStep ==
  ASSUME IInv, [Next]_vars
  PROVE  AttemptInv'
<1>0. TypeOK /\ AttemptInv
  BY DEF IInv
<1> USE <1>0 DEF services, kafkaVars, submitVars, cancelVars, jobVars, workerVars
<1>1. ASSUME NEW t \in Tasks, NEW m \in Managers, SubmitTask(t, m) PROVE AttemptInv'
  BY <1>1, OrderUnchanged DEF SubmitTask
<1>2. ASSUME NEW t \in Tasks, SubmitLocal(t) PROVE AttemptInv'
  <2>1. worker[<<<<t, 1>>, 0>>] = "none"
    BY <1>2 DEF SubmitLocal, SubmitMoves, IInv, LocalInv
  <2>2. Spawn(<<t, 1>>, submitter[t])
    BY <1>2 DEF SubmitLocal
  <2> QED
    BY <2>1, <2>2, Indices, SpawnPreservesOrder
<1>3. ASSUME NEW t \in Tasks, SubmitSend(t) PROVE AttemptInv'
  BY <1>3, OrderUnchanged DEF SubmitSend
<1>4. ASSUME NEW t \in Tasks, SubmitAcked(t) PROVE AttemptInv'
  BY <1>4, OrderUnchanged DEF SubmitAcked
<1>5. ASSUME NEW t \in Tasks, SubmitReturns(t) PROVE AttemptInv'
  BY <1>5, OrderUnchanged DEF SubmitReturns
<1>6. ASSUME NEW t \in Tasks, ApplySubmitSave(t) PROVE AttemptInv'
  BY <1>6, OrderUnchanged DEF ApplySubmitSave, Store
<1>7. ASSUME NEW c \in Cancellers, NEW t \in Tasks, NEW m \in Managers,
              CancelTask(c, t, m)
       PROVE  AttemptInv'
  BY <1>7, OrderUnchanged DEF CancelTask
<1>8. ASSUME NEW c \in Cancellers, CancelReturns(c) PROVE AttemptInv'
  BY <1>8, OrderUnchanged DEF CancelReturns
<1>9. ASSUME NEW c \in Cancellers, ApplyCancelSave(c) PROVE AttemptInv'
  BY <1>9, OrderUnchanged DEF ApplyCancelSave, Store
<1>10. ASSUME NEW w \in Workers, Execute(w) PROVE AttemptInv'
  BY <1>10, MovePreservesOrder DEF Execute, WorkerMoves, Past
<1>11. ASSUME NEW w \in Workers, NoHandlerReturns(w) PROVE AttemptInv'
  BY <1>11, MovePreservesOrder DEF NoHandlerReturns, WorkerMoves, Past
<1>12. ASSUME NEW w \in Workers, HandlerStarts(w) PROVE AttemptInv'
  BY <1>12, MovePreservesOrder DEF HandlerStarts, WorkerMoves, Past
<1>13. ASSUME NEW w \in Workers, HandlerReturns(w) PROVE AttemptInv'
  BY <1>13, MovePreservesOrder DEF HandlerReturns, Ends, WorkerMoves, Past
<1>14. ASSUME NEW w \in Workers, HandlerFails(w) PROVE AttemptInv'
  BY <1>14, FailurePreservesOrder
<1>15. ASSUME NEW w \in Workers, HandlerFailsLast(w) PROVE AttemptInv'
  BY <1>15, LastFailurePreservesOrder
<1>16. ASSUME NEW w \in Workers, Retry(w) PROVE AttemptInv'
  BY <1>16, RetryPreservesOrder
<1>17. ASSUME NEW w \in Workers, WorkerEnds(w) PROVE AttemptInv'
  BY <1>17, MovePreservesOrder DEF WorkerEnds, WorkerMoves, Past
<1>18. ASSUME NEW w \in Workers, ApplyWorkerSave(w) PROVE AttemptInv'
  BY <1>18, OrderUnchanged DEF ApplyWorkerSave, Store
<1>19. ASSUME NEW m \in Managers, Start(m) PROVE AttemptInv'
  BY <1>19, OrderUnchanged DEF Start
<1>20. ASSUME NEW m \in Managers, Assign(m) PROVE AttemptInv'
  BY <1>20, OrderUnchanged DEF Assign
<1>21. ASSUME NEW m \in Managers, Consume(m) PROVE AttemptInv'
  <2>1. CASE mode[m] = "running"
    <3>1. PICK d \in Deliveries : /\ NextDelivery(log[position + 1], d)
                                 /\ Spawn(<<log[position + 1], d>>, m)
      BY <1>21, <2>1 DEF Consume
    <3>2. log[position + 1] \in Tasks
      BY <1>21 DEF Consume, TypeOK
    <3> QED
      BY <3>1, <3>2, Indices, SpawnPreservesOrder DEF NextDelivery
  <2>2. CASE mode[m] # "running"
    BY <1>21, <2>2, OrderUnchanged DEF Consume
  <2> QED
    BY <2>1, <2>2
<1>22. ASSUME NEW m \in Managers, Commit(m) \/ Rebalance(m) \/ CommitFails(m)
       PROVE  AttemptInv'
  BY <1>22, OrderUnchanged DEF Commit, Rebalance, CommitFails
<1>23. ASSUME NEW m \in Managers, StopBegins(m) \/ StopEnds(m) PROVE AttemptInv'
  BY <1>23, OrderUnchanged DEF StopBegins, StopEnds
<1>24. ASSUME NEW m \in Managers, Crash(m) PROVE AttemptInv'
  BY <1>24, CrashPreservesOrder
<1>25. CASE UNCHANGED vars
  BY <1>25, OrderUnchanged DEF vars
<1> QED
  BY <1>1, <1>2, <1>3, <1>4, <1>5, <1>6, <1>7, <1>8, <1>9, <1>10, <1>11, <1>12,
     <1>13, <1>14, <1>15, <1>16, <1>17, <1>18, <1>19, <1>20, <1>21, <1>22, <1>23,
     <1>24, <1>25
  DEF Next, Submitting, Working, Consuming

(* What a step may do to consumer, submit and worker and keep LocalInv.    *)
LEMMA LocalKept ==
  ASSUME LocalInv,
         ~UseKafka => \A m \in Managers : consumer'[m] \in {consumer[m], "off", "ended"},
         ~UseKafka => \A t \in Tasks : submit'[t] \in {"new", "saving"} =>
           /\ submit[t] \in {"new", "saving"}
           /\ worker[<<<<t, 1>>, 0>>] = "none" => worker'[<<<<t, 1>>, 0>>] = "none"
  PROVE  LocalInv'
BY DEF LocalInv

(* A coroutine that exists already moves: no first attempt appears.        *)
LEMMA LocalMove ==
  ASSUME TypeOK, LocalInv, NEW w \in Workers, NEW from, NEW to,
         WorkerMoves(w, from, to), from # "none"
  PROVE  LocalInv'
<1>1. worker[w] # "none" /\ worker' = [worker EXCEPT ![w] = to]
  BY DEF WorkerMoves
<1>2. worker \in [Workers -> WorkerPc]
  BY OrderTypes
<1>3. \A v \in Workers : worker[v] = "none" => worker'[v] = "none"
  BY <1>1, <1>2
<1>4. \A t \in Tasks : <<<<t, 1>>, 0>> \in Workers
  BY Indices
<1>5. UNCHANGED <<consumer, submit>>
  BY DEF WorkerMoves, processVars, submitVars
<1> QED
  BY <1>3, <1>4, <1>5, LocalKept

LEMMA LocalUnchanged ==
  ASSUME LocalInv, UNCHANGED <<consumer, submit, worker>>
  PROVE  LocalInv'
BY DEF LocalInv

(* Without Kafka, every step keeps the consumer idle and the first         *)
(* attempts of unsubmitted tasks unborn.                                   *)
LEMMA LocalStep ==
  ASSUME IInv, [Next]_vars
  PROVE  LocalInv'
<1>0. TypeOK /\ AttemptInv /\ LocalInv
  BY DEF IInv
<1> USE <1>0 DEF services, kafkaVars, processVars, submitVars, cancelVars, jobVars,
                 workerVars
<1>1. ASSUME NEW t \in Tasks, NEW m \in Managers, SubmitTask(t, m) PROVE LocalInv'
  <2>1. \A u \in Tasks : submit'[u] \in {"new", "saving"} => submit[u] \in {"new", "saving"}
    BY <1>1 DEF SubmitTask, TypeOK
  <2>2. UNCHANGED <<consumer, worker>>
    BY <1>1 DEF SubmitTask
  <2> QED
    BY <2>1, <2>2, LocalKept
<1>2. ASSUME NEW t \in Tasks, SubmitLocal(t) PROVE LocalInv'
  <2>1. /\ submit' = [submit EXCEPT ![t] = "submitted"]
        /\ worker' = [worker EXCEPT ![<<<<t, 1>>, 0>>] = "spawned"]
        /\ UNCHANGED consumer
    BY <1>2 DEF SubmitLocal, SubmitMoves, Spawn
  <2>2. submit \in [Tasks -> SubmitPc] /\ worker \in [Workers -> WorkerPc]
    BY DEF TypeOK
  <2>3. ASSUME NEW u \in Tasks, submit'[u] \in {"new", "saving"}
        PROVE  /\ submit[u] \in {"new", "saving"}
               /\ worker'[<<<<u, 1>>, 0>>] = worker[<<<<u, 1>>, 0>>]
    BY <2>1, <2>2, <2>3, Indices
  <2> QED
    BY <2>1, <2>3, LocalKept
<1>3. ASSUME NEW t \in Tasks, SubmitSend(t) PROVE LocalInv'
  BY <1>3 DEF SubmitSend, LocalInv
<1>4. ASSUME NEW t \in Tasks, SubmitAcked(t) \/ SubmitReturns(t) PROVE LocalInv'
  <2>1. PICK to \in {"saving_queued", "submitted"} : submit' = [submit EXCEPT ![t] = to]
    BY <1>4 DEF SubmitAcked, SubmitReturns, SubmitMoves
  <2>2. UNCHANGED <<consumer, worker>>
    BY <1>4 DEF SubmitAcked, SubmitReturns, SubmitMoves
  <2>3. \A u \in Tasks : submit'[u] \in {"new", "saving"} => submit[u] \in {"new", "saving"}
    BY <2>1 DEF TypeOK
  <2> QED
    BY <2>2, <2>3, LocalKept
<1>5. ASSUME NEW t \in Tasks, ApplySubmitSave(t) PROVE LocalInv'
  BY <1>5, LocalUnchanged DEF ApplySubmitSave, Store
<1>6. ASSUME NEW c \in Cancellers, NEW t \in Tasks, NEW m \in Managers,
              CancelTask(c, t, m)
       PROVE  LocalInv'
  BY <1>6, LocalUnchanged DEF CancelTask
<1>7. ASSUME NEW c \in Cancellers, CancelReturns(c) \/ ApplyCancelSave(c)
      PROVE  LocalInv'
  BY <1>7, LocalUnchanged DEF CancelReturns, ApplyCancelSave, Store
<1>8. ASSUME NEW w \in Workers, Execute(w) PROVE LocalInv'
  BY <1>8, LocalMove DEF Execute
<1>9. ASSUME NEW w \in Workers, NoHandlerReturns(w) PROVE LocalInv'
  BY <1>9, LocalMove DEF NoHandlerReturns
<1>10. ASSUME NEW w \in Workers, HandlerStarts(w) PROVE LocalInv'
  BY <1>10, LocalMove DEF HandlerStarts
<1>11. ASSUME NEW w \in Workers, HandlerReturns(w) \/ HandlerFailsLast(w)
       PROVE  LocalInv'
  BY <1>11, LocalMove DEF HandlerReturns, HandlerFailsLast, Ends
<1>12. ASSUME NEW w \in Workers, HandlerFails(w) PROVE LocalInv'
  BY <1>12, LocalMove DEF HandlerFails
<1>13. ASSUME NEW w \in Workers, Retry(w) PROVE LocalInv'
  <2>1. /\ worker' = [worker EXCEPT ![w] = "finishing", ![<<w[1], w[2] + 1>>] = "spawned"]
        /\ worker[w] = "backoff"
        /\ UNCHANGED <<consumer, submit>>
    BY <1>13 DEF Retry
  <2>2. worker \in [Workers -> WorkerPc]
    BY DEF TypeOK
  <2>3. w[2] + 1 # 0
    BY Indices, TaskAssumption DEF Attempts
  <2>4. ASSUME NEW t \in Tasks, worker[<<<<t, 1>>, 0>>] = "none"
        PROVE  worker'[<<<<t, 1>>, 0>>] = "none"
    BY <2>1, <2>2, <2>3, <2>4, Indices
  <2> QED
    BY <2>1, <2>4, LocalKept
<1>14. ASSUME NEW w \in Workers, WorkerEnds(w) PROVE LocalInv'
  BY <1>14, LocalMove DEF WorkerEnds
<1>15. ASSUME NEW w \in Workers, ApplyWorkerSave(w) PROVE LocalInv'
  BY <1>15, LocalUnchanged DEF ApplyWorkerSave, Store
<1>16. ASSUME NEW m \in Managers, Start(m) PROVE LocalInv'
  <2>1. UNCHANGED <<submit, worker>>
    BY <1>16 DEF Start
  <2>2. ~UseKafka => consumer' = [consumer EXCEPT ![m] = "off"]
    BY <1>16 DEF Start
  <2> QED
    BY <2>1, <2>2, LocalKept DEF TypeOK
<1>17. ASSUME NEW m \in Managers, Assign(m) PROVE LocalInv'
  BY <1>17, LocalUnchanged DEF Assign
<1>18. ASSUME NEW m \in Managers, Consume(m) \/ Commit(m) \/ CommitFails(m)
       PROVE  LocalInv'
  BY <1>18 DEF Consume, Commit, CommitFails, LocalInv
<1>19. ASSUME NEW m \in Managers, StopBegins(m) \/ Rebalance(m) PROVE LocalInv'
  BY <1>19, LocalUnchanged DEF StopBegins, Rebalance
<1>20. ASSUME NEW m \in Managers, StopEnds(m) PROVE LocalInv'
  <2>1. UNCHANGED <<submit, worker>> /\ consumer' = [consumer EXCEPT ![m] = "ended"]
    BY <1>20 DEF StopEnds
  <2> QED
    BY <2>1, LocalKept DEF TypeOK
<1>21. ASSUME NEW m \in Managers, Crash(m) PROVE LocalInv'
  <2>1. consumer' = [consumer EXCEPT ![m] = "off"]
    BY <1>21 DEF Crash
  <2>2. \A t \in Tasks : submit'[t] \in {"new", "saving"} => submit'[t] = submit[t]
    BY <1>21 DEF Crash
  <2>3. \A v \in Workers : worker[v] = "none" => worker'[v] = "none"
    BY <1>21 DEF Crash, Live
  <2>4. \A t \in Tasks : <<<<t, 1>>, 0>> \in Workers
    BY Indices
  <2>5. \A n \in Managers : consumer'[n] \in {consumer[n], "off", "ended"}
    BY <2>1 DEF TypeOK
  <2> QED
    BY <2>2, <2>3, <2>4, <2>5, LocalKept
<1>22. CASE UNCHANGED vars
  BY <1>22, LocalUnchanged DEF vars
<1> QED
  BY <1>1, <1>2, <1>3, <1>4, <1>5, <1>6, <1>7, <1>8, <1>9, <1>10, <1>11, <1>12,
     <1>13, <1>14, <1>15, <1>16, <1>17, <1>18, <1>19, <1>20, <1>21, <1>22
  DEF Next, Submitting, Working, Consuming

-----------------------------------------------------------------------------
(* The inductive invariant holds in every reachable state.                 *)
THEOREM Invariance == Spec => []IInv
<1>1. Init => IInv
  <2> SUFFICES ASSUME Init PROVE IInv
    OBVIOUS
  <2>1. TypeOK
    BY TaskAssumption DEF Init, TypeOK, SubmitPc, CancelPc, WorkerPc, TaskState,
       Unsaved, NoStats, NoOffset
  <2>2. AttemptInv
    <3>1. ASSUME NEW j \in Jobs, NEW a \in Attempts PROVE OrderAt(j, a)
      BY TaskAssumption, Indices DEF Init, OrderAt, Attempts
    <3> QED
      BY <3>1 DEF AttemptInv
  <2>3. LocalInv
    BY Indices DEF Init, LocalInv
  <2> QED
    BY <2>1, <2>2, <2>3 DEF IInv
<1>2. IInv /\ [Next]_vars => IInv'
  BY TypeStep, OrderStep, LocalStep DEF IInv
<1> QED
  BY <1>1, <1>2, PTL DEF Spec

(* TypeOK: no sequence of submissions, cancellations, failures, retries,   *)
(* shutdowns and crashes takes a counter or a state out of its range; in   *)
(* particular _handle_failure never counts beyond max_retries.             *)
THEOREM TypeCorrect == Spec => []TypeOK
<1>1. IInv => TypeOK
  BY DEF IInv
<1> QED
  BY <1>1, Invariance, PTL

(* AttemptsInOrder: although _handle_failure schedules the next            *)
(* _execute_task from inside the previous one, one delivery of a task is   *)
(* worked on by one coroutine at a time, for every number of tasks,        *)
(* processes, retries and crashes.                                         *)
THEOREM OneAttemptAtATime == Spec => []AttemptsInOrder
<1>1. IInv => AttemptsInOrder
  BY OrderTypes DEF IInv, AttemptInv, OrderAt, AttemptsInOrder
<1> QED
  BY <1>1, Invariance, PTL
=============================================================================
