---------------------------- MODULE MCTaskManager ----------------------------
(***************************************************************************)
(* TaskManager for TLC, in three scopes: one task and every process,       *)
(* without rebalances; every task and one process; and one task at one     *)
(* process, which is retried, and cancelled or the process crashes.        *)
(* Processes are interchangeable, and so are tasks.                        *)
(***************************************************************************)
EXTENDS TaskManager, TLC

VARIABLE scope

OneTask == Cardinality({t \in Tasks : submit[t] # "new"}) <= 1

OneProcess ==
    Cardinality({m \in Managers : \/ mode[m] # "initialized"
                                  \/ \E t \in Tasks : submitter[t] = m}) <= 1

\* The partition leaves a process only when that process ends.
NoRebalance == owner \in Managers /\ owner' # owner => mode'[owner] # mode[owner]

NoCancel == \A c \in Cancellers : cancel[c] = "idle"

NoRetry == \A w \in Workers : worker[w] # "backoff"

ScopeInit == Init /\ scope \in {"one task", "one process", "retries"}

ScopeNext ==
    /\ Next
    /\ UNCHANGED scope
    /\ scope = "one task" => OneTask' /\ NoRebalance
    /\ scope = "one process" => OneProcess'
    /\ scope = "retries" => OneTask' /\ OneProcess' /\ (NoCancel' \/ faults' = 0)
    /\ scope # "retries" => NoCancel' /\ NoRetry'

ScopeSpec == ScopeInit /\ [][ScopeNext]_<<vars, scope>>

Symmetry == Permutations(Managers) \cup Permutations(Tasks)

(* NoConcurrentExecution, where it is promised: a rebalance hands a message *)
(* to a second process while the first still works on it.                   *)
NotConcurrent == scope = "one task" => NoConcurrentExecution
=============================================================================
