--------------------------- MODULE CrawlScheduler ---------------------------
(***************************************************************************)
(* The crawl scheduler (crawling/scheduler.py) on the frontier: its main   *)
(* loop, the tasks it spawns, pause, resume and stop.                      *)
(*                                                                         *)
(* The handler of a URL is external: it returns a status or raises.        *)
(***************************************************************************)
EXTENDS CrawlFrontier

CONSTANTS
    MaxWorkers,         \* config.max_concurrent_workers
    HighWatermark,      \* config.queue_high_watermark
    ErrorLimit,         \* consecutive errors that block a domain (5)
    BlockTime,          \* how long it stays blocked (300 s)
    MaxRetries          \* bound on the URLs put back after a 429

ASSUME SchedulerAssumption ==
    /\ MaxWorkers \in Nat \ {0} /\ HighWatermark \in Nat
    /\ ErrorLimit \in Nat \ {0} /\ BlockTime \in Nat \ {0} /\ MaxRetries \in Nat

VARIABLES
    sched,      \* SchedulerState
    paused,     \* _pause_event is cleared
    loop,       \* where the main loop is
    picked,     \* the URL in its hands
    crawlWorker,     \* crawlWorker[k]: a task and its URL
    domain,     \* domain[d]: DomainState
    owed,       \* owed[u]: times u was queued less times it was given away (history)
    retries     \* URLs put back after a 429 (history)

schedulerVars == <<sched, paused, loop, picked, crawlWorker, domain, owed, retries>>

crawlVars == <<frontierVars, schedulerVars>>

LoopStep == {"top", "wait", "get", "zrem", "lrem", "stamp", "spawn", "exited"}

Idle == [step |-> "idle", url |-> NoScore]

CrawlTypeOK ==
    /\ FrontierTypeOK
    /\ sched \in {"running", "paused", "stopping", "stopped"}
    /\ paused \in BOOLEAN
    /\ loop \in LoopStep
    /\ picked \in CrawlUrls \cup {NoScore}
    /\ crawlWorker \in [CrawlWorkers -> [step : {"idle", "start", "fetch", "delay", "requeue"},
                                    url : CrawlUrls \cup {NoScore}]]
    /\ domain \in [CrawlDomains -> [errors : 0..ErrorLimit, blocked : 0..BlockTime]]
    /\ owed \in [CrawlUrls -> Int]
    /\ retries \in 0..MaxRetries

CrawlInit ==
    /\ FrontierInit
    /\ sched = "running" /\ paused = FALSE
    /\ loop = "top" /\ picked = NoScore
    /\ crawlWorker = [k \in CrawlWorkers |-> Idle]
    /\ domain = [d \in CrawlDomains |-> [errors |-> 0, blocked |-> 0]]
    /\ owed = [u \in CrawlUrls |-> 0]
    /\ retries = 0

-----------------------------------------------------------------------------
(* Main loop *)

LoopGoes(step) == loop' = step

QueueSize == Cardinality({u \in CrawlUrls : pq[u] # NoScore})

\* The stop event is looked at before the wait for the pause event, ...
LoopTop ==
    /\ loop = "top"
    /\ LoopGoes(IF sched \in {"stopping", "stopped"} THEN "exited" ELSE "wait")
    /\ UNCHANGED <<frontierVars, sched, paused, picked, crawlWorker, domain, owed, retries>>

\* Faulty variant: the loop waits at the watermark, not above it.
LoopWaitsEarly ==
    /\ loop = "wait" /\ ~paused
    /\ LoopGoes(IF QueueSize >= HighWatermark THEN "top" ELSE "get")
    /\ UNCHANGED <<frontierVars, sched, paused, picked, crawlWorker, domain, owed, retries>>

\* ... then comes _check_backpressure: above the high watermark the loop sleeps
\* and starts over.
LoopWaits ==
    /\ loop = "wait" /\ ~paused
    /\ LoopGoes(IF QueueSize > HighWatermark THEN "top" ELSE "get")
    /\ UNCHANGED <<frontierVars, sched, paused, picked, crawlWorker, domain, owed, retries>>

\* get_next_url finds a URL that may be crawled ...
GetNextUrl ==
    /\ loop = "get"
    /\ picked' \in Candidates
    /\ LoopGoes("zrem")
    /\ UNCHANGED <<frontierVars, sched, paused, crawlWorker, domain, owed, retries>>

\* ... or none within its second; after the idle timeout, longer than any delay,
\* an empty queue ends the loop.
GetNothing ==
    /\ loop = "get"
    /\ Candidates = {}
    /\ \/ LoopGoes("top")
       \/ QueueSize = 0 /\ LoopGoes("exited")
    /\ UNCHANGED <<frontierVars, sched, paused, picked, crawlWorker, domain, owed, retries>>

\* The three commands that take it out of the frontier.
TakeZ ==
    /\ loop = "zrem"
    /\ ZRem(picked)
    /\ LoopGoes("lrem")
    /\ UNCHANGED <<bits, dq, since, delay, adding, seeder, sched, paused, picked, crawlWorker,
                   domain, owed, retries>>

TakeL ==
    /\ loop = "lrem"
    /\ LRem(picked)
    /\ LoopGoes("stamp")
    /\ UNCHANGED <<bits, pq, since, delay, adding, seeder, sched, paused, picked, crawlWorker,
                   domain, owed, retries>>

TakeStamp ==
    /\ loop = "stamp"
    /\ UpdateCrawlTime(DomainOf[picked])
    /\ owed' = [owed EXCEPT ![picked] = @ - 1]
    /\ LoopGoes("spawn")
    /\ UNCHANGED <<bits, pq, dq, delay, adding, seeder, sched, paused, picked, crawlWorker,
                   domain, retries>>

\* _enforce_rate_limits sleeps until both limits allow the request;
\* _spawn_worker holds the semaphore while it creates the task, not while it runs.
SpawnWorker ==
    /\ loop = "spawn"
    /\ \E k \in CrawlWorkers :
          /\ crawlWorker[k] = Idle
          /\ crawlWorker' = [crawlWorker EXCEPT ![k] = [step |-> "start", url |-> picked]]
    /\ picked' = NoScore
    /\ LoopGoes("top")
    /\ UNCHANGED <<frontierVars, sched, paused, domain, owed, retries>>

-----------------------------------------------------------------------------
(* Tasks *)

Running(k, step) == crawlWorker[k].step = step /\ adding[k].step = "idle"

DomOf(k) == DomainOf[crawlWorker[k].url]

CrawlWorkerEnds(k) == crawlWorker' = [crawlWorker EXCEPT ![k] = Idle]

\* A blocked domain gives the URL back with add_url, without force; a block that
\* is over is lifted.
WorkerStarts(k) ==
    /\ Running(k, "start")
    /\ IF domain[DomOf(k)].blocked > 0
       THEN /\ adding' = [adding EXCEPT ![k] = AddUrl(crawlWorker[k].url, 100, FALSE)]
            /\ crawlWorker' = [crawlWorker EXCEPT ![k].step = "requeue"]
       ELSE /\ crawlWorker' = [crawlWorker EXCEPT ![k].step = "fetch"]
            /\ UNCHANGED adding
    /\ UNCHANGED <<bits, pq, dq, since, delay, seeder, sched, paused, loop, picked, domain,
                   owed, retries>>

\* Success: the error count is reset and the delay follows the response time.
\* crawl_delay of the DomainState is always the delay the frontier keeps.
FetchSucceeds(k) ==
    /\ Running(k, "fetch")
    /\ \E x \in 0..(2 * MaxDelay) : SetDomainDelay(DomOf(k), x)
    /\ domain' = [domain EXCEPT ![DomOf(k)].errors = 0]
    /\ CrawlWorkerEnds(k)
    /\ UNCHANGED <<bits, pq, dq, since, adding, seeder, sched, paused, loop, picked, owed,
                   retries>>

Count(n) == IF n < ErrorLimit THEN n + 1 ELSE n

\* 429: the delay doubles and the URL goes back by force.
FetchRateLimited(k) ==
    /\ Running(k, "fetch")
    /\ retries < MaxRetries /\ retries' = retries + 1
    /\ SetDomainDelay(DomOf(k), 2 * delay[DomOf(k)])
    /\ domain' = [domain EXCEPT ![DomOf(k)].errors = Count(@)]
    /\ adding' = [adding EXCEPT ![k] = AddUrl(crawlWorker[k].url, 50, TRUE)]
    /\ crawlWorker' = [crawlWorker EXCEPT ![k].step = "requeue"]
    /\ UNCHANGED <<bits, pq, dq, since, seeder, sched, paused, loop, picked, owed>>

\* A server error counts, and blocks the domain at the limit.
FetchServerError(k) ==
    /\ Running(k, "fetch")
    /\ domain' = [domain EXCEPT ![DomOf(k)] = [@ EXCEPT !.errors = Count(@),
                    !.blocked = IF Count(domain[DomOf(k)].errors) = ErrorLimit
                                THEN BlockTime ELSE @]]
    /\ CrawlWorkerEnds(k)
    /\ UNCHANGED <<frontierVars, sched, paused, loop, picked, owed, retries>>

\* A timeout counts without blocking, a client error or an exception does neither.
FetchFails(k) ==
    /\ Running(k, "fetch")
    /\ \E timeout \in BOOLEAN :
          domain' = IF timeout THEN [domain EXCEPT ![DomOf(k)].errors = Count(@)] ELSE domain
    /\ CrawlWorkerEnds(k)
    /\ UNCHANGED <<frontierVars, sched, paused, loop, picked, owed, retries>>

\* The task ends when add_url has returned, whatever it returned.
Requeued(k) ==
    /\ Running(k, "requeue")
    /\ CrawlWorkerEnds(k)
    /\ UNCHANGED <<frontierVars, sched, paused, loop, picked, domain, owed, retries>>

\* The steps of add_url, of seeders and of tasks.
AddingStep(p) ==
    /\ AddStepOf(p)
    /\ owed' = IF adding[p].step = "zadd" /\ pq[adding[p].url] = NoScore
               THEN [owed EXCEPT ![adding[p].url] = @ + 1] ELSE owed
    /\ UNCHANGED <<sched, paused, loop, picked, crawlWorker, domain, retries>>

SeedingStep(s) ==
    /\ SeedStep(s)
    /\ UNCHANGED schedulerVars

-----------------------------------------------------------------------------
(* Control and time *)

Pause ==
    /\ sched = "running"
    /\ paused' = TRUE /\ sched' = "paused"
    /\ UNCHANGED <<frontierVars, loop, picked, crawlWorker, domain, owed, retries>>

Resume ==
    /\ sched = "paused"
    /\ paused' = FALSE /\ sched' = "running"
    /\ UNCHANGED <<frontierVars, loop, picked, crawlWorker, domain, owed, retries>>

\* stop sets the stop event ...
Stop ==
    /\ sched \in {"running", "paused"}
    /\ sched' = "stopping"
    /\ UNCHANGED <<frontierVars, paused, loop, picked, crawlWorker, domain, owed, retries>>

\* ... and returns when the tasks it saw are over.
Stopped ==
    /\ sched = "stopping"
    /\ \A k \in CrawlWorkers : crawlWorker[k] = Idle
    /\ sched' = "stopped"
    /\ UNCHANGED <<frontierVars, paused, loop, picked, crawlWorker, domain, owed, retries>>

Tick ==
    /\ since' = [d \in CrawlDomains |-> IF since[d] < MaxDelay THEN since[d] + 1 ELSE since[d]]
    /\ domain' = [d \in CrawlDomains |->
                    [domain[d] EXCEPT !.blocked = IF @ > 0 THEN @ - 1 ELSE 0]]
    /\ <<since', domain'>> # <<since, domain>>
    /\ UNCHANGED <<bits, pq, dq, delay, adding, seeder, sched, paused, loop, picked, crawlWorker,
                   owed, retries>>

MainLoop == \/ LoopTop \/ LoopWaits \/ GetNextUrl \/ GetNothing \/ TakeZ \/ TakeL
            \/ TakeStamp \/ SpawnWorker

WorkerStep(k) == \/ WorkerStarts(k) \/ FetchSucceeds(k) \/ FetchRateLimited(k)
                 \/ FetchServerError(k) \/ FetchFails(k) \/ Requeued(k)

CrawlNext ==
    \/ MainLoop \/ Pause \/ Resume \/ Stop \/ Stopped \/ Tick
    \/ \E k \in CrawlWorkers : WorkerStep(k)
    \/ \E p \in Adders : AddingStep(p)
    \/ \E s \in Seeders : SeedingStep(s)

CrawlSpec == CrawlInit /\ [][CrawlNext]_crawlVars

\* The loop and the tasks run on the event loop, time passes.
CrawlFair ==
    /\ WF_crawlVars(MainLoop) /\ WF_crawlVars(Tick)
    /\ \A k \in CrawlWorkers : WF_crawlVars(WorkerStep(k))
    /\ \A p \in Adders : WF_crawlVars(AddingStep(p))

-----------------------------------------------------------------------------
(* Properties *)

\* Every URL of the priority queue is in its domain queue too, unless an add_url
\* is between the two commands: additions, repeated additions and the removal by
\* get_next_url interleave command by command.
QueuesAgree ==
    \A u \in CrawlUrls : pq[u] # NoScore =>
       dq[u] > 0 \/ \E p \in Adders : adding[p].step = "rpush" /\ adding[p].url = u

\* One scheduler gives a URL away no more often than it was queued, though two
\* seeders may both find the Bloom filter empty and tasks put URLs back.
HandedOutOnce == \A u \in CrawlUrls : owed[u] >= 0

\* The two together: what is in the one queue is in the other, and nothing is
\* given away twice.
FrontierSound == QueuesAgree /\ HandedOutOnce

\* Where the pool is: in the priority queue, and in the hands of the loop until
\* get_next_url returns.
InPool ==
    [u \in CrawlUrls |-> (IF pq[u] # NoScore THEN 1 ELSE 0)
                          + (IF loop \in {"lrem", "stamp"} /\ picked = u THEN 1 ELSE 0)]

Ages == [d \in CrawlDomains |-> IF since[d] < MinDelay THEN since[d] ELSE MinDelay]

Pool == INSTANCE PolitePool WITH
            Items <- CrawlUrls, Groups <- CrawlDomains, GroupOf <- DomainOf,
            Gap <- MinDelay, pool <- InPool, age <- Ages

\* The frontier is a polite pool: the three commands of get_next_url, interleaved
\* with the commands of add_url, give away only what is queued, and two URLs of a
\* domain at least min_crawl_delay apart, while tasks rewrite the delay.
PoolImplemented == Pool!PoolSpec

Backpressure == QueueSize > HighWatermark

\* A queued URL is given away in the end unless the scheduler is stopped, paused
\* or has given up: no delay keeps a domain out for ever.  The one other thing
\* that stops it is backpressure, which the loop, once it waits for it, never sees
\* the end of ("slowing down" says the log): nothing else shortens the queue.
QueueDrains ==
    /\ \A u \in CrawlUrls :
          (pq[u] # NoScore) ~> \/ pq[u] = NoScore \/ Backpressure
                               \/ loop = "exited" \/ sched # "running"
    /\ [][Backpressure /\ loop \in {"top", "wait"} => Backpressure']_crawlVars

\* "Re-queue with low priority": the URL a task gives back for a blocked domain
\* goes on into the priority queue.
BlockedIsRequeued ==
    [][\A k \in CrawlWorkers : adding[k].step # "idle" /\ adding'[k].step = "idle"
          => adding[k].step = "rpush"]_crawlVars

=============================================================================
