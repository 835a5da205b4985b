# A TLA+ model of Amor

Amor is a FastAPI application (`src/document_processor`) with a web page
(`src/web_ui`) that crawls, translates and stores documents and answers questions
with language models. It runs in two replicas behind nginx
(`docker-compose.yml`), each a single asyncio event loop; they share Redis
(session copies, task records, the URL frontier, pub/sub), MongoDB (chats, query
records), PostgreSQL (accounts, documents) and Kafka (tasks). What is hard in it
is what happens between two awaits: coroutines of one process that share objects,
replicas that cache what they share, best-effort writes, timeouts, retries and
restarts. That is what these modules model.

## The parts of the system

| Part | State | Operations | Module |
|---|---|---|---|
| Thinking sessions (`api/thinking_routes.py`, `_query_persistence.py`) | the session in each replica's memory and in Redis, the query record, the chat | `start_think`, `_run_session`, `cancel_thinking`, `get_status`, `cancel_query_record` | `ThinkingSession` |
| Thinking engine (`thinking/engine.py`) | status and result of six phases, their mirror in the session | `run`, `_run_phase`, `on_event` | `ThinkingEngine` |
| Research sessions (`api/local_ai_routes_simple.py`) | the dictionary of the task, the copies in caches and Redis with their lifetimes, record, history | start, `execute_advanced_research`, status, `cancel_research`, expiry | `ResearchSession` |
| Research pipeline (`research/advanced_researcher.py`, `relevance.py`) | sub-questions, sources, findings, session mirror | plan, gather, filter, analyze, synthesize | `AdvancedResearcher` |
| Search and fetch (`local_ai_routes_simple.py`) | answers of four engines, the fetches | `search_web`, `scrape_multiple_urls`, `translate_scraped_content` | `WebGather` |
| Local model (`local_ai_routes_simple.py`) | response cache, installed models, pull lock | `call_ollama`, pull, removal | `OllamaModel` |
| Event streams (`thinking_routes.py`, `infrastructure/cache.py`) | a queue for each replica, pub/sub, open streams | `_publish`, `stream_events`, the pump, the sweeper | `EventStream` |
| The page's watch (`web_ui/static/js/chat-research.js`, `auth.js`) | event sources, reconnects, refreshes, timers, polling | `_sseLoop`, `onerror`, `onAuthChanged`, `_pollThinking`, `_pollResearchInto` | `PageWatch` |
| A conversation (`chat-research.js`, `app.js`, `api/chat_research_routes.py`) | the open chat, the lock and the `_current` fields, rows, records, the registry of tasks | send, stop, resume, change of chat or mode, the handler, the cancels | `ChatPage` |
| Chat store (`infrastructure/chat_store.py` and its routes) | sessions, messages, folders, owners | create, append, rename, move, delete, with retried writes | `ChatStore` |
| Query records (`api/query_record_routes.py`) | one record, the copies its writers read | create, PATCH, cancel, marks of the pipelines | `QueryRecords` |
| Accounts (`auth/service.py`, `api/auth_routes.py`) | users, refresh tokens, login attempts | register, login, refresh, logout, expiry | `Auth` |
| Task manager (`orchestration/task_manager.py`) | Kafka log and offsets, Redis records, Task objects, statistics | `submit_task`, `cancel_task`, consumer loop, `_execute_task`, `_handle_failure`, `stop` | `TaskManager` |
| URL frontier and seeds (`crawling/url_frontier.py`, `seed_manager.py`) | Bloom filter, priority set, domain lists, delays | `add_url`, `get_next_url`, politeness, seeding | `CrawlFrontier` |
| Crawl scheduler (`crawling/scheduler.py`) | main loop, workers, blocked domains | dispatch, outcome of a fetch, requeueing, pause, resume, stop | `CrawlScheduler` |
| Crawl pipeline (`orchestration/pipeline.py`) | six queues, documents, statistics | submit, stages, `stop`, restart | `CrawlPipeline` |
| Resilient scraper (`crawling/resilient_scraper.py`) | breaker and semaphore of a domain, the attempts | `scrape`, the retry loop, `_do_fetch` | `ResilientScraper` |
| Document processing (`processing/pipeline.py`, `sources/web_scraper.py`, storage) | runs, deduplicator, providers, two stores, metrics | `process_source` from extraction to storage | `DocumentProcessing` |
| Translation (`services/translation_service.py`) | jobs, batches, memory, request limits | `translate`, the batch loop, job writes | `TranslationService` |
| Chunking (`rag/rag_engine.py`, `lancedb_store.py`) | position, chunks | `_chunk_text` | `Chunking` |
| Circuit breaker, token bucket, dead letter queue (`reliability/`) | counters; tokens and clock; parked messages and passes | `call`; `acquire`; `execute_with_error_handling`, `retry_dlq_messages` | `CircuitBreaker`, `RateLimiter`, `DeadLetterQueue` |

`PROJECT.json` lists these with what each module leaves out, the parts that are
not modelled with the reason, and every hazard with the line where it bites.

How they interact. A browser sends a question (`ChatPage` for the Claude API,
`ThinkingSession` and `ResearchSession` for the two pipelines). A session runs
its pipeline in the background (`ThinkingEngine`; `AdvancedResearcher` over
`WebGather` and `OllamaModel`), mirrors each phase into its dictionary and
publishes events that any replica streams to the browser (`EventStream`), where
`PageWatch` follows them. The outcome goes into the query record and the chat
(`QueryRecords`, `ChatStore`). The crawler takes URLs from `CrawlFrontier`
(`CrawlScheduler` extends it), fetches through `ResilientScraper`, which drives
the breaker of `CircuitBreaker` (the one instantiates the other), and hands pages
to `CrawlPipeline`. Jobs go through `TaskManager`. Where a module stands for a
part of another (a phase of the engine is one step of `ThinkingSession`, a search
is one step of `AdvancedResearcher`), the finer one shows what the step may do;
the correspondence itself is not checked.

## Conventions

A step is the code between two awaits, or between two statements of a database
whose order others can see. A write to Redis or MongoDB is captured where the
code serialises it and takes effect in a later step. Each module keeps the names
of the source. An operator under the comment *Faulty variant* is a plausible bug
of the definition after it; no specification uses it, and it shows that a property
can fail.

Data is abstracted to what the properties tell apart: a session dictionary is its
status, the number of phases in it and whether it holds a deliverable; a
translation is the text it translates; a text to be cut is its length and the
places where sentences end; clocks are ages that stop counting at the largest
value compared with; the language model answers, answers nothing, fails, or never
answers. Search engines, pages and model services may do anything their callers
tell apart. Calls of the stores fail where the code catches the error and goes on
(`ResearchSession`, `ThinkingSession` in the run `Assistant`, `EventStream`,
`TranslationService`, `DocumentProcessing`) and where a request answers an error
(`ChatStore`, `QueryRecords`, `ChatPage`; in `Auth` a request may die between two
statements). In the task manager and the crawler they succeed.

### The modules that run several parts

Parts that share no state are checked in one run each: `MCDocuments`, `MCRecords`,
`MCCrawl`, `MCAssistant` and `MCPage` extend several components and add a variable
`subject`, chosen in the initial state. Only the subject moves, so the state space
is the sum and not the product, and every property of every part is checked in
one configuration. Fairness is stated for a part while it is the subject.
`MCTaskManager` splits one component instead: `scope` is one task on all
processes, all tasks on one process, or one task on one process with its retries
and a cancel or a crash.

Where a part alone is too large, its MC module restricts the steps, never the
component's module:

* `MCDocuments`: the callers of `translate()` come before the jobs, which they meet
  only in the translation memory; jobs are enqueued in one order.
* `MCCrawl`: pause, resume and stop come once the seeds are in; two documents at a
  time only with both optional stages on.
* `MCAssistant`: sessions start at one of two replicas that are alike; the last
  write of a research has failed at one place at a time (Redis, a message, the
  record); calls of the model are concurrent without the cache, and one after the
  other with it, where the texts matter.
* `MCPage`: a Redis failure, a cancel and a second connection do not meet.

### Notes on single modules

* `CircuitBreaker`: `Call` is the part of `call()` under the lock; `Abandon` is a
  cancellation of the protected function, which is no `Exception` and runs
  neither handler. `probes` and `streak` are history.
* `RateLimiter`: a token is counted in the ticks that refill it, so that a tick
  refills one unit and no fraction is lost. `spent` is history.
* `TranslationService`: the limit of the router and the batch loop of the service;
  results are put in place by position, as the code does. A call of Redis may fail
  at each step that makes one; `torn` is the history of jobs saved from a batch in
  which a cache write failed.
* `DocumentProcessing`: a run is one call of `process_source`. The two writes of
  storage hide their errors, as in the code.
* `DeadLetterQueue`: concurrent passes walk copies of the queue and remove by index.
* `TaskManager`: a *job* is the Task object made of one delivery of a message, a
  *worker* is one `_execute_task` coroutine of a job. `Crash` restarts a process
  with empty memory, `Rebalance` takes the partition from it. The semaphore of
  `_process_task` has no state: it is released before the coroutine suspends.
  `_save_task` and the producer succeed; how their errors leave a coroutine is not
  modelled, but a crash may end any of them.
* `CrawlFrontier`, `CrawlScheduler`: an addition is one Redis command for each
  step; `get_next_url` reads the candidates and their domains in one, which nobody
  but the one main loop removes from, and looks at all of them (the code at 100).
  The Bloom filter is a set of positions, and two URLs may share one. A 429
  answer doubles `DomainState.crawl_delay` (`scheduler.py` 331-336); it starts as
  the frontier's delay and is written with it, so the model keeps one of the two.
  `PolitePool` is the abstract specification: URLs are put in and given away, two
  of one domain at least `Gap` apart. `CrawlScheduler` instantiates it with the
  URLs owed to the main loop and the ages of the domains (`PoolImplemented`).
* `ThinkingSession`: `mem[r]` is the dictionary in the memory of replica r, `run`
  walks through `start_think` and `_run_session`, `payload` is what its pending
  `_persist` captured. Each client makes one request, at any replica.
* `ThinkingEngine`: a skipped phase sends no event, so its mirror stays pending.
* `ResearchSession`: the task keeps the dictionary it was started with. Once the
  cache has dropped it, a request loads another one from Redis. `lost` is the
  history of places (Redis, the two messages, the record) where the task's last
  write failed, which the code swallows.
* `AdvancedResearcher`: `live_sources` are the cards of the page, made by
  `source_added` with the ids of that moment.
* `WebGather`: a fetch that has its slot returns at once for a URL that looks like a
  page of search results (517-521), although the engines drop those before.
* `OllamaModel`: a text is a short sequence of characters, among them the ones JSON
  escapes, and `CacheKey` is the JSON list that `_llm_cache_key` digests; two lists
  with one sha256 are not met. The pull lock is one for each process, the service
  is shared. A caller that gives up leaves its pull running at the service.
* `EventStream`: event n is the n-th published one and the last is `done`; one more
  is the `cancelled` that a request publishes at any replica. A queue keeps its
  identity when `_event_queues` forgets it, since a stream may still read it. `lost`
  is the history of publications that Redis failed to make.
* `PageWatch`: `es` names one source; a source replaced without being closed goes
  on as a stray, and its callbacks act on `es`. Handlers that await the token
  refresh, and timers, are counted.
* `ChatPage`: a request carries what the page's fields held when it was built;
  `moved` and `disturbed` are the history of changes of the chat, and of resumed
  queries, while a question was under way, and `unknown` that of records made while
  the page's request for them failed.
* `Auth`: one step for each statement whose result a later one relies on; accounts
  and tokens are named after the request that inserts them.
* `Chunking`: one step is one turn of the loop, for every placing of sentence ends.

## What the runs show

The bounds are the smallest at which every action happens and the races in
question have room; only what the environment does is bounded. Deadlock is not
checked: every behaviour stops when its requests, messages or events are used up.

| Run | Instance | Shows |
|---|---|---|
| `Documents` | three callers and thresholds of two; a bucket of two tokens over 12 ticks; four jobs in two language pairs in batches of four, two callers, two Redis failures; two runs over sources that share a chunk; texts of 6, chunks of 4, overlap 2, every placing of sentence ends; three messages and two passes | `BreakerBounds` (a closed circuit is below its threshold; at most `half_open_max_calls` + 1 probes), `RecoveryNeedsStreak`, `HalfOpenResolves`; `AtMostDoubled` (the bucket grants at most twice its rate plus the burst); `TranslationSound` (a completed job has the translation of its own text, or of another of its group when a cache write failed; the limit of requests holds); `ProcessingSound` (a chunk is kept once, stored content has its metadata, the metrics agree with the runs); `ChunksCover` (no character is left out); `EveryEntryAccounted` |
| `Records` | two replicas, two requests, one restart; two chat requests of two users; three writers of a record; three requests on accounts; two questions, one resumable pipeline, two chats and three events of the user or faults, a record made while its request failed among them | `RecordAfterHistory`, `QuietIsSettled`, `HomeOutcomeSettled` (a completed record has its messages; quiet stores are final and agree if nobody cancelled; the outcome at the runner's replica is settled); `HistoryIntact`, `OwnersOnly` (a repeated submission stores one message, orphans come only of writes that were under way, nobody changes what others own); `RecordSound` (a final status has its stamp, a key names one record); `AccountsSound` (one account for a name, a replaced token is revoked, a lock follows failures); `ConversationSound` (one question at a time, Stop reaches it, a record the page was not told of is left alone, the rows are together, the question is stored once) |
| `Crawl` | two tasks, one process, one cancel; two URLs of a domain that share a position of the filter, a seeder, a worker, a high watermark of one, so that the queue exceeds it; two documents, two stages that may be off | `AttemptsInOrder`; `FrontierSound` (the two queues agree up to the steps in progress; a URL is handed out once); `PoolImplemented` (the refinement of `PolitePool`); `PipelineSound` (each document is counted once and passes the stages that are on, in order); `CrawlEnds` (tasks reach a final state; the queue drains unless it exceeds the watermark, and a loop that waits for that never sees it end) |
| `Assistant` | one session whose writes may be lost; six phases; three sources and two sub-questions; a research session on two replicas with lifetimes 2 and 3; three pages and four engines; three fetches of a domain; two callers of the model at two replicas and two removals of it, or any two of 50 queries with the response cache | `EngineSound` (phases in order, the deliverable attempted, nothing produced is lost at the ceiling, the page's phases are the engine's but for skipped ones); `ResearchSound` (citations name sources that survived, once each, and each has one card on the page; the analyses stay within their limit); `ReportStands` (a completed record has its question and report, and the outcome of the run stands, but for what a failed write of the very item lost); `GatherSound` (merged results in order without doubles, fetches bounded, no page lost to a failed translation); `FetchesBounded` (the limit of a domain; an open circuit is overrun only by fetches already queued); `OwnResponse` (no two queries share a cache key), `PullsNeeded` (a call never pulls what a call of its process just installed); `AnswersEnd` (a session and a scrape end although the model hangs and servers refuse) |
| `TaskManager` | two tasks, two processes, Kafka, one fault, rebalances, one cancel, two retries | `NotConcurrent` (no task is handled twice at once, without a rebalance), `StatsAgree`, `CommitsOnlySpawned` (an offset passes only messages that became jobs) |
| `Page` | two replicas and connections, three events and a `cancelled` one, queues of two and a memory of one id (500 and 200 in the code), so that queues overflow before and at `done` and ids are forgotten; five reconnects, two failures and two strays at once, three polls | `StreamSound` (an event is sent again only outside the memory of ids; a remote stream alone on its replica has no gap but what Redis lost); `WatchSound` (the page never waits for nothing, and shows a result only of a completed session); `ProgressEnds` (a stream at the runner's replica ends with the session while it is the one reader of the current queue and no cancel wrote there; the page gives up on a server that is gone, and ends with a session its first source was following) |

All of these runs but `TaskManager`, whose types are proved, also check the types of
their components (`...TypesOK`).

Six runs end in a counterexample: the code does something a comment of the
repository says it does not (quoted under `findings`).

| Run | The code |
|---|---|
| `ThinkingSessionStale` | overwrites a completed session in Redis by an old copy: a cancel at a replica that cached the session earlier tests and persists its own copy |
| `DeadLetterQueueRetry` | removes a failed message in place of the accepted one: the index is corrected by the failures, and what is gone are the successes |
| `ChunkingLoop` | takes the same chunk for ever when a sentence ends within the overlap |
| `TokenBucket` | exceeds its rate: the time slept for a token is credited again to the next caller |
| `ResearchCancel` | completes a session that was cancelled with phases still to come, as the pipeline does not read the flag |
| `CrawlBlocked` | drops a URL whose domain is blocked: it is put back without force, and the filter refuses it |

### Where a property is weaker than a comment

The models have these behaviours too. Each is the reason why a property carries an
exception or why no property says what a reader might expect.

* The breaker lets through one probe more than `half_open_max_calls`, since the
  call that leaves OPEN is not counted (`circuit_breaker.py` 79), and stays
  half-open for ever once cancelled probes used up the budget (98-112).
* The scraper never tests an open domain again when nothing is in flight:
  `is_open` only reads the state (`resilient_scraper.py` 197).
* `_process_task` releases the semaphore before the handler runs
  (`task_manager.py` 463), so `max_workers` bounds nothing. `cancel_task` returns
  True for a task in the topic, whose handler starts later (401); the submitter's
  `queued` may overwrite the outcome (318); an offset is committed before the task
  has run, so a crash loses it (454); `stop` does not wait for retries scheduled
  while it gathers (252).
* A cancelled thinking session goes on, as nothing reads `cancel_requested`
  (`thinking_routes.py` 625), and another replica goes on showing its cached copy
  (103): `QuietIsSettled` speaks of agreement only when nobody cancelled.
* Skipped phases stay pending on the page, as `run` sends no event for them
  (`engine.py` 469-471), although the comment there wants the page to see them:
  `MirrorAgrees` excepts them.
* `cancel_query_record` may rewrite a record that completed after it was read
  (`chat_store.py` 1084): final does not say which outcome.
* The ceilings of a research (up to 18000 s) exceed the lifetime of its copies
  (7200 s, `local_ai_routes_simple.py` 1780): the outcome may outlive the session
  and be found in the record only. `OutcomeStands` allows for the absent copy.
* The writes of a research to Redis, to the chat and to the record are best effort
  (`local_ai_routes_simple.py` 83-91, `_query_persistence.py` 97-107, 136-146): a
  record may say completed without the report in the chat. `ReportInHistory` and
  `OutcomeStands` except the one item whose own last write failed.
* Sources are renumbered before the report is written (`advanced_researcher.py`
  650), after `source_added` gave the page their ids (401-411): the card of a number
  may then be that of another source. `CardsMade` speaks of numbers up to there.
* The pull lock (`local_ai_routes_simple.py` 55) is one for each process: two
  replicas may pull the same model, and a call may pull one that the other replica,
  or a pull whose caller gave up, has just installed. `PullsNeeded` speaks of the
  calls of one process.
* The main loop waits while the queue is longer than the high watermark
  (`scheduler.py` 237), and nothing but the loop shortens it: once over it the crawl
  stands still. `QueueDrains` excepts it and states it.
* Two rotations of one refresh token may both succeed (`auth/service.py` 446):
  `AccountsSound` bounds the successors of a token by nothing.
* When a cache write fails in the middle of a batch, `batch_translate` appends the
  results it had kept a second time (`translation_service.py` 710-731), and later
  jobs of the group are completed with translations of earlier texts: `torn`
  excepts them. Without a translator the results shift as well; `TranslationSound`
  is checked with one, as the routes configure it.
* A remote stream stays open when `done` comes between its cached snapshot and its
  subscription (`thinking_routes.py` 696), and two tabs on one replica share the
  events of one queue (678): `StreamEnds`, `RemoteUnbroken`.
* `seen_ids` holds 200 ids and a queue 500 events (74, 679): the copy that comes over
  Redis may be sent again when a full queue lies between the two. `NoDuplicates`
  speaks of the memory. The `cancelled` event of a request (629) may push `done` out
  of a full queue when Redis has lost it too: `StreamEnds`.
* A source that connects after the session ended gets the snapshot and is closed
  (`thinking_routes.py` 695-701). The page takes the snapshot for a sign of life
  and sets `reconnects` to 0 (`chat-research.js` 1487), so it connects again for
  ever, although 1202-1205 promises a terminal state of the card. A `cancelled`
  event sends the page into the polling, which knows only completed and failed
  and goes on to its limit. `WatchEnds` therefore speaks of the first source.
* `_resumeFromRecord` tests no lock, and its end releases the lock whoever holds
  it: `OneSend`, `StopReaches` and `SaidOnce` except questions under way while
  something was resumed. Stop before the record is made cancels nothing at the
  server, and at another replica a cancel only marks the record. A record that was
  made although its request failed (`chat-research.js` 540-549) stays running, out
  of reach of Stop and of the handler: `UnknownIsLeft`, `StopReaches`.
* The page stores the answer without a key and the handler with one, so it has two
  rows, although `chat-research.js` 464-467 and `chat_store.py` 511-516 expect
  them to collapse: `SaidOnce` is about the question. Rows go into the chat that
  is open when they are written: `RowsTogether` excepts questions during which the
  user changed it.

### Fairness

Ready coroutines of a live process run, callbacks of the browser run, Redis and
Kafka answer, time passes: weak fairness on those steps. A request ends because
aiohttp, the language model clients and `wait_for` have timeouts, so ends of
handlers and fetches are fair, while the outcome is not: `PhaseEnds` and
`Completes` have no fairness, the ceiling does. asyncio semaphores are first
come, first served, hence strong fairness of `Send`. Crashes, cancels, `reset`,
`pause`, `stop`, disconnects, new logins and questions are never required to
happen. The safety runs `Records` and `TaskManager` assume none.

## What is proved

The proofs hold for every value of the constants that satisfies the named
assumption of the module.

* `CircuitBreakerProofs`: `BoundsHold` (`BreakerBounds`) and `RecoveryIsEarned`
  (`RecoveryNeedsStreak`). The invariant ties the history to the counters: while
  half-open the probes are one more than `half_open_calls`, and the streak is at
  least the success count. Without the first the bound does not survive an
  admission, without the second a closing step says nothing about the streak.
* `RateLimiterProofs`: `RateBound` (`AtMostDoubled`). `RateInv` bounds what
  was spent and what is in the bucket together by the burst and the two times each
  tick can be credited: as a refill up to `last_update`, and as a sleep.
* `TaskManagerProofs`: `TypeCorrect` and `OneAttemptAtATime` (`AttemptsInOrder`).
  The invariant adds how `retry_count` fixes which attempts of a job exist and
  where they are: only the attempt whose number is the count can be before or in
  its handler, so only it counts a failure, and only the sleeping one schedules a
  successor. `LocalInv` says that a job submitted without Kafka is not made before
  its submit spawns it, so that spawning never overwrites a worker.
* `ThinkingSessionProofs`: `TypeCorrect`; `HistoryBeforeRecord`
  (`RecordAfterHistory`, assuming that no write is lost), by an invariant that
  follows the messages through the runner's steps; `HomeOutcomeIsSettled`
  (`HomeOutcomeSettled`): the runner's replica has its dictionary in memory, so no
  load is pending there, so only the runner and the cancel test change it.
* `CrawlSchedulerProofs`: `FrontierIsSound` (`FrontierSound`) and
  `FrontierImplementsPool` (`PoolImplemented`). `CrawlInv` says where a URL
  that is owed lies (the priority set, or the hands of the loop), and that the
  domain's list, with the pushes to come, covers the priority set and the removal
  to come; `FrontierSound` alone says nothing of additions under way. `Rested`
  adds, for the politeness of the pool, that a domain has rested while the loop
  takes a URL of it out: delays never fall below the least one, and only the loop
  writes crawl times.
* `QueryRecordsProofs`: `RecordIsSound` (`RecordSound`). The invariant extends the
  stamp to the copies that requests read earlier, on which they decide.
* `AuthProofs`: `AccountsAreSound` (`AccountsSound`). The invariant relates the
  rows a request has read to those in the tables, and the failures counted to the
  lock.
* `ResilientScraperProofs`: `LoadIsBounded` (`FetchesBounded`). Once a circuit is
  open nobody joins the fetches that wait for the semaphore, and each of them
  sends one request: overrun and waiters together stay below the number of fetches
  (`WaitersBounded`).

Out of the prover's reach and left to TLC: every liveness property (fairness and
`ENABLED`), sums over sets of coroutines such as `StatsAgree`, and what the loops
over sequences compute (`ChunksCover`, `TranslationSound`). The properties of the
engine, the researcher, the research session, the search, the model calls, the
chat store, the pipelines, the streams and the page are model-checked only.

## What is not modelled

* Functions of text or of numbers: prompts, parsing of answers, extraction,
  language detection, relevance and quality scores, embeddings and vector search,
  the multimodal readers. They keep no state, and their results are choices in the
  modules that use them.
* Pure input and output: routing, settings, startup, metrics, the rendering of the
  page, its lists and forms, the read-only and the stateless routes.
* Site logins, which drive a browser on an external site, and the wrappers of
  external services (`local_ai`, the Kafka client of the message queue).
* Code nothing in the program uses: the sliding window and adaptive limiters, the
  `clear` of the frontier.
* Of modelled parts: `CircuitBreakerManager`, proxy rotation and the global
  semaphore of the scraper, `start` after `stop` of the task manager and the
  scheduler, Kafka and Redis calls of the task manager that raise, the eviction of
  thinking sessions from their bounded cache, the event a runner publishes when the
  shutdown of the server cancels it, automatic titles, the length of backoffs, and
  cryptography.
