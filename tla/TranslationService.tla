-------------------------- MODULE TranslationService --------------------------
(***************************************************************************)
(* The translation service (services/translation_service.py): single       *)
(* requests answered from the Redis translation memory or by a provider,   *)
(* under a per-minute request limit, and queued jobs that a background     *)
(* loop collects into batches, groups by language pair, translates and     *)
(* writes back to Redis.                                                   *)
(*                                                                         *)
(* Every await is a step: a cache look-up, a call of the translator, each  *)
(* write of a job.  Redis and the translator may fail at any of them.  A   *)
(* translation is represented by the text it is a translation of.          *)
(***************************************************************************)
EXTENDS Integers, FiniteSets, Sequences, SequencesExt

CONSTANTS
    TranslationJobs,          \* the queued jobs
    TextOf,                   \* TextOf[j]: the text of job j
    PairOf,                   \* PairOf[j]: its (source, target) languages
    batch_size,
    HasTranslator,            \* the NLLB translator could be constructed
    Started,                  \* somebody calls start(): the routes only initialize()
    TranslateCallers,         \* callers of translate()
    max_requests_per_minute,
    MaxRedisFaults,           \* bound: commands of Redis that fail for the loop
    NoText                    \* a job without a result

ASSUME TranslationAssumption ==
    /\ IsFiniteSet(TranslationJobs) /\ IsFiniteSet(TranslateCallers)
    /\ batch_size \in Nat \ {0}
    /\ HasTranslator \in BOOLEAN /\ Started \in BOOLEAN
    /\ max_requests_per_minute \in Nat /\ MaxRedisFaults \in Nat

VARIABLES
    serviceUp,     \* _running: not yet "off", "on", or "off" for good
    loopAt,        \* where _batch_processor_loop is
    jobQueue,      \* _batch_queue
    batch,         \* the jobs collected so far
    work,          \* the locals of _process_batch and batch_translate
    job,           \* the TranslationJob objects in memory
    saved,         \* the jobs as Redis holds them
    redisFaults,   \* commands of Redis that failed for the loop
    torn,          \* history: the jobs saved from results with a failed cache write
    memory,        \* the translation memory: the cached (text, pair)s
    caller,        \* where each call of translate() is
    window         \* requests counted in the current minute

jobVars == <<job, saved, torn>>
callVars == <<memory, caller, window>>
batchVars == <<serviceUp, loopAt, jobQueue, batch, work, redisFaults, jobVars>>
translationVars == <<batchVars, callVars>>

JobStates == {"none", "pending", "completed", "failed"}
JobTexts == {TextOf[j] : j \in TranslationJobs}
Keys == {<<TextOf[j], PairOf[j]>> : j \in TranslationJobs}
NoWork == [groups |-> <<>>, i |-> 1, uncached |-> <<>>, results |-> <<>>,
           torn |-> FALSE]
NoJob == [status |-> "none", result |-> NoText]

TranslationTypeOK ==
    /\ serviceUp \in {"new", "on", "off"}
    /\ loopAt \in {"off", "get", "lookup", "call", "keep", "save", "fail", "ended"}
    /\ ToSet(jobQueue) \cup ToSet(batch) \subseteq TranslationJobs
    /\ work.i \in Nat \ {0}
    /\ \A r \in ToSet(work.results) :
           r.index \in Nat \ {0} /\ r.text \in JobTexts \cup {NoText}
    /\ job \in [TranslationJobs -> [status : JobStates, result : JobTexts \cup {NoText}]]
    /\ saved \in [TranslationJobs -> [status : JobStates, result : JobTexts \cup {NoText}]]
    /\ redisFaults \in 0..MaxRedisFaults
    /\ work.torn \in BOOLEAN /\ torn \subseteq TranslationJobs
    /\ memory \subseteq Keys
    /\ caller \in [TranslateCallers -> {"idle", "providers", "store"}]
    /\ window \in Nat

TranslationInit ==
    /\ serviceUp = "new"
    /\ loopAt = "off"
    /\ jobQueue = <<>>
    /\ batch = <<>>
    /\ work = NoWork
    /\ job = [j \in TranslationJobs |-> NoJob]
    /\ saved = job
    /\ redisFaults = 0
    /\ torn = {}
    /\ memory = {}
    /\ caller = [c \in TranslateCallers |-> "idle"]
    /\ window = 0

-----------------------------------------------------------------------------
(* One call of translate().  The look-up and the check of the limits run   *)
(* without an await between them; the request is counted only when the     *)
(* provider has answered.                                                  *)

\* _check_rate_limits: the requests of the last minute, entries aged out.
CheckRateLimits ==
    window < max_requests_per_minute

\* An undetected language, a text already in the target language, a cached
\* text and a full minute all answer at once; the others go to a provider.
TranslateStarts(c) ==
    /\ caller[c] = "idle"
    /\ CheckRateLimits
    /\ caller' = [caller EXCEPT ![c] = "providers"]
    /\ UNCHANGED <<batchVars, memory, window>>

\* Some provider answers (the primary one or a fallback).  The request is
\* counted and the answer goes on to the cache; when all fail it is counted
\* and the call returns.
ProviderAnswers(c) ==
    /\ caller[c] = "providers"
    /\ window' = window + 1
    /\ \E next \in {"store", "idle"} : caller' = [caller EXCEPT ![c] = next]
    /\ UNCHANGED <<batchVars, memory>>

\* The answer is cached, unless Redis fails; either way the call returns.
StoreTranslation(c) ==
    /\ caller[c] = "store"
    /\ \E k \in Keys : memory' \in {memory, memory \cup {k}}
    /\ caller' = [caller EXCEPT ![c] = "idle"]
    /\ UNCHANGED <<batchVars, window>>

\* An entry of the rate window is older than a minute, or one of the cache
\* has expired.
EntryAges ==
    \/ /\ window > 0
       /\ window' = window - 1
       /\ UNCHANGED <<batchVars, memory, caller>>
    \/ /\ \E k \in memory : memory' = memory \ {k}
       /\ UNCHANGED <<batchVars, caller, window>>

-----------------------------------------------------------------------------
(* Jobs: enqueue_translation and the loop that collects them.              *)

\* The job is stored in Redis as pending and put on the local queue.
EnqueueTranslation(j) ==
    /\ saved[j].status = "none"
    /\ job' = [job EXCEPT ![j].status = "pending"]
    /\ saved' = [saved EXCEPT ![j].status = "pending"]
    /\ jobQueue' = Append(jobQueue, j)
    /\ UNCHANGED <<serviceUp, loopAt, batch, work, redisFaults, torn, callVars>>

StartService ==
    /\ Started
    /\ serviceUp = "new"
    /\ serviceUp' = "on"
    /\ loopAt' = "get"
    /\ UNCHANGED <<jobQueue, batch, work, redisFaults, jobVars, callVars>>

\* A command of Redis fails.
RedisFails ==
    /\ redisFaults < MaxRedisFaults
    /\ redisFaults' = redisFaults + 1

\* by_lang_pair: the jobs of a batch by language pair, pairs in the order in
\* which they first occur, jobs of a pair in the order of the batch.
ByLangPair(jobs) ==
    LET pairs == FoldLeft(LAMBDA seen, j : IF Contains(seen, PairOf[j])
                                           THEN seen ELSE Append(seen, PairOf[j]),
                          <<>>, jobs)
    IN  [p \in DOMAIN pairs |-> SelectSeq(jobs, LAMBDA j : PairOf[j] = pairs[p])]

ProcessBatch(jobs) ==
    /\ loopAt' = "lookup"
    /\ work' = [NoWork EXCEPT !.groups = ByLangPair(jobs)]

\* A job arrives: the batch is processed once it is full, or earlier when
\* max_batch_wait_seconds have passed since the last one.
GetJob ==
    /\ loopAt = "get" /\ serviceUp = "on"
    /\ jobQueue # <<>>
    /\ jobQueue' = Tail(jobQueue)
    /\ batch' = Append(batch, Head(jobQueue))
    /\ \/ ProcessBatch(batch')
       \/ Len(batch') < batch_size /\ UNCHANGED <<loopAt, work>>
    /\ UNCHANGED <<serviceUp, redisFaults, jobVars, callVars>>

\* No job arrives for max_batch_wait_seconds: what has been collected is
\* processed.
GetTimesOut ==
    /\ loopAt = "get" /\ serviceUp = "on"
    /\ jobQueue = <<>> /\ batch # <<>>
    /\ ProcessBatch(batch)
    /\ UNCHANGED <<serviceUp, jobQueue, batch, redisFaults, jobVars, callVars>>

\* stop() cancels the loop wherever it waits; the loop leaves, and starts
\* over on the batch it holds before it ends.
StopService ==
    /\ serviceUp = "on"
    /\ serviceUp' = "off"
    /\ \/ batch # <<>> /\ ProcessBatch(batch)
       \/ batch = <<>> /\ loopAt' = "ended" /\ work' = NoWork
    /\ UNCHANGED <<jobQueue, batch, redisFaults, jobVars, callVars>>

-----------------------------------------------------------------------------
(* batch_translate on the texts of the first remaining group.              *)

Group == Head(work.groups)
Key(j) == <<TextOf[j], PairOf[j]>>

\* The results of a failed call: one for each index that was not cached.
Failures(indices) ==
    [k \in DOMAIN indices |-> [index |-> indices[k], text |-> NoText]]

\* The cached results first, the translated ones behind them.
\* Faulty variant: the results are returned as they were collected.
SortedResultsNot(results) ==
    results

\* batch_translate returns its results in the order of the texts; the sort
\* is stable.
SortedResults(results) ==
    LET order == SetToSortSeq(DOMAIN results,
                     LAMBDA k, l : \/ results[k].index < results[l].index
                                   \/ results[k].index = results[l].index /\ k < l)
    IN  [k \in DOMAIN order |-> results[order[k]]]

\* Where batch_translate goes when its locals are w: on to the next look-up,
\* to the translator if there is one and something is left for it, or back
\* to _process_batch with sorted results.
AfterLookup(w) ==
    IF w.i <= Len(Group)
    THEN loopAt' = "lookup" /\ work' = w
    ELSE IF w.uncached # <<>> /\ HasTranslator
    THEN loopAt' = "call" /\ work' = [w EXCEPT !.i = 1]
    ELSE loopAt' = "save" /\ work' = [w EXCEPT !.i = 1]

\* The language of the first text cannot be detected: every text fails.
DetectFails ==
    /\ loopAt = "lookup" /\ work.i = 1
    /\ loopAt' = "save"
    /\ work' = [work EXCEPT !.results = Failures([k \in DOMAIN Group |-> k])]
    /\ UNCHANGED <<serviceUp, jobQueue, batch, redisFaults, jobVars, callVars>>

\* The i-th text is looked up in the translation memory.
LookupCached ==
    /\ loopAt = "lookup"
    /\ LET j == Group[work.i]
           w == [work EXCEPT !.i = @ + 1]
       IN  AfterLookup(
             IF Key(j) \in memory
             THEN [w EXCEPT !.results = Append(@, [index |-> work.i, text |-> TextOf[j]])]
             ELSE [w EXCEPT !.uncached = Append(@, work.i)])
    /\ UNCHANGED <<serviceUp, jobQueue, batch, redisFaults, jobVars, callVars>>

\* Redis fails during the look-up: the error leaves batch_translate, and
\* _process_batch marks the whole group as failed.
LookupFails ==
    /\ loopAt = "lookup"
    /\ RedisFails
    /\ loopAt' = "fail"
    /\ work' = [work EXCEPT !.i = 1]
    /\ UNCHANGED <<serviceUp, jobQueue, batch, jobVars, callVars>>

\* The translator answers for every text it was given, or raises.
CallTranslator ==
    /\ loopAt = "call"
    /\ \/ loopAt' = "keep" /\ UNCHANGED work
       \/ /\ loopAt' = "save"
          /\ work' = [work EXCEPT !.results = @ \o Failures(work.uncached)]
    /\ UNCHANGED <<serviceUp, jobQueue, batch, redisFaults, jobVars, callVars>>

\* The i-th answer is kept and cached.  When Redis fails here, the handler
\* adds a failure for every text that was not cached, on top of the answers
\* already kept.
KeepResult ==
    /\ loopAt = "keep"
    /\ LET index == work.uncached[work.i]
           j == Group[index]
           w == [work EXCEPT !.i = @ + 1,
                             !.results = Append(@, [index |-> index, text |-> TextOf[j]])]
       IN  \/ /\ memory' = memory \cup {Key(j)}
              /\ IF w.i <= Len(w.uncached)
                 THEN loopAt' = "keep" /\ work' = w
                 ELSE loopAt' = "save" /\ work' = [w EXCEPT !.i = 1]
              /\ UNCHANGED redisFaults
           \/ /\ RedisFails
              /\ loopAt' = "save"
              /\ work' = [w EXCEPT !.i = 1, !.results = @ \o Failures(work.uncached),
                                   !.torn = TRUE]
              /\ UNCHANGED memory
    /\ UNCHANGED <<serviceUp, jobQueue, batch, job, saved, torn, caller, window>>

-----------------------------------------------------------------------------
(* _process_batch writes the results back, job by job.                     *)

\* The next group, or the end of the batch; a stopped loop ends with it.
AfterGroup ==
    IF Len(work.groups) > 1
    THEN /\ loopAt' = "lookup"
         /\ work' = [NoWork EXCEPT !.groups = Tail(work.groups)]
         /\ UNCHANGED batch
    ELSE /\ loopAt' = IF serviceUp = "on" THEN "get" ELSE "ended"
         /\ work' = NoWork
         /\ batch' = <<>>

\* zip(group_jobs, results): the i-th job takes the i-th result and is
\* written to Redis; when that fails the whole group is marked as failed.
SaveResult ==
    /\ loopAt = "save"
    /\ work.i <= Len(Group) /\ work.i <= Len(work.results)
    /\ LET j == Group[work.i]
           r == SortedResults(work.results)[work.i]
       IN  /\ job' = [job EXCEPT ![j] =
                        [status |-> IF r.text # NoText THEN "completed" ELSE "failed",
                         result |-> r.text]]
           /\ \/ /\ saved' = [saved EXCEPT ![j] = job'[j]]
                 /\ torn' = IF work.torn THEN torn \cup {j} ELSE torn \ {j}
                 /\ work' = [work EXCEPT !.i = @ + 1]
                 /\ UNCHANGED <<loopAt, redisFaults>>
              \/ /\ RedisFails
                 /\ loopAt' = "fail"
                 /\ work' = [work EXCEPT !.i = 1]
                 /\ UNCHANGED <<saved, torn>>
    /\ UNCHANGED <<serviceUp, jobQueue, batch, callVars>>

\* The shorter of the two sequences is at its end.
SaveEnds ==
    /\ loopAt = "save"
    /\ work.i > Len(Group) \/ work.i > Len(work.results)
    /\ AfterGroup
    /\ UNCHANGED <<serviceUp, jobQueue, redisFaults, jobVars, callVars>>

\* The handler marks the jobs of the group as failed, one by one.
FailJob ==
    /\ loopAt = "fail"
    /\ LET j == Group[work.i]
       IN  /\ job' = [job EXCEPT ![j].status = "failed"]
           /\ saved' = [saved EXCEPT ![j] = job'[j]]
    /\ IF work.i < Len(Group)
       THEN work' = [work EXCEPT !.i = @ + 1] /\ UNCHANGED <<loopAt, batch>>
       ELSE AfterGroup
    /\ UNCHANGED <<serviceUp, jobQueue, redisFaults, torn, callVars>>

\* Redis fails again: the error reaches the loop, which keeps its batch and
\* takes it up again with the next job or time-out; a stopped loop ends.
FailEscapes ==
    /\ loopAt = "fail"
    /\ RedisFails
    /\ job' = [job EXCEPT ![Group[work.i]].status = "failed"]
    /\ loopAt' = IF serviceUp = "on" THEN "get" ELSE "ended"
    /\ work' = NoWork
    /\ UNCHANGED <<serviceUp, jobQueue, batch, saved, torn, callVars>>

-----------------------------------------------------------------------------
LoopStep ==
    \/ GetJob \/ GetTimesOut
    \/ DetectFails \/ LookupCached \/ LookupFails
    \/ CallTranslator \/ KeepResult
    \/ SaveResult \/ SaveEnds \/ FailJob \/ FailEscapes

CallerStep(c) ==
    TranslateStarts(c) \/ ProviderAnswers(c) \/ StoreTranslation(c)

TranslationNext ==
    \/ \E c \in TranslateCallers : CallerStep(c)
    \/ \E j \in TranslationJobs : EnqueueTranslation(j)
    \/ EntryAges
    \/ StartService \/ StopService
    \/ LoopStep

TranslationSpec == TranslationInit /\ [][TranslationNext]_translationVars

-----------------------------------------------------------------------------
(* Properties *)

\* A completed job holds the translation of its own text: the positions at
\* which batch_translate collects cached, translated and failed results
\* still line up with the jobs when _process_batch zips them, also after a
\* failed call, a retried batch, a stop, or jobs of another language pair in
\* the batch.  When a cache write fails, batch_translate has results twice for
\* the texts it had kept, and every later job of the group takes the result of
\* an earlier one; even then it is a text of its own language pair.
OwnTranslation ==
    \A j \in TranslationJobs :
        saved[j].status = "completed" =>
            \/ saved[j].result = TextOf[j]
            \/ j \in torn /\ \E e \in TranslationJobs :
                   PairOf[e] = PairOf[j] /\ saved[j].result = TextOf[e]

\* The limit is checked before the provider is asked and counted after it
\* has answered: a minute takes at most one request more for every other
\* caller that was already past the check.
RequestsBounded ==
    window <= max_requests_per_minute + Cardinality(TranslateCallers) - 1
        \/ TranslateCallers = {} \/ max_requests_per_minute = 0

\* The service keeps its two promises: every job its own text, and the limit.
TranslationSound == OwnTranslation /\ RequestsBounded

=============================================================================
