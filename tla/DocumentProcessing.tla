------------------------- MODULE DocumentProcessing -------------------------
(***************************************************************************)
(* ProcessingPipeline.process_source (processing/pipeline.py) with what it *)
(* calls: extraction (sources/web_scraper.py), the deduplicator shared by  *)
(* all runs, language detection, the translation router with its cache,    *)
(* breakers and retries, and storage in two databases.                     *)
(*                                                                         *)
(* A run is one call of process_source; a source may be given to several.  *)
(***************************************************************************)
EXTENDS Naturals, FiniteSets, Sequences, SequencesExt

CONSTANTS
    Runs,                   \* calls of process_source
    SourceChunks,           \* contents a source may yield, each a sequence of chunks
    max_concurrent_sources,
    ProviderAttempts        \* attempts of each provider, in the order of the router

ASSUME ProcessingAssumption ==
    /\ IsFiniteSet(Runs)
    /\ max_concurrent_sources \in Nat \ {0}
    /\ Len(ProviderAttempts) > 0

VARIABLES
    run,        \* run[r]: the state of process_source
    bloom,      \* chunks in the deduplicator's filter
    cached,     \* texts with a translation in the cache
    postgres,   \* runs whose document has a metadata row
    mongo,      \* runs whose document has its content stored
    metrics     \* processed, failed and the gauge of documents in progress

processingVars == <<run, bloom, cached, postgres, mongo, metrics>>

Inside == {"extract", "detect", "cache", "translate", "postgres", "mongo"}

NewRun == [step |-> "new", left |-> <<>>, all |-> <<>>, fallback |-> FALSE, kept |-> <<>>,
           provider |-> 1, attempt |-> 0, ok |-> TRUE]

Chunks == UNION {ToSet(c) : c \in SourceChunks}

ProcessingTypeOK ==
    /\ DOMAIN run = Runs
    /\ \A r \in Runs :
          /\ run[r].step \in Inside \cup {"new", "waiting", "done", "failed"}
          /\ ToSet(run[r].kept) \subseteq Chunks
          /\ run[r].provider \in 1..Len(ProviderAttempts)
          /\ run[r].attempt \in 0..(ProviderAttempts[run[r].provider] - 1)
          /\ run[r].ok \in BOOLEAN
    /\ bloom \subseteq Chunks
    /\ postgres \subseteq Runs /\ mongo \subseteq Runs
    /\ metrics \in [processed : Nat, failed : Nat, in_progress : Nat]

ProcessingInit ==
    /\ run = [r \in Runs |-> NewRun]
    /\ bloom = {} /\ cached = {}
    /\ postgres = {} /\ mongo = {}
    /\ metrics = [processed |-> 0, failed |-> 0, in_progress |-> 0]

-----------------------------------------------------------------------------

RunAt(r, step) == run[r].step = step

RunGoes(r, step) == run' = [run EXCEPT ![r].step = step]

\* The except branch: the failure is counted and a failed document saved.
RunFails(r) ==
    /\ run' = [run EXCEPT ![r].step = "postgres", ![r].ok = FALSE]
    /\ metrics' = [metrics EXCEPT !.failed = @ + 1]

Submitted(r) ==
    /\ RunAt(r, "new")
    /\ \E c \in SourceChunks :
          run' = [run EXCEPT ![r] = [@ EXCEPT !.step = "waiting", !.left = c, !.all = c]]
    /\ UNCHANGED <<bloom, cached, postgres, mongo, metrics>>

Working == {r \in Runs : run[r].step \in Inside}

\* The semaphore, then the gauge.
EnterRun(r) ==
    /\ RunAt(r, "waiting")
    /\ Cardinality(Working) < max_concurrent_sources
    /\ RunGoes(r, "extract")
    /\ metrics' = [metrics EXCEPT !.in_progress = @ + 1]
    /\ UNCHANGED <<bloom, cached, postgres, mongo>>

\* A chunk arrives and is kept unless the filter holds it: test and entry are one
\* step of the event loop.
ChunkArrives(r) ==
    /\ RunAt(r, "extract")
    /\ run[r].left # <<>>
    /\ LET c == Head(run[r].left) IN
       /\ run' = [run EXCEPT ![r] = [@ EXCEPT !.left = Tail(@),
                    !.kept = IF c \in bloom THEN @ ELSE Append(@, c)]]
       /\ bloom' = bloom \cup {c}
    /\ UNCHANGED <<cached, postgres, mongo, metrics>>

\* Static scraping breaks off: the page is fetched again with the browser, from
\* its beginning.
StaticFails(r) ==
    /\ RunAt(r, "extract")
    /\ ~run[r].fallback
    /\ run' = [run EXCEPT ![r] = [@ EXCEPT !.left = run[r].all, !.fallback = TRUE]]
    /\ UNCHANGED <<bloom, cached, postgres, mongo, metrics>>

ExtractFails(r) ==
    /\ RunAt(r, "extract")
    /\ RunFails(r)
    /\ UNCHANGED <<bloom, cached, postgres, mongo>>

\* "No content extracted" when every chunk was a duplicate.
ExtractEnds(r) ==
    /\ RunAt(r, "extract")
    /\ run[r].left = <<>>
    /\ IF run[r].kept = <<>> THEN RunFails(r) ELSE RunGoes(r, "detect") /\ UNCHANGED metrics
    /\ UNCHANGED <<bloom, cached, postgres, mongo>>

\* English, or a detection that failed, needs no translation.
DetectLanguage(r) ==
    /\ RunAt(r, "detect")
    /\ \E english \in BOOLEAN : RunGoes(r, IF english THEN "postgres" ELSE "cache")
    /\ UNCHANGED <<bloom, cached, postgres, mongo, metrics>>

\* A hit is the result; a miss or a cache error goes to the providers.
CacheGet(r) ==
    /\ RunAt(r, "cache")
    /\ \/ run[r].kept \in cached /\ RunGoes(r, "postgres")
       \/ RunGoes(r, "translate")
    /\ UNCHANGED <<bloom, cached, postgres, mongo, metrics>>

\* The next provider of the order, or TranslationError after the last.
NextProvider(r) ==
    IF run[r].provider = Len(ProviderAttempts) THEN RunFails(r)
    ELSE /\ run' = [run EXCEPT ![r] = [@ EXCEPT !.provider = @ + 1, !.attempt = 0]]
         /\ UNCHANGED metrics

BreakerRejects(r) ==
    /\ RunAt(r, "translate")
    /\ run[r].attempt = 0
    /\ NextProvider(r)
    /\ UNCHANGED <<bloom, cached, postgres, mongo>>

\* async_retry: another attempt after the backoff while there is one.
AttemptFails(r) ==
    /\ RunAt(r, "translate")
    /\ IF run[r].attempt + 1 < ProviderAttempts[run[r].provider]
       THEN run' = [run EXCEPT ![r].attempt = @ + 1] /\ UNCHANGED metrics
       ELSE NextProvider(r)
    /\ UNCHANGED <<bloom, cached, postgres, mongo>>

\* The translation is cached, if the cache takes it.
AttemptSucceeds(r) ==
    /\ RunAt(r, "translate")
    /\ RunGoes(r, "postgres")
    /\ cached' \in {cached, cached \cup {run[r].kept}}
    /\ UNCHANGED <<bloom, postgres, mongo, metrics>>

\* Faulty variant: a failed document leaves without the finally clause.
LeaveQuietly(r) ==
    /\ RunGoes(r, IF run[r].ok THEN "done" ELSE "failed")
    /\ metrics' = IF run[r].ok THEN [metrics EXCEPT !.processed = @ + 1,
                                                    !.in_progress = @ - 1] ELSE metrics

\* The end of process_source, saved or not: save_document's answer is not looked at.
Leave(r) ==
    /\ RunGoes(r, IF run[r].ok THEN "done" ELSE "failed")
    /\ metrics' = [metrics EXCEPT !.processed = IF run[r].ok THEN @ + 1 ELSE @,
                                  !.in_progress = @ - 1]

\* save_document: metadata, then content; the first failure ends it.
SaveToPostgres(r) ==
    /\ RunAt(r, "postgres")
    /\ \/ postgres' = postgres \cup {r} /\ RunGoes(r, "mongo") /\ UNCHANGED metrics
       \/ Leave(r) /\ UNCHANGED postgres
    /\ UNCHANGED <<bloom, cached, mongo>>

SaveToMongo(r) ==
    /\ RunAt(r, "mongo")
    /\ mongo' \in {mongo, mongo \cup {r}}
    /\ Leave(r)
    /\ UNCHANGED <<bloom, cached, postgres>>

RunStep(r) == \/ EnterRun(r) \/ ChunkArrives(r) \/ StaticFails(r) \/ ExtractFails(r)
              \/ ExtractEnds(r) \/ DetectLanguage(r) \/ CacheGet(r) \/ BreakerRejects(r)
              \/ AttemptFails(r) \/ AttemptSucceeds(r) \/ SaveToPostgres(r) \/ SaveToMongo(r)

ProcessingNext == \E r \in Runs : Submitted(r) \/ RunStep(r)

ProcessingSpec == ProcessingInit /\ [][ProcessingNext]_processingVars

-----------------------------------------------------------------------------
(* Properties *)

\* A chunk is kept by one document, once, of all that carry it: concurrent runs
\* and the second pass over a page that broke off share the filter.
ChunksKeptOnce ==
    /\ \A r \in Runs : IsInjective(run[r].kept)
    /\ \A r, s \in Runs : r # s => ToSet(run[r].kept) \cap ToSet(run[s].kept) = {}

\* Content in MongoDB always has its metadata row in PostgreSQL, whichever write
\* fails.
ContentHasMetadata == mongo \subseteq postgres

\* The counters and the gauge agree with the runs, on every path out of
\* process_source.
MetricsAgree ==
    /\ metrics.in_progress = Cardinality(Working)
    /\ metrics.processed = Cardinality({r \in Runs : RunAt(r, "done")})
    /\ metrics.failed = Cardinality({r \in Runs : ~run[r].ok})

\* What a run of process_source leaves behind is sound: its chunks, its rows and
\* the metrics.
ProcessingSound == ChunksKeptOnce /\ ContentHasMetadata /\ MetricsAgree

=============================================================================
