--------------------------- MODULE CrawlPipeline ---------------------------
(***************************************************************************)
(* The staged pipeline (orchestration/pipeline.py): a queue and a pool of  *)
(* workers for each stage, documents that carry what earlier stages found, *)
(* stop and restart.                                                       *)
(***************************************************************************)
EXTENDS Naturals, FiniteSets

CONSTANTS
    PipelineDocs,       \* documents submitted
    StageWorkers,       \* workers of each stage
    MaxStarts           \* bound on the starts of the pipeline

ASSUME PipelineAssumption ==
    IsFiniteSet(PipelineDocs) /\ StageWorkers \in Nat \ {0} /\ MaxStarts \in Nat \ {0}

VARIABLES
    enabled,            \* the stages that the configuration can switch off and does not
    doc,                \* doc[d]: PipelineDocument and where it is
    running,            \* _running
    starts,             \* starts so far
    pipelineStats               \* in_pipeline, processed, failed

pipelineVars == <<enabled, doc, running, starts, pipelineStats>>

Fetch == 1
Extract == 2
DetectLanguage == 3
Translate == 4
Embed == 5
StoreStage == 6

\* passed: length of completed_stages; lang: the language detected, if any.
Document == [at : {"new", "queued", "held", "cancelled", "processed", "failed", "lost"},
             stage : Fetch..StoreStage, passed : 0..StoreStage,
             html : BOOLEAN, text : BOOLEAN, lang : {"none", "target", "other"},
             translated : BOOLEAN, embedding : BOOLEAN, errors : BOOLEAN]

PipelineTypeOK ==
    /\ enabled \subseteq {Translate, Embed}
    /\ doc \in [PipelineDocs -> Document]
    /\ running \in BOOLEAN
    /\ starts \in 0..MaxStarts
    /\ pipelineStats \in [in_pipeline : Nat, processed : Nat, failed : Nat]

\* enable_translation and enable_embedding are read from the configuration.
PipelineInit ==
    /\ enabled \in SUBSET {Translate, Embed}
    /\ doc = [d \in PipelineDocs |->
                [at |-> "new", stage |-> Fetch, passed |-> 0, html |-> FALSE, text |-> FALSE,
                 lang |-> "none", translated |-> FALSE, embedding |-> FALSE, errors |-> FALSE]]
    /\ running = FALSE /\ starts = 0
    /\ pipelineStats = [in_pipeline |-> 0, processed |-> 0, failed |-> 0]

-----------------------------------------------------------------------------
(* Handlers: the documents one may return *)

\* What scrape returned: the page, its text, success or not.
FetchHandler ==
    [html : {TRUE}, text : BOOLEAN, errors : {FALSE}]
       \cup [html : BOOLEAN, text : BOOLEAN, errors : {TRUE}]

Failed(x) == [x EXCEPT !.errors = TRUE]

\* Text that came with the page is kept; without a page it is an error.
ExtractHandler(x) ==
    IF x.text THEN {x}
    ELSE IF ~x.html THEN {Failed(x)}
    ELSE {Failed(x), x} \cup {[x EXCEPT !.text = t, !.lang = l] :
                                t \in BOOLEAN, l \in {"none", "target", "other"}}

DetectLanguageHandler(x) ==
    IF ~x.text \/ x.lang # "none" THEN {x}
    ELSE {Failed(x)} \cup {[x EXCEPT !.lang = l] : l \in {"target", "other"}}

\* Text in the target language is its own translation.
TranslateHandler(x) ==
    IF Translate \notin enabled \/ ~x.text THEN {x}
    ELSE IF x.lang = "target" THEN {[x EXCEPT !.translated = TRUE]}
    ELSE {[x EXCEPT !.translated = TRUE], Failed(x)}

EmbedHandler(x) ==
    IF Embed \notin enabled \/ ~x.text THEN {x}
    ELSE {[x EXCEPT !.embedding = TRUE], Failed(x)}

StoreHandler(x) == {x}

Handler(x) ==
    CASE x.stage = Fetch -> {[x EXCEPT !.html = f.html, !.text = f.text, !.errors = f.errors] :
                               f \in FetchHandler}
      [] x.stage = Extract -> ExtractHandler(x)
      [] x.stage = DetectLanguage -> DetectLanguageHandler(x)
      [] x.stage = Translate -> TranslateHandler(x)
      [] x.stage = Embed -> EmbedHandler(x)
      [] x.stage = StoreStage -> StoreHandler(x)

-----------------------------------------------------------------------------
(* Operations *)

\* start: the queues keep what an earlier stop left in them.
StartPipeline ==
    /\ ~running
    /\ starts < MaxStarts
    /\ running' = TRUE /\ starts' = starts + 1
    /\ UNCHANGED <<enabled, doc, pipelineStats>>

\* submit, with the pipeline running or not; the queue has no bound.
Submit(d) ==
    /\ doc[d].at = "new"
    /\ doc' = [doc EXCEPT ![d].at = "queued"]
    /\ pipelineStats' = [pipelineStats EXCEPT !.in_pipeline = @ + 1]
    /\ UNCHANGED <<enabled, running, starts>>

Held(stage) == {d \in PipelineDocs : doc[d].at = "held" /\ doc[d].stage = stage}

\* A free worker of the stage takes the document from the queue.
Get(d) ==
    /\ running
    /\ doc[d].at = "queued"
    /\ Cardinality(Held(doc[d].stage)) < StageWorkers
    /\ doc' = [doc EXCEPT ![d].at = "held"]
    /\ UNCHANGED <<enabled, running, starts, pipelineStats>>

\* Faulty variant: the errors of the stage are not looked at.
PassOnAnyway(x) ==
    IF x.stage < StoreStage THEN [x EXCEPT !.at = "queued", !.stage = @ + 1]
    ELSE [x EXCEPT !.at = IF x.errors THEN "failed" ELSE "processed"]

\* To the next stage, or complete: after the last stage or with an error.
PassOn(x) ==
    IF x.stage < StoreStage /\ ~x.errors THEN [x EXCEPT !.at = "queued", !.stage = @ + 1]
    ELSE [x EXCEPT !.at = IF x.errors THEN "failed" ELSE "processed"]

\* The counters when a document has left a worker's hands.
CountEnd(at) ==
    CASE at = "processed" -> [pipelineStats EXCEPT !.in_pipeline = @ - 1, !.processed = @ + 1]
      [] at = "failed" -> [pipelineStats EXCEPT !.in_pipeline = @ - 1, !.failed = @ + 1]
      [] OTHER -> pipelineStats

\* The worker goes on with the document its handler returned, or, when the handler
\* raised, with the one it had and an error.  A worker that a stop caught after its
\* last wait finishes the stage.
StageDone(d) ==
    /\ doc[d].at \in {"held", "cancelled"}
    /\ \E y \in {[x EXCEPT !.passed = @ + 1] : x \in Handler(doc[d])} \cup {Failed(doc[d])} :
          /\ doc' = [doc EXCEPT ![d] = PassOn(y)]
          /\ pipelineStats' = CountEnd(PassOn(y).at)
    /\ UNCHANGED <<enabled, running, starts>>

\* stop: every worker is cancelled; nobody waits for them.
StopPipeline ==
    /\ running
    /\ running' = FALSE
    /\ doc' = [d \in PipelineDocs |->
                 IF doc[d].at = "held" THEN [doc[d] EXCEPT !.at = "cancelled"] ELSE doc[d]]
    /\ UNCHANGED <<enabled, starts, pipelineStats>>

\* The cancellation reaches a worker inside its handler: the document is gone.
DocLost(d) ==
    /\ doc[d].at = "cancelled"
    /\ doc' = [doc EXCEPT ![d].at = "lost"]
    /\ UNCHANGED <<enabled, running, starts, pipelineStats>>

PipelineNext ==
    \/ StartPipeline \/ StopPipeline
    \/ \E d \in PipelineDocs : Submit(d) \/ Get(d) \/ StageDone(d) \/ DocLost(d)

PipelineSpec == PipelineInit /\ [][PipelineNext]_pipelineVars

-----------------------------------------------------------------------------
(* Properties *)

Where(places) == Cardinality({d \in PipelineDocs : doc[d].at \in places})

\* The counters agree with the documents at every moment, through stops and
\* restarts: what is in the pipeline is queued, in a worker's hands or was lost to
\* a stop, and the rest was counted as processed or failed exactly once.
PipelineAccounts ==
    /\ pipelineStats.processed = Where({"processed"})
    /\ pipelineStats.failed = Where({"failed"})
    /\ pipelineStats.in_pipeline = Where({"queued", "held", "cancelled", "lost"})

\* A document waits for a stage only when it passed every earlier one without an
\* error, and a processed one passed them all; text that is stored has what the
\* stages that are switched on make of it, a translation and an embedding.
StagesPassed ==
    \A d \in PipelineDocs :
       /\ doc[d].at \in {"queued", "held", "cancelled"} =>
             ~doc[d].errors /\ doc[d].passed = doc[d].stage - 1
       /\ doc[d].at = "processed" =>
             /\ doc[d].passed = StoreStage
             /\ doc[d].text => /\ doc[d].translated = (Translate \in enabled)
                               /\ doc[d].embedding = (Embed \in enabled)

\* Both: a document is counted where it is, and is where its stages brought it.
PipelineSound == PipelineAccounts /\ StagesPassed

=============================================================================
