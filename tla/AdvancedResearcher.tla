------------------------- MODULE AdvancedResearcher -------------------------
(***************************************************************************)
(* research/advanced_researcher.py: the pipeline plan, gather, relevance   *)
(* filter, analyze, synthesize of one research run, with the filter of     *)
(* research/relevance.py and with what the callback on_event of            *)
(* api/local_ai_routes_simple.py writes into the session for the page.     *)
(*                                                                         *)
(* The language model, the search and the scraping are calls whose every   *)
(* outcome is possible.  Texts are left out: of a source the model keeps   *)
(* its citation number, its address, its sub-question and whether the      *)
(* analysis found something in it.  The search and the translation of      *)
(* gather are modelled in WebGather.tla.                                   *)
(***************************************************************************)
EXTENDS Naturals, Sequences, FiniteSets, SequencesExt

CONSTANTS
    ResearchUrls,       \* addresses the search may return
    num_sub_questions,
    variants_per_subq,
    SearchMax,          \* bound on the results of one search
    max_total_sources,
    analyze_concurrency,
    ThoroughTier,       \* TRUE iff depth is neither basic nor medium
    FilterTier,         \* TRUE iff the filter is enabled and the tier not basic
    RelevanceScores,    \* scores the filter tells apart
    min_score,
    max_sources         \* the filter's cap for the tier

ASSUME ResearcherAssumption ==
    /\ {num_sub_questions, variants_per_subq, SearchMax, max_total_sources,
        analyze_concurrency, max_sources} \subseteq Nat \ {0}
    /\ ThoroughTier \in BOOLEAN /\ FilterTier \in BOOLEAN
    /\ RelevanceScores \subseteq Nat /\ min_score \in Nat

VARIABLES
    researchStage,          \* where run() is
    sub_questions,  \* how many sub-questions were planned
    searched,       \* searches made by gather
    all_results,    \* what they returned, in order
    sources,        \* self.sources
    work,           \* work[i]: the coroutine _process_one of source i
    done_counter,
    phases,         \* status of each phase
    progress,       \* session["progress"]
    barShown,          \* the source number in session["current_task"]
    live_sources,   \* session["live_sources"]: what the page has cards for
    refined_ids     \* session["refined_ids"]

researchVars == <<researchStage, sub_questions, searched, all_results, sources, work,
                  done_counter, phases, progress, barShown, live_sources, refined_ids>>

PhaseNames == {"planning", "gathering", "analyzing", "synthesizing"}

\* phase_progress of execute_advanced_research.
phase_progress(p) == CASE p = "planning" -> 15 [] p = "gathering" -> 45
                       [] p = "analyzing" -> 75 [] p = "synthesizing" -> 95

Source == [id : 1..max_total_sources, url : ResearchUrls,
           sub_question_index : 0..(num_sub_questions - 1), findings : BOOLEAN]

ResearcherTypeOK ==
    /\ researchStage \in {"plan", "planning", "gather", "searching", "scraping", "filter",
                  "analyze", "analyzing", "synthesize", "writing", "done", "over"}
    /\ sub_questions \in 0..num_sub_questions
    /\ searched \in 0..(num_sub_questions * variants_per_subq)
    /\ \A i \in DOMAIN all_results :
          all_results[i] \in [url : ResearchUrls, sub_question_index : Nat]
    /\ \A i \in DOMAIN sources : sources[i] \in Source
    /\ \A i \in DOMAIN work : work[i] \in {"waiting", "extract", "retry", "finished"}
    /\ done_counter \in 0..max_total_sources
    /\ phases \in [PhaseNames -> {"pending", "in_progress", "completed", "failed"}]
    /\ progress \in 0..100
    /\ barShown \in 0..(max_total_sources + 1)
    /\ \A i \in DOMAIN live_sources :
          live_sources[i] \in [id : 1..max_total_sources, url : ResearchUrls]

\* execute_advanced_research has set the session up; run() is next.
ResearcherInit ==
    /\ researchStage = "plan"
    /\ sub_questions = 0
    /\ searched = 0
    /\ all_results = <<>>
    /\ sources = <<>>
    /\ work = <<>>
    /\ done_counter = 0
    /\ phases = [p \in PhaseNames |-> "pending"]
    /\ progress = 5
    /\ barShown = 0
    /\ live_sources = <<>>
    /\ refined_ids = <<>>

-----------------------------------------------------------------------------
\* on_event changes the session before its first await, so a phase and its
\* mirror change in one step.
StartPhase(p) == phases' = [phases EXCEPT ![p] = "in_progress"]

CompletePhase(p) ==
    /\ phases' = [phases EXCEPT ![p] = "completed"]
    /\ progress' = phase_progress(p)

PlanStarts ==
    /\ researchStage = "plan"
    /\ StartPhase("planning")
    /\ researchStage' = "planning"
    /\ UNCHANGED <<sub_questions, searched, all_results, sources, work, done_counter,
                   progress, barShown, live_sources, refined_ids>>

\* The model's lines, deduplicated and cut; three stock questions without any.
PlanAnswers ==
    /\ researchStage = "planning"
    /\ \E n \in 0..num_sub_questions :
          sub_questions' = IF n > 0 THEN n
                           ELSE IF num_sub_questions < 3 THEN num_sub_questions ELSE 3
    /\ CompletePhase("planning")
    /\ researchStage' = "gather"
    /\ UNCHANGED <<searched, all_results, sources, work, done_counter, barShown, live_sources,
                   refined_ids>>

GatherStarts ==
    /\ researchStage = "gather"
    /\ StartPhase("gathering")
    /\ researchStage' = "searching"
    /\ UNCHANGED <<sub_questions, searched, all_results, sources, work, done_counter,
                   progress, barShown, live_sources, refined_ids>>

\* One web_search per sub-question and variant; a failed one returns nothing.
SearchVariant ==
    /\ researchStage = "searching"
    /\ searched < sub_questions * variants_per_subq
    /\ \E found \in BoundedSeq(ResearchUrls, SearchMax) :
          all_results' = all_results \o
              [i \in DOMAIN found |->
                  [url |-> found[i],
                   sub_question_index |-> searched \div variants_per_subq]]
    /\ searched' = searched + 1
    /\ UNCHANGED <<researchStage, sub_questions, sources, work, done_counter, phases, progress,
                   barShown, live_sources, refined_ids>>

\* The loop that keeps the first result of each address, up to the limit.
Unique(results) ==
    FoldLeft(LAMBDA acc, r :
                IF Len(acc) >= max_total_sources \/ \E i \in DOMAIN acc : acc[i].url = r.url
                THEN acc ELSE Append(acc, r), <<>>, results)

SearchesOver == researchStage = "searching" /\ searched = sub_questions * variants_per_subq

\* No result at all: the phase fails, the pipeline goes on without sources.
GatherFails ==
    /\ SearchesOver
    /\ Unique(all_results) = <<>>
    /\ phases' = [phases EXCEPT !["gathering"] = "failed"]
    /\ researchStage' = "filter"
    /\ UNCHANGED <<sub_questions, searched, all_results, sources, work, done_counter,
                   progress, barShown, live_sources, refined_ids>>

\* web_scrape returns a text for some of the addresses; those of 140 characters
\* become sources, numbered in the order of the results, and source_added tells
\* the page of each under that number.
Scraped ==
    /\ SearchesOver
    /\ Unique(all_results) # <<>>
    /\ \E usable \in SUBSET {Unique(all_results)[i].url : i \in DOMAIN Unique(all_results)} :
       LET kept == SelectSeq(Unique(all_results), LAMBDA r : r.url \in usable)
       IN  sources' = [i \in DOMAIN kept |->
                         [id |-> i, url |-> kept[i].url, findings |-> FALSE,
                          sub_question_index |-> kept[i].sub_question_index]]
    /\ live_sources' = [i \in DOMAIN sources' |->
                          [id |-> sources'[i].id, url |-> sources'[i].url]]
    /\ all_results' = <<>>
    /\ CompletePhase("gathering")
    /\ researchStage' = "filter"
    /\ UNCHANGED <<sub_questions, searched, work, done_counter, barShown, refined_ids>>

-----------------------------------------------------------------------------
(* RelevanceFilter *)

\* _run_blocking: sources below min_score are dropped, the others sorted by
\* falling score (a stable sort), and the list is cut at the tier's cap.
RunBlocking(srcs, score) ==
    LET passed == {i \in DOMAIN srcs : score[i] >= min_score}
        ranked == SetToSortSeq(passed, LAMBDA i, j : \/ score[i] > score[j]
                                                     \/ score[i] = score[j] /\ i < j)
        cap == IF Len(ranked) < max_sources THEN Len(ranked) ELSE max_sources
    IN  [k \in 1..cap |-> srcs[ranked[k]]]

\* The filter is off or lets everything pass, fails open, or selects.
ApplyFilter ==
    /\ researchStage = "filter"
    /\ \/ UNCHANGED sources
       \/ /\ FilterTier
          /\ sources # <<>>
          /\ \E score \in [DOMAIN sources -> RelevanceScores] :
                sources' = RunBlocking(sources, score)
    /\ researchStage' = "analyze"
    /\ UNCHANGED <<sub_questions, searched, all_results, work, done_counter, phases,
                   progress, barShown, live_sources, refined_ids>>

-----------------------------------------------------------------------------
(* analyze *)

AnalyzeStarts ==
    /\ researchStage = "analyze"
    /\ StartPhase("analyzing")
    /\ work' = [i \in DOMAIN sources |-> "waiting"]
    /\ researchStage' = "analyzing"
    /\ UNCHANGED <<sub_questions, searched, all_results, sources, done_counter,
                   progress, barShown, live_sources, refined_ids>>

Extracting == {i \in DOMAIN work : work[i] \in {"extract", "retry"}}

\* asyncio wakes the waiters of a semaphore in the order they came.
Acquire(i) ==
    /\ researchStage = "analyzing"
    /\ work[i] = "waiting"
    /\ \A j \in 1..(i - 1) : work[j] # "waiting"
    /\ Cardinality(Extracting) < analyze_concurrency
    /\ work' = [work EXCEPT ![i] = "extract"]
    /\ UNCHANGED <<researchStage, sub_questions, searched, all_results, sources, done_counter,
                   phases, progress, barShown, live_sources, refined_ids>>

\* A first answer without findings is asked again in the thorough tiers only.
RetrySource(i) ==
    /\ researchStage = "analyzing"
    /\ work[i] = "extract"
    /\ ThoroughTier
    /\ work' = [work EXCEPT ![i] = "retry"]
    /\ UNCHANGED <<researchStage, sub_questions, searched, all_results, sources, done_counter,
                   phases, progress, barShown, live_sources, refined_ids>>

\* on_event interpolates between 45 and 75 with the event's index plus one.
Interpolate(n, total) == 45 + (30 * (IF n + 1 < total THEN n + 1 ELSE total)) \div total

\* _process_one ends: the semaphore is released, the counter grows and the
\* event analyzing_source carries it, all before the next await.
SourceAnalyzed(i) ==
    /\ researchStage = "analyzing"
    /\ work[i] \in {"extract", "retry"}
    /\ \E findings \in IF ThoroughTier /\ work[i] = "extract" THEN {TRUE} ELSE BOOLEAN :
          sources' = [sources EXCEPT ![i].findings = findings]
    /\ work' = [work EXCEPT ![i] = "finished"]
    /\ done_counter' = done_counter + 1
    /\ progress' = Interpolate(done_counter', Len(sources))
    /\ barShown' = done_counter' + 1
    /\ UNCHANGED <<researchStage, sub_questions, searched, all_results, phases, live_sources,
                   refined_ids>>

\* Faulty variant: the sources keep the numbers they had before the filter.
RenumberNot(srcs) == SelectSeq(srcs, LAMBDA s : s.findings)

\* The sources with findings, numbered again from one.
Renumber(srcs) ==
    LET kept == SelectSeq(srcs, LAMBDA s : s.findings)
    IN  [k \in DOMAIN kept |-> [kept[k] EXCEPT !.id = k]]

AnalyzeEnds ==
    /\ researchStage = "analyzing"
    /\ \A i \in DOMAIN work : work[i] = "finished"
    /\ sources' = Renumber(sources)
    /\ refined_ids' = [k \in DOMAIN sources' |-> sources'[k].id]
    /\ CompletePhase("analyzing")
    /\ researchStage' = "synthesize"
    /\ UNCHANGED <<sub_questions, searched, all_results, work, done_counter, barShown,
                   live_sources>>

-----------------------------------------------------------------------------
(* synthesize *)

SynthesisStarts ==
    /\ researchStage = "synthesize"
    /\ StartPhase("synthesizing")
    /\ researchStage' = "writing"
    /\ UNCHANGED <<sub_questions, searched, all_results, sources, work, done_counter,
                   progress, barShown, live_sources, refined_ids>>

\* With or without sources, and whatever the model answers, there is a report.
ReportWritten ==
    /\ researchStage = "writing"
    /\ CompletePhase("synthesizing")
    /\ researchStage' = "done"
    /\ UNCHANGED <<sub_questions, searched, all_results, sources, work, done_counter,
                   barShown, live_sources, refined_ids>>

\* run() returns and the session is finalised.
RunReturns ==
    /\ researchStage = "done"
    /\ progress' = 100
    /\ researchStage' = "over"
    /\ UNCHANGED <<sub_questions, searched, all_results, sources, work, done_counter,
                   phases, barShown, live_sources, refined_ids>>

Analyze == \E i \in DOMAIN work : Acquire(i) \/ RetrySource(i) \/ SourceAnalyzed(i)

ResearchNext ==
    \/ PlanStarts \/ PlanAnswers \/ GatherStarts \/ SearchVariant \/ GatherFails
    \/ Scraped \/ ApplyFilter \/ AnalyzeStarts \/ Analyze \/ AnalyzeEnds
    \/ SynthesisStarts \/ ReportWritten \/ RunReturns

ResearchSpec == ResearcherInit /\ [][ResearchNext]_researchVars

-----------------------------------------------------------------------------
(* Properties *)

\* The numbers the report may cite are 1, 2, ... without a gap, the numbers that
\* source_refined sends; each stands for another address in which the analysis
\* found something and which answers one of the planned sub-questions (gather,
\* the filter and analyze each rebuild the list).
CitationsSound ==
    researchStage \in {"synthesize", "writing", "done", "over"} =>
        /\ Len(sources) <= max_total_sources
        /\ refined_ids = [k \in DOMAIN sources |-> k]
        /\ \A k \in DOMAIN sources :
              /\ sources[k].id = k
              /\ sources[k].findings
              /\ sources[k].sub_question_index < sub_questions
              /\ \A j \in DOMAIN sources : sources[j].url = sources[k].url => j = k

\* Every source of the report has one card on the page, which source_added made
\* before the renumbering.  Up to the renumbering it bears the source's number;
\* after it the card of a number may be that of another source.
CardsMade ==
    \A k \in DOMAIN sources :
       \E i \in DOMAIN live_sources :
          /\ live_sources[i].url = sources[k].url
          /\ \A j \in DOMAIN live_sources : live_sources[j].url = sources[k].url => j = i
          /\ researchStage \in {"filter", "analyze", "analyzing"} =>
                live_sources[i].id = sources[k].id

\* The language model never has more than the tier's calls of one run at a time,
\* and the counter that drives the progress bar counts the finished sources.
AnalysisBounded ==
    /\ Cardinality(Extracting) <= analyze_concurrency
    /\ done_counter = Cardinality({i \in DOMAIN work : work[i] = "finished"})

\* The three together: the list of sources is right, for the report and for the
\* page, and so is the way it was worked through.
ResearchSound == CitationsSound /\ CardsMade /\ AnalysisBounded

=============================================================================
