--------------------------- MODULE ThinkingEngine ---------------------------
(***************************************************************************)
(* The phases of a thinking session: ThinkingEngine.run of                 *)
(* thinking/engine.py under the time ceiling of _run_session, with the     *)
(* on_event callback of api/thinking_routes.py that mirrors every phase    *)
(* event into the session dictionary the page reads.                       *)
(*                                                                         *)
(* An event changes the session before the first await of on_event, so the *)
(* engine's change and its mirror are one step; the awaits (the call of    *)
(* the language model, the writes of on_event) lie between the steps, and  *)
(* the ceiling may expire at any of them.                                  *)
(***************************************************************************)
EXTENDS Naturals, Sequences

VARIABLES
    idx,        \* position in Plan of the phase that runs or comes next
    stage,      \* what the engine awaits there
    engine,     \* engine[p]: status of phase p in ThinkingEngine.phases
    produced,   \* results the engine holds
    shown,      \* shown[p]: status of phase p in session["phases"]
    merged,     \* results the session holds
    status      \* session["status"]

engineVars == <<idx, stage, engine, produced, shown, merged, status>>

Plan == <<"understand", "decompose", "explore", "evaluate", "synthesize", "critique">>

Phase == {Plan[i] : i \in DOMAIN Plan}

PhaseStatus == {"pending", "in_progress", "completed", "failed", "skipped"}

\* Each phase that answers leaves its result; an exploration may leave none.
EngineTypeOK ==
    /\ idx \in 1..(Len(Plan) + 1)
    /\ stage \in {"next", "model", "delivered", "reported", "over"}
    /\ engine \in [Phase -> PhaseStatus]
    /\ shown \in [Phase -> PhaseStatus]
    /\ produced \subseteq Phase
    /\ merged \subseteq Phase
    /\ status \in {"in_progress", "completed", "failed"}

EngineInit ==
    /\ idx = 1
    /\ stage = "next"
    /\ engine = [p \in Phase |-> "pending"]
    /\ shown = [p \in Phase |-> "pending"]
    /\ produced = {}
    /\ merged = {}
    /\ status = "in_progress"

Here == Plan[idx]

\* run(): which phases are attempted, given what came before.
Runs(p) ==
    CASE p = "understand" -> TRUE
      [] p \in {"decompose", "explore", "synthesize"} -> "understand" \in produced
      [] p = "evaluate" -> {"understand", "explore"} \subseteq produced
      [] p = "critique" -> {"understand", "synthesize"} \subseteq produced

\* A phase event: the engine's status and its mirror in the session.
Report(p, s) ==
    /\ engine' = [engine EXCEPT ![p] = s]
    /\ shown' = [shown EXCEPT ![p] = s]

\* _run_phase up to the model call.
PhaseStarts ==
    /\ stage = "next"
    /\ idx <= Len(Plan)
    /\ Runs(Here)
    /\ Report(Here, "in_progress")
    /\ stage' = "model"
    /\ UNCHANGED <<idx, produced, merged, status>>

\* run() passes over a phase: only the engine's own list says so.
PhaseSkipped ==
    /\ stage = "next"
    /\ idx <= Len(Plan)
    /\ ~Runs(Here)
    /\ engine' = [engine EXCEPT ![Here] = "skipped"]
    /\ idx' = idx + 1
    /\ UNCHANGED <<stage, produced, shown, merged, status>>

\* Faulty variant: the result stays with the engine until the end.
MergeNothing(p) == merged

\* _merge_phase_result
Merge(p) == merged \cup {p}

\* phase_complete
Completed(p) ==
    /\ Report(p, "completed")
    /\ stage' = "reported"

\* The model answers one of the phases that parse JSON.
PhaseAnswers ==
    /\ stage = "model"
    /\ Here # "synthesize"
    /\ \/ produced' = produced \cup {Here} /\ merged' = Merge(Here)
       \/ Here = "explore" /\ UNCHANGED <<produced, merged>>
    /\ Completed(Here)
    /\ UNCHANGED <<idx, status>>

\* synthesize hands its text over with an event of its own ...
Delivers ==
    /\ stage = "model"
    /\ Here = "synthesize"
    /\ produced' = produced \cup {Here}
    /\ merged' = Merge(Here)
    /\ stage' = "delivered"
    /\ UNCHANGED <<idx, engine, shown, status>>

\* ... and then completes.
Delivered ==
    /\ stage = "delivered"
    /\ Completed(Here)
    /\ UNCHANGED <<idx, produced, merged, status>>

\* The model call raised, or its answer was empty or no JSON.
PhaseRaises ==
    /\ stage = "model"
    /\ Report(Here, "failed")
    /\ stage' = "reported"
    /\ UNCHANGED <<idx, produced, merged, status>>

EnginePhaseEnds ==
    /\ stage = "reported"
    /\ idx' = idx + 1
    /\ stage' = "next"
    /\ UNCHANGED <<engine, produced, shown, merged, status>>

\* run() returns and _run_session copies the results: every one but the phases.
Returns ==
    /\ stage = "next"
    /\ idx > Len(Plan)
    /\ merged' = merged \cup produced
    /\ status' = "completed"
    /\ stage' = "over"
    /\ UNCHANGED <<idx, engine, produced, shown>>

\* wait_for gives up while the engine awaits the model or its callback.
PhaseTimesOut ==
    /\ stage \in {"model", "delivered", "reported"}
    /\ status' = "failed"
    /\ stage' = "over"
    /\ UNCHANGED <<idx, engine, produced, shown, merged>>

EngineNext == \/ PhaseStarts \/ PhaseSkipped \/ PhaseAnswers \/ Delivers \/ Delivered
        \/ PhaseRaises \/ EnginePhaseEnds \/ Returns \/ PhaseTimesOut

EngineSpec == EngineInit /\ [][EngineNext]_engineVars

-----------------------------------------------------------------------------
(* Properties *)

\* The phases follow the plan: one that left "pending" has every earlier one
\* settled, so that two phases never call the model at the same time.
PhasesInOrder ==
    \A i, j \in DOMAIN Plan :
       i < j /\ engine[Plan[j]] # "pending"
          => engine[Plan[i]] \notin {"pending", "in_progress"}

\* "Synthesis is the main deliverable - always attempt it, even if some upstream
\* phases produced nothing" (run, 459-461): a completed session without a
\* deliverable is one whose first phase or whose synthesis failed.
SynthesisAttempted ==
    status = "completed" =>
       \/ "synthesize" \in merged
       \/ "failed" \in {engine["understand"], engine["synthesize"]}

\* The ceiling loses nothing the engine had produced by then: a failed session
\* carries every result, the deliverable included (on_event, 403-436).
PartialResultsKept == status = "failed" => merged = produced

\* The phases the page shows are those of the engine at every await: each event
\* reaches the session before anything else happens.  Nothing is said of a
\* skipped phase, for which run() sends no event.
MirrorAgrees == \A p \in Phase : engine[p] # "skipped" => shown[p] = engine[p]

\* The four together: a run keeps its plan, its deliverable, its partial results
\* and the page in step.
EngineSound ==
    PhasesInOrder /\ SynthesisAttempted /\ PartialResultsKept /\ MirrorAgrees

=============================================================================
