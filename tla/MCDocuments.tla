----------------------------- MODULE MCDocuments -----------------------------
(***************************************************************************)
(* The parts a document passes on its way into the stores, for TLC: the    *)
(* circuit breaker, the token bucket, process_source, the translation      *)
(* service, chunking and the dead letter queue.  They share no state, so a *)
(* behaviour is about one of them, chosen at the start; the others stay in *)
(* their initial state.  The state space is the sum of theirs.             *)
(***************************************************************************)
EXTENDS CircuitBreaker, RateLimiter, TranslationService, DocumentProcessing,
        Chunking, DeadLetterQueue

VARIABLE subject     \* the part this behaviour is about

documentVars == <<subject, vars, rateVars, translationVars, processingVars,
                  chunkVars, dlqVars>>

\* Sources and texts of the instance: two sources that share a chunk, three
\* texts in one language pair and one in another, enqueued between them.
MCSourceChunks == {<<1, 2>>, <<2>>}
MCProviderAttempts == <<2, 1>>
MCTextOf == [j \in TranslationJobs |-> j]
MCPairOf == [j \in TranslationJobs |-> IF j = "fr1" THEN "fr" ELSE "de"]
MCJobOrder == <<"de1", "fr1", "de2", "de3">>

\* Calls of translate() and jobs meet only in the translation memory: the calls
\* come first and fill it in every way, and nothing expires under the jobs.  Jobs
\* of a pair are interchangeable, so they come in one order.
NoJobYet == \A j \in TranslationJobs : saved[j].status = "none"

TranslationScope ==
    /\ NoJobYet' \/ (window' = 0 /\ \A c \in TranslateCallers : caller'[c] = "idle")
    /\ NoJobYet \/ memory \subseteq memory'
    /\ \A k \in 2..Len(MCJobOrder) :
           saved'[MCJobOrder[k]].status # "none" => saved'[MCJobOrder[k - 1]].status # "none"

DocumentInit ==
    /\ subject \in {"breaker", "bucket", "translation", "source", "chunks", "dlq"}
    /\ Init /\ RateInit /\ TranslationInit /\ ProcessingInit /\ DlqInit
    /\ ChunkInit
    /\ subject # "chunks" => ends = [k \in DOMAIN PunctLen |-> {}]

OfBreaker(A) ==
    /\ subject = "breaker"
    /\ A
    /\ UNCHANGED <<subject, rateVars, translationVars, processingVars, chunkVars, dlqVars>>

DocumentNext ==
    \/ OfBreaker(Next)
    \/ /\ subject = "bucket" /\ RateNext
       /\ UNCHANGED <<subject, vars, translationVars, processingVars, chunkVars, dlqVars>>
    \/ /\ subject = "translation" /\ TranslationNext /\ TranslationScope
       /\ UNCHANGED <<subject, vars, rateVars, processingVars, chunkVars, dlqVars>>
    \/ /\ subject = "source" /\ ProcessingNext
       /\ UNCHANGED <<subject, vars, rateVars, translationVars, chunkVars, dlqVars>>
    \/ /\ subject = "chunks" /\ ChunkTurn
       /\ UNCHANGED <<subject, vars, rateVars, translationVars, processingVars, dlqVars>>
    \/ /\ subject = "dlq" /\ DlqNext
       /\ UNCHANGED <<subject, vars, rateVars, translationVars, processingVars, chunkVars>>

\* The fairness of the breaker's callers and of its timer.
DocumentSpec ==
    /\ DocumentInit /\ [][DocumentNext]_documentVars
    /\ WF_documentVars(OfBreaker(TimeoutElapses))
    /\ \A c \in Callers : WF_documentVars(OfBreaker(Call(c)))
                            /\ WF_documentVars(OfBreaker(Return(c)))

\* Every variable of the six parts keeps its type and every counter its bound.
DocumentTypesOK ==
    /\ TypeOK /\ RateTypeOK /\ TranslationTypeOK /\ ProcessingTypeOK
    /\ ChunkTypeOK /\ DlqTypeOK
=============================================================================
