----------------------------- MODULE MCAssistant -----------------------------
(***************************************************************************)
(* A question to the assistant, for TLC: the session that runs it, the     *)
(* thinking engine, the researcher, the research session, the search and   *)
(* scraping of the web, the resilient scraper and the calls of the model   *)
(* service.  A behaviour is about one of them, chosen at the start.        *)
(***************************************************************************)
EXTENDS ThinkingSession, ThinkingEngine, AdvancedResearcher, ResearchSession,
        WebGather, ResilientScraper, OllamaModel

VARIABLE subject     \* the part this behaviour is about

pipelines == <<vars, engineVars, researchVars, sessionVars>>
outside == <<gatherVars, scraperVars, ollamaVars>>
assistantVars == <<subject, pipelines, outside>>

\* The replicas are alike: both sessions are started at the same one of them.
OneOf(replicas) == CHOOSE r \in replicas : TRUE
ThinksAtFirst == home' \in {Nobody, OneOf(Replicas)}
ResearchesAtFirst == site' \in {Nowhere, OneOf(ResearchReplicas)}

\* Bound: the research's last write failed at one place at a time.
OneLost == Cardinality(lost') <= 1

\* Texts that a careless key confuses: empty, with a separator inside, with what
\* ends or escapes a string.
CacheTexts == {<<>>, <<"a">>, <<"a", "|", "a">>, <<Backslash>>,
               <<"a", Quote, ",", Quote, "a">>}
CacheLimits == {<<"1">>, <<"2">>}

\* Bounds on the calls of the model service.  With the response cache they carry
\* any texts, the first is answered by the service and the next follow it; without
\* it they run concurrently and carry the same text.
CallsOneByOne ==
    /\ \A a \in Askers : at'[a] \in {NoAsker, OneOf(OllamaReplicas)} /\ call'[a] # "failed"
    /\ Cardinality({a \in Askers : call'[a] \notin {"idle", "answered"}}) <= 1
    /\ Cardinality({a \in Askers : posts'[a] > 0}) <= 1
    /\ removals' = 0
CallsAlike == \A a \in Askers : call'[a] # "idle" => query'[a] = CHOOSE q \in Query : TRUE
CallsBounded == IF caching THEN CallsOneByOne ELSE CallsAlike

AssistantInit ==
    /\ subject \in {"session", "engine", "researcher", "research", "gather",
                    "scraper", "model"}
    /\ Init /\ EngineInit /\ ResearcherInit /\ ResearchInit /\ GatherInit /\ ScraperInit
    /\ OllamaInit
    /\ subject # "model" => installed /\ ~caching
    /\ caching => installed

AssistantNext ==
    /\ UNCHANGED subject
    /\ \/ /\ subject = "session" /\ Next /\ ThinksAtFirst
          /\ UNCHANGED <<engineVars, researchVars, sessionVars, outside>>
       \/ /\ subject = "engine" /\ EngineNext
          /\ UNCHANGED <<vars, researchVars, sessionVars, outside>>
       \/ /\ subject = "researcher" /\ ResearchNext
          /\ UNCHANGED <<vars, engineVars, sessionVars, outside>>
       \/ /\ subject = "research" /\ ResearchSessionNext /\ ResearchesAtFirst /\ OneLost
          /\ UNCHANGED <<vars, engineVars, researchVars, outside>>
       \/ /\ subject = "gather" /\ GatherNext
          /\ UNCHANGED <<pipelines, scraperVars, ollamaVars>>
       \/ /\ subject = "scraper" /\ ScraperNext
          /\ UNCHANGED <<pipelines, gatherVars, ollamaVars>>
       \/ /\ subject = "model" /\ OllamaNext /\ CallsBounded
          /\ UNCHANGED <<pipelines, gatherVars, scraperVars>>

OfSession(A) == subject = "session" /\ A
OfScraper(A) == subject = "scraper" /\ A

\* Fairness and ScraperFairness, each while the behaviour is about its part.
AssistantSpec ==
    /\ AssistantInit /\ [][AssistantNext]_assistantVars
    /\ WF_vars(OfSession(LinkRecord)) /\ WF_vars(OfSession(Begin))
    /\ WF_vars(OfSession(TimesOut)) /\ WF_vars(OfSession(Persist))
    /\ WF_vars(OfSession(SayUser)) /\ WF_vars(OfSession(SayAssistant))
    /\ WF_vars(OfSession(Mark))
    /\ WF_scraperVars(OfScraper(RecoveryTimeout))
    /\ \A f \in Fetchers :
         /\ WF_scraperVars(OfScraper(Scrape(f)))
         /\ WF_scraperVars(OfScraper(CheckBreaker(f)))
         /\ SF_scraperVars(OfScraper(Send(f)))
         /\ WF_scraperVars(OfScraper(Answer(f)))
         /\ WF_scraperVars(OfScraper(BackoffEnds(f)))

\* Every variable of the seven parts keeps its type and every counter its bound.
AssistantTypesOK ==
    /\ TypeOK /\ EngineTypeOK /\ ResearcherTypeOK /\ ResearchTypeOK
    /\ GatherTypeOK /\ ScraperTypeOK /\ OllamaTypeOK

\* Both: a session's pipeline ends within its ceiling, and so does a scrape.
AnswersEnd == PipelineEnds /\ ScrapeEnds
=============================================================================
