------------------------------- MODULE MCCrawl -------------------------------
(***************************************************************************)
(* The crawl and background work, for TLC: the task manager without Kafka, *)
(* the scheduler with its URL frontier, and the document pipeline.  A      *)
(* behaviour is about one of them, chosen at the start.                    *)
(***************************************************************************)
EXTENDS TaskManager, CrawlScheduler, CrawlPipeline

CONSTANTS u1, u2     \* the URLs of the instance

VARIABLE subject     \* the part this behaviour is about

workVars == <<subject, vars, crawlVars, pipelineVars>>

\* Two URLs of one domain that share a position of the Bloom filter.
MCDomainOf == [u \in CrawlUrls |-> "d"]
MCHashPositions == [u \in CrawlUrls |-> IF u = u1 THEN {1, 2} ELSE {2, 3}]
MCSeedLists == {<<u1, u2>>}

\* The scheduler is paused, resumed and stopped once the seeds are in.
SeedingOver == \A s \in Seeders : seeder[s].state \in {"done", "error"}

\* Documents meet only where both stages are switched on.
OneDocument == Cardinality({d \in PipelineDocs : doc[d].at # "new"}) <= 1

WorkInit ==
    /\ subject \in {"tasks", "crawl", "pipeline"}
    /\ Init /\ CrawlInit /\ PipelineInit
    /\ subject # "pipeline" => enabled = {}

WorkNext ==
    \/ subject = "tasks" /\ Next /\ UNCHANGED <<subject, crawlVars, pipelineVars>>
    \/ /\ subject = "crawl" /\ CrawlNext /\ UNCHANGED <<subject, vars, pipelineVars>>
       /\ sched' # sched => SeedingOver
    \/ /\ subject = "pipeline" /\ PipelineNext /\ UNCHANGED <<subject, vars, crawlVars>>
       /\ enabled = {Translate, Embed} \/ OneDocument'

OfTasks(A) == subject = "tasks" /\ A
OfCrawl(A) == subject = "crawl" /\ A

\* Fairness and CrawlFair, each while the behaviour is about its part.
WorkSpec ==
    /\ WorkInit /\ [][WorkNext]_workVars
    /\ \A t \in Tasks : WF_vars(OfTasks(Submitting(t)))
                          /\ WF_vars(OfTasks(ApplySubmitSave(t)))
    /\ \A c \in Cancellers : WF_vars(OfTasks(CancelReturns(c)))
                               /\ WF_vars(OfTasks(ApplyCancelSave(c)))
    /\ \A w \in Workers : WF_vars(OfTasks(Working(w)))
                            /\ WF_vars(OfTasks(ApplyWorkerSave(w)))
    /\ \A m \in Managers : /\ WF_vars(OfTasks(Start(m)))
                           /\ WF_vars(OfTasks(Consuming(m)))
                           /\ WF_vars(OfTasks(StopEnds(m)))
    /\ WF_crawlVars(OfCrawl(MainLoop)) /\ WF_crawlVars(OfCrawl(Tick))
    /\ \A k \in CrawlWorkers : WF_crawlVars(OfCrawl(WorkerStep(k)))
    /\ \A p \in Adders : WF_crawlVars(OfCrawl(AddingStep(p)))

\* Every variable of the three parts keeps its type and every counter its bound.
WorkTypesOK == TypeOK /\ CrawlTypeOK /\ PipelineTypeOK

\* Both: every task reaches a final state, and the queue of the crawl drains.
CrawlEnds == JobsFinish /\ QueueDrains
=============================================================================
