------------------------ MODULE CrawlSchedulerProofs ------------------------
(***************************************************************************)
(* Proof that the frontier neither loses a URL nor gives it away twice,    *)
(* for any URLs, seeders, tasks, delays and limits.                        *)
(***************************************************************************)
EXTENDS CrawlScheduler, TLAPS, FiniteSetTheorems

One(b) == IF b THEN 1 ELSE 0

\* The adders between the two commands for u.
Pushing(u) == {p \in Adders : adding[p].step = "rpush" /\ adding[p].url = u}

\* Every adder and every task that works has a URL; the loop has one while it
\* takes it out, and finds it in the priority queue when it begins to.
FrontierShape ==
    /\ pq \in [CrawlUrls -> Score \cup {NoScore}]
    /\ dq \in [CrawlUrls -> Nat]
    /\ owed \in [CrawlUrls -> Int]
    /\ adding \in [Adders -> [step : AddStep, url : CrawlUrls \cup {NoScore}, score : Score]]
    /\ \A p \in Adders : adding[p].step # "idle" => adding[p].url \in CrawlUrls
    /\ crawlWorker \in [CrawlWorkers -> [step : {"idle", "start", "fetch", "delay", "requeue"},
                                         url : CrawlUrls \cup {NoScore}]]
    /\ \A k \in CrawlWorkers : crawlWorker[k].step # "idle" => crawlWorker[k].url \in CrawlUrls
    /\ loop \in LoopStep
    /\ loop \in {"zrem", "lrem", "stamp", "spawn"} => picked \in CrawlUrls
    /\ loop = "zrem" => pq[picked] # NoScore

\* What was queued and not yet given away is in the priority queue or in the
\* hands of the loop.
OwedWhere ==
    \A u \in CrawlUrls :
        owed[u] = One(pq[u] # NoScore) + One(loop \in {"lrem", "stamp"} /\ picked = u)

\* The domain queue, with the pushes to come, covers the priority queue and the
\* removal to come.
PushesCover ==
    \A u \in CrawlUrls :
        dq[u] + Cardinality(Pushing(u))
            >= One(pq[u] # NoScore) + One(loop = "lrem" /\ picked = u)

CrawlInv == FrontierShape /\ OwedWhere /\ PushesCover

-----------------------------------------------------------------------------

LEMMA PushingFinite ==
    ASSUME NEW u
    PROVE  IsFiniteSet(Pushing(u)) /\ Cardinality(Pushing(u)) \in Nat
<1>1. IsFiniteSet(Adders)
  BY FrontierAssumption, FS_Union DEF Adders
<1>2. Pushing(u) \in SUBSET Adders
  BY DEF Pushing
<1>. QED  BY <1>1, <1>2, FS_Subset, FS_CardinalityType

\* A step that changes neither the queues nor who is about to push, and moves
\* the loop between places where it holds nothing back, keeps both counts.
LEMMA QuietStep ==
    ASSUME CrawlInv, UNCHANGED <<pq, dq, owed>>,
           \A u \in CrawlUrls : Pushing(u)' = Pushing(u),
           \/ UNCHANGED <<loop, picked>>
           \/ loop \notin {"lrem", "stamp"} /\ loop' \notin {"lrem", "stamp"}
    PROVE  OwedWhere' /\ PushesCover'
<1>1. OwedWhere'
  BY DEF CrawlInv, OwedWhere, One
<1>2. ASSUME NEW u \in CrawlUrls
      PROVE  (dq[u] + Cardinality(Pushing(u))
                >= One(pq[u] # NoScore) + One(loop = "lrem" /\ picked = u))'
  <2>1. Cardinality(Pushing(u))' = Cardinality(Pushing(u))
    BY <1>2
  <2>2. One(loop = "lrem" /\ picked = u)' = One(loop = "lrem" /\ picked = u)
    BY DEF One
  <2>. QED  BY <1>2, <2>1, <2>2 DEF CrawlInv, PushesCover, One
<1>. QED  BY <1>1, <1>2 DEF PushesCover

\* Replacing an add_url that is not about to push by another such one leaves
\* who is about to push as it is.
LEMMA PushingKept ==
    ASSUME NEW p \in Adders, FrontierShape, adding[p].step # "rpush", NEW x,
           x.step # "rpush", adding' = [adding EXCEPT ![p] = x]
    PROVE  \A u \in CrawlUrls : Pushing(u)' = Pushing(u)
<1>1. \A q \in Adders : q # p => adding'[q] = adding[q]
  BY DEF FrontierShape
<1>2. adding'[p] = x
  BY DEF FrontierShape
<1>. QED  BY <1>1, <1>2 DEF Pushing

LEMMA CrawlInitInv == CrawlInit => CrawlInv
<1>. SUFFICES ASSUME CrawlInit PROVE CrawlInv
  OBVIOUS
<1>1. FrontierShape
  BY DEF CrawlInit, FrontierInit, FrontierShape, NoAdd, Idle, AddStep, Score, LoopStep
<1>2. OwedWhere
  BY DEF CrawlInit, FrontierInit, OwedWhere, One
<1>3. PushesCover
  BY PushingFinite DEF CrawlInit, FrontierInit, PushesCover, One
<1>. QED  BY <1>1, <1>2, <1>3 DEF CrawlInv

-----------------------------------------------------------------------------
(* The shape *)

LEMMA LoopShape ==
    ASSUME CrawlInv, MainLoop
    PROVE  FrontierShape'
<1>. USE DEF CrawlInv, FrontierShape, LoopGoes, frontierVars
<1>1. CASE LoopTop
  BY <1>1 DEF LoopTop, LoopStep
<1>2. CASE LoopWaits
  BY <1>2 DEF LoopWaits, LoopStep
<1>3. CASE GetNextUrl
  BY <1>3 DEF GetNextUrl, Candidates, LoopStep
<1>4. CASE GetNothing
  BY <1>4 DEF GetNothing, LoopStep
<1>5. CASE TakeZ
  BY <1>5 DEF TakeZ, ZRem, LoopStep
<1>6. CASE TakeL
  BY <1>6 DEF TakeL, LRem, LoopStep
<1>7. CASE TakeStamp
  BY <1>7 DEF TakeStamp, LoopStep
<1>8. CASE SpawnWorker
  <2>1. PICK k \in CrawlWorkers :
            crawlWorker' = [crawlWorker EXCEPT ![k] = [step |-> "start", url |-> picked]]
    BY <1>8 DEF SpawnWorker
  <2>. QED  BY <1>8, <2>1 DEF SpawnWorker, LoopStep
<1>. QED  BY <1>1, <1>2, <1>3, <1>4, <1>5, <1>6, <1>7, <1>8 DEF MainLoop

LEMMA WorkerShape ==
    ASSUME CrawlInv, NEW k \in CrawlWorkers, WorkerStep(k)
    PROVE  FrontierShape'
<1>. USE DEF CrawlInv, FrontierShape, Running, CrawlWorkerEnds, frontierVars
<1>0. k \in Adders
  BY DEF Adders
<1>1. CASE WorkerStarts(k)
  <2>0. /\ crawlWorker[k].step = "start" /\ crawlWorker[k].url \in CrawlUrls
        /\ UNCHANGED <<pq, dq, loop, picked, owed>>
    BY <1>1 DEF WorkerStarts
  <2>1. CASE /\ adding' = [adding EXCEPT ![k] = AddUrl(crawlWorker[k].url, 100, FALSE)]
             /\ crawlWorker' = [crawlWorker EXCEPT ![k].step = "requeue"]
    BY <1>0, <2>0, <2>1 DEF AddUrl, AddStep, Score
  <2>2. CASE adding' = adding /\ crawlWorker' = [crawlWorker EXCEPT ![k].step = "fetch"]
    BY <2>0, <2>2
  <2>. QED  BY <1>1, <2>1, <2>2 DEF WorkerStarts
<1>2. CASE FetchSucceeds(k)
  BY <1>2 DEF FetchSucceeds, Idle
<1>3. CASE FetchRateLimited(k)
  BY <1>0, <1>3 DEF FetchRateLimited, AddUrl, AddStep, Score
<1>4. CASE FetchServerError(k)
  BY <1>4 DEF FetchServerError, Idle
<1>5. CASE FetchFails(k)
  BY <1>5 DEF FetchFails, Idle
<1>6. CASE Requeued(k)
  BY <1>6 DEF Requeued, Idle
<1>. QED  BY <1>1, <1>2, <1>3, <1>4, <1>5, <1>6 DEF WorkerStep

LEMMA AddShape ==
    ASSUME CrawlInv, NEW p \in Adders, AddingStep(p)
    PROVE  FrontierShape'
<1>. USE DEF CrawlInv, FrontierShape, AddingStep, AddGoes, NoAdd, AddStep, Score
<1>1. CASE AddContains(p)
  <2>0. adding[p].url \in CrawlUrls /\ UNCHANGED <<pq, dq, owed, loop, picked, crawlWorker>>
    BY <1>1 DEF AddContains
  <2>1. CASE adding' = [adding EXCEPT ![p] = NoAdd]
    BY <2>0, <2>1
  <2>2. CASE adding' = [adding EXCEPT ![p].step = "bloom"]
    BY <2>0, <2>2
  <2>. QED  BY <1>1, <2>1, <2>2 DEF AddContains
<1>2. CASE AddBloom(p)
  BY <1>2 DEF AddBloom
<1>3. CASE AddZ(p)
  BY <1>3, FrontierAssumption DEF AddZ
<1>4. CASE AddPush(p)
  BY <1>4 DEF AddPush
<1>5. CASE AddMetadata(p)
  BY <1>5 DEF AddMetadata
<1>. QED  BY <1>1, <1>2, <1>3, <1>4, <1>5 DEF AddStepOf

LEMMA SeedShape ==
    ASSUME CrawlInv, NEW s \in Seeders, SeedingStep(s)
    PROVE  FrontierShape'
<1>. USE DEF CrawlInv, FrontierShape, SeedingStep, schedulerVars
<1>0. s \in Adders
  BY DEF Adders
<1>1. CASE SeedsArrive(s)
  BY <1>1 DEF SeedsArrive
<1>2. CASE AddSeed(s)
  <2>. DEFINE u == Head(seeder[s].list)
  <2>1. CASE adding' = adding
    BY <1>2, <2>1 DEF AddSeed
  <2>2. CASE u \in CrawlUrls /\ adding' = [adding EXCEPT ![s] = AddUrl(u, 0, FALSE)]
    BY <1>0, <1>2, <2>2 DEF AddSeed, AddUrl, AddStep, Score
  <2>. QED  BY <1>2, <2>1, <2>2 DEF AddSeed
<1>3. CASE SeedsDone(s)
  BY <1>3 DEF SeedsDone
<1>. QED  BY <1>1, <1>2, <1>3 DEF SeedStep, SeedingStep

-----------------------------------------------------------------------------
(* The counts *)

LEMMA TakeZCounts ==
    ASSUME CrawlInv, TakeZ
    PROVE  OwedWhere' /\ PushesCover'
<1>0. /\ picked \in CrawlUrls /\ pq[picked] # NoScore /\ loop = "zrem" /\ loop' = "lrem"
      /\ pq' = [pq EXCEPT ![picked] = NoScore] /\ UNCHANGED <<dq, picked, owed, adding>>
  BY DEF CrawlInv, FrontierShape, TakeZ, ZRem, LoopGoes
<1>1. ASSUME NEW u \in CrawlUrls
      PROVE  One(pq[u] # NoScore) + One(FALSE) = One(pq'[u] # NoScore) + One(picked' = u)
  BY <1>0, <1>1 DEF CrawlInv, FrontierShape, One
<1>2. OwedWhere'
  BY <1>0, <1>1 DEF CrawlInv, OwedWhere, One
<1>3. ASSUME NEW u \in CrawlUrls
      PROVE  (dq[u] + Cardinality(Pushing(u))
                >= One(pq[u] # NoScore) + One(loop = "lrem" /\ picked = u))'
  <2>1. Pushing(u)' = Pushing(u)
    BY <1>0 DEF Pushing
  <2>2. dq[u] + Cardinality(Pushing(u)) >= One(pq[u] # NoScore) + One(FALSE)
    BY <1>0, <1>3 DEF CrawlInv, PushesCover, One
  <2>. QED  BY <1>0, <1>1, <1>3, <2>1, <2>2 DEF One
<1>. QED  BY <1>2, <1>3 DEF PushesCover

LEMMA TakeLCounts ==
    ASSUME CrawlInv, TakeL
    PROVE  OwedWhere' /\ PushesCover'
<1>0. /\ picked \in CrawlUrls /\ loop = "lrem" /\ loop' = "stamp"
      /\ dq' = [dq EXCEPT ![picked] = IF @ = 0 THEN 0 ELSE @ - 1]
      /\ UNCHANGED <<pq, picked, owed, adding>>
  BY DEF CrawlInv, FrontierShape, TakeL, LRem, LoopGoes
<1>1. OwedWhere'
  BY <1>0 DEF CrawlInv, OwedWhere, One
<1>2. ASSUME NEW u \in CrawlUrls
      PROVE  (dq[u] + Cardinality(Pushing(u))
                >= One(pq[u] # NoScore) + One(loop = "lrem" /\ picked = u))'
  <2>1. Pushing(u)' = Pushing(u)
    BY <1>0 DEF Pushing
  <2>2. dq[u] + Cardinality(Pushing(u)) >= One(pq[u] # NoScore) + One(picked = u)
    BY <1>0, <1>2 DEF CrawlInv, PushesCover, One
  <2>3. dq[u] \in Nat /\ Cardinality(Pushing(u)) \in Nat
    BY <1>2, PushingFinite DEF CrawlInv, FrontierShape
  <2>4. dq'[u] = IF picked = u THEN (IF dq[u] = 0 THEN 0 ELSE dq[u] - 1) ELSE dq[u]
    BY <1>0, <1>2 DEF CrawlInv, FrontierShape
  <2>5. dq'[u] + Cardinality(Pushing(u)) >= One(pq[u] # NoScore)
    BY <2>2, <2>3, <2>4 DEF One
  <2>. QED  BY <1>0, <2>1, <2>5 DEF One
<1>. QED  BY <1>1, <1>2 DEF PushesCover

LEMMA TakeStampCounts ==
    ASSUME CrawlInv, TakeStamp
    PROVE  OwedWhere' /\ PushesCover'
<1>0. /\ picked \in CrawlUrls /\ loop = "stamp" /\ loop' = "spawn"
      /\ owed' = [owed EXCEPT ![picked] = @ - 1]
      /\ UNCHANGED <<pq, dq, picked, adding>>
  BY DEF CrawlInv, FrontierShape, TakeStamp, LoopGoes
<1>1. OwedWhere'
  BY <1>0 DEF CrawlInv, FrontierShape, OwedWhere, One
<1>2. \A u \in CrawlUrls : Pushing(u)' = Pushing(u)
  BY <1>0 DEF Pushing
<1>3. PushesCover'
  BY <1>0, <1>2 DEF CrawlInv, PushesCover, One
<1>. QED  BY <1>1, <1>3

LEMMA AddZCounts ==
    ASSUME CrawlInv, NEW p \in Adders, AddingStep(p), AddZ(p)
    PROVE  OwedWhere' /\ PushesCover'
<1>. DEFINE v == adding[p].url
<1>0. /\ adding[p].step = "zadd" /\ v \in CrawlUrls /\ adding[p].score \in Score
      /\ pq' = [pq EXCEPT ![v] = adding[p].score]
      /\ adding' = [adding EXCEPT ![p].step = "rpush"]
      /\ owed' = IF pq[v] = NoScore THEN [owed EXCEPT ![v] = @ + 1] ELSE owed
      /\ UNCHANGED <<dq, loop, picked>>
  BY DEF CrawlInv, FrontierShape, AddingStep, AddZ, AddGoes
<1>1. adding[p].score # NoScore
  BY <1>0, FrontierAssumption DEF Score
<1>2. OwedWhere'
  BY <1>0, <1>1 DEF CrawlInv, FrontierShape, OwedWhere, One
<1>3. ASSUME NEW u \in CrawlUrls
      PROVE  (dq[u] + Cardinality(Pushing(u))
                >= One(pq[u] # NoScore) + One(loop = "lrem" /\ picked = u))'
  <2>1. dq[u] + Cardinality(Pushing(u))
          >= One(pq[u] # NoScore) + One(loop = "lrem" /\ picked = u)
    BY <1>3 DEF CrawlInv, PushesCover
  <2>2. dq[u] \in Nat /\ Cardinality(Pushing(u)) \in Nat /\ IsFiniteSet(Pushing(u))
    BY <1>3, PushingFinite DEF CrawlInv, FrontierShape
  <2>3. adding'[p].step = "rpush" /\ adding'[p].url = v
        /\ \A q \in Adders : q # p => adding'[q] = adding[q]
    BY <1>0 DEF CrawlInv, FrontierShape
  <2>4. CASE u = v
    <3>1. Pushing(u)' = Pushing(u) \cup {p}
      BY <2>3, <2>4 DEF Pushing
    <3>2. p \notin Pushing(u)
      BY <1>0 DEF Pushing
    <3>3. Cardinality(Pushing(u)') = Cardinality(Pushing(u)) + 1
      BY <2>2, <3>1, <3>2, FS_AddElement
    <3>. QED  BY <1>0, <2>1, <2>2, <3>3 DEF One
  <2>5. CASE u # v
    <3>1. Pushing(u)' = Pushing(u)
      BY <1>0, <2>3, <2>5 DEF Pushing
    <3>2. pq'[u] = pq[u]
      BY <1>0, <1>3, <2>5 DEF CrawlInv, FrontierShape
    <3>. QED  BY <1>0, <2>1, <3>1, <3>2 DEF One
  <2>. QED  BY <2>4, <2>5
<1>. QED  BY <1>2, <1>3 DEF PushesCover

LEMMA AddPushCounts ==
    ASSUME CrawlInv, NEW p \in Adders, AddingStep(p), AddPush(p)
    PROVE  OwedWhere' /\ PushesCover'
<1>. DEFINE v == adding[p].url
<1>0. /\ adding[p].step = "rpush" /\ v \in CrawlUrls
      /\ dq' = [dq EXCEPT ![v] = @ + 1]
      /\ UNCHANGED <<pq, owed, loop, picked>>
  BY DEF CrawlInv, FrontierShape, AddingStep, AddPush
<1>1. OwedWhere'
  BY <1>0 DEF CrawlInv, OwedWhere, One
<1>2. /\ adding'[p].step # "rpush"
      /\ \A q \in Adders : q # p => adding'[q] = adding[q]
  BY DEF CrawlInv, FrontierShape, AddPush, AddGoes, NoAdd
<1>3. ASSUME NEW u \in CrawlUrls
      PROVE  (dq[u] + Cardinality(Pushing(u))
                >= One(pq[u] # NoScore) + One(loop = "lrem" /\ picked = u))'
  <2>1. dq[u] + Cardinality(Pushing(u))
          >= One(pq[u] # NoScore) + One(loop = "lrem" /\ picked = u)
    BY <1>3 DEF CrawlInv, PushesCover
  <2>2. dq[u] \in Nat /\ Cardinality(Pushing(u)) \in Nat /\ IsFiniteSet(Pushing(u))
    BY <1>3, PushingFinite DEF CrawlInv, FrontierShape
  <2>3. CASE u = v
    <3>1. Pushing(u)' = Pushing(u) \ {p}
      BY <1>2, <2>3 DEF Pushing
    <3>2. p \in Pushing(u)
      BY <1>0, <2>3 DEF Pushing
    <3>3. Cardinality(Pushing(u)') = Cardinality(Pushing(u)) - 1
      BY <2>2, <3>1, <3>2, FS_RemoveElement
    <3>4. dq'[u] = dq[u] + 1
      BY <1>0, <2>3 DEF CrawlInv, FrontierShape
    <3>. QED  BY <1>0, <2>1, <2>2, <3>3, <3>4 DEF One
  <2>4. CASE u # v
    <3>1. Pushing(u)' = Pushing(u)
      BY <1>0, <1>2, <2>4 DEF Pushing
    <3>2. dq'[u] = dq[u]
      BY <1>0, <1>3, <2>4 DEF CrawlInv, FrontierShape
    <3>. QED  BY <1>0, <2>1, <3>1, <3>2 DEF One
  <2>. QED  BY <2>3, <2>4
<1>. QED  BY <1>1, <1>3 DEF PushesCover

LEMMA LoopCounts ==
    ASSUME CrawlInv, MainLoop
    PROVE  OwedWhere' /\ PushesCover'
<1>1. CASE LoopTop \/ LoopWaits \/ GetNextUrl \/ GetNothing \/ SpawnWorker
  <2>1. /\ UNCHANGED <<pq, dq, owed, adding>>
        /\ loop \notin {"lrem", "stamp"} /\ loop' \notin {"lrem", "stamp"}
    BY <1>1 DEF LoopTop, LoopWaits, GetNextUrl, GetNothing, SpawnWorker, LoopGoes, frontierVars
  <2>2. \A u \in CrawlUrls : Pushing(u)' = Pushing(u)
    BY <2>1 DEF Pushing
  <2>. QED  BY <2>1, <2>2, QuietStep
<1>2. CASE TakeZ
  BY <1>2, TakeZCounts
<1>3. CASE TakeL
  BY <1>3, TakeLCounts
<1>4. CASE TakeStamp
  BY <1>4, TakeStampCounts
<1>. QED  BY <1>1, <1>2, <1>3, <1>4 DEF MainLoop

LEMMA WorkerCounts ==
    ASSUME CrawlInv, NEW k \in CrawlWorkers, WorkerStep(k)
    PROVE  OwedWhere' /\ PushesCover'
<1>0. k \in Adders /\ adding[k].step = "idle" /\ UNCHANGED <<pq, dq, owed, loop, picked>>
  BY DEF Adders, WorkerStep, Running, WorkerStarts, FetchSucceeds, FetchRateLimited,
         FetchServerError, FetchFails, Requeued, frontierVars
<1>. DEFINE back(score, force) == AddUrl(crawlWorker[k].url, score, force)
<1>1. \/ adding' = adding
      \/ adding' = [adding EXCEPT ![k] = back(100, FALSE)]
      \/ adding' = [adding EXCEPT ![k] = back(50, TRUE)]
  BY DEF WorkerStep, WorkerStarts, FetchSucceeds, FetchRateLimited, FetchServerError,
         FetchFails, Requeued, frontierVars
<1>2. back(100, FALSE).step # "rpush" /\ back(50, TRUE).step # "rpush"
  BY DEF AddUrl
<1>3. \A u \in CrawlUrls : Pushing(u)' = Pushing(u)
  <2>1. CASE adding' = adding
    BY <2>1 DEF Pushing
  <2>2. CASE adding' = [adding EXCEPT ![k] = back(100, FALSE)]
    <3>. HIDE DEF back
    <3>. QED  BY <1>0, <1>2, <2>2, PushingKept DEF CrawlInv
  <2>3. CASE adding' = [adding EXCEPT ![k] = back(50, TRUE)]
    <3>. HIDE DEF back
    <3>. QED  BY <1>0, <1>2, <2>3, PushingKept DEF CrawlInv
  <2>. QED  BY <1>1, <2>1, <2>2, <2>3
<1>. QED  BY <1>0, <1>3, QuietStep

LEMMA AddCounts ==
    ASSUME CrawlInv, NEW p \in Adders, AddingStep(p)
    PROVE  OwedWhere' /\ PushesCover'
<1>1. CASE AddContains(p) \/ AddBloom(p) \/ AddMetadata(p)
  <2>1. UNCHANGED <<pq, dq, owed, loop, picked>> /\ adding[p].step # "rpush"
    BY <1>1 DEF AddingStep, AddContains, AddBloom, AddMetadata
  <2>2. /\ adding'[p].step # "rpush"
        /\ \A q \in Adders : q # p => adding'[q] = adding[q]
    BY <1>1 DEF CrawlInv, FrontierShape, AddContains, AddBloom, AddMetadata, AddGoes, NoAdd
  <2>3. \A u \in CrawlUrls : Pushing(u)' = Pushing(u)
    BY <2>1, <2>2 DEF Pushing
  <2>. QED  BY <2>1, <2>3, QuietStep
<1>2. CASE AddZ(p)
  BY <1>2, AddZCounts
<1>3. CASE AddPush(p)
  BY <1>3, AddPushCounts
<1>. QED  BY <1>1, <1>2, <1>3 DEF AddingStep, AddStepOf

LEMMA SeedCounts ==
    ASSUME CrawlInv, NEW s \in Seeders, SeedingStep(s)
    PROVE  OwedWhere' /\ PushesCover'
<1>. DEFINE new == AddUrl(Head(seeder[s].list), 0, FALSE)
<1>0. s \in Adders /\ UNCHANGED <<pq, dq, owed, loop, picked>>
  BY DEF Adders, SeedingStep, SeedStep, SeedsArrive, AddSeed, SeedsDone, schedulerVars
<1>1. \/ adding' = adding
      \/ adding[s].step = "idle" /\ adding' = [adding EXCEPT ![s] = new]
  BY DEF SeedingStep, SeedStep, SeedsArrive, AddSeed, SeedsDone
<1>2. new.step # "rpush"
  BY DEF AddUrl
<1>3. \A u \in CrawlUrls : Pushing(u)' = Pushing(u)
  <2>1. CASE adding' = adding
    BY <2>1 DEF Pushing
  <2>2. CASE adding[s].step = "idle" /\ adding' = [adding EXCEPT ![s] = new]
    <3>. HIDE DEF new
    <3>. QED  BY <1>0, <1>2, <2>2, PushingKept DEF CrawlInv
  <2>. QED  BY <1>1, <2>1, <2>2
<1>. QED  BY <1>0, <1>3, QuietStep

-----------------------------------------------------------------------------

LEMMA CrawlStepInv == CrawlInv /\ [CrawlNext]_crawlVars => CrawlInv'
<1>. SUFFICES ASSUME CrawlInv, [CrawlNext]_crawlVars
              PROVE  CrawlInv'
  OBVIOUS
<1>1. CASE MainLoop
  BY <1>1, LoopShape, LoopCounts DEF CrawlInv
<1>2. CASE Pause \/ Resume \/ Stop \/ Stopped \/ Tick \/ UNCHANGED crawlVars
  <2>1. UNCHANGED <<pq, dq, adding, loop, picked, crawlWorker, owed>>
    BY <1>2 DEF Pause, Resume, Stop, Stopped, Tick, crawlVars, schedulerVars, frontierVars
  <2>2. FrontierShape'
    BY <2>1 DEF CrawlInv, FrontierShape
  <2>3. \A u \in CrawlUrls : Pushing(u)' = Pushing(u)
    BY <2>1 DEF Pushing
  <2>4. OwedWhere' /\ PushesCover'
    BY <2>1, <2>3, QuietStep
  <2>. QED  BY <2>2, <2>4 DEF CrawlInv
<1>3. ASSUME NEW k \in CrawlWorkers, WorkerStep(k) PROVE CrawlInv'
  BY <1>3, WorkerShape, WorkerCounts DEF CrawlInv
<1>4. ASSUME NEW p \in Adders, AddingStep(p) PROVE CrawlInv'
  BY <1>4, AddShape, AddCounts DEF CrawlInv
<1>5. ASSUME NEW s \in Seeders, SeedingStep(s) PROVE CrawlInv'
  BY <1>5, SeedShape, SeedCounts DEF CrawlInv
<1>. QED  BY <1>1, <1>2, <1>3, <1>4, <1>5 DEF CrawlNext

LEMMA CrawlInvSound == CrawlInv => FrontierSound
<1>. SUFFICES ASSUME CrawlInv, NEW u \in CrawlUrls
              PROVE  /\ pq[u] # NoScore =>
                          dq[u] > 0 \/ \E p \in Adders :
                             adding[p].step = "rpush" /\ adding[p].url = u
                     /\ owed[u] >= 0
  BY DEF FrontierSound, QueuesAgree, HandedOutOnce
<1>1. owed[u] >= 0
  BY DEF CrawlInv, OwedWhere, One
<1>2. ASSUME pq[u] # NoScore, ~(dq[u] > 0)
      PROVE  Pushing(u) # {}
  <2>1. dq[u] = 0
    BY <1>2 DEF CrawlInv, FrontierShape
  <2>2. Cardinality(Pushing(u)) >= 1
    BY <1>2, <2>1, PushingFinite DEF CrawlInv, PushesCover, One
  <2>. QED  BY <2>2, FS_EmptySet
<1>. QED  BY <1>1, <1>2 DEF Pushing

\* Whatever the URLs, the seed lists, the number of seeders and tasks and the
\* delays: every URL of the priority queue is in its domain queue or about to be
\* pushed there, and none is given away more often than it was queued.
THEOREM FrontierIsSound == CrawlSpec => []FrontierSound
<1>1. CrawlInit => CrawlInv
  BY CrawlInitInv
<1>2. CrawlInv /\ [CrawlNext]_crawlVars => CrawlInv'
  BY CrawlStepInv
<1>3. CrawlInv => FrontierSound
  BY CrawlInvSound
<1>. QED  BY <1>1, <1>2, <1>3, PTL DEF CrawlSpec

-----------------------------------------------------------------------------
(* The frontier is a polite pool *)

\* While the loop takes a URL out, its domain has rested for min_crawl_delay:
\* the delay it was compared with is never below that, and only the loop itself
\* writes the crawl time.
Rested ==
    /\ since \in [CrawlDomains -> Nat]
    /\ delay \in [CrawlDomains -> MinDelay..MaxDelay]
    /\ loop \in {"zrem", "lrem", "stamp"} => since[DomainOf[picked]] >= MinDelay

LEMMA RestedInit == CrawlInit => Rested
  BY FrontierAssumption DEF CrawlInit, FrontierInit, Rested

LEMMA ClampedDelay ==
    ASSUME Rested, NEW d, NEW x \in Nat, SetDomainDelay(d, x)
    PROVE  delay' \in [CrawlDomains -> MinDelay..MaxDelay]
<1>. DEFINE y == IF x < MinDelay THEN MinDelay ELSE IF x > MaxDelay THEN MaxDelay ELSE x
<1>1. y \in MinDelay..MaxDelay
  BY FrontierAssumption
<1>2. delay' = [delay EXCEPT ![d] = y]
  BY DEF SetDomainDelay
<1>. HIDE DEF y
<1>. QED  BY <1>1, <1>2 DEF Rested

LEMMA RestedStep == CrawlInv /\ Rested /\ [CrawlNext]_crawlVars => Rested'
<1>. SUFFICES ASSUME CrawlInv, Rested, [CrawlNext]_crawlVars
              PROVE  Rested'
  OBVIOUS
<1>. USE FrontierAssumption
<1>1. CASE MainLoop
  <2>. USE DEF Rested, LoopGoes, frontierVars
  <2>1. CASE LoopTop
    BY <2>1 DEF LoopTop
  <2>2. CASE LoopWaits
    BY <2>2 DEF LoopWaits
  <2>3. CASE GetNextUrl
    <3>1. picked' \in CrawlUrls /\ since[DomainOf[picked']] >= delay[DomainOf[picked']]
      BY <2>3 DEF GetNextUrl, Candidates, CanCrawl
    <3>2. DomainOf[picked'] \in CrawlDomains
      BY <3>1
    <3>3. since[DomainOf[picked']] >= MinDelay
      BY <3>1, <3>2
    <3>. QED  BY <2>3, <3>3 DEF GetNextUrl
  <2>4. CASE GetNothing
    BY <2>4 DEF GetNothing
  <2>5. CASE TakeZ \/ TakeL
    BY <2>5 DEF TakeZ, TakeL
  <2>6. CASE TakeStamp
    BY <2>6 DEF TakeStamp, UpdateCrawlTime
  <2>7. CASE SpawnWorker
    BY <2>7 DEF SpawnWorker
  <2>. QED  BY <1>1, <2>1, <2>2, <2>3, <2>4, <2>5, <2>6, <2>7 DEF MainLoop
<1>2. CASE Pause \/ Resume \/ Stop \/ Stopped \/ UNCHANGED crawlVars
  BY <1>2 DEF Rested, Pause, Resume, Stop, Stopped, crawlVars, schedulerVars, frontierVars
<1>3. CASE Tick
  <2>1. /\ UNCHANGED <<delay, loop, picked>>
        /\ since' = [d \in CrawlDomains |-> IF since[d] < MaxDelay THEN since[d] + 1
                                            ELSE since[d]]
    BY <1>3 DEF Tick
  <2>2. since' \in [CrawlDomains -> Nat] /\ \A d \in CrawlDomains : since'[d] >= since[d]
    BY <2>1 DEF Rested
  <2>3. loop \in {"zrem", "lrem", "stamp"} => DomainOf[picked] \in CrawlDomains
    BY DEF CrawlInv, FrontierShape
  <2>. QED  BY <2>1, <2>2, <2>3 DEF Rested
<1>4. ASSUME NEW k \in CrawlWorkers, WorkerStep(k) PROVE Rested'
  <2>1. CASE FetchSucceeds(k)
    <3>1. PICK x \in 0..(2 * MaxDelay) : SetDomainDelay(DomOf(k), x)
      BY <2>1 DEF FetchSucceeds
    <3>2. x \in Nat
      BY <3>1
    <3>3. delay' \in [CrawlDomains -> MinDelay..MaxDelay]
      BY <3>1, <3>2, ClampedDelay
    <3>. QED  BY <2>1, <3>3 DEF FetchSucceeds, Rested
  <2>2. CASE FetchRateLimited(k)
    <3>1. DomOf(k) \in CrawlDomains
      BY <2>2 DEF CrawlInv, FrontierShape, DomOf, FetchRateLimited, Running
    <3>2. 2 * delay[DomOf(k)] \in Nat
      BY <3>1 DEF Rested
    <3>3. delay' \in [CrawlDomains -> MinDelay..MaxDelay]
      BY <2>2, <3>2, ClampedDelay DEF FetchRateLimited
    <3>. QED  BY <2>2, <3>3 DEF FetchRateLimited, Rested
  <2>3. CASE WorkerStarts(k) \/ FetchServerError(k) \/ FetchFails(k) \/ Requeued(k)
    BY <2>3 DEF WorkerStarts, FetchServerError, FetchFails, Requeued, frontierVars, Rested
  <2>. QED  BY <1>4, <2>1, <2>2, <2>3 DEF WorkerStep
<1>5. ASSUME NEW p \in Adders, AddingStep(p) PROVE Rested'
  BY <1>5 DEF AddingStep, AddStepOf, AddContains, AddBloom, AddZ, AddPush, AddMetadata, Rested
<1>6. ASSUME NEW s \in Seeders, SeedingStep(s) PROVE Rested'
  BY <1>6 DEF SeedingStep, SeedStep, SeedsArrive, AddSeed, SeedsDone, schedulerVars, Rested
<1>. QED  BY <1>1, <1>2, <1>3, <1>4, <1>5, <1>6 DEF CrawlNext

\* A step that neither queues nor gives away a URL and lets no time pass is a
\* stutter of the pool.
LEMMA PoolStutter ==
    ASSUME UNCHANGED <<pq, since>>,
           \/ UNCHANGED <<loop, picked>>
           \/ loop \notin {"lrem", "stamp"} /\ loop' \notin {"lrem", "stamp"}
           \/ loop = "lrem" /\ loop' = "stamp" /\ picked' = picked
    PROVE  UNCHANGED <<InPool, Ages>>
<1>1. InPool' = InPool
  BY DEF InPool
<1>2. Ages' = Ages
  BY DEF Ages
<1>. QED  BY <1>1, <1>2

LEMMA PoolStep ==
    ASSUME CrawlInv, Rested, [CrawlNext]_crawlVars
    PROVE  Pool!PoolNext \/ UNCHANGED <<InPool, Ages>>
<1>1. CASE LoopTop \/ LoopWaits \/ GetNextUrl \/ GetNothing \/ TakeL \/ SpawnWorker
  BY <1>1, PoolStutter DEF LoopTop, LoopWaits, GetNextUrl, GetNothing, TakeL, SpawnWorker,
     LoopGoes, frontierVars
<1>2. CASE TakeZ
  <2>1. /\ picked \in CrawlUrls /\ pq[picked] # NoScore /\ loop = "zrem" /\ loop' = "lrem"
        /\ pq' = [pq EXCEPT ![picked] = NoScore] /\ UNCHANGED <<since, picked>>
    BY <1>2 DEF CrawlInv, FrontierShape, TakeZ, ZRem, LoopGoes
  <2>2. InPool' = InPool
    BY <2>1 DEF CrawlInv, FrontierShape, InPool
  <2>3. Ages' = Ages
    BY <2>1 DEF Ages
  <2>. QED  BY <2>2, <2>3
<1>3. CASE TakeStamp
  <2>1. /\ picked \in CrawlUrls /\ loop = "stamp" /\ loop' = "spawn"
        /\ since' = [since EXCEPT ![DomainOf[picked]] = 0] /\ UNCHANGED <<pq, picked>>
        /\ since[DomainOf[picked]] >= MinDelay /\ DomainOf[picked] \in CrawlDomains
    BY <1>3, FrontierAssumption
       DEF CrawlInv, FrontierShape, Rested, TakeStamp, UpdateCrawlTime, LoopGoes
  <2>2. InPool' = [InPool EXCEPT ![picked] = @ - 1]
    <3>1. \A u \in CrawlUrls : InPool'[u] = IF u = picked THEN InPool[u] - 1 ELSE InPool[u]
      BY <2>1 DEF InPool
    <3>. QED  BY <2>1, <3>1 DEF InPool
  <2>3. InPool[picked] > 0
    BY <2>1 DEF InPool
  <2>4. Ages[DomainOf[picked]] = MinDelay
    BY <2>1, FrontierAssumption DEF Rested, Ages
  <2>5. Ages' = [Ages EXCEPT ![DomainOf[picked]] = 0]
    <3>. DEFINE g == DomainOf[picked]
    <3>1. \A d \in CrawlDomains : since'[d] = IF d = g THEN 0 ELSE since[d]
      BY <2>1 DEF Rested
    <3>. HIDE DEF g
    <3>2. \A d \in CrawlDomains : Ages'[d] = IF d = g THEN 0 ELSE Ages[d]
      BY <3>1, FrontierAssumption DEF Ages
    <3>3. Ages' = [Ages EXCEPT ![g] = 0]
      BY <3>2 DEF Ages
    <3>. QED  BY <3>3 DEF g
  <2>6. Pool!Give(picked)
    BY <2>2, <2>3, <2>4, <2>5 DEF Pool!Give
  <2>. QED  BY <2>1, <2>6 DEF Pool!PoolNext
<1>4. CASE Tick
  <2>1. /\ UNCHANGED <<pq, loop, picked>>
        /\ since' = [d \in CrawlDomains |-> IF since[d] < MaxDelay THEN since[d] + 1
                                            ELSE since[d]]
    BY <1>4 DEF Tick
  <2>2. InPool' = InPool
    BY <2>1 DEF InPool
  <2>3. Ages' = [d \in CrawlDomains |-> IF Ages[d] < MinDelay THEN Ages[d] + 1 ELSE MinDelay]
    BY <2>1, FrontierAssumption DEF Rested, Ages
  <2>4. Pool!TimePasses
    BY <2>2, <2>3 DEF Pool!TimePasses
  <2>. QED  BY <2>4 DEF Pool!PoolNext
<1>5. CASE Pause \/ Resume \/ Stop \/ Stopped \/ UNCHANGED crawlVars
  BY <1>5, PoolStutter DEF Pause, Resume, Stop, Stopped, crawlVars, schedulerVars, frontierVars
<1>6. ASSUME NEW k \in CrawlWorkers, WorkerStep(k)
      PROVE  UNCHANGED <<InPool, Ages>>
  BY <1>6, PoolStutter DEF WorkerStep, WorkerStarts, FetchSucceeds, FetchRateLimited,
     FetchServerError, FetchFails, Requeued, frontierVars
<1>7. ASSUME NEW p \in Adders, AddingStep(p)
      PROVE  Pool!PoolNext \/ UNCHANGED <<InPool, Ages>>
  <2>1. CASE AddContains(p) \/ AddBloom(p) \/ AddPush(p) \/ AddMetadata(p)
    BY <1>7, <2>1, PoolStutter DEF AddingStep, AddContains, AddBloom, AddPush, AddMetadata
  <2>2. CASE AddZ(p)
    <3>. DEFINE v == adding[p].url
    <3>1. /\ v \in CrawlUrls /\ adding[p].score \in Score
          /\ pq' = [pq EXCEPT ![v] = adding[p].score] /\ UNCHANGED <<since, loop, picked>>
      BY <1>7, <2>2 DEF CrawlInv, FrontierShape, AddingStep, AddZ
    <3>2. adding[p].score # NoScore
      BY <3>1, FrontierAssumption DEF Score
    <3>3. Ages' = Ages
      BY <3>1 DEF Ages
    <3>4. CASE pq[v] = NoScore
      <4>1. InPool' = [InPool EXCEPT ![v] = @ + 1]
        BY <3>1, <3>2, <3>4 DEF CrawlInv, FrontierShape, InPool
      <4>2. Pool!Put(v)
        BY <3>3, <4>1 DEF Pool!Put
      <4>. QED  BY <3>1, <4>2 DEF Pool!PoolNext
    <3>5. CASE pq[v] # NoScore
      <4>1. InPool' = InPool
        BY <3>1, <3>2, <3>5 DEF CrawlInv, FrontierShape, InPool
      <4>. QED  BY <3>3, <4>1
    <3>. QED  BY <3>4, <3>5
  <2>. QED  BY <1>7, <2>1, <2>2 DEF AddingStep, AddStepOf
<1>8. ASSUME NEW s \in Seeders, SeedingStep(s)
      PROVE  UNCHANGED <<InPool, Ages>>
  BY <1>8, PoolStutter DEF SeedingStep, SeedStep, SeedsArrive, AddSeed, SeedsDone, schedulerVars
<1>. QED
  BY <1>1, <1>2, <1>3, <1>4, <1>5, <1>6, <1>7, <1>8 DEF CrawlNext, MainLoop

LEMMA PoolStart ==
    ASSUME CrawlInit
    PROVE  Pool!PoolInit
<1>1. InPool = [u \in CrawlUrls |-> 0]
  BY DEF CrawlInit, FrontierInit, InPool
<1>2. Ages = [d \in CrawlDomains |-> MinDelay]
  BY FrontierAssumption DEF CrawlInit, FrontierInit, Ages
<1>. QED  BY <1>1, <1>2 DEF Pool!PoolInit

\* The frontier under the scheduler implements the polite pool, for any URLs,
\* domains, seeders, tasks and delays: each URL is given away as often as it was
\* queued, and two of a domain at least min_crawl_delay apart.
THEOREM FrontierImplementsPool == CrawlSpec => PoolImplemented
<1>1. CrawlInit => CrawlInv /\ Rested /\ Pool!PoolInit
  BY CrawlInitInv, RestedInit, PoolStart
<1>2. CrawlInv /\ Rested /\ [CrawlNext]_crawlVars => CrawlInv' /\ Rested'
  BY CrawlStepInv, RestedStep
<1>3. CrawlInv /\ Rested /\ [CrawlNext]_crawlVars => [Pool!PoolNext]_(Pool!poolVars)
  BY PoolStep DEF Pool!poolVars
<1>. QED  BY <1>1, <1>2, <1>3, PTL DEF CrawlSpec, PoolImplemented, Pool!PoolSpec
=============================================================================
