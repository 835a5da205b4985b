--------------------------- MODULE CrawlFrontier ---------------------------
(***************************************************************************)
(* The URL frontier in Redis (crawling/url_frontier.py) and the seed       *)
(* manager that fills it (crawling/seed_manager.py).                       *)
(*                                                                         *)
(* A process p that adds a URL does so in the steps of add_url, one Redis  *)
(* command each.  Time is kept as the age of a domain's last crawl, which  *)
(* stops counting at the longest delay.                                    *)
(***************************************************************************)
EXTENDS Integers, FiniteSets, Sequences

CONSTANTS
    CrawlUrls,          \* normalised URLs
    CrawlDomains,       \* domains
    DomainOf,           \* domain of a URL
    HashPositions,      \* positions of a URL in the Bloom filter
    MinDelay,           \* min_crawl_delay
    DefaultDelay,       \* default_crawl_delay
    MaxDelay,           \* max_crawl_delay
    Seeders,            \* calls of SeedManager.add_seeds
    SeedLists,          \* lists of URLs they may be given
    CrawlWorkers,       \* worker tasks of the scheduler
    NoScore             \* not in the priority queue

ASSUME FrontierAssumption ==
    /\ IsFiniteSet(CrawlUrls) /\ IsFiniteSet(CrawlDomains)
    /\ IsFiniteSet(Seeders) /\ IsFiniteSet(CrawlWorkers)
    /\ NoScore \notin {0, 50, 100}
    /\ DomainOf \in [CrawlUrls -> CrawlDomains]
    /\ MinDelay \in Nat /\ DefaultDelay \in Nat /\ MaxDelay \in Nat
    /\ MinDelay <= DefaultDelay /\ DefaultDelay <= MaxDelay

VARIABLES
    bits,       \* bits set in the Bloom filter
    pq,         \* priority queue: score of each URL, lowest first
    dq,         \* domain queues: occurrences of each URL
    since,      \* since[d]: time since the crawl time of d was written
    delay,      \* domain delays
    adding,     \* adding[p]: an add_url in progress
    seeder      \* seeder[s]: the URLs it has left and what became of it

frontierVars == <<bits, pq, dq, since, delay, adding, seeder>>

Adders == Seeders \cup CrawlWorkers

Score == {0, 50, 100}

AddStep == {"idle", "contains", "bloom", "zadd", "rpush", "metadata"}

NoAdd == [step |-> "idle", url |-> NoScore, score |-> 0]

FrontierTypeOK ==
    /\ bits \subseteq UNION {HashPositions[u] : u \in CrawlUrls}
    /\ pq \in [CrawlUrls -> Score \cup {NoScore}]
    /\ dq \in [CrawlUrls -> Nat]
    /\ since \in [CrawlDomains -> 0..MaxDelay]
    /\ delay \in [CrawlDomains -> MinDelay..MaxDelay]
    /\ adding \in [Adders -> [step : AddStep, url : CrawlUrls \cup {NoScore}, score : Score]]

FrontierInit ==
    /\ bits = {}
    /\ pq = [u \in CrawlUrls |-> NoScore]
    /\ dq = [u \in CrawlUrls |-> 0]
    /\ since = [d \in CrawlDomains |-> MaxDelay]
    /\ delay = [d \in CrawlDomains |-> DefaultDelay]
    /\ adding = [p \in Adders |-> NoAdd]
    /\ seeder = [s \in Seeders |-> [list |-> <<>>, seen |-> {}, state |-> "new"]]

-----------------------------------------------------------------------------
(* add_url *)

\* RedisBloomFilter.contains: every bit of the URL is set.
BloomContains(u) == HashPositions[u] \subseteq bits

\* The value of adding[p] when p calls add_url; force skips the Bloom filter.
AddUrl(u, score, force) ==
    [step |-> IF force THEN "bloom" ELSE "contains", url |-> u, score |-> score]

AddGoes(p, step) == adding' = [adding EXCEPT ![p].step = step]

\* A possible duplicate is skipped.
AddContains(p) ==
    /\ adding[p].step = "contains"
    /\ IF BloomContains(adding[p].url) THEN adding' = [adding EXCEPT ![p] = NoAdd]
       ELSE AddGoes(p, "bloom")
    /\ UNCHANGED <<bits, pq, dq, since, delay, seeder>>

AddBloom(p) ==
    /\ adding[p].step = "bloom"
    /\ bits' = bits \cup HashPositions[adding[p].url]
    /\ AddGoes(p, "zadd")
    /\ UNCHANGED <<pq, dq, since, delay, seeder>>

AddZ(p) ==
    /\ adding[p].step = "zadd"
    /\ pq' = [pq EXCEPT ![adding[p].url] = adding[p].score]
    /\ AddGoes(p, "rpush")
    /\ UNCHANGED <<bits, dq, since, delay, seeder>>

\* The domain queue, the set of active domains and, for a seed, the metadata.
AddPush(p) ==
    /\ adding[p].step = "rpush"
    /\ dq' = [dq EXCEPT ![adding[p].url] = @ + 1]
    /\ IF p \in Seeders THEN AddGoes(p, "metadata") ELSE adding' = [adding EXCEPT ![p] = NoAdd]
    /\ UNCHANGED <<bits, pq, since, delay, seeder>>

\* The metadata of a seed holds True and None, which the Redis client may refuse:
\* the seeder ends with an error, the URL is queued already.
AddMetadata(p) ==
    /\ adding[p].step = "metadata"
    /\ adding' = [adding EXCEPT ![p] = NoAdd]
    /\ \/ UNCHANGED seeder
       \/ seeder' = [seeder EXCEPT ![p].state = "error"]
    /\ UNCHANGED <<bits, pq, dq, since, delay>>

AddStepOf(p) == AddContains(p) \/ AddBloom(p) \/ AddZ(p) \/ AddPush(p) \/ AddMetadata(p)

-----------------------------------------------------------------------------
(* SeedManager *)

SeedsArrive(s) ==
    /\ seeder[s].state = "new"
    /\ \E list \in SeedLists :
          seeder' = [seeder EXCEPT ![s] = [@ EXCEPT !.list = list, !.state = "loading"]]
    /\ UNCHANGED <<bits, pq, dq, since, delay, adding>>

\* add_seeds takes the next URL: an invalid one is skipped, one this manager has
\* seen is skipped, any other goes to the frontier.
AddSeed(s) ==
    /\ seeder[s].state = "loading"
    /\ adding[s].step = "idle"
    /\ seeder[s].list # <<>>
    /\ LET u == Head(seeder[s].list) IN
       /\ seeder' = [seeder EXCEPT ![s].list = Tail(@), ![s].seen = @ \cup {u}]
       /\ IF u \in seeder[s].seen \/ u \notin CrawlUrls THEN UNCHANGED adding
          ELSE adding' = [adding EXCEPT ![s] = AddUrl(u, 0, FALSE)]
    /\ UNCHANGED <<bits, pq, dq, since, delay>>

SeedsDone(s) ==
    /\ seeder[s].state = "loading"
    /\ adding[s].step = "idle"
    /\ seeder[s].list = <<>>
    /\ seeder' = [seeder EXCEPT ![s].state = "done"]
    /\ UNCHANGED <<bits, pq, dq, since, delay, adding>>

SeedStep(s) == SeedsArrive(s) \/ AddSeed(s) \/ SeedsDone(s)

-----------------------------------------------------------------------------
(* Delays and choice *)

\* Faulty variant: the delay is stored as it comes.
SetDomainDelayRaw(d, x) == delay' = [delay EXCEPT ![d] = x]

\* set_domain_delay: clamped to min_crawl_delay..max_crawl_delay.
SetDomainDelay(d, x) ==
    delay' = [delay EXCEPT ![d] = IF x < MinDelay THEN MinDelay
                                  ELSE IF x > MaxDelay THEN MaxDelay ELSE x]

CanCrawl(d) == since[d] >= delay[d]

\* get_next_url looks at the candidates by score and passes over a domain whose
\* first candidate may not be crawled yet.
Candidates ==
    {u \in CrawlUrls : /\ pq[u] # NoScore
                       /\ CanCrawl(DomainOf[u])
                       /\ \A v \in CrawlUrls : pq[v] # NoScore /\ CanCrawl(DomainOf[v])
                             => pq[u] <= pq[v]}

\* Faulty variant: the URL stays in the priority queue.
ZRemNot(u) == UNCHANGED pq

ZRem(u) == pq' = [pq EXCEPT ![u] = NoScore]

LRem(u) == dq' = [dq EXCEPT ![u] = IF @ = 0 THEN 0 ELSE @ - 1]

UpdateCrawlTime(d) == since' = [since EXCEPT ![d] = 0]

=============================================================================
