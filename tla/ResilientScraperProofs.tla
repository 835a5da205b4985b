----------------------- MODULE ResilientScraperProofs -----------------------
(***************************************************************************)
(* Proof of the bounds on the load one domain gets from any number of      *)
(* concurrent fetchers.                                                    *)
(***************************************************************************)
EXTENDS ResilientScraper, TLAPS, FiniteSetTheorems

Queued == {f \in Fetchers : phase[f] = "queued"}

\* Nobody calls the breaker's call(), so it opens and never leaves that state.
ScraperShape ==
    /\ phase \in [Fetchers -> ScrapePhase]
    /\ state \in {"closed", "open"}
    /\ overrun \in Nat

\* Once it is open nobody joins the fetchers that wait for the semaphore, and each
\* of them sends one request; the one whose failure opened it does not wait.
WaitersBounded ==
    /\ state = "closed" => overrun = 0
    /\ state = "open" => overrun + Cardinality(Queued) <= Cardinality(Fetchers) - 1

ScraperInv == ScraperShape /\ DomainConcurrency /\ WaitersBounded

-----------------------------------------------------------------------------

LEMMA SizesAreNat ==
    /\ IsFiniteSet(Queued) /\ Cardinality(Queued) \in Nat
    /\ IsFiniteSet(InFlight) /\ Cardinality(InFlight) \in Nat
    /\ Cardinality(Fetchers) \in Nat /\ Cardinality(Fetchers) >= 1
<1>1. Queued \in SUBSET Fetchers /\ InFlight \in SUBSET Fetchers
  BY DEF Queued, InFlight
<1>2. IsFiniteSet(Queued) /\ IsFiniteSet(InFlight)
  BY <1>1, ScraperAssumption, FS_Subset
<1>3. Cardinality(Fetchers) \in Nat /\ Cardinality(Fetchers) # 0
  BY ScraperAssumption, FS_CardinalityType, FS_EmptySet
<1>. QED  BY <1>2, <1>3, FS_CardinalityType

LEMMA ScraperInitInv == ScraperInit => ScraperInv
<1>. SUFFICES ASSUME ScraperInit PROVE ScraperInv
  OBVIOUS
<1>1. ScraperShape
  BY DEF ScraperInit, ScraperShape, ScrapePhase
<1>2. InFlight = {}
  BY DEF ScraperInit, InFlight
<1>3. Cardinality(InFlight) = 0
  BY <1>2, FS_EmptySet
<1>4. DomainConcurrency
  BY <1>3, ScraperAssumption DEF DomainConcurrency
<1>5. WaitersBounded
  BY DEF ScraperInit, WaitersBounded
<1>. QED  BY <1>1, <1>4, <1>5 DEF ScraperInv

\* How the two sets change when a fetcher goes from one phase to another.
LEMMA SetsAfter ==
    ASSUME ScraperShape, NEW f \in Fetchers, NEW p \in ScrapePhase, GoTo(f, p)
    PROVE  /\ Queued' = (Queued \ {f}) \cup (IF p = "queued" THEN {f} ELSE {})
           /\ InFlight' = (InFlight \ {f}) \cup (IF p = "fetching" THEN {f} ELSE {})
           /\ phase' \in [Fetchers -> ScrapePhase]
<1>1. /\ phase' \in [Fetchers -> ScrapePhase]
      /\ phase'[f] = p /\ \A g \in Fetchers : g # f => phase'[g] = phase[g]
  BY DEF ScraperShape, GoTo
<1>2. Queued' = (Queued \ {f}) \cup (IF p = "queued" THEN {f} ELSE {})
  BY <1>1 DEF Queued
<1>3. InFlight' = (InFlight \ {f}) \cup (IF p = "fetching" THEN {f} ELSE {})
  BY <1>1 DEF InFlight
<1>. QED  BY <1>1, <1>2, <1>3

\* A fetcher that neither begins to wait nor sends: both sets can only shrink.
LEMMA StepsAside ==
    ASSUME ScraperShape, NEW f \in Fetchers, NEW p \in ScrapePhase \ {"queued", "fetching"},
           GoTo(f, p)
    PROVE  /\ Cardinality(Queued)' <= Cardinality(Queued)
           /\ Cardinality(InFlight)' <= Cardinality(InFlight)
           /\ Cardinality(Queued)' <= Cardinality(Fetchers) - 1
<1>1. Queued' = Queued \ {f} /\ InFlight' = InFlight \ {f}
  <2>1. p \in ScrapePhase /\ p # "queued" /\ p # "fetching"
    OBVIOUS
  <2>2. /\ Queued' = (Queued \ {f}) \cup (IF p = "queued" THEN {f} ELSE {})
        /\ InFlight' = (InFlight \ {f}) \cup (IF p = "fetching" THEN {f} ELSE {})
    BY <2>1, SetsAfter
  <2>. QED  BY <2>1, <2>2
<1>2. /\ Cardinality(Queued \ {f}) <= Cardinality(Queued)
      /\ Cardinality(InFlight \ {f}) <= Cardinality(InFlight)
  <2>1. /\ Cardinality(Queued \ {f}) = IF f \in Queued THEN Cardinality(Queued) - 1
                                       ELSE Cardinality(Queued)
        /\ Cardinality(InFlight \ {f}) = IF f \in InFlight THEN Cardinality(InFlight) - 1
                                         ELSE Cardinality(InFlight)
    BY SizesAreNat, FS_RemoveElement
  <2>. QED  BY <2>1, SizesAreNat
<1>3. Queued \ {f} \in SUBSET (Fetchers \ {f})
  BY DEF Queued
<1>4. IsFiniteSet(Fetchers \ {f}) /\ Cardinality(Fetchers \ {f}) = Cardinality(Fetchers) - 1
  BY ScraperAssumption, FS_RemoveElement
<1>5. Cardinality(Queued \ {f}) <= Cardinality(Fetchers) - 1
  BY <1>3, <1>4, FS_Subset
<1>. QED  BY <1>1, <1>2, <1>5

\* A step aside that leaves the breaker alone, or finds or leaves it open.
LEMMA AsideKeeps ==
    ASSUME ScraperInv, NEW f \in Fetchers, NEW p \in ScrapePhase \ {"queued", "fetching"},
           GoTo(f, p), UNCHANGED overrun, state' = state \/ state' = "open"
    PROVE  ScraperInv'
<1>1. /\ Cardinality(Queued)' <= Cardinality(Queued)
      /\ Cardinality(InFlight)' <= Cardinality(InFlight)
      /\ Cardinality(Queued)' <= Cardinality(Fetchers) - 1
  BY StepsAside DEF ScraperInv
<1>2. ScraperShape'
  BY SetsAfter DEF ScraperInv, ScraperShape
<1>3. Cardinality(Queued)' \in Nat /\ Cardinality(InFlight)' \in Nat
  <2>1. Queued' \in SUBSET Fetchers /\ InFlight' \in SUBSET Fetchers
    BY DEF Queued, InFlight
  <2>. QED  BY <2>1, ScraperAssumption, FS_Subset, FS_CardinalityType
<1>4. DomainConcurrency'
  BY <1>1, <1>3, SizesAreNat, ScraperAssumption DEF ScraperInv, DomainConcurrency
<1>5. WaitersBounded'
  BY <1>1, <1>3, SizesAreNat DEF ScraperInv, ScraperShape, WaitersBounded
<1>. QED  BY <1>2, <1>4, <1>5 DEF ScraperInv

-----------------------------------------------------------------------------

LEMMA CheckKeeps ==
    ASSUME ScraperInv, NEW f \in Fetchers, CheckBreaker(f)
    PROVE  ScraperInv'
<1>0. UNCHANGED <<state, overrun>> /\ phase[f] = "check"
  BY DEF CheckBreaker, breakerVars
<1>1. CASE state = "open"
  BY <1>0, <1>1, AsideKeeps DEF CheckBreaker, ScrapePhase
<1>2. CASE state # "open"
  <2>1. GoTo(f, "queued") /\ "queued" \in ScrapePhase
    BY <1>2 DEF CheckBreaker, ScrapePhase
  <2>2. InFlight' = InFlight
    BY <1>0, <2>1, SetsAfter DEF ScraperInv, InFlight
  <2>3. ScraperShape'
    BY <1>0, <2>1, SetsAfter DEF ScraperInv, ScraperShape
  <2>4. DomainConcurrency'
    BY <2>2 DEF ScraperInv, DomainConcurrency
  <2>5. WaitersBounded'
    BY <1>0, <1>2 DEF ScraperInv, WaitersBounded
  <2>. QED  BY <2>3, <2>4, <2>5 DEF ScraperInv
<1>. QED  BY <1>1, <1>2

LEMMA SendKeeps ==
    ASSUME ScraperInv, NEW f \in Fetchers, Send(f)
    PROVE  ScraperInv'
<1>0. /\ phase[f] = "queued" /\ Cardinality(InFlight) < max_concurrent_per_domain
      /\ GoTo(f, "fetching") /\ state' = state /\ "fetching" \in ScrapePhase
      /\ overrun' = IF state = "open" THEN overrun + 1 ELSE overrun
  BY DEF Send, breakerVars, ScrapePhase
<1>1. Queued' = Queued \ {f} /\ InFlight' = InFlight \cup {f}
  BY <1>0, SetsAfter DEF ScraperInv, InFlight
<1>2. f \in Queued /\ f \notin InFlight
  BY <1>0 DEF Queued, InFlight
<1>3. Cardinality(Queued)' = Cardinality(Queued) - 1
  BY <1>1, <1>2, SizesAreNat, FS_RemoveElement
<1>4. Cardinality(InFlight)' = Cardinality(InFlight) + 1
  BY <1>1, <1>2, SizesAreNat, FS_AddElement
<1>5. ScraperShape'
  BY <1>0, SetsAfter DEF ScraperInv, ScraperShape
<1>6. DomainConcurrency'
  BY <1>0, <1>4, SizesAreNat, ScraperAssumption DEF DomainConcurrency
<1>7. WaitersBounded'
  BY <1>0, <1>3, SizesAreNat DEF ScraperInv, ScraperShape, WaitersBounded
<1>. QED  BY <1>5, <1>6, <1>7 DEF ScraperInv

LEMMA AnswerKeeps ==
    ASSUME ScraperInv, NEW f \in Fetchers, Answer(f)
    PROVE  ScraperInv'
<1>1. UNCHANGED overrun
  BY DEF Answer, Succeeds, FailsTransient, FailsPermanent, RateLimited
<1>2. state' = state \/ state' = "open"
  BY DEF Answer, Succeeds, FailsTransient, FailsPermanent, RateLimited, breakerVars,
     Breaker!OnSuccess, Breaker!OnFailure, ScraperInv, ScraperShape
<1>3. GoTo(f, "idle") \/ GoTo(f, "backoff")
  BY DEF Answer, Succeeds, FailsTransient, FailsPermanent, RateLimited, NextAttempt
<1>. QED  BY <1>1, <1>2, <1>3, AsideKeeps DEF ScrapePhase

LEMMA ScraperStepInv == ScraperInv /\ [ScraperNext]_scraperVars => ScraperInv'
<1>. SUFFICES ASSUME ScraperInv, [ScraperNext]_scraperVars
              PROVE  ScraperInv'
  OBVIOUS
<1>1. ASSUME NEW f \in Fetchers, Scrape(f) \/ BackoffEnds(f)
      PROVE  ScraperInv'
  <2>1. GoTo(f, "check") /\ UNCHANGED <<state, overrun>>
    BY <1>1 DEF Scrape, BackoffEnds, breakerVars
  <2>. QED  BY <2>1, AsideKeeps DEF ScrapePhase
<1>2. CASE RecoveryTimeout \/ UNCHANGED scraperVars
  <2>1. UNCHANGED <<phase, state, overrun>>
    BY <1>2 DEF RecoveryTimeout, Breaker!TimeoutElapses, scraperVars
  <2>. QED
    BY <2>1 DEF ScraperInv, ScraperShape, DomainConcurrency, WaitersBounded, Queued, InFlight
<1>. QED
  BY <1>1, <1>2, CheckKeeps, SendKeeps, AnswerKeeps DEF ScraperNext

\* For any number of fetchers and any limits: never more requests at once than the
\* semaphore allows, and after the circuit opened at most one more request of each
\* fetcher other than the one that opened it.
THEOREM LoadIsBounded == ScraperSpec => []FetchesBounded
<1>1. ScraperInv => FetchesBounded
  <2>. SUFFICES ASSUME ScraperInv PROVE OverrunBounded
    BY DEF ScraperInv, FetchesBounded
  <2>. QED
    BY SizesAreNat DEF ScraperInv, ScraperShape, WaitersBounded, OverrunBounded
<1>. QED  BY <1>1, ScraperInitInv, ScraperStepInv, PTL DEF ScraperSpec
=============================================================================
