-------------------------- MODULE ResilientScraper --------------------------
(***************************************************************************)
(* crawling/resilient_scraper.py: concurrent _fetch_with_retry calls of    *)
(* one ResilientScraper against one domain, with the domain's circuit      *)
(* breaker and semaphore.  Breakers, semaphores and counters of different  *)
(* domains share nothing, so one domain is enough.                         *)
(*                                                                         *)
(* The breaker is the object of CircuitBreaker.tla, but DomainCircuit-     *)
(* Breaker never goes through its call(): it reads the state, and reports  *)
(* outcomes straight to _on_success and _on_failure.                       *)
(***************************************************************************)
EXTENDS Naturals, FiniteSets

CONSTANTS
    Fetchers,                   \* concurrent scrape() calls
    failure_threshold,          \* circuit_failure_threshold
    max_retries,
    max_concurrent_per_domain

ASSUME ScraperAssumption ==
    /\ IsFiniteSet(Fetchers) /\ Fetchers # {}
    /\ failure_threshold \in Nat \ {0}
    /\ max_retries \in Nat
    /\ max_concurrent_per_domain \in Nat \ {0}

VARIABLES
    state, failure_count, success_count, timer, streak,     \* the breaker
    phase,          \* where each fetcher is in _fetch_with_retry
    attempt,        \* its loop variable
    overrun         \* history: requests sent while the circuit was open

scraperVars == <<state, failure_count, success_count, timer, streak, phase, attempt,
          overrun>>

(* half_open_calls is touched by call() only; the default limit is 3.      *)
Breaker == INSTANCE CircuitBreaker
             WITH Callers <- Fetchers, half_open_max_calls <- 3,
                  Cancellable <- FALSE, half_open_calls <- 0, probes <- 0,
                  pc <- phase

breakerVars == <<state, failure_count, success_count, timer, streak>>

ScrapePhase == {"idle", "check", "queued", "fetching", "backoff"}

ScraperTypeOK ==
    /\ state \in Breaker!CircuitState
    /\ failure_count \in 0 .. failure_threshold
    /\ success_count \in 0 .. 3
    /\ timer \in {"running", "elapsed"}
    /\ streak \in 0 .. 3
    /\ phase \in [Fetchers -> ScrapePhase]
    /\ attempt \in [Fetchers -> 0 .. max_retries]
    /\ overrun \in Nat

ScraperInit ==
    /\ state = "closed"
    /\ failure_count = 0
    /\ success_count = 0
    /\ timer = "running"
    /\ streak = 0
    /\ phase = [f \in Fetchers |-> "idle"]
    /\ attempt = [f \in Fetchers |-> 0]
    /\ overrun = 0

InFlight == {f \in Fetchers : phase[f] = "fetching"}

GoTo(f, p) == phase' = [phase EXCEPT ![f] = p]

-----------------------------------------------------------------------------
(* scrape(url) is called: attempt 0, no delay before the first check.      *)
Scrape(f) ==
    /\ phase[f] = "idle"
    /\ GoTo(f, "check")
    /\ attempt' = [attempt EXCEPT ![f] = 0]
    /\ UNCHANGED <<breakerVars, overrun>>

(* Faulty variant: only the first attempt consults the breaker.            *)
CheckFirstAttemptOnly(f) ==
    /\ phase[f] = "check"
    /\ GoTo(f, IF attempt[f] = 0 /\ state = "open" THEN "idle" ELSE "queued")
    /\ UNCHANGED <<breakerVars, attempt, overrun>>

(* is_open(domain): fail fast with CIRCUIT_OPEN, or go on to _do_fetch.    *)
CheckBreaker(f) ==
    /\ phase[f] = "check"
    /\ GoTo(f, IF state = "open" THEN "idle" ELSE "queued")
    /\ UNCHANGED <<breakerVars, attempt, overrun>>

(* _do_fetch gets the domain semaphore and sends the request; the breaker  *)
(* was consulted before the wait for the semaphore.                        *)
Send(f) ==
    /\ phase[f] = "queued"
    /\ Cardinality(InFlight) < max_concurrent_per_domain
    /\ GoTo(f, "fetching")
    /\ overrun' = IF state = "open" THEN overrun + 1 ELSE overrun
    /\ UNCHANGED <<breakerVars, attempt>>

(* Faulty variant: one turn of the loop too many.                          *)
NextAttemptTooMany(f) ==
    IF attempt[f] <= max_retries
    THEN /\ attempt' = [attempt EXCEPT ![f] = @ + 1]
         /\ GoTo(f, "backoff")
    ELSE /\ GoTo(f, "idle")
         /\ UNCHANGED attempt

(* After a failed attempt: the next turn of the loop, or its end.          *)
NextAttempt(f) ==
    IF attempt[f] < max_retries
    THEN /\ attempt' = [attempt EXCEPT ![f] = @ + 1]
         /\ GoTo(f, "backoff")
    ELSE /\ GoTo(f, "idle")
         /\ UNCHANGED attempt

Succeeds(f) ==
    /\ phase[f] = "fetching"
    /\ Breaker!OnSuccess
    /\ GoTo(f, "idle")
    /\ UNCHANGED <<attempt, overrun>>

(* Timeout, connection error, 5xx, extraction error or an unexpected       *)
(* exception: recorded, then retried.                                      *)
FailsTransient(f) ==
    /\ phase[f] = "fetching"
    /\ Breaker!OnFailure
    /\ NextAttempt(f)
    /\ UNCHANGED overrun

(* BLOCKED or HTTP_ERROR below 500: recorded as a failure, not retried.    *)
FailsPermanent(f) ==
    /\ phase[f] = "fetching"
    /\ Breaker!OnFailure
    /\ GoTo(f, "idle")
    /\ UNCHANGED <<attempt, overrun>>

(* 429: not the breaker's business, retried.                               *)
RateLimited(f) ==
    /\ phase[f] = "fetching"
    /\ NextAttempt(f)
    /\ UNCHANGED <<breakerVars, overrun>>

(* The jittered sleep before the next attempt is over.                     *)
BackoffEnds(f) ==
    /\ phase[f] = "backoff"
    /\ GoTo(f, "check")
    /\ UNCHANGED <<breakerVars, attempt, overrun>>

RecoveryTimeout == Breaker!TimeoutElapses /\ UNCHANGED <<attempt, overrun>>

Answer(f) == Succeeds(f) \/ FailsTransient(f) \/ FailsPermanent(f) \/ RateLimited(f)

ScraperNext ==
    \/ \E f \in Fetchers :
         Scrape(f) \/ CheckBreaker(f) \/ Send(f) \/ Answer(f) \/ BackoffEnds(f)
    \/ RecoveryTimeout

ScraperSpec == ScraperInit /\ [][ScraperNext]_scraperVars

(* The event loop runs every ready coroutine, aiohttp's total timeout ends *)
(* every request, asyncio semaphores are FIFO (hence SF on Send), and the  *)
(* crawl keeps scraping.                                                   *)
ScraperFairness ==
    /\ WF_scraperVars(RecoveryTimeout)
    /\ \A f \in Fetchers :
         /\ WF_scraperVars(Scrape(f))
         /\ WF_scraperVars(CheckBreaker(f))
         /\ SF_scraperVars(Send(f))
         /\ WF_scraperVars(Answer(f))
         /\ WF_scraperVars(BackoffEnds(f))

ScraperFairSpec == ScraperSpec /\ ScraperFairness

-----------------------------------------------------------------------------
(* Correctness properties                                                  *)

(* The domain never sees more than max_concurrent_per_domain requests at   *)
(* once: _do_fetch holds the domain semaphore for the whole request.       *)
DomainConcurrency == Cardinality(InFlight) <= max_concurrent_per_domain

(* _do_fetch waits for the semaphore after the breaker was consulted, so   *)
(* requests do go out while the circuit is open, but only those of         *)
(* fetchers that were already queued when it opened: at most one for each  *)
(* fetcher other than the one whose failure opened it.                     *)
OverrunBounded == overrun <= Cardinality(Fetchers) - 1

(* The load one domain gets, with the circuit closed and with it open.     *)
FetchesBounded == DomainConcurrency /\ OverrunBounded

(* Every scrape ends: the loop of _fetch_with_retry makes at most          *)
(* max_retries + 1 attempts, whatever the answers are.                     *)
ScrapeEnds == \A f \in Fetchers : (phase[f] # "idle") ~> (phase[f] = "idle")

=============================================================================
