----------------------------- MODULE RateLimiter -----------------------------
(***************************************************************************)
(* The token bucket that the translator holds for each provider            *)
(* (reliability/rate_limiter.py, TokenBucketRateLimiter, wrapped by        *)
(* RateLimiter).                                                           *)
(*                                                                         *)
(* Time advances in ticks, and a token is counted in the ticks it takes to *)
(* refill one, TokenTime = period / rate.  A tick therefore refills one    *)
(* unit, the bucket holds rate * TokenTime units and a request takes       *)
(* TokenTime of them.                                                      *)
(***************************************************************************)
EXTENDS Integers

CONSTANTS
    rate,         \* requests in a period, and the capacity of the bucket
    TokenTime,    \* ticks to refill one token
    MaxTime       \* bound: the ticks explored

ASSUME RateAssumption ==
    rate \in Nat \ {0} /\ TokenTime \in Nat \ {0} /\ MaxTime \in Nat

VARIABLES
    clock,
    level,         \* self.tokens, in units
    last_update,
    holder,        \* "sleeper" while a caller sleeps inside acquire, with the lock
    spent          \* history: TokenTime for every request let through

rateVars == <<clock, level, last_update, holder, spent>>

Burst == rate * TokenTime

RateTypeOK ==
    /\ clock \in Nat
    /\ level \in Nat /\ level <= Burst
    /\ last_update \in Nat /\ last_update <= clock
    /\ holder \in {"none", "sleeper"}
    /\ spent \in Nat

RateInit ==
    /\ clock = 0
    /\ level = Burst
    /\ last_update = 0
    /\ holder = "none"
    /\ spent = 0

\* The bucket after the refill for the time since the last update.
Refilled ==
    LET refill == level + (clock - last_update)
    IN  IF refill <= Burst THEN refill ELSE Burst

\* acquire: the refill, then either a token is there and taken, or the
\* caller goes to sleep for the missing part with the lock held.
Acquire ==
    /\ holder = "none"
    /\ last_update' = clock
    /\ \/ /\ Refilled >= TokenTime
          /\ level' = Refilled - TokenTime
          /\ spent' = spent + TokenTime
          /\ UNCHANGED holder
       \/ /\ Refilled < TokenTime
          /\ level' = Refilled
          /\ holder' = "sleeper"
          /\ UNCHANGED spent
    /\ UNCHANGED clock

\* Faulty variant: the caller goes on without having slept.
WakeEarly ==
    /\ holder = "sleeper"
    /\ level' = 0
    /\ spent' = spent + TokenTime
    /\ holder' = "none"
    /\ UNCHANGED <<clock, last_update>>

\* The sleep is over (it lasts at least the wait time): the bucket is set
\* empty and the request goes through.  last_update keeps the time at which
\* the sleep began.
Wake ==
    /\ holder = "sleeper"
    /\ clock - last_update >= TokenTime - level
    /\ level' = 0
    /\ spent' = spent + TokenTime
    /\ holder' = "none"
    /\ UNCHANGED <<clock, last_update>>

\* The sleeping caller is cancelled and releases the lock.
SleepCancelled ==
    /\ holder = "sleeper"
    /\ holder' = "none"
    /\ UNCHANGED <<clock, level, last_update, spent>>

RateTick ==
    /\ clock < MaxTime
    /\ clock' = clock + 1
    /\ UNCHANGED <<level, last_update, holder, spent>>

RateNext == Acquire \/ Wake \/ SleepCancelled \/ RateTick

RateSpec == RateInit /\ [][RateNext]_rateVars

-----------------------------------------------------------------------------
(* Properties *)

\* What acquire keeps: apart from the initial burst, the requests let
\* through never exceed twice the configured rate.
AtMostDoubled ==
    spent <= Burst + 2 * clock

\* What the class says of itself, "allow bursts while maintaining an average
\* rate limit": the initial burst and the refill since then bound the
\* requests let through.
AverageRate ==
    spent <= Burst + clock

\* The strengthening of AtMostDoubled: a waking caller leaves last_update
\* at the start of its sleep, so that the time it slept is refilled again.
RateInv ==
    spent + level <= Burst + last_update + (IF holder = "sleeper" THEN last_update ELSE clock)

=============================================================================
