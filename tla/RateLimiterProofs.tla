-------------------------- MODULE RateLimiterProofs --------------------------
(***************************************************************************)
(* The bound of the token bucket, for every rate and every length of run.  *)
(***************************************************************************)
EXTENDS RateLimiter, TLAPS

\* The capacity of the bucket is a natural number, so that the leaves below
\* need not look into the product.
LEMMA BurstNat == Burst \in Nat
BY RateAssumption DEF Burst

LEMMA RateInitInv == RateInit => RateTypeOK /\ RateInv
<1> SUFFICES ASSUME RateInit
             PROVE  RateTypeOK /\ RateInv
  OBVIOUS
<1>1. Burst \in Nat
  BY BurstNat
<1>2. RateTypeOK
  BY <1>1 DEF RateInit, RateTypeOK
<1>3. RateInv
  BY <1>1 DEF RateInit, RateInv
<1> QED
  BY <1>2, <1>3

\* The refill stays within the capacity and adds at most the time elapsed.
LEMMA RefilledBounded ==
    ASSUME RateTypeOK
    PROVE  /\ Refilled \in Nat
           /\ Refilled <= Burst
           /\ Refilled <= level + (clock - last_update)
BY BurstNat DEF RateTypeOK, Refilled

LEMMA RateTypeStep == RateTypeOK /\ [RateNext]_rateVars => RateTypeOK'
<1> SUFFICES ASSUME RateTypeOK, [RateNext]_rateVars
             PROVE  RateTypeOK'
  OBVIOUS
<1>a. Burst \in Nat /\ TokenTime \in Nat /\ Burst' = Burst
  BY BurstNat, RateAssumption DEF Burst
<1>1. CASE Acquire
  <2>1. Refilled \in Nat /\ Refilled <= Burst
    BY RefilledBounded
  <2> QED
    BY <1>1, <1>a, <2>1 DEF Acquire, RateTypeOK
<1>2. CASE Wake
  BY <1>2, <1>a DEF Wake, RateTypeOK
<1>3. CASE SleepCancelled
  BY <1>3, <1>a DEF SleepCancelled, RateTypeOK
<1>4. CASE RateTick
  BY <1>4, <1>a DEF RateTick, RateTypeOK
<1>5. CASE UNCHANGED rateVars
  BY <1>5, <1>a DEF rateVars, RateTypeOK
<1> QED
  BY <1>1, <1>2, <1>3, <1>4, <1>5 DEF RateNext

LEMMA RateInvStep == RateTypeOK /\ RateInv /\ [RateNext]_rateVars => RateInv'
<1> SUFFICES ASSUME RateTypeOK, RateInv, [RateNext]_rateVars
             PROVE  RateInv'
  OBVIOUS
<1>a. Burst \in Nat /\ TokenTime \in Nat /\ Burst' = Burst
  BY BurstNat, RateAssumption DEF Burst
<1>1. CASE Acquire
  <2>1. Refilled \in Nat /\ Refilled <= level + (clock - last_update)
    BY RefilledBounded
  <2> QED
    BY <1>1, <1>a, <2>1 DEF Acquire, RateTypeOK, RateInv
<1>2. CASE Wake
  BY <1>2, <1>a DEF Wake, RateTypeOK, RateInv
<1>3. CASE SleepCancelled
  BY <1>3, <1>a DEF SleepCancelled, RateTypeOK, RateInv
<1>4. CASE RateTick
  BY <1>4, <1>a DEF RateTick, RateTypeOK, RateInv
<1>5. CASE UNCHANGED rateVars
  BY <1>5, <1>a DEF rateVars, RateTypeOK, RateInv
<1> QED
  BY <1>1, <1>2, <1>3, <1>4, <1>5 DEF RateNext

\* The requests a token bucket lets through never exceed the initial burst
\* and twice the refill, whatever its rate: the time slept in acquire is
\* counted once when the sleeper goes on and once by the next refill.
THEOREM RateBound == RateSpec => []AtMostDoubled
<1>1. RateTypeOK /\ RateInv => AtMostDoubled
  BY BurstNat DEF RateTypeOK, RateInv, AtMostDoubled
<1> QED
  BY <1>1, RateInitInv, RateTypeStep, RateInvStep, PTL DEF RateSpec

=============================================================================
