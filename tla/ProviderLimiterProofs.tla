----------------------- MODULE ProviderLimiterProofs -----------------------
(* Proofs about ProviderLimiter: its counter is exact for any providers,   *)
(* any finite set of sessions and any limits.                              *)
EXTENDS ProviderLimiter, FiniteSetTheorems, TLAPS

LimiterInv == LimiterTypeOK /\ CountsSessions

(* The sessions with a provider are finitely many.                         *)
LEMMA LiveFinite ==
  ASSUME NEW p \in Providers
  PROVE  IsFiniteSet(Live(p)) /\ Cardinality(Live(p)) \in Nat
<1>1. Live(p) \subseteq Sessions
  BY DEF Live
<1>2. QED
  BY <1>1, LimiterAssumption, FS_Subset, FS_CardinalityType

(* What a grant does: the session joins the provider's, and the counter of *)
(* that provider goes up by one.                                           *)
LEMMA GrantCounts ==
  ASSUME LimiterInv, NEW s \in Sessions, NEW q \in Providers, Acquire(s, q)
  PROVE  LimiterInv'
<1> USE DEF LimiterInv, LimiterTypeOK
<1>1. /\ inflight' = [inflight EXCEPT ![q] = @ + 1]
      /\ grant' = [grant EXCEPT ![s] = [p |-> q, released |-> FALSE]]
      /\ maxConcurrency' = maxConcurrency
      /\ grant[s].released
  BY DEF Acquire, TryAcquire
<1>2. LimiterTypeOK'
  BY <1>1 DEF Grant
<1>3. ASSUME NEW p \in Providers
      PROVE  inflight'[p] = Cardinality(Live(p)')
  <2>1. CASE p = q
    <3>1. Live(p)' = Live(p) \cup {s}
      BY <1>1, <2>1 DEF Live
    <3>2. s \notin Live(p)
      BY <1>1 DEF Live
    <3>3. Cardinality(Live(p) \cup {s}) = Cardinality(Live(p)) + 1
      BY <3>2, LiveFinite, FS_AddElement
    <3>4. QED
      BY <1>1, <2>1, <3>1, <3>3 DEF CountsSessions
  <2>2. CASE p # q
    <3>1. Live(p)' = Live(p)
      BY <1>1, <2>2 DEF Live
    <3>2. QED
      BY <1>1, <2>2, <3>1 DEF CountsSessions
  <2>3. QED
    BY <2>1, <2>2
<1>4. QED
  BY <1>2, <1>3 DEF CountsSessions

(* What a release does: the first one takes the session out and the        *)
(* counter down by one, which the counter then is high enough for; later   *)
(* ones do nothing.                                                        *)
LEMMA ReleaseCounts ==
  ASSUME LimiterInv, NEW s \in Sessions, ReleaseAny(s)
  PROVE  LimiterInv'
<1> USE DEF LimiterInv, LimiterTypeOK
<1>1. CASE grant[s].released
  BY <1>1 DEF ReleaseAny, Release, CountsSessions, Live
<1>2. CASE ~grant[s].released
  <2> DEFINE q == grant[s].p
  <2>1. /\ inflight' = [inflight EXCEPT ![q] = Decremented(@)]
        /\ grant' = [grant EXCEPT ![s].released = TRUE]
        /\ maxConcurrency' = maxConcurrency
    BY <1>2 DEF ReleaseAny, Release
  <2>2. grant[s] \in Grant
    BY <1>2 DEF NoGrant
  <2>3. q \in Providers
    BY <2>2 DEF Grant
  <2>4. LimiterTypeOK'
    <3>1. inflight' \in [Providers -> Nat]
      BY <2>1, <2>3 DEF Decremented
    <3>2. [grant[s] EXCEPT !.released = TRUE] \in Grant
      BY <2>2 DEF Grant
    <3>3. grant' \in [Sessions -> Grant \cup {NoGrant}]
      BY <2>1, <3>2
    <3>4. QED
      BY <2>1, <3>1, <3>3
  <2>5. /\ grant'[s].released
        /\ \A t \in Sessions \ {s} : grant'[t] = grant[t]
    BY <2>1, <2>2 DEF Grant
  <2>6. ASSUME NEW p \in Providers
        PROVE  inflight'[p] = Cardinality(Live(p)')
    <3>1. CASE p = q
      <4>1. Live(p)' = Live(p) \ {s}
        BY <2>5 DEF Live
      <4>2. s \in Live(p)
        BY <1>2, <3>1 DEF Live
      <4>3. Cardinality(Live(p) \ {s}) = Cardinality(Live(p)) - 1
        BY <4>2, LiveFinite, FS_RemoveElement
      <4>4. Cardinality(Live(p)) \in Nat /\ Cardinality(Live(p) \ {s}) \in Nat
        <5>1. IsFiniteSet(Live(p) \ {s})
          BY LiveFinite, FS_RemoveElement
        <5>2. QED
          BY <5>1, LiveFinite, FS_CardinalityType
      <4>5. inflight'[p] = Decremented(Cardinality(Live(p)))
        BY <2>1, <2>3, <3>1 DEF CountsSessions
      <4>6. QED
        BY <4>1, <4>3, <4>4, <4>5 DEF Decremented
    <3>2. CASE p # q
      <4>1. Live(p)' = Live(p)
        BY <2>1, <2>2, <2>5, <3>2, <1>2 DEF Live, Grant
      <4>2. QED
        BY <2>1, <2>3, <3>2, <4>1 DEF CountsSessions
    <3>3. QED
      BY <3>1, <3>2
  <2>7. QED
    BY <2>4, <2>6 DEF CountsSessions
<1>3. QED
  BY <1>1, <1>2

(* A change of a limit touches neither counters nor grants.                *)
LEMMA SetLimitCounts ==
  ASSUME LimiterInv, NEW p \in Providers, SetLimit(p)
  PROVE  LimiterInv'
BY DEF LimiterInv, LimiterTypeOK, CountsSessions, SetLimit, Live

LEMMA LimiterInvStep ==
  ASSUME LimiterInv, [LimiterNext]_limiterVars
  PROVE  LimiterInv'
<1>1. ASSUME NEW s \in Sessions, ReleaseAny(s)
      PROVE  LimiterInv'
  BY <1>1, ReleaseCounts
<1>2. ASSUME NEW s \in Sessions, NEW p \in Providers, Acquire(s, p)
      PROVE  LimiterInv'
  BY <1>2, GrantCounts
<1>3. ASSUME NEW p \in Providers, SetLimit(p)
      PROVE  LimiterInv'
  BY <1>3, SetLimitCounts
<1>4. CASE UNCHANGED limiterVars
  BY <1>4 DEF LimiterInv, LimiterTypeOK, CountsSessions, Live, limiterVars
<1>5. QED
  BY <1>1, <1>2, <1>3, <1>4 DEF LimiterNext

LEMMA LimiterInvInit == LimiterInit => LimiterInv
<1> SUFFICES ASSUME LimiterInit
             PROVE  LimiterInv
  OBVIOUS
<1>1. LimiterTypeOK
  BY DEF LimiterInit, LimiterTypeOK
<1>2. ASSUME NEW p \in Providers
      PROVE  inflight[p] = Cardinality(Live(p))
  <2>1. Live(p) = {}
    BY DEF LimiterInit, Live, NoGrant
  <2>2. QED
    BY <2>1, FS_EmptySet DEF LimiterInit
<1>3. QED
  BY <1>1, <1>2 DEF LimiterInv, CountsSessions

(* The counter of every provider is always the number of sessions that     *)
(* hold a slot of it (TryAcquire and its release function).                *)
THEOREM LimiterCountsSessions == LimiterSpec => [](LimiterTypeOK /\ CountsSessions)
<1>1. LimiterSpec => []LimiterInv
  BY LimiterInvInit, LimiterInvStep, PTL DEF LimiterSpec
<1>2. QED
  BY <1>1, PTL DEF LimiterInv

(* No provider gains a session at its limit (IsAtLimit, TryAcquire).       *)
THEOREM LimiterLimitHolds == LimiterSpec => LimitHolds
<1>1. ASSUME LimiterInv, [LimiterNext]_limiterVars
      PROVE  [\A p \in Providers :
                maxConcurrency[p] > 0 /\ Cardinality(Live(p)) >= maxConcurrency[p]
                  => Live(p)' \subseteq Live(p)]_limiterVars
  <2> SUFFICES ASSUME NEW p \in Providers, LimiterNext,
                      maxConcurrency[p] > 0,
                      Cardinality(Live(p)) >= maxConcurrency[p]
               PROVE  Live(p)' \subseteq Live(p)
    BY <1>1
  <2> USE <1>1 DEF LimiterInv, LimiterTypeOK
  <2>1. ASSUME NEW s \in Sessions, ReleaseAny(s)
        PROVE  Live(p)' \subseteq Live(p)
    <3>1. CASE grant[s].released
      BY <2>1, <3>1 DEF ReleaseAny, Release, Live
    <3>2. CASE ~grant[s].released
      <4>1. grant[s] \in Grant
        BY <3>2 DEF NoGrant
      <4>2. /\ grant'[s].released
            /\ \A t \in Sessions \ {s} : grant'[t] = grant[t]
        BY <2>1, <3>2, <4>1 DEF ReleaseAny, Release, Grant
      <4>3. QED
        BY <4>2 DEF Live
    <3>3. QED
      BY <3>1, <3>2
  <2>2. ASSUME NEW s \in Sessions, NEW q \in Providers, Acquire(s, q)
        PROVE  Live(p)' \subseteq Live(p)
    <3>1. q # p
      BY <2>2 DEF Acquire, TryAcquire, IsAtLimit, CountsSessions
    <3>2. QED
      BY <2>2, <3>1 DEF Acquire, TryAcquire, Live
  <2>3. ASSUME NEW q \in Providers, SetLimit(q)
        PROVE  Live(p)' \subseteq Live(p)
    BY <2>3 DEF SetLimit, Live
  <2>4. QED
    BY <2>1, <2>2, <2>3 DEF LimiterNext
<1>2. LimiterSpec => []LimiterInv
  BY LimiterInvInit, LimiterInvStep, PTL DEF LimiterSpec
<1>3. QED
  BY <1>1, <1>2, PTL DEF LimiterSpec, LimitHolds
=============================================================================
