--------------------------- MODULE DispatchProofs ---------------------------
(* Proofs about Dispatch, for any finite set of requests, any providers,   *)
(* routes, mappings and limits, and whatever the providers answer.  What   *)
(* is known of the limiter's counters is taken from its own proofs.        *)
EXTENDS Dispatch, FiniteSetTheorems, SequenceTheorems,
        NaturalsInduction, WellFoundedInduction, TLAPS

Slots == INSTANCE ProviderLimiterProofs WITH Sessions <- Requests

-----------------------------------------------------------------------------
(* The invariant.  A request that tries a provider is at one of its routes *)
(* and at one of the models the provider maps its model to.                *)
Positioned(r) ==
  /\ request[r].phase = "route" =>
       request[r].at \in request[r].matched \cup {Len(Routes) + 1}
  /\ request[r].phase \in {"attempt", "execute", "settle", "wait"} =>
       /\ request[r].at \in request[r].matched
       /\ request[r].candidate \in DOMAIN MappedModels(r)

(* It holds a slot while its attempt is with the provider.                 *)
Holding(r) ==
  /\ ~grant[r].released <=> request[r].phase = "execute"
  /\ request[r].phase = "execute" =>
       grant[r].p = Provider(r) /\ LastAttempt(r).p = Provider(r)

(* Its first n attempts have failed.                                       *)
Failed(r, n) ==
  \A i \in 1 .. n : attempts[r][i].status \in {"FAILED", "CANCELLED"}

(* The rows of a request follow its progress: all attempts but the last    *)
(* have failed, and the last one is open exactly until it is settled.      *)
Recorded(r) ==
  LET phase == request[r].phase
      n == Len(attempts[r])
  IN  /\ phase = "new" => status[r] = "none" /\ attempts[r] = <<>>
      /\ phase \in {"route", "attempt", "wait"} =>
           status[r] = "IN_PROGRESS" /\ Failed(r, n)
      /\ phase \in {"execute", "settle"} =>
           /\ status[r] = "IN_PROGRESS" /\ Failed(r, n - 1)
           /\ n > 0 /\ attempts[r][n].status = "IN_PROGRESS"
      /\ phase \in {"egress", "done"} =>
           /\ status[r] \in Terminal \/ (phase = "egress" /\ status[r] = "IN_PROGRESS")
           /\ Failed(r, n - 1)
           /\ n = 0 => status[r] # "COMPLETED"
           /\ n > 0 => /\ attempts[r][n].status # "IN_PROGRESS"
                       /\ attempts[r][n].status = "COMPLETED"
                            <=> status[r] = "COMPLETED"

(* A request that goes on after part of a response was seen has had its    *)
(* upstream's stream break off.                                            *)
Uncommitted(r) ==
  /\ request[r].phase = "new" => request[r].outcome = Pending
  /\ request[r].phase \in {"settle", "wait"} => request[r].outcome # Pending
  /\ request[r].phase = "wait" => request[r].outcome # Answer
  /\ request[r].phase \in {"route", "attempt", "wait"} /\ Committed(r)
       => StreamRead(request[r].outcome)

RequestInv(r) == Positioned(r) /\ Holding(r) /\ Recorded(r) /\ Uncommitted(r)

DispatchInv ==
  /\ DispatchTypeOK
  /\ CountsSessions
  /\ \A r \in Requests : RequestInv(r)

(* Requests that may still spend beyond the quota.                         *)
Spending(r) ==
  request[r].phase \in {"execute", "settle"} /\ Provider(r) \in QuotaProviders

Settled == {r \in Requests : ~Spending(r)}

(* Once the quota is overspent it is gone, and each request has done so at *)
(* most once, with the attempt it had under way.                           *)
QuotaInv ==
  overspent > 0 =>
    /\ balance = 0
    /\ \A c \in Costs : (\A d \in Costs : d <= c) =>
         overspent <= c * Cardinality(Settled)

-----------------------------------------------------------------------------
(* The routes of a request are tried one after the other.                  *)
LEMMA RouteAfterType ==
  ASSUME NEW matched \in SUBSET DOMAIN Routes, NEW n \in Nat
  PROVE  RouteAfter(matched, n) \in (matched \cup {Len(Routes) + 1}) \cap Nat
<1> DEFINE later == {k \in matched : k > n}
<1>1. Len(Routes) \in Nat /\ DOMAIN Routes = 1 .. Len(Routes)
  BY DispatchAssumption
<1>2. CASE later = {}
  BY <1>1, <1>2 DEF RouteAfter
<1>3. CASE later # {}
  <2>1. later \subseteq Nat
    BY <1>1
  <2> DEFINE less == OpToRel(<, Nat)
  <2> HIDE DEF less
  <2>2. PICK k \in later : \A j \in later : ~(<<j, k>> \in less)
    <3>1. IsWellFoundedOn(less, Nat)
      BY NatLessThanWellFounded DEF less
    <3>2. QED
      BY <1>3, <2>1, <3>1, WFMin
  <2>3. \A j \in later : k <= j
    <3>1. ASSUME NEW j \in later, j < k
          PROVE  FALSE
      <4>1. <<j, k>> \in Nat \X Nat
        BY <2>1
      <4>2. <<j, k>>[1] < <<j, k>>[2]
        BY <3>1
      <4>3. <<j, k>> \in less
        BY <4>1, <4>2 DEF less, OpToRel
      <4>4. QED
        BY <2>2, <4>3
    <3>2. QED
      BY <2>1, <3>1
  <2>4. Min(later) \in later
    BY <2>3 DEF Min
  <2>5. QED
    BY <1>3, <2>1, <2>4 DEF RouteAfter
<1>4. QED
  BY <1>2, <1>3

(* The limiter's invariant, as it is named there.                          *)
LEMMA SlotAssumption == Slots!LimiterAssumption
BY DispatchAssumption
   DEF Slots!LimiterAssumption, IsFiniteSet, Slots!IsFiniteSet

LEMMA SameInv == Slots!LimiterInv <=> LimiterTypeOK /\ CountsSessions
<1>1. ASSUME NEW S
      PROVE  Slots!Cardinality(S) = Cardinality(S)
  BY DEF Cardinality, Slots!Cardinality, IsFiniteSet, Slots!IsFiniteSet
<1>2. ASSUME NEW p
      PROVE  Slots!Cardinality(Slots!Live(p)) = Cardinality(Live(p))
  BY <1>1 DEF Live, Slots!Live
<1>3. Slots!LimiterTypeOK <=> LimiterTypeOK
  BY DEF Slots!LimiterTypeOK, LimiterTypeOK, Slots!Grant, Grant, Slots!NoGrant, NoGrant
<1>4. Slots!CountsSessions <=> CountsSessions
  BY <1>2 DEF Slots!CountsSessions, CountsSessions
<1>5. QED
  BY <1>3, <1>4 DEF Slots!LimiterInv

LEMMA SameInvNext == Slots!LimiterInv' <=> (LimiterTypeOK /\ CountsSessions)'
BY SameInv, PTL

(* So the slots of requests are counted, as those of any sessions are.     *)
LEMMA AcquireCounts ==
  ASSUME LimiterTypeOK, CountsSessions, NEW r \in Requests, NEW p \in Providers,
         grant[r].released, TryAcquire(r, p, maxConcurrency[p]),
         UNCHANGED maxConcurrency
  PROVE  LimiterTypeOK' /\ CountsSessions'
<1>1. Slots!Acquire(r, p)
  BY DEF Slots!Acquire, Slots!TryAcquire, TryAcquire, Slots!IsAtLimit, IsAtLimit
<1>2. QED
  BY <1>1, SlotAssumption, SameInv, SameInvNext, Slots!GrantCounts

LEMMA ReleaseCounts ==
  ASSUME LimiterTypeOK, CountsSessions, NEW r \in Requests, Release(r),
         UNCHANGED maxConcurrency
  PROVE  LimiterTypeOK' /\ CountsSessions'
<1>1. Slots!ReleaseAny(r)
  BY DEF Slots!ReleaseAny, Slots!Release, Release, Slots!Decremented, Decremented
<1>2. QED
  BY <1>1, SlotAssumption, SameInv, SameInvNext, Slots!ReleaseCounts

LEMMA SlotsKept ==
  ASSUME LimiterTypeOK, CountsSessions, UNCHANGED slotVars
  PROVE  LimiterTypeOK' /\ CountsSessions'
BY DEF LimiterTypeOK, CountsSessions, slotVars, Live

-----------------------------------------------------------------------------
(* The other requests are left as they are.                                *)
LEMMA OthersKept ==
  ASSUME NEW r, NEW q \in Requests \ {r}, RequestInv(q),
         request'[q] = request[q], status'[q] = status[q],
         attempts'[q] = attempts[q], grant'[q] = grant[q]
  PROVE  RequestInv(q)'
<1>1. Positioned(q)' /\ Holding(q)'
  BY DEF RequestInv, Positioned, Holding, MappedModels, Provider, LastAttempt
<1>2. Recorded(q)' /\ Uncommitted(q)'
  BY DEF RequestInv, Recorded, Failed, Uncommitted, Committed
<1>3. QED
  BY <1>1, <1>2 DEF RequestInv

(* A step of one request: what must be shown of it.                        *)
LEMMA OneRequest ==
  ASSUME DispatchInv, NEW r \in Requests, NEW p \in Progress,
         request' = [request EXCEPT ![r] = p],
         status' \in [Requests -> Terminal \cup {"none", "IN_PROGRESS"}],
         attempts' \in [Requests -> Seq(Attempt)],
         \A q \in Requests \ {r} : /\ status'[q] = status[q]
                                   /\ attempts'[q] = attempts[q]
                                   /\ grant'[q] = grant[q],
         LimiterTypeOK', CountsSessions', cooling' \subseteq CooldownKey,
         balance' \in Nat, overspent' \in Nat, cancelled' \subseteq Requests,
         RequestInv(r)'
  PROVE  DispatchInv'
<1>1. DispatchTypeOK' /\ request'[r] = p
  BY DEF DispatchInv, DispatchTypeOK
<1>2. ASSUME NEW q \in Requests \ {r}
      PROVE  RequestInv(q)'
  BY <1>2, OthersKept DEF DispatchInv, DispatchTypeOK
<1>3. QED
  BY <1>1, <1>2 DEF DispatchInv

(* A step that only moves the request on, and may write its row.           *)
LEMMA OnlyMoves ==
  ASSUME DispatchInv, NEW r \in Requests, NEW p \in Progress,
         request' = [request EXCEPT ![r] = p],
         NEW s \in Terminal \cup {"none", "IN_PROGRESS"},
         status' = [status EXCEPT ![r] = s],
         UNCHANGED <<slotVars, attempts, cancelled>>,
         cooling' \subseteq CooldownKey, balance' \in Nat, overspent' \in Nat,
         RequestInv(r)'
  PROVE  DispatchInv'
<1>1. LimiterTypeOK' /\ CountsSessions'
  BY SlotsKept DEF DispatchInv, DispatchTypeOK
<1>2. /\ status' \in [Requests -> Terminal \cup {"none", "IN_PROGRESS"}]
      /\ \A q \in Requests \ {r} : status'[q] = status[q]
  BY DEF DispatchInv, DispatchTypeOK
<1>3. QED
  BY <1>1, <1>2, OneRequest DEF DispatchInv, DispatchTypeOK, slotVars

LEMMA InvRouteMatch ==
  ASSUME DispatchInv, NEW r \in Requests, RouteMatch(r)
  PROVE  DispatchInv'
<1>1. /\ request[r] \in Progress /\ request[r].phase = "new"
      /\ RequestInv(r)
      /\ UNCHANGED <<slotVars, sharedVars, attempts, cancelled>>
  BY DEF DispatchInv, DispatchTypeOK, RouteMatch, At
<1>2. CASE Available(r) = {}
  <2> DEFINE p == [request[r] EXCEPT !.phase = "egress"]
  <2>1. p \in Progress
    BY <1>1 DEF Progress, Phases
  <2>2. request' = [request EXCEPT ![r] = p] /\ status' = [status EXCEPT ![r] = "REJECTED"]
    BY <1>2 DEF RouteMatch, Close, Goto, DispatchInv, DispatchTypeOK
  <2>3. request'[r] = p /\ status'[r] = "REJECTED" /\ p.phase = "egress"
    BY <2>2, <1>1 DEF DispatchInv, DispatchTypeOK, Progress
  <2>4. RequestInv(r)'
    BY <1>1, <2>3 DEF RequestInv, Positioned, Holding, Recorded, Failed,
                      Uncommitted, Terminal, slotVars
  <2>5. QED
    BY <1>1, <2>1, <2>2, <2>4, OnlyMoves
       DEF sharedVars, DispatchInv, DispatchTypeOK, Terminal
<1>3. CASE Available(r) # {}
  <2> DEFINE p == [request[r] EXCEPT !.phase = "route", !.matched = Available(r),
                                     !.at = RouteAfter(Available(r), 0)]
  <2>1. /\ Available(r) \in SUBSET DOMAIN Routes
        /\ p.at \in (Available(r) \cup {Len(Routes) + 1}) \cap Nat
    BY <1>1, RouteAfterType DEF Available, Progress
  <2>2. p \in Progress
    BY <1>1, <2>1 DEF Progress, Phases
  <2>3. request' = [request EXCEPT ![r] = p] /\ status' = [status EXCEPT ![r] = "IN_PROGRESS"]
    BY <1>3 DEF RouteMatch, DispatchInv, DispatchTypeOK
  <2>4. /\ request'[r] = p /\ status'[r] = "IN_PROGRESS"
        /\ p.phase = "route" /\ p.matched = Available(r)
        /\ p.outcome = request[r].outcome
    BY <2>3, <1>1 DEF DispatchInv, DispatchTypeOK, Progress
  <2>5. RequestInv(r)'
    BY <1>1, <2>1, <2>4 DEF RequestInv, Positioned, Holding, Recorded, Failed,
                            Uncommitted, Committed, Error, Pending, slotVars
  <2>6. QED
    BY <1>1, <2>2, <2>3, <2>5, OnlyMoves
       DEF sharedVars, DispatchInv, DispatchTypeOK, Terminal
<1>4. QED
  BY <1>2, <1>3

(* A provider that is tried is one, and maps the model to some.            *)
LEMMA Mapped ==
  ASSUME DispatchInv, NEW r \in Requests, request[r].at \in request[r].matched
  PROVE  /\ Provider(r) \in Providers
         /\ MappedModels(r) \in Seq(Models) /\ 1 \in DOMAIN MappedModels(r)
         /\ DOMAIN MappedModels(r) = 1 .. Len(MappedModels(r))
         /\ Len(MappedModels(r)) \in Nat \ {0}
<1>1. Provider(r) \in Providers /\ request[r].m \in AskedModels
  BY DispatchAssumption DEF DispatchInv, DispatchTypeOK, Progress, Provider
<1>2. MappedModels(r) \in Seq(Models) \ {<<>>}
  BY <1>1, DispatchAssumption DEF MappedModels
<1>3. QED
  BY <1>1, <1>2

(* A request between two attempts is given up, or is not worth another.    *)
LEMMA ToEgress ==
  ASSUME DispatchInv, NEW r \in Requests,
         request[r].phase \in {"route", "attempt", "wait"},
         request' = [request EXCEPT ![r].phase = "egress"],
         NEW s \in {"FAILED", "CANCELLED", "REJECTED", "IN_PROGRESS"},
         status' = [status EXCEPT ![r] = s],
         UNCHANGED <<slotVars, sharedVars, attempts, cancelled>>
  PROVE  DispatchInv'
<1> DEFINE p == [request[r] EXCEPT !.phase = "egress"]
<1>1. request[r] \in Progress /\ RequestInv(r)
  BY DEF DispatchInv, DispatchTypeOK
<1>2. p \in Progress /\ request' = [request EXCEPT ![r] = p]
  BY <1>1 DEF Progress, Phases, DispatchInv, DispatchTypeOK
<1>3. request'[r] = p /\ status'[r] = s /\ p.phase = "egress"
  BY <1>1, <1>2 DEF DispatchInv, DispatchTypeOK, Progress
<1>4. attempts[r] \in Seq(Attempt) /\ Len(attempts[r]) \in Nat
  BY DEF DispatchInv, DispatchTypeOK
<1>5. Recorded(r)'
  <2>1. /\ attempts'[r] = attempts[r] /\ Failed(r, Len(attempts[r]))
        /\ status[r] = "IN_PROGRESS"
    BY <1>1 DEF RequestInv, Recorded
  <2>2. Failed(r, Len(attempts[r]) - 1)'
    BY <1>4, <2>1 DEF Failed
  <2>3. Len(attempts[r]) > 0 =>
          attempts[r][Len(attempts[r])].status \in {"FAILED", "CANCELLED"}
    BY <1>4, <2>1 DEF Failed
  <2>4. QED
    BY <1>3, <1>4, <2>1, <2>2, <2>3 DEF Recorded, Terminal
<1>6. RequestInv(r)'
  BY <1>1, <1>3, <1>5 DEF RequestInv, Positioned, Holding, Uncommitted, slotVars
<1>7. QED
  BY <1>2, <1>6, OnlyMoves DEF sharedVars, DispatchInv, DispatchTypeOK, Terminal

(* A request goes on to an attempt, at the same provider.                  *)
LEMMA ToAttempt ==
  ASSUME DispatchInv, NEW r \in Requests,
         request[r].phase \in {"route", "wait"},
         request[r].at \in request[r].matched,
         NEW tries \in Nat, NEW n \in DOMAIN MappedModels(r),
         request' = [request EXCEPT ![r] = [@ EXCEPT !.phase = "attempt",
                                              !.tries = tries, !.candidate = n]],
         UNCHANGED <<slotVars, sharedVars, status, attempts, cancelled>>
  PROVE  DispatchInv'
<1> DEFINE p == [request[r] EXCEPT !.phase = "attempt", !.tries = tries, !.candidate = n]
<1>1. request[r] \in Progress /\ RequestInv(r)
      /\ status[r] \in Terminal \cup {"none", "IN_PROGRESS"}
  BY DEF DispatchInv, DispatchTypeOK
<1>2. n \in Nat
  BY Mapped
<1>3. p \in Progress /\ request' = [request EXCEPT ![r] = p]
  BY <1>1, <1>2 DEF Progress, Phases, DispatchInv, DispatchTypeOK
<1>4. /\ request'[r] = p /\ p.phase = "attempt" /\ p.candidate = n
      /\ p.at = request[r].at /\ p.matched = request[r].matched
      /\ p.m = request[r].m /\ p.outcome = request[r].outcome
  BY <1>1, <1>3 DEF DispatchInv, DispatchTypeOK, Progress
<1>5. status' = [status EXCEPT ![r] = status[r]]
  BY DEF DispatchInv, DispatchTypeOK
<1>6. Positioned(r)'
  BY <1>4 DEF Positioned, MappedModels, Provider
<1>7. Recorded(r)'
  BY <1>1, <1>4 DEF RequestInv, Recorded, Failed
<1>8. RequestInv(r)'
  BY <1>1, <1>4, <1>6, <1>7
     DEF RequestInv, Holding, Uncommitted, Committed, slotVars
<1>9. QED
  BY <1>1, <1>3, <1>5, <1>8, OnlyMoves DEF sharedVars, DispatchInv, DispatchTypeOK

LEMMA InvStartRoute ==
  ASSUME DispatchInv, NEW r \in Requests, StartRoute(r)
  PROVE  DispatchInv'
<1>1. /\ request[r] \in Progress /\ request[r].phase = "route"
      /\ UNCHANGED <<slotVars, sharedVars, attempts, cancelled>>
      /\ status[r] = "IN_PROGRESS" /\ Positioned(r)
  BY DEF DispatchInv, DispatchTypeOK, StartRoute, At, RequestInv, Recorded
<1>2. CASE request[r].at > Len(Routes)
  BY <1>1, <1>2, ToEgress DEF StartRoute, Close, Goto
<1>3. CASE ~(request[r].at > Len(Routes)) /\ r \in cancelled
  <2>1. status' = [status EXCEPT ![r] = "IN_PROGRESS"]
    BY <1>1, <1>3 DEF StartRoute, DispatchInv, DispatchTypeOK
  <2>2. QED
    BY <1>1, <1>3, <2>1, ToEgress DEF StartRoute, Goto
<1>4. CASE ~(request[r].at > Len(Routes)) /\ r \notin cancelled
  <2>1. request[r].at \in request[r].matched
    BY <1>1, <1>4, DispatchAssumption DEF Positioned
  <2>2. PICK n \in StartCandidates(r) :
          request' = [request EXCEPT ![r] = [@ EXCEPT !.phase = "attempt",
                                               !.tries = 0, !.candidate = n]]
    BY <1>4 DEF StartRoute
  <2>3. n \in DOMAIN MappedModels(r)
    BY <2>1, Mapped DEF StartCandidates
  <2>4. QED
    BY <1>1, <1>4, <2>1, <2>2, <2>3, ToAttempt DEF StartRoute
<1>5. QED
  BY <1>2, <1>3, <1>4

LEMMA InvStopBeforeAttempt ==
  ASSUME DispatchInv, NEW r \in Requests, StopBeforeAttempt(r)
  PROVE  DispatchInv'
<1>1. /\ request[r].phase = "attempt" /\ status[r] = "IN_PROGRESS"
      /\ UNCHANGED <<slotVars, sharedVars, attempts, cancelled>>
  BY DEF DispatchInv, StopBeforeAttempt, At, RequestInv, Recorded
<1>2. CASE r \in cancelled
  <2>1. status' = [status EXCEPT ![r] = "IN_PROGRESS"]
    BY <1>1, <1>2 DEF StopBeforeAttempt, DispatchInv, DispatchTypeOK
  <2>2. QED
    BY <1>1, <1>2, <2>1, ToEgress DEF StopBeforeAttempt, Goto
<1>3. CASE r \notin cancelled
  BY <1>1, <1>3, ToEgress DEF StopBeforeAttempt, Close, Goto
<1>4. QED
  BY <1>2, <1>3

LEMMA InvRetryWait ==
  ASSUME DispatchInv, NEW r \in Requests, RetryWait(r)
  PROVE  DispatchInv'
<1>1. /\ request[r] \in Progress /\ request[r].phase = "wait"
      /\ request[r].at \in request[r].matched
      /\ request[r].candidate \in DOMAIN MappedModels(r)
      /\ UNCHANGED <<slotVars, sharedVars, attempts, cancelled>>
  BY DEF DispatchInv, DispatchTypeOK, RetryWait, At, RequestInv, Positioned
<1>2. CASE request' = [request EXCEPT ![r] =
                         [@ EXCEPT !.phase = "attempt", !.tries = request[r].tries + 1]]
           /\ UNCHANGED status
  <2>1. request[r].tries + 1 \in Nat
    BY <1>1 DEF Progress
  <2> DEFINE p == [request[r] EXCEPT !.phase = "attempt",
                                     !.tries = request[r].tries + 1]
             q == [request[r] EXCEPT !.phase = "attempt",
                                     !.tries = request[r].tries + 1,
                                     !.candidate = request[r].candidate]
  <2>2. p = q
    BY <1>1 DEF Progress
  <2>3. request' = [request EXCEPT ![r] = q]
    <3>1. request' = [request EXCEPT ![r] = p]
      BY <1>2
    <3> HIDE DEF p, q
    <3>2. QED
      BY <2>2, <3>1
  <2>4. QED
    BY <1>1, <1>2, <2>1, <2>3, ToAttempt
<1>3. CASE Close(r, FailureStatus(r, request[r].outcome.disconnect))
  BY <1>1, <1>3, ToEgress DEF Close, Goto, FailureStatus
<1>4. QED
  BY <1>2, <1>3 DEF RetryWait

LEMMA InvGiveUpProvider ==
  ASSUME DispatchInv, NEW r \in Requests, GiveUpProvider(r)
  PROVE  DispatchInv'
<1>1. /\ request[r] \in Progress /\ request[r].phase = "attempt"
      /\ RequestInv(r) /\ status[r] \in Terminal \cup {"none", "IN_PROGRESS"}
      /\ UNCHANGED <<slotVars, sharedVars, status, attempts, cancelled>>
  BY DEF DispatchInv, DispatchTypeOK, GiveUpProvider, At
<1> DEFINE n == RouteAfter(request[r].matched, request[r].at)
           p == [request[r] EXCEPT !.phase = "route", !.at = n]
<1>2. n \in (request[r].matched \cup {Len(Routes) + 1}) \cap Nat
  BY <1>1, RouteAfterType DEF Progress
<1>3. request' = [request EXCEPT ![r] = p] /\ status' = [status EXCEPT ![r] = status[r]]
  BY <1>1 DEF GiveUpProvider, NextRoute, DispatchInv, DispatchTypeOK
<1> HIDE DEF n
<1>4. p \in Progress
  BY <1>1, <1>2 DEF Progress, Phases
<1>5. /\ request'[r] = p /\ p.phase = "route" /\ p.at = n
      /\ p.matched = request[r].matched /\ p.outcome = request[r].outcome
  BY <1>1, <1>3 DEF DispatchInv, DispatchTypeOK, Progress
<1>6. Recorded(r)'
  BY <1>1, <1>5 DEF RequestInv, Recorded, Failed
<1>7. RequestInv(r)'
  BY <1>1, <1>2, <1>5, <1>6
     DEF RequestInv, Positioned, Holding, Uncommitted, Committed, slotVars
<1>8. QED
  BY <1>1, <1>3, <1>4, <1>7, OnlyMoves DEF sharedVars, DispatchInv, DispatchTypeOK

(* A slot, and a row for the attempt.                                      *)
LEMMA InvStartAttempt ==
  ASSUME DispatchInv, NEW r \in Requests, StartAttempt(r)
  PROVE  DispatchInv'
<1> DEFINE p == [request[r] EXCEPT !.phase = "execute"]
           a == [p |-> Provider(r), model |-> MappedModel(r), status |-> "IN_PROGRESS"]
           n == Len(attempts[r])
<1>1. /\ request[r] \in Progress /\ request[r].phase = "attempt" /\ RequestInv(r)
      /\ attempts[r] \in Seq(Attempt) /\ n \in Nat
      /\ status[r] = "IN_PROGRESS" /\ grant[r].released
      /\ request[r].at \in request[r].matched
      /\ request[r].candidate \in DOMAIN MappedModels(r)
      /\ UNCHANGED <<maxConcurrency, sharedVars, status, cancelled>>
  BY DEF DispatchInv, DispatchTypeOK, StartAttempt, At, RequestInv, Recorded,
         Positioned, Holding
<1>2. /\ TryAcquire(r, Provider(r), maxConcurrency[Provider(r)])
      /\ attempts' = [attempts EXCEPT ![r] = Append(@, a)]
      /\ request' = [request EXCEPT ![r] = p]
  BY DEF StartAttempt, Goto, DispatchInv, DispatchTypeOK
<1>3. Provider(r) \in Providers /\ MappedModel(r) \in Models
  BY <1>1, Mapped DEF MappedModel
<1>4. p \in Progress /\ a \in Attempt
  BY <1>1, <1>3 DEF Progress, Phases, Attempt
<1>5. LimiterTypeOK' /\ CountsSessions'
  BY <1>1, <1>2, <1>3, AcquireCounts DEF DispatchInv, DispatchTypeOK
<1>6. /\ request'[r] = p /\ p.phase = "execute" /\ p.at = request[r].at
      /\ p.matched = request[r].matched /\ p.m = request[r].m
      /\ p.candidate = request[r].candidate
  BY <1>1, <1>2 DEF DispatchInv, DispatchTypeOK, Progress
<1>7. /\ attempts'[r] = Append(attempts[r], a) /\ attempts'[r] \in Seq(Attempt)
      /\ Len(attempts'[r]) = n + 1 /\ attempts'[r][n + 1] = a
      /\ \A i \in 1 .. n : attempts'[r][i] = attempts[r][i]
  BY <1>1, <1>2, <1>4 DEF DispatchInv, DispatchTypeOK
<1>8. grant'[r] = [p |-> Provider(r), released |-> FALSE]
      /\ \A q \in Requests \ {r} : grant'[q] = grant[q]
  BY <1>2 DEF TryAcquire, DispatchInv, DispatchTypeOK, LimiterTypeOK
<1>9. Provider(r)' = Provider(r) /\ MappedModels(r)' = MappedModels(r)
  BY <1>6 DEF Provider, MappedModels
<1> HIDE DEF p
<1>10. Holding(r)' /\ Positioned(r)' /\ Uncommitted(r)'
  BY <1>1, <1>6, <1>7, <1>8, <1>9 DEF Holding, Positioned, Uncommitted, LastAttempt
<1>11. Recorded(r)'
  <2>1. Failed(r, n)
    BY <1>1 DEF RequestInv, Recorded
  <2>2. \A i \in 1 .. n : attempts'[r][i].status \in {"FAILED", "CANCELLED"}
    BY <1>7, <2>1 DEF Failed
  <2>3. attempts'[r][n + 1].status = "IN_PROGRESS" /\ status'[r] = "IN_PROGRESS"
    BY <1>1, <1>7
  <2> HIDE DEF a
  <2>4. QED
    BY <1>1, <1>6, <1>7, <2>2, <2>3 DEF Recorded, Failed
<1>12. /\ attempts' \in [Requests -> Seq(Attempt)]
       /\ \A q \in Requests \ {r} : attempts'[q] = attempts[q]
  BY <1>2, <1>7 DEF DispatchInv, DispatchTypeOK
<1>13. QED
  BY <1>1, <1>2, <1>4, <1>5, <1>8, <1>10, <1>11, <1>12, OneRequest
     DEF sharedVars, DispatchInv, DispatchTypeOK, RequestInv

LEMMA AdjustedType ==
  ASSUME NEW p, NEW e \in Error
  PROVE  Adjusted(p, e) \in Error /\ Adjusted(p, e) \notin {Answer, Pending}
<1>1. Normalized(e) \in Error
  BY ZenonT(60) DEF Normalized, Error, Scopes
<1>2. Adjusted(p, e) \in Error
  BY <1>1 DEF Adjusted, Error
<1>3. QED
  BY <1>2 DEF Error, Answer, Pending

(* What the retry policies leave alone.                                    *)
LEMMA AdjustedNames ==
  ASSUME NEW p, NEW e \in Error
  PROVE  Adjusted(p, e).ct = e.ct /\ Adjusted(p, e).model = e.model
<1>1. Normalized(e) \in Error
  BY ZenonT(60) DEF Normalized, Error, Scopes
<1>2. Normalized(e).ct = e.ct /\ Normalized(e).model = e.model
  BY DEF Normalized, Error
<1>3. QED
  BY <1>1, <1>2 DEF Adjusted, Error

(* What a request in the hands of a provider is sent with.                 *)
LEMMA Called ==
  ASSUME DispatchInv, NEW r \in Requests, request[r].at \in request[r].matched,
         request[r].candidate \in DOMAIN MappedModels(r)
  PROVE  /\ Provider(r) \in Providers /\ MappedModel(r) \in Models
         /\ SpokenType(Provider(r), request[r].ct) \in ClientTypes
         /\ Errors(Provider(r), SpokenType(Provider(r), request[r].ct), MappedModel(r))
              \subseteq Error
<1>1. /\ Provider(r) \in Providers /\ MappedModel(r) \in Models
      /\ request[r].ct \in AskedTypes
  BY Mapped DEF MappedModel, DispatchInv, DispatchTypeOK, Progress
<1>2. SpokenType(Provider(r), request[r].ct) \in ClientTypes
  BY <1>1, DispatchAssumption
<1>3. QED
  BY <1>1, <1>2, ErrorsAssumption

(* The provider returns, and the slot is given back.                       *)
LEMMA Returned ==
  ASSUME DispatchInv, NEW r \in Requests, request[r].phase = "execute", Release(r),
         UNCHANGED maxConcurrency
  PROVE  /\ LimiterTypeOK' /\ CountsSessions' /\ grant'[r].released
         /\ \A q \in Requests \ {r} : grant'[q] = grant[q]
<1>1. LimiterTypeOK' /\ CountsSessions'
  BY ReleaseCounts DEF DispatchInv, DispatchTypeOK
<1>2. ~grant[r].released
  BY DEF DispatchInv, RequestInv, Holding
<1>3. grant[r] \in Grant /\ grant' = [grant EXCEPT ![r].released = TRUE]
  BY <1>2 DEF DispatchInv, DispatchTypeOK, LimiterTypeOK, NoGrant, Release
<1>4. QED
  BY <1>1, <1>3 DEF DispatchInv, DispatchTypeOK, LimiterTypeOK, Grant

LEMMA InvExecute ==
  ASSUME DispatchInv, NEW r \in Requests, Execute(r)
  PROVE  DispatchInv'
<1>1. /\ request[r] \in Progress /\ request[r].phase = "execute" /\ RequestInv(r)
      /\ UNCHANGED <<maxConcurrency, sharedVars, status, attempts, cancelled>>
  BY DEF DispatchInv, DispatchTypeOK, Execute, At
<1>2. PICK o \in Errors(Provider(r), SpokenType(Provider(r), request[r].ct), MappedModel(r))
                   \cup {Answer} :
        request' = [request EXCEPT ![r] =
          [@ EXCEPT !.phase = "settle",
                    !.outcome = IF o = Answer THEN o ELSE Adjusted(Provider(r), o)]]
  BY DEF Execute
<1> DEFINE out == IF o = Answer THEN o ELSE Adjusted(Provider(r), o)
           p == [request[r] EXCEPT !.phase = "settle", !.outcome = out]
<1>3. out \in Error \cup {Answer} /\ out # Pending
  <2>1. request[r].at \in request[r].matched /\ request[r].candidate \in DOMAIN MappedModels(r)
    BY <1>1 DEF RequestInv, Positioned
  <2>2. o \in Error \cup {Answer}
    BY <2>1, Called
  <2>3. QED
    BY <2>2, AdjustedType DEF Answer, Pending
<1>4. request' = [request EXCEPT ![r] = p]
  BY <1>2
<1> HIDE DEF out
<1>5. p \in Progress
  BY <1>1, <1>3 DEF Progress, Phases
<1>6. /\ request'[r] = p /\ p.phase = "settle" /\ p.at = request[r].at
      /\ p.matched = request[r].matched /\ p.m = request[r].m
      /\ p.candidate = request[r].candidate /\ p.outcome = out
  BY <1>1, <1>4 DEF DispatchInv, DispatchTypeOK, Progress
<1>7. /\ LimiterTypeOK' /\ CountsSessions' /\ grant'[r].released
      /\ \A q \in Requests \ {r} : grant'[q] = grant[q]
  BY <1>1, Returned DEF Execute
<1> HIDE DEF p
<1>8. Recorded(r)'
  BY <1>1, <1>6 DEF RequestInv, Recorded, Failed
<1>9. RequestInv(r)'
  BY <1>1, <1>3, <1>6, <1>7, <1>8
     DEF RequestInv, Holding, Positioned, Uncommitted, Provider, MappedModels
<1>10. QED
  BY <1>1, <1>4, <1>5, <1>7, <1>9, OneRequest
     DEF sharedVars, DispatchInv, DispatchTypeOK

LEMMA InvPanic ==
  ASSUME DispatchInv, NEW r \in Requests, Panic(r)
  PROVE  DispatchInv'
<1> DEFINE p == [request[r] EXCEPT !.phase = "panicked"]
<1>1. /\ request[r] \in Progress /\ request[r].phase = "execute" /\ RequestInv(r)
      /\ UNCHANGED <<maxConcurrency, sharedVars, status, attempts, cancelled>>
      /\ request' = [request EXCEPT ![r] = p]
  BY DEF DispatchInv, DispatchTypeOK, Panic, At, Goto
<1>2. p \in Progress /\ request'[r] = p /\ p.phase = "panicked"
  BY <1>1 DEF Progress, Phases, DispatchInv, DispatchTypeOK
<1>3. /\ LimiterTypeOK' /\ CountsSessions' /\ grant'[r].released
      /\ \A q \in Requests \ {r} : grant'[q] = grant[q]
  BY <1>1, Returned DEF Panic
<1> HIDE DEF p
<1>4. RequestInv(r)'
  BY <1>2, <1>3 DEF RequestInv, Holding, Positioned, Uncommitted, Recorded
<1>5. QED
  BY <1>1, <1>2, <1>3, <1>4, OneRequest DEF sharedVars, DispatchInv, DispatchTypeOK

-----------------------------------------------------------------------------
(* The attempt is settled: its row is closed, the earlier ones stay.       *)
LEMMA AttemptSettled ==
  ASSUME DispatchInv, NEW r \in Requests, request[r].phase = "settle",
         NEW s \in {"COMPLETED", "FAILED", "CANCELLED"}, AttemptEnds(r, s)
  PROVE  /\ attempts' \in [Requests -> Seq(Attempt)]
         /\ \A q \in Requests \ {r} : attempts'[q] = attempts[q]
         /\ Len(attempts[r]) \in Nat \ {0} /\ Len(attempts'[r]) = Len(attempts[r])
         /\ attempts'[r][Len(attempts[r])].status = s
         /\ \A i \in 1 .. (Len(attempts[r]) - 1) :
              attempts'[r][i].status \in {"FAILED", "CANCELLED"}
<1> DEFINE n == Len(attempts[r])
<1>1. attempts[r] \in Seq(Attempt) /\ n \in Nat \ {0} /\ Failed(r, n - 1)
  BY DEF DispatchInv, DispatchTypeOK, RequestInv, Recorded
<1> DEFINE a == [attempts[r][n] EXCEPT !.status = s]
<1>2. attempts' = [attempts EXCEPT ![r] = [attempts[r] EXCEPT ![n] = a]]
  BY DEF AttemptEnds
<1>3. attempts[r][n] \in Attempt /\ a \in Attempt /\ a.status = s
  <2>1. attempts[r][n] \in Attempt
    BY <1>1
  <2>2. QED
    BY <2>1 DEF Attempt
<1>4. /\ attempts'[r] = [attempts[r] EXCEPT ![n] = a]
      /\ \A q \in Requests \ {r} : attempts'[q] = attempts[q]
  BY <1>2 DEF DispatchInv, DispatchTypeOK
<1> HIDE DEF a
<1>5. /\ attempts'[r] \in Seq(Attempt) /\ Len(attempts'[r]) = n
      /\ attempts'[r][n].status = s
      /\ \A i \in 1 .. (n - 1) : attempts'[r][i] = attempts[r][i]
  <2> DEFINE seq == attempts[r]
  <2>1. seq \in Seq(Attempt) /\ n \in 1 .. Len(seq) /\ Len(seq) = n
    BY <1>1
  <2>2. attempts'[r] = [seq EXCEPT ![n] = a]
    BY <1>4
  <2> HIDE DEF seq, n
  <2>3. /\ attempts'[r] \in Seq(Attempt) /\ Len(attempts'[r]) = Len(seq)
        /\ \A j \in 1 .. Len(seq) : attempts'[r][j] = IF j = n THEN a ELSE seq[j]
    BY <1>3, <2>1, <2>2, ExceptSeq
  <2>4. n \in Nat \ {0} /\ \A j \in 1 .. (n - 1) : j \in 1 .. n /\ j # n
    BY <1>1 DEF n
  <2>5. QED
    BY <1>3, <2>1, <2>3, <2>4 DEF seq
<1>6. attempts' \in [Requests -> Seq(Attempt)]
  BY <1>2, <1>4, <1>5 DEF DispatchInv, DispatchTypeOK
<1>7. QED
  BY <1>1, <1>4, <1>5, <1>6 DEF Failed

(* What the end of an attempt leaves to be shown: the request and its      *)
(* attempt tell the same story, and a request that goes on is in place.    *)
LEMMA Settling ==
  ASSUME DispatchInv, NEW r \in Requests, request[r].phase = "settle",
         NEW s \in {"COMPLETED", "FAILED", "CANCELLED"}, AttemptEnds(r, s),
         NEW p \in Progress, request' = [request EXCEPT ![r] = p],
         NEW t \in Terminal \cup {"none", "IN_PROGRESS"},
         status' = [status EXCEPT ![r] = t],
         UNCHANGED <<slotVars, cancelled>>,
         cooling' \subseteq CooldownKey, balance' \in Nat, overspent' \in Nat,
         \/ /\ p.phase = "egress" /\ t \in Terminal
            /\ s = "COMPLETED" <=> t = "COMPLETED"
         \/ /\ p.phase \in {"route", "attempt", "wait"}
            /\ t = "IN_PROGRESS" /\ s # "COMPLETED"
            /\ p.phase = "route" => p.at \in p.matched \cup {Len(Routes) + 1}
            /\ p.phase # "route" =>
                 /\ p.at = request[r].at /\ p.matched = request[r].matched
                 /\ p.m = request[r].m /\ p.candidate \in DOMAIN MappedModels(r)
            /\ p.outcome \in Error
            /\ p.outcome.committed => StreamRead(p.outcome)
  PROVE  DispatchInv'
<1>1. /\ LimiterTypeOK' /\ CountsSessions'
      /\ status' \in [Requests -> Terminal \cup {"none", "IN_PROGRESS"}]
      /\ \A q \in Requests \ {r} : status'[q] = status[q] /\ grant'[q] = grant[q]
  BY SlotsKept DEF DispatchInv, DispatchTypeOK, slotVars
<1>2. request'[r] = p /\ status'[r] = t /\ grant'[r] = grant[r] /\ RequestInv(r)
  BY DEF DispatchInv, DispatchTypeOK, slotVars
<1> DEFINE n == Len(attempts[r])
<1>3. /\ attempts' \in [Requests -> Seq(Attempt)]
      /\ \A q \in Requests \ {r} : attempts'[q] = attempts[q]
      /\ n \in Nat \ {0} /\ Len(attempts'[r]) = n /\ attempts'[r][n].status = s
      /\ \A i \in 1 .. (n - 1) : attempts'[r][i].status \in {"FAILED", "CANCELLED"}
  BY AttemptSettled
<1> HIDE DEF n
<1>4. Recorded(r)'
  <2>1. CASE p.phase = "egress" /\ t \in Terminal /\ (s = "COMPLETED" <=> t = "COMPLETED")
    BY <1>2, <1>3, <2>1 DEF Recorded, Failed
  <2>2. CASE /\ p.phase \in {"route", "attempt", "wait"}
             /\ t = "IN_PROGRESS" /\ s # "COMPLETED"
    <3>1. \A i \in 1 .. n : attempts'[r][i].status \in {"FAILED", "CANCELLED"}
      BY <1>3, <2>2
    <3>2. QED
      BY <1>2, <1>3, <2>2, <3>1 DEF Recorded, Failed
  <2>3. QED
    BY <2>1, <2>2
<1>5. Positioned(r)'
  BY <1>2 DEF Positioned, RequestInv, Provider, MappedModels
<1>6. Holding(r)'
  BY <1>2 DEF Holding, RequestInv
<1>7. Uncommitted(r)'
  BY <1>2 DEF Uncommitted, Committed, Error, Answer, Pending
<1>8. QED
  BY <1>1, <1>3, <1>4, <1>5, <1>6, <1>7, OneRequest
     DEF RequestInv, DispatchInv, DispatchTypeOK

LEMMA DeductType ==
  ASSUME DispatchInv, NEW r \in Requests, NEW cost \in Costs, Deduct(r, cost)
  PROVE  balance' \in Nat /\ overspent' \in Nat
<1>1. cost \in Nat /\ balance \in Nat /\ overspent \in Nat
  BY DispatchAssumption DEF DispatchInv, DispatchTypeOK
<1>2. QED
  BY <1>1 DEF Deduct

LEMMA InvSucceed ==
  ASSUME DispatchInv, NEW r \in Requests, Succeed(r)
  PROVE  DispatchInv'
<1> DEFINE p == [request[r] EXCEPT !.phase = "egress"]
<1>1. /\ request[r] \in Progress /\ request[r].phase = "settle"
      /\ UNCHANGED <<slotVars, origins, cancelled>>
      /\ request' = [request EXCEPT ![r] = p]
      /\ status' = [status EXCEPT ![r] = "COMPLETED"]
      /\ AttemptEnds(r, "COMPLETED")
      /\ cooling' \subseteq CooldownKey
  BY DEF DispatchInv, DispatchTypeOK, Succeed, At, Close, Goto
<1>2. p \in Progress /\ p.phase = "egress"
  BY <1>1 DEF Progress, Phases
<1>3. balance' \in Nat /\ overspent' \in Nat
  BY DeductType DEF Succeed
<1> HIDE DEF p
<1>4. QED
  BY <1>1, <1>2, <1>3, Settling DEF Terminal

(* What all failures have in common.                                       *)
LEMMA FailingFacts ==
  ASSUME DispatchInv, NEW r \in Requests, Failing(r)
  PROVE  /\ request[r] \in Progress /\ request[r].phase = "settle"
         /\ request[r].outcome \in Error
         /\ request[r].at \in request[r].matched
         /\ request[r].candidate \in DOMAIN MappedModels(r)
         /\ \E s \in {"FAILED", "CANCELLED"} : AttemptEnds(r, s)
         /\ balance' \in Nat /\ overspent' \in Nat
         /\ UNCHANGED <<slotVars, cancelled>>
         /\ status[r] = "IN_PROGRESS"
         /\ UNCHANGED status => status' = [status EXCEPT ![r] = "IN_PROGRESS"]
<1>1. /\ request[r] \in Progress /\ request[r].phase = "settle" /\ RequestInv(r)
      /\ request[r].outcome # Answer
      /\ UNCHANGED <<slotVars, cancelled>>
  BY DEF DispatchInv, DispatchTypeOK, Failing, At
<1>2. request[r].outcome \in Error /\ request[r].outcome # Pending
  BY <1>1 DEF Progress, RequestInv, Uncommitted
<1>3. /\ request[r].at \in request[r].matched
      /\ request[r].candidate \in DOMAIN MappedModels(r)
      /\ status[r] = "IN_PROGRESS"
  BY <1>1 DEF RequestInv, Positioned, Recorded
<1>4. \E s \in {"FAILED", "CANCELLED"} : AttemptEnds(r, s)
  BY DEF Failing, FailureStatus
<1>5. balance' \in Nat /\ overspent' \in Nat
  BY DeductType DEF Failing
<1>6. UNCHANGED status => status' = [status EXCEPT ![r] = "IN_PROGRESS"]
  BY <1>3 DEF DispatchInv, DispatchTypeOK
<1>7. QED
  BY <1>1, <1>2, <1>3, <1>4, <1>5, <1>6

LEMMA HandleCooldownType ==
  ASSUME DispatchInv, NEW r \in Requests, request[r].at \in request[r].matched,
         request[r].candidate \in DOMAIN MappedModels(r), NEW e \in Error,
         HandleCooldown(r, e)
  PROVE  cooling' \subseteq CooldownKey
<1>1. e.ct \in ClientTypes \cup {All} /\ e.model \in Models \cup {All}
  BY DEF Error
<1>2. RecordedKey(Provider(r), request[r].ct, MappedModel(r), e) \in CooldownKey
  BY <1>1, Called DEF RecordedKey, Named, EffectiveKey, CooldownKey
<1>3. QED
  BY <1>2 DEF HandleCooldown, DispatchInv, DispatchTypeOK

LEMMA InvFailRequest ==
  ASSUME DispatchInv, NEW r \in Requests, FailRequest(r)
  PROVE  DispatchInv'
<1> DEFINE e == request[r].outcome
           p == [request[r] EXCEPT !.phase = "egress"]
           t == IF ResponseBegun(e) THEN "FAILED" ELSE FailureStatus(r, e.disconnect)
<1>1. Failing(r) /\ Close(r, t) /\ UNCHANGED <<cooling, origins>>
  BY DEF FailRequest
<1>2. t \in {"FAILED", "CANCELLED"}
  BY DEF FailureStatus
<1> HIDE DEF t
<1>3. /\ request' = [request EXCEPT ![r] = p] /\ status' = [status EXCEPT ![r] = t]
      /\ cooling' \subseteq CooldownKey
  BY <1>1 DEF Close, Goto, DispatchInv, DispatchTypeOK
<1>4. p \in Progress /\ p.phase = "egress"
  BY <1>1, FailingFacts DEF Progress, Phases
<1>5. PICK s \in {"FAILED", "CANCELLED"} : AttemptEnds(r, s)
  BY <1>1, FailingFacts
<1> HIDE DEF p
<1>6. QED
  BY <1>1, <1>2, <1>3, <1>4, <1>5, FailingFacts, Settling DEF Terminal

(* An error that does not end the request has let nothing out, or says so. *)
LEMMA NotEnded ==
  ASSUME NEW r, NEW e \in Error, ~Ends(r, e), e.committed
  PROVE  StreamRead(e)
BY DEF Ends, ResponseBegun

LEMMA InvFailProvider ==
  ASSUME DispatchInv, NEW r \in Requests, FailProvider(r)
  PROVE  DispatchInv'
<1> DEFINE n == RouteAfter(request[r].matched, request[r].at)
           p == [request[r] EXCEPT !.phase = "route", !.at = n]
<1>1. /\ Failing(r) /\ UNCHANGED status /\ ~Ends(r, request[r].outcome)
      /\ HandleCooldown(r, request[r].outcome)
      /\ request' = [request EXCEPT ![r] = p]
  BY DEF FailProvider, NextRoute
<1>2. n \in (request[r].matched \cup {Len(Routes) + 1}) \cap Nat
  BY <1>1, FailingFacts, RouteAfterType DEF Progress
<1> HIDE DEF n
<1>3. /\ p \in Progress /\ p.phase = "route" /\ p.at = n
      /\ p.matched = request[r].matched /\ p.outcome = request[r].outcome
  BY <1>1, <1>2, FailingFacts DEF Progress, Phases
<1>4. PICK s \in {"FAILED", "CANCELLED"} : AttemptEnds(r, s)
  BY <1>1, FailingFacts
<1>5. cooling' \subseteq CooldownKey
  BY <1>1, FailingFacts, HandleCooldownType
<1>6. p.outcome \in Error /\ (p.outcome.committed => StreamRead(p.outcome))
  BY <1>1, <1>3, FailingFacts, NotEnded
<1> HIDE DEF p
<1>7. /\ request[r].phase = "settle" /\ balance' \in Nat /\ overspent' \in Nat
      /\ status' = [status EXCEPT ![r] = "IN_PROGRESS"] /\ UNCHANGED <<slotVars, cancelled>>
  BY <1>1, FailingFacts
<1>8. request' = [request EXCEPT ![r] = p]
  BY <1>1
<1>9. QED
  BY <1>2, <1>3, <1>4, <1>5, <1>6, <1>7, <1>8, Settling

LEMMA InvFailAttempt ==
  ASSUME DispatchInv, NEW r \in Requests, FailAttempt(r)
  PROVE  DispatchInv'
<1> DEFINE p == IF SwitchesModel(r)
                  THEN [request[r] EXCEPT !.phase = "attempt", !.tries = 0,
                                          !.candidate = NextCandidate(r)]
                ELSE IF Waits(r) THEN [request[r] EXCEPT !.phase = "wait"]
                ELSE [request[r] EXCEPT !.phase = "attempt",
                                        !.tries = request[r].tries + 1]
<1>1. /\ Failing(r) /\ UNCHANGED status /\ ~Ends(r, request[r].outcome)
      /\ HandleCooldown(r, request[r].outcome)
      /\ request' = [request EXCEPT ![r] = p]
  BY DEF FailAttempt
<1>2. NextCandidate(r) \in DOMAIN MappedModels(r) /\ NextCandidate(r) \in Nat
  <2>1. request[r].candidate \in Nat
    BY <1>1, FailingFacts DEF Progress
  <2>2. QED
    BY <1>1, <2>1, FailingFacts, Mapped DEF NextCandidate
<1>3. /\ p \in Progress /\ p.phase \in {"attempt", "wait"} /\ p.at = request[r].at
      /\ p.matched = request[r].matched /\ p.outcome = request[r].outcome
      /\ p.m = request[r].m /\ p.candidate \in DOMAIN MappedModels(r)
  <2>1. /\ request[r] \in Progress /\ request[r].tries + 1 \in Nat
        /\ request[r].candidate \in DOMAIN MappedModels(r)
    BY <1>1, FailingFacts DEF Progress
  <2> DEFINE n == NextCandidate(r)
  <2>2. n \in DOMAIN MappedModels(r) /\ n \in Nat
    BY <1>2
  <2> HIDE DEF n
  <2>3. CASE SwitchesModel(r)
    <3>1. p = [request[r] EXCEPT !.phase = "attempt", !.tries = 0, !.candidate = n]
      BY <2>3 DEF n
    <3> HIDE DEF p
    <3>2. QED
      BY <2>1, <2>2, <3>1 DEF Progress, Phases
  <2>4. CASE ~SwitchesModel(r) /\ Waits(r)
    <3>1. p = [request[r] EXCEPT !.phase = "wait"]
      BY <2>4
    <3> HIDE DEF p
    <3>2. QED
      BY <2>1, <3>1 DEF Progress, Phases
  <2>5. CASE ~SwitchesModel(r) /\ ~Waits(r)
    <3>1. p = [request[r] EXCEPT !.phase = "attempt", !.tries = request[r].tries + 1]
      BY <2>5
    <3> HIDE DEF p
    <3>2. QED
      BY <2>1, <3>1 DEF Progress, Phases
  <2>6. QED
    BY <2>3, <2>4, <2>5
<1>4. PICK s \in {"FAILED", "CANCELLED"} : AttemptEnds(r, s)
  BY <1>1, FailingFacts
<1>5. cooling' \subseteq CooldownKey
  BY <1>1, FailingFacts, HandleCooldownType
<1>6. p.outcome \in Error /\ (p.outcome.committed => StreamRead(p.outcome))
  <2> HIDE DEF p
  <2>1. QED
    BY <1>1, <1>3, FailingFacts, NotEnded
<1> HIDE DEF p
<1>7. /\ request[r].phase = "settle" /\ UNCHANGED <<slotVars, cancelled>>
      /\ balance' \in Nat /\ overspent' \in Nat
      /\ status' = [status EXCEPT ![r] = "IN_PROGRESS"]
  BY <1>1, FailingFacts
<1>8. QED
  BY <1>1, <1>3, <1>4, <1>5, <1>6, <1>7, Settling

-----------------------------------------------------------------------------
(* The end of the chain, the client's leaving and the end of a cooldown.   *)
LEMMA EgressKeepsAttempts ==
  ASSUME DispatchInv, NEW r \in Requests, Egress(r)
  PROVE  UNCHANGED attempts
<1> DEFINE n == Len(attempts[r])
<1>1. /\ attempts[r] \in Seq(Attempt) /\ n \in Nat
      /\ request[r].phase = "egress" /\ Recorded(r)
  BY DEF DispatchInv, DispatchTypeOK, RequestInv, Egress, At
<1>2. attempts[r] # <<>> => n > 0
  BY <1>1
<1>3. n > 0 => LastAttempt(r).status # "IN_PROGRESS"
  BY <1>1 DEF Recorded, LastAttempt
<1>4. QED
  BY <1>2, <1>3 DEF Egress

LEMMA InvEgress ==
  ASSUME DispatchInv, NEW r \in Requests, Egress(r)
  PROVE  DispatchInv'
<1> DEFINE p == [request[r] EXCEPT !.phase = "done"]
           t == IF status[r] = "IN_PROGRESS" THEN "FAILED" ELSE status[r]
           n == Len(attempts[r])
<1>1. /\ request[r] \in Progress /\ request[r].phase = "egress" /\ RequestInv(r)
      /\ attempts[r] \in Seq(Attempt) /\ n \in Nat
      /\ UNCHANGED <<slotVars, sharedVars, cancelled>>
  BY DEF DispatchInv, DispatchTypeOK, Egress, At
<1>2. /\ request' = [request EXCEPT ![r] = p]
      /\ status' = [status EXCEPT ![r] = t]
  BY DEF Egress, Goto, DispatchInv, DispatchTypeOK
<1>3. p \in Progress /\ p.phase = "done" /\ p.outcome = request[r].outcome
  BY <1>1 DEF Progress, Phases
<1>4. UNCHANGED attempts
  BY EgressKeepsAttempts
<1>5. /\ status[r] \in Terminal \cup {"IN_PROGRESS"} /\ t \in Terminal
      /\ t = "COMPLETED" <=> status[r] = "COMPLETED"
  BY <1>1 DEF RequestInv, Recorded, Terminal
<1> HIDE DEF p, t
<1>6. request'[r] = p /\ status'[r] = t /\ attempts'[r] = attempts[r] /\ grant' = grant
  BY <1>1, <1>2, <1>4 DEF DispatchInv, DispatchTypeOK, slotVars
<1>7. Recorded(r)'
  BY <1>1, <1>3, <1>5, <1>6 DEF RequestInv, Recorded, Failed
<1>8. RequestInv(r)'
  BY <1>1, <1>3, <1>6, <1>7 DEF RequestInv, Positioned, Holding, Uncommitted
<1>9. QED
  BY <1>1, <1>2, <1>3, <1>4, <1>5, <1>8, OnlyMoves
     DEF sharedVars, DispatchInv, DispatchTypeOK

LEMMA InvUnmoved ==
  ASSUME DispatchInv, UNCHANGED <<slotVars, balance, overspent, recordVars>>,
         cooling' \subseteq CooldownKey, cancelled' \subseteq Requests
  PROVE  DispatchInv'
<1>1. LimiterTypeOK' /\ CountsSessions'
  BY SlotsKept DEF DispatchInv, DispatchTypeOK
<1>2. DispatchTypeOK'
  BY <1>1 DEF DispatchInv, DispatchTypeOK, recordVars
<1>3. ASSUME NEW r \in Requests
      PROVE  RequestInv(r)'
  <2>1. Positioned(r)' /\ Holding(r)'
    BY <1>3 DEF DispatchInv, RequestInv, Positioned, Holding, MappedModels,
                Provider, LastAttempt, recordVars, slotVars
  <2>2. Recorded(r)' /\ Uncommitted(r)'
    BY <1>3 DEF DispatchInv, RequestInv, Recorded, Failed, Uncommitted,
                Committed, recordVars
  <2>3. QED
    BY <2>1, <2>2 DEF RequestInv
<1>4. QED
  BY <1>1, <1>2, <1>3 DEF DispatchInv

LEMMA InvInit ==
  ASSUME Init
  PROVE  DispatchInv
<1>1. Slots!LimiterInit
  BY DEF Init, LimiterInit, Slots!LimiterInit, Slots!NoGrant, NoGrant
<1>2. LimiterTypeOK /\ CountsSessions
  BY <1>1, SlotAssumption, SameInv, Slots!LimiterInvInit
<1>3. /\ request \in [Requests -> Progress]
      /\ \A r \in Requests : request[r].phase = "new" /\ request[r].outcome = Pending
  <2> DEFINE Start == {[phase |-> "new", ct |-> ct, m |-> m, matched |-> {}, at |-> 0,
                        tries |-> 0, candidate |-> 0, outcome |-> Pending] :
                          ct \in AskedTypes, m \in AskedModels}
  <2>1. ASSUME NEW s \in Start
        PROVE  s \in Progress /\ s.phase = "new" /\ s.outcome = Pending
    BY DEF Progress, Phases
  <2>2. request \in [Requests -> Start]
    BY DEF Init
  <2> HIDE DEF Start
  <2>3. QED
    BY <2>1, <2>2
<1>4. DispatchTypeOK
  BY <1>2, <1>3, DispatchAssumption DEF Init, DispatchTypeOK
<1>5. ASSUME NEW r \in Requests
      PROVE  RequestInv(r)
  <2>1. grant[r].released /\ status[r] = "none" /\ attempts[r] = <<>>
    BY DEF Init, LimiterInit, NoGrant
  <2>2. QED
    BY <1>3, <2>1 DEF RequestInv, Positioned, Holding, Recorded, Uncommitted
<1>6. QED
  BY <1>2, <1>4, <1>5 DEF DispatchInv

LEMMA DispatchInvStep ==
  ASSUME DispatchInv, [Next]_vars
  PROVE  DispatchInv'
<1>1. ASSUME NEW r \in Requests, Serve(r)
      PROVE  DispatchInv'
  BY <1>1, InvRouteMatch, InvStartRoute, InvGiveUpProvider, InvStopBeforeAttempt,
     InvStartAttempt, InvExecute, InvSucceed, InvFailRequest, InvFailProvider,
     InvFailAttempt, InvRetryWait, InvEgress
     DEF Serve
<1>2. ASSUME NEW r \in Requests, Cancel(r)
      PROVE  DispatchInv'
  BY <1>2, InvUnmoved DEF Cancel, sharedVars, DispatchInv, DispatchTypeOK
<1>3. ASSUME NEW k \in cooling, Expire(k)
      PROVE  DispatchInv'
  BY <1>3, InvUnmoved DEF Expire, DispatchInv, DispatchTypeOK
<1>4. CASE UNCHANGED vars
  BY <1>4, InvUnmoved DEF vars, sharedVars, DispatchInv, DispatchTypeOK
<1>5. QED
  BY <1>1, <1>2, <1>3, <1>4, InvPanic DEF Next

LEMMA DispatchInvHolds == Spec => []DispatchInv
<1>1. Init => DispatchInv
  BY InvInit
<1>2. DispatchInv /\ [Next]_vars => DispatchInv'
  BY DispatchInvStep
<1>3. QED
  BY <1>1, <1>2, PTL DEF Spec

(* The program's variables keep their types, whatever the errors.          *)
THEOREM DispatchTypesHold == Spec => []DispatchTypeOK
<1>1. DispatchInv => DispatchTypeOK
  BY DEF DispatchInv
<1>2. QED
  BY <1>1, DispatchInvHolds, PTL

(* A request holds a slot exactly while its attempt is with the provider,  *)
(* and the limiter counts these slots: dispatch releases what it acquires  *)
(* after an answer, an error or a panic, and before any wait.              *)
THEOREM SlotsAlwaysFollowAttempts == Spec => []SlotsFollowAttempts
<1>1. DispatchInv => SlotsFollowAttempts
  BY DEF DispatchInv, RequestInv, Holding, SlotsFollowAttempts, At
<1>2. QED
  BY <1>1, DispatchInvHolds, PTL

(* A request that has left the chain has its row and the rows of all its   *)
(* attempts closed, and they agree on whether it was answered.             *)
THEOREM RecordsAreAlwaysClosed == Spec => []RecordsAreClosed
<1>1. ASSUME DispatchInv
      PROVE  RecordsAreClosed
  <2> SUFFICES ASSUME NEW r \in Requests, At(r, "done")
               PROVE  /\ status[r] \in Terminal
                      /\ \A n \in DOMAIN attempts[r] :
                           /\ attempts[r][n].status # "IN_PROGRESS"
                           /\ attempts[r][n].status = "COMPLETED"
                                <=> n = Len(attempts[r]) /\ status[r] = "COMPLETED"
                      /\ status[r] = "COMPLETED" => attempts[r] # <<>>
    BY DEF RecordsAreClosed
  <2>1. /\ Recorded(r) /\ request[r].phase = "done"
        /\ attempts[r] \in Seq(Attempt)
    BY <1>1 DEF DispatchInv, DispatchTypeOK, RequestInv, At
  <2> DEFINE n == Len(attempts[r])
  <2>2. /\ n \in Nat /\ DOMAIN attempts[r] = 1 .. n
        /\ attempts[r] = <<>> <=> n = 0
    BY <2>1
  <2>3. /\ status[r] \in Terminal /\ Failed(r, n - 1)
        /\ n = 0 => status[r] # "COMPLETED"
        /\ n > 0 => /\ attempts[r][n].status # "IN_PROGRESS"
                    /\ attempts[r][n].status = "COMPLETED"
                         <=> status[r] = "COMPLETED"
    BY <2>1 DEF Recorded
  <2> HIDE DEF n
  <2>4. ASSUME NEW i \in 1 .. n, i # n
        PROVE  attempts[r][i].status \in {"FAILED", "CANCELLED"}
    BY <2>2, <2>3, <2>4 DEF Failed
  <2>5. QED
    BY <2>2, <2>3, <2>4 DEF n
<1>2. QED
  BY <1>1, DispatchInvHolds, PTL

-----------------------------------------------------------------------------
(* Only the head of the attempt loop adds a row to a request's attempts.   *)
LEMMA AttemptsGrow ==
  ASSUME DispatchInv, [Next]_vars, NEW r \in Requests, request[r].phase # "attempt"
  PROVE  Len(attempts'[r]) = Len(attempts[r])
<1>1. CASE UNCHANGED attempts
  BY <1>1
<1>2. ASSUME NEW q \in Requests, StartAttempt(q)
      PROVE  attempts'[r] = attempts[r]
  BY <1>2 DEF StartAttempt, At, DispatchInv, DispatchTypeOK
<1>3. ASSUME NEW q \in Requests, request[q].phase = "settle",
             \E s \in {"COMPLETED", "FAILED", "CANCELLED"} : AttemptEnds(q, s)
      PROVE  Len(attempts'[r]) = Len(attempts[r])
  BY <1>3, AttemptSettled
<1>4. ASSUME NEW q \in Requests, Succeed(q) \/ Failing(q)
      PROVE  Len(attempts'[r]) = Len(attempts[r])
  <2>1. CASE Succeed(q)
    BY <1>3, <2>1 DEF Succeed, At
  <2>2. CASE Failing(q)
    BY <1>3, <2>2, FailingFacts
  <2>3. QED
    BY <1>4, <2>1, <2>2
<1>5. ASSUME NEW q \in Requests, Egress(q)
      PROVE  UNCHANGED attempts
  BY <1>5, EgressKeepsAttempts
<1>6. ASSUME NEW q \in Requests, Serve(q) \/ Panic(q) \/ Cancel(q)
      PROVE  \/ UNCHANGED attempts \/ StartAttempt(q) \/ Succeed(q)
             \/ Failing(q) \/ Egress(q)
  BY <1>6 DEF Serve, RouteMatch, StartRoute, GiveUpProvider, StopBeforeAttempt,
              Execute, FailRequest, FailProvider, FailAttempt, RetryWait, Panic,
              Cancel, recordVars
<1>7. ASSUME NEW k \in cooling, Expire(k)
      PROVE  UNCHANGED attempts
  BY <1>7 DEF Expire, recordVars
<1>8. CASE UNCHANGED vars
  BY <1>8 DEF vars, recordVars
<1>9. QED
  BY <1>1, <1>2, <1>4, <1>5, <1>6, <1>7, <1>8 DEF Next

(* No other attempt once part of a response is out, unless the upstream's  *)
(* stream broke off: whatever the retry policies make of the error.        *)
THEOREM NeverASecondAnswer == Spec => NoSecondAnswer
<1>1. ASSUME DispatchInv, [Next]_vars
      PROVE  \A r \in Requests :
               Committed(r) /\ ~StreamRead(request[r].outcome)
                 => Len(attempts'[r]) = Len(attempts[r])
  <2> SUFFICES ASSUME NEW r \in Requests, Committed(r), ~StreamRead(request[r].outcome)
               PROVE  Len(attempts'[r]) = Len(attempts[r])
    OBVIOUS
  <2>1. request[r].phase # "attempt"
    BY <1>1 DEF DispatchInv, RequestInv, Uncommitted
  <2>2. QED
    BY <1>1, <2>1, AttemptsGrow
<1>2. QED
  BY <1>1, DispatchInvHolds, PTL DEF Spec, NoSecondAnswer

-----------------------------------------------------------------------------
(* The quota.  A request can go beyond it only at the end of an attempt it *)
(* started while there was quota left, so no request does so twice.        *)
LEMMA SettledFinite ==
  /\ IsFiniteSet(Settled) /\ Cardinality(Settled) \in Nat
  /\ Cardinality(Settled) <= Cardinality(Requests) /\ Cardinality(Requests) \in Nat
<1>1. Settled \subseteq Requests
  BY DEF Settled
<1>2. QED
  BY <1>1, DispatchAssumption, FS_Subset, FS_CardinalityType

LEMMA SettledNextFinite ==
  IsFiniteSet(Settled') /\ Cardinality(Settled') \in Nat
<1>1. Settled' \subseteq Requests
  BY DEF Settled
<1>2. QED
  BY <1>1, DispatchAssumption, FS_Subset, FS_CardinalityType

LEMMA Product ==
  ASSUME NEW c \in Nat, NEW m \in Nat, NEW n \in Nat, m <= n
  PROVE  c * m \in Nat /\ c * n \in Nat /\ c * m <= c * n
OBVIOUS

LEMMA QuotaUntouched ==
  ASSUME DispatchInv, QuotaInv, UNCHANGED <<balance, overspent>>,
         overspent = 0 \/ Settled \subseteq Settled'
  PROVE  QuotaInv'
<1> SUFFICES ASSUME overspent' > 0, NEW c \in Costs, \A d \in Costs : d <= c
             PROVE  balance' = 0 /\ overspent' <= c * Cardinality(Settled')
  BY DEF QuotaInv
<1>1. overspent \in Nat /\ overspent > 0 /\ c \in Nat
  BY DispatchAssumption DEF DispatchInv, DispatchTypeOK
<1>2. balance = 0 /\ overspent <= c * Cardinality(Settled)
  BY <1>1 DEF QuotaInv
<1>3. Cardinality(Settled) <= Cardinality(Settled')
  BY <1>1, SettledNextFinite, FS_Subset
<1> DEFINE m == Cardinality(Settled)
           n == Cardinality(Settled')
<1>4. m \in Nat /\ n \in Nat /\ m <= n
  BY <1>3, SettledFinite, SettledNextFinite
<1> HIDE DEF m, n
<1>5. c * m \in Nat /\ c * n \in Nat /\ c * m <= c * n
  BY <1>1, <1>4, Product
<1>6. overspent <= c * m
  BY <1>2 DEF m
<1>7. overspent <= c * n
  BY <1>1, <1>5, <1>6
<1>8. QED
  BY <1>2, <1>7 DEF n

LEMMA QuotaDeducted ==
  ASSUME DispatchInv, QuotaInv, NEW r \in Requests, request[r].phase = "settle",
         NEW cost \in Costs, Deduct(r, cost),
         request'[r].phase \notin {"execute", "settle"},
         \A q \in Requests \ {r} : request'[q] = request[q]
  PROVE  QuotaInv'
<1>1. cost \in Nat /\ balance \in Nat /\ overspent \in Nat
  BY DispatchAssumption DEF DispatchInv, DispatchTypeOK
<1>2. Settled \subseteq Settled' /\ r \in Settled'
  BY DEF Settled, Spending, Provider
<1>3. CASE ~(Provider(r) \in QuotaProviders /\ cost > balance)
  <2>1. overspent' = overspent
    BY <1>3 DEF Deduct
  <2>2. CASE overspent = 0
    BY <1>1, <2>1, <2>2 DEF QuotaInv
  <2>3. CASE overspent > 0
    <3>1. balance = 0 /\ balance' = 0
      BY <1>1, <2>3 DEF QuotaInv, Deduct
    <3>2. QED
      BY <1>2, <2>1, <3>1, QuotaUntouched
  <2>4. QED
    BY <1>1, <2>2, <2>3
<1>4. CASE Provider(r) \in QuotaProviders /\ cost > balance
  <2>1. balance' = 0 /\ overspent' = overspent + (cost - balance)
    BY <1>1, <1>4 DEF Deduct
  <2>2. r \notin Settled
    BY <1>4 DEF Settled, Spending
  <2> DEFINE m == Cardinality(Settled)
             n == Cardinality(Settled')
  <2>3. m \in Nat /\ n \in Nat /\ m + 1 <= n
    <3>1. Cardinality(Settled \cup {r}) = m + 1
      BY <2>2, SettledFinite, FS_AddElement
    <3>2. Cardinality(Settled \cup {r}) <= n
      BY <1>2, SettledNextFinite, FS_Subset
    <3>3. QED
      BY <3>1, <3>2, SettledFinite, SettledNextFinite
  <2>4. ASSUME NEW c \in Costs, \A d \in Costs : d <= c
        PROVE  overspent' <= c * n
    <3>1. c \in Nat /\ cost <= c
      BY <2>4, DispatchAssumption
    <3>2. overspent <= c * m
      <4>1. CASE overspent > 0
        BY <2>4, <4>1 DEF QuotaInv
      <4>2. CASE overspent = 0
        <5> HIDE DEF m
        <5>1. QED
          BY <2>3, <3>1, <4>2, Product
      <4>3. QED
        BY <1>1, <4>1, <4>2
    <3> HIDE DEF m, n
    <3>3. c * (m + 1) = c * m + c /\ c * m \in Nat
      BY <2>3, <3>1
    <3>4. m + 1 \in Nat
      BY <2>3
    <3>5. c * (m + 1) <= c * n /\ c * n \in Nat
      BY <2>3, <3>1, <3>4, Product
    <3>6. QED
      BY <1>1, <1>4, <2>1, <3>1, <3>2, <3>3, <3>5
  <2>5. QED
    BY <2>1, <2>4 DEF QuotaInv
<1>5. QED
  BY <1>3, <1>4

(* What a step of a request, other than the start and the end of an        *)
(* attempt, means for the quota: nothing.                                  *)
LEMMA StillSettled ==
  ASSUME DispatchInv, NEW r \in Requests,
         \A q \in Requests \ {r} : request'[q] = request[q],
         \/ request'[r].phase \notin {"execute", "settle"}
         \/ /\ request[r].phase = "execute"
            /\ request'[r].at = request[r].at
  PROVE  Settled \subseteq Settled'
BY DEF Settled, Spending, Provider

LEMMA Moved ==
  ASSUME DispatchInv, NEW r \in Requests, NEW p,
         request' = [request EXCEPT ![r] = p]
  PROVE  request'[r] = p /\ \A q \in Requests \ {r} : request'[q] = request[q]
BY DEF DispatchInv, DispatchTypeOK

LEMMA GotoMoves ==
  ASSUME DispatchInv, NEW r \in Requests, NEW phase, Goto(r, phase)
  PROVE  /\ request'[r].phase = phase
         /\ \A q \in Requests \ {r} : request'[q] = request[q]
BY DEF DispatchInv, DispatchTypeOK, Goto, Progress

LEMMA NextRouteMoves ==
  ASSUME DispatchInv, NEW r \in Requests, NextRoute(r)
  PROVE  /\ request'[r].phase = "route"
         /\ \A q \in Requests \ {r} : request'[q] = request[q]
BY DEF DispatchInv, DispatchTypeOK, NextRoute, Progress

LEMMA ServeMoves ==
  ASSUME DispatchInv, NEW r \in Requests, Serve(r) \/ Panic(r),
         ~StartAttempt(r), ~Execute(r)
  PROVE  /\ request'[r].phase \notin {"execute", "settle"}
         /\ \A q \in Requests \ {r} : request'[q] = request[q]
<1>1. request[r] \in Progress /\ request \in [Requests -> Progress]
  BY DEF DispatchInv, DispatchTypeOK
<1>2. ASSUME NEW s, Close(r, s)
      PROVE  /\ request'[r].phase = "egress"
             /\ \A q \in Requests \ {r} : request'[q] = request[q]
  BY <1>2, GotoMoves DEF Close
<1>3. CASE RouteMatch(r)
  <2>1. CASE Available(r) = {}
    BY <1>2, <1>3, <2>1 DEF RouteMatch
  <2>2. CASE Available(r) # {}
    <3> DEFINE p == [request[r] EXCEPT !.phase = "route", !.matched = Available(r),
                                       !.at = RouteAfter(Available(r), 0)]
    <3>1. request' = [request EXCEPT ![r] = p]
      BY <1>3, <2>2 DEF RouteMatch
    <3>2. p.phase = "route"
      BY <1>1 DEF Progress
    <3> HIDE DEF p
    <3>3. QED
      BY <3>1, <3>2, Moved
  <2>3. QED
    BY <2>1, <2>2
<1>4. CASE StartRoute(r)
  <2>1. CASE request[r].at > Len(Routes)
    BY <1>2, <1>4, <2>1 DEF StartRoute
  <2>2. CASE ~(request[r].at > Len(Routes)) /\ r \in cancelled
    BY <1>4, <2>2, GotoMoves DEF StartRoute
  <2>3. CASE ~(request[r].at > Len(Routes)) /\ r \notin cancelled
    <3>1. PICK n \in StartCandidates(r) :
            request' = [request EXCEPT ![r] =
              [@ EXCEPT !.phase = "attempt", !.tries = 0, !.candidate = n]]
      BY <1>4, <2>3 DEF StartRoute
    <3>2. QED
      BY <1>1, <3>1 DEF Progress
  <2>4. QED
    BY <2>1, <2>2, <2>3
<1>5. CASE GiveUpProvider(r) \/ FailProvider(r)
  BY <1>5, NextRouteMoves DEF GiveUpProvider, FailProvider
<1>6. CASE StopBeforeAttempt(r)
  BY <1>2, <1>6, GotoMoves DEF StopBeforeAttempt
<1>7. CASE Succeed(r) \/ FailRequest(r)
  BY <1>2, <1>7 DEF Succeed, FailRequest
<1>8. CASE FailAttempt(r)
  <2> DEFINE p == IF SwitchesModel(r)
                    THEN [request[r] EXCEPT !.phase = "attempt", !.tries = 0,
                                            !.candidate = NextCandidate(r)]
                  ELSE IF Waits(r) THEN [request[r] EXCEPT !.phase = "wait"]
                  ELSE [request[r] EXCEPT !.phase = "attempt",
                                          !.tries = request[r].tries + 1]
  <2>1. request' = [request EXCEPT ![r] = p]
    BY <1>8 DEF FailAttempt
  <2>2. p.phase \in {"attempt", "wait"}
    BY <1>1 DEF Progress
  <2> HIDE DEF p
  <2>3. QED
    BY <2>1, <2>2, Moved
<1>9. CASE RetryWait(r)
  BY <1>1, <1>2, <1>9 DEF RetryWait, Progress
<1>10. CASE Egress(r) \/ Panic(r)
  BY <1>10, GotoMoves DEF Egress, Panic
<1>11. QED
  BY <1>3, <1>4, <1>5, <1>6, <1>7, <1>8, <1>9, <1>10 DEF Serve

LEMMA QuotaInvStep ==
  ASSUME DispatchInv, QuotaInv, [Next]_vars
  PROVE  QuotaInv'
<1>1. ASSUME NEW r \in Requests, StartAttempt(r)
      PROVE  QuotaInv'
  <2>1. /\ request'[r].phase = "execute" /\ request'[r].at = request[r].at
        /\ \A q \in Requests \ {r} : request'[q] = request[q]
    BY <1>1 DEF StartAttempt, Goto, DispatchInv, DispatchTypeOK, Progress
  <2>2. UNCHANGED <<balance, overspent>>
    BY <1>1 DEF StartAttempt, sharedVars
  <2>3. CASE Provider(r) \in QuotaProviders
    <3>1. overspent = 0
      BY <1>1, <2>3 DEF StartAttempt, QuotaExhausted, QuotaInv, DispatchInv, DispatchTypeOK
    <3>2. QED
      BY <2>2, <3>1, QuotaUntouched
  <2>4. CASE Provider(r) \notin QuotaProviders
    <3>1. Settled \subseteq Settled'
      BY <2>1, <2>4 DEF Settled, Spending, Provider
    <3>2. QED
      BY <2>2, <3>1, QuotaUntouched
  <2>5. QED
    BY <2>3, <2>4
<1>2. ASSUME NEW r \in Requests, Execute(r)
      PROVE  QuotaInv'
  <2>1. PICK o : request' = [request EXCEPT ![r] =
          [@ EXCEPT !.phase = "settle",
                    !.outcome = IF o = Answer THEN o ELSE Adjusted(Provider(r), o)]]
    BY <1>2 DEF Execute
  <2>2. /\ request'[r].at = request[r].at
        /\ \A q \in Requests \ {r} : request'[q] = request[q]
    BY <2>1 DEF DispatchInv, DispatchTypeOK, Progress
  <2>3. Settled \subseteq Settled'
    BY <1>2, <2>2, StillSettled DEF Execute, At
  <2>4. QED
    BY <1>2, <2>3, QuotaUntouched DEF Execute, sharedVars
<1>3. ASSUME NEW r \in Requests, Succeed(r) \/ Failing(r), Serve(r)
      PROVE  QuotaInv'
  <2>1. request[r].phase = "settle" /\ \E cost \in Costs : Deduct(r, cost)
    BY <1>3 DEF Succeed, Failing, At
  <2>2. ~StartAttempt(r) /\ ~Execute(r)
    BY <2>1 DEF StartAttempt, Execute, At
  <2>3. QED
    BY <1>3, <2>1, <2>2, ServeMoves, QuotaDeducted
<1>4. ASSUME NEW r \in Requests, Serve(r) \/ Panic(r), ~StartAttempt(r), ~Execute(r),
             ~Succeed(r), ~Failing(r)
      PROVE  QuotaInv'
  <2>1. Settled \subseteq Settled'
    BY <1>4, ServeMoves, StillSettled
  <2>2. UNCHANGED <<balance, overspent>>
    BY <1>4 DEF Serve, RouteMatch, StartRoute, GiveUpProvider, StopBeforeAttempt,
                FailRequest, FailProvider, FailAttempt, RetryWait, Egress, Panic,
                sharedVars
  <2>3. QED
    BY <2>1, <2>2, QuotaUntouched
<1>5. ASSUME UNCHANGED <<balance, overspent, request>>
      PROVE  QuotaInv'
  <2>1. Settled \subseteq Settled'
    BY <1>5 DEF Settled, Spending, Provider
  <2>2. QED
    BY <1>5, <2>1, QuotaUntouched
<1>6. ASSUME NEW r \in Requests, Serve(r) \/ Panic(r)
      PROVE  QuotaInv'
  <2>1. Panic(r) => ~Succeed(r) /\ ~Failing(r)
    BY DEF Panic, Succeed, Failing, At
  <2>2. QED
    BY <1>1, <1>2, <1>3, <1>4, <1>6, <2>1
<1>7. QED
  BY <1>5, <1>6 DEF Next, Cancel, Expire, vars, sharedVars, recordVars

(* The quota is overspent at most once by each request, with one attempt.  *)
THEOREM OverspendIsBounded == Spec => []OverspendBounded
<1>1. Init => QuotaInv
  BY DEF Init, QuotaInv
<1>2. DispatchInv /\ QuotaInv /\ [Next]_vars => QuotaInv'
  BY QuotaInvStep
<1>3. DispatchInv /\ QuotaInv => OverspendBounded
  <2> SUFFICES ASSUME DispatchInv, QuotaInv, NEW c \in Costs, \A d \in Costs : d <= c
               PROVE  overspent <= c * Cardinality(Requests)
    BY DEF OverspendBounded
  <2>1. c \in Nat /\ overspent \in Nat
    BY DispatchAssumption DEF DispatchInv, DispatchTypeOK
  <2> DEFINE m == Cardinality(Settled)
             n == Cardinality(Requests)
  <2>2. m \in Nat /\ n \in Nat /\ m <= n
    BY SettledFinite
  <2>3. overspent > 0 => overspent <= c * m
    BY DEF QuotaInv
  <2> HIDE DEF m, n
  <2>4. c * m <= c * n /\ c * m \in Nat /\ c * n \in Nat
    BY <2>1, <2>2, Product
  <2>5. overspent <= c * n
    BY <2>1, <2>3, <2>4
  <2>6. QED
    BY <2>5 DEF n
<1>4. QED
  BY <1>1, <1>2, <1>3, DispatchInvHolds, PTL DEF Spec

-----------------------------------------------------------------------------
(* Every provider is spoken to in the client type asked for, and knows the *)
(* model asked for by that name: nothing is converted or mapped.           *)
PlainRouting ==
  \A p \in Providers :
    /\ \A ct \in AskedTypes : SpokenType(p, ct) = ct
    /\ \A m \in AskedModels : Candidates(p, m) \in Seq({m})

(* An error names the client type and the model of the call, or none: not  *)
(* those that the upstream reports.                                        *)
PlainErrors ==
  \A p \in Providers, ct \in ClientTypes, m \in Models :
    \A e \in Errors(p, ct, m) : e.ct \in {All, ct} /\ e.model \in {All, m}

(* Nor does the error that an attempt has just ended with.                 *)
NamesInv ==
  \A r \in Requests :
    At(r, "settle") /\ request[r].outcome \in Error =>
      /\ request[r].outcome.ct \in {All, request[r].ct}
      /\ request[r].outcome.model \in {All, request[r].m}

(* The key recorded for a failure is one of those Match consults for the   *)
(* client type and the model the request asks for.                         *)
OriginsInv ==
  \A o \in origins : o.key \in CheckedKeys(o.key.p, o.ct, o.m)

(* Under plain routing a call is made with the names asked for.            *)
LEMMA PlainlyCalled ==
  ASSUME PlainRouting, DispatchInv, NEW r \in Requests,
         request[r].at \in request[r].matched,
         request[r].candidate \in DOMAIN MappedModels(r)
  PROVE  /\ SpokenType(Provider(r), request[r].ct) = request[r].ct
         /\ MappedModel(r) = request[r].m
<1>1. /\ Provider(r) \in Providers /\ request[r].ct \in AskedTypes
      /\ request[r].m \in AskedModels
  BY Mapped DEF DispatchInv, DispatchTypeOK, Progress
<1>2. MappedModels(r) \in Seq({request[r].m})
  BY <1>1 DEF PlainRouting, MappedModels
<1>3. QED
  BY <1>1, <1>2 DEF PlainRouting, MappedModel

LEMMA NamesExecute ==
  ASSUME PlainRouting, PlainErrors, DispatchInv, NamesInv, NEW r \in Requests, Execute(r)
  PROVE  NamesInv'
<1>1. /\ request[r] \in Progress /\ request \in [Requests -> Progress]
      /\ request[r].at \in request[r].matched
      /\ request[r].candidate \in DOMAIN MappedModels(r)
  BY DEF Execute, At, DispatchInv, DispatchTypeOK, RequestInv, Positioned
<1> DEFINE ct == SpokenType(Provider(r), request[r].ct)
           E == Errors(Provider(r), ct, MappedModel(r))
<1>2. PICK o \in E \cup {Answer} :
        request' = [request EXCEPT ![r] =
          [@ EXCEPT !.phase = "settle",
                    !.outcome = IF o = Answer THEN o ELSE Adjusted(Provider(r), o)]]
  BY DEF Execute
<1>3. /\ E \subseteq Error
      /\ \A e \in E : e.ct \in {All, request[r].ct} /\ e.model \in {All, request[r].m}
  BY <1>1, Called, PlainlyCalled DEF PlainErrors
<1> HIDE DEF E
<1> DEFINE out == IF o = Answer THEN o ELSE Adjusted(Provider(r), o)
<1>4. out \in Error => /\ out.ct \in {All, request[r].ct}
                       /\ out.model \in {All, request[r].m}
  <2>1. CASE o = Answer
    BY <2>1 DEF Answer, Error
  <2>2. CASE o # Answer
    BY <1>3, <2>2, AdjustedNames
  <2>3. QED
    BY <2>1, <2>2
<1>5. /\ request'[r].outcome = out
      /\ request'[r].ct = request[r].ct /\ request'[r].m = request[r].m
      /\ \A q \in Requests \ {r} : request'[q] = request[q]
  <2> HIDE DEF out
  <2>1. request' = [request EXCEPT ![r] =
                     [request[r] EXCEPT !.phase = "settle", !.outcome = out]]
    BY <1>2 DEF out
  <2>2. QED
    BY <1>1, <2>1 DEF Progress
<1> HIDE DEF out
<1>6. QED
  BY <1>4, <1>5 DEF NamesInv, At

(* Whatever else a request does takes it out of the hands of the provider. *)
LEMMA NamesStep ==
  ASSUME PlainRouting, PlainErrors, DispatchInv, NamesInv, [Next]_vars
  PROVE  NamesInv'
<1>1. CASE UNCHANGED request
  BY <1>1 DEF NamesInv, At
<1>2. ASSUME NEW r \in Requests, \A q \in Requests \ {r} : request'[q] = request[q],
             request'[r].phase # "settle"
      PROVE  NamesInv'
  BY <1>2 DEF NamesInv, At
<1>3. ASSUME NEW r \in Requests, Serve(r) \/ Panic(r)
      PROVE  NamesInv'
  <2>1. CASE Execute(r)
    BY <2>1, NamesExecute
  <2>2. CASE StartAttempt(r)
    <3>1. Goto(r, "execute")
      BY <2>2 DEF StartAttempt
    <3>2. QED
      BY <1>2, <3>1, GotoMoves
  <2>3. CASE ~Execute(r) /\ ~StartAttempt(r)
    BY <1>2, <1>3, <2>3, ServeMoves
  <2>4. QED
    BY <2>1, <2>2, <2>3
<1>4. ASSUME NEW r \in Requests, Cancel(r)
      PROVE  UNCHANGED request
  BY <1>4 DEF Cancel, recordVars
<1>5. ASSUME NEW k \in cooling, Expire(k)
      PROVE  UNCHANGED request
  BY <1>5 DEF Expire, recordVars
<1>6. CASE UNCHANGED vars
  BY <1>1, <1>6 DEF vars, recordVars
<1>7. QED
  BY <1>1, <1>3, <1>4, <1>5, <1>6 DEF Next

LEMMA OriginsStep ==
  ASSUME PlainRouting, DispatchInv, NamesInv, OriginsInv, NEW r \in Requests,
         Failing(r), HandleCooldown(r, request[r].outcome)
  PROVE  OriginsInv'
<1> DEFINE e == request[r].outcome
           k == RecordedKey(Provider(r), request[r].ct, MappedModel(r), e)
           o == [key |-> k, ct |-> request[r].ct, m |-> request[r].m]
<1>1. /\ request[r].ct \in AskedTypes
      /\ request[r].at \in request[r].matched
      /\ request[r].candidate \in DOMAIN MappedModels(r)
  BY FailingFacts DEF Progress
<1>2. /\ SpokenType(Provider(r), request[r].ct) = request[r].ct
      /\ MappedModel(r) = request[r].m
  BY <1>1, PlainlyCalled
<1>3. request[r].ct # All /\ request[r].m # All
  BY <1>1, <1>2, Called, AnyAssumption, DispatchAssumption
<1>4. e.ct \in {All, request[r].ct} /\ e.model \in {All, request[r].m}
  BY FailingFacts DEF NamesInv, At
<1> HIDE DEF e
<1>5. k \in CheckedKeys(k.p, request[r].ct, request[r].m)
  BY <1>2, <1>3, <1>4 DEF RecordedKey, Named, EffectiveKey, CheckedKeys
<1> HIDE DEF k
<1>6. origins' = origins \/ origins' = origins \cup {o}
  BY DEF HandleCooldown, k, e
<1>7. QED
  BY <1>5, <1>6 DEF OriginsInv

(* While a cooldown that a failed attempt of a request caused is active,   *)
(* Match keeps the request from that provider, if nothing is converted, no *)
(* model is mapped, and errors name what was called or nothing.            *)
THEOREM PlainCooldownsAreSeen ==
  ASSUME PlainRouting, PlainErrors
  PROVE  Spec => []CooldownsAreSeen
<1>1. Init => NamesInv /\ OriginsInv
  BY DEF Init, NamesInv, OriginsInv, At
<1>2. DispatchInv /\ NamesInv /\ OriginsInv /\ [Next]_vars => OriginsInv'
  <2> SUFFICES ASSUME DispatchInv, NamesInv, OriginsInv, [Next]_vars
               PROVE  OriginsInv'
    OBVIOUS
  <2>1. ASSUME UNCHANGED origins
        PROVE  OriginsInv'
    BY <2>1 DEF OriginsInv
  <2>2. ASSUME NEW r \in Requests, FailProvider(r) \/ FailAttempt(r)
        PROVE  OriginsInv'
    <3>1. Failing(r) /\ HandleCooldown(r, request[r].outcome)
      BY <2>2 DEF FailProvider, FailAttempt
    <3>2. QED
      BY <3>1, OriginsStep
  <2>3. ASSUME NEW r \in Requests, Serve(r) \/ Panic(r) \/ Cancel(r)
        PROVE  UNCHANGED origins \/ FailProvider(r) \/ FailAttempt(r)
    BY <2>3 DEF Serve, RouteMatch, StartRoute, GiveUpProvider, StopBeforeAttempt,
                StartAttempt, Execute, Succeed, FailRequest, RetryWait, Egress,
                Panic, Cancel, sharedVars
  <2>4. QED
    BY <2>1, <2>2, <2>3 DEF Next, Expire, vars, sharedVars
<1>3. DispatchInv /\ NamesInv /\ [Next]_vars => NamesInv'
  BY NamesStep
<1>4. OriginsInv => CooldownsAreSeen
  BY DEF OriginsInv, CooldownsAreSeen, IsCooling
<1>5. QED
  BY <1>1, <1>2, <1>3, <1>4, DispatchInvHolds, PTL DEF Spec
=============================================================================
