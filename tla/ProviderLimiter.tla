-------------------------- MODULE ProviderLimiter --------------------------
(***************************************************************************)
(* internal/router/provider_limiter.go: how many sessions this process has *)
(* open with each provider.  A request, or a WebSocket session, asks for a *)
(* slot and keeps the release function it is given; the first call of that *)
(* function gives the slot back, later calls do nothing.  An administrator *)
(* may change a provider's limit at any time: a limit of 0 is none.        *)
(*                                                                         *)
(* One session holds at most one release function at a time: the dispatch  *)
(* loop releases a slot before its next attempt, and a WebSocket session   *)
(* is given one when it dials and releases it when it closes.              *)
(***************************************************************************)
EXTENDS Naturals, FiniteSets

CONSTANTS
  Providers,
  Sessions,  \* requests and WebSocket sessions
  Limits     \* values MaxConcurrency may take

ASSUME LimiterAssumption == IsFiniteSet(Sessions) /\ Limits \subseteq Nat

VARIABLES
  inflight,       \* per provider: the counter; a missing entry is 0
  grant,          \* per session: the release function it holds
  maxConcurrency  \* per provider: the limit

limiterVars == <<inflight, grant, maxConcurrency>>

NoGrant == [released |-> TRUE]

Grant == [p : Providers, released : BOOLEAN]

LimiterTypeOK ==
  /\ inflight \in [Providers -> Nat]
  /\ grant \in [Sessions -> Grant \cup {NoGrant}]
  /\ maxConcurrency \in [Providers -> Limits]

LimiterInit ==
  /\ inflight = [p \in Providers |-> 0]
  /\ grant = [s \in Sessions |-> NoGrant]
  /\ maxConcurrency \in [Providers -> Limits]

(* Faulty form: one session more than the limit. *)
IsBeyondLimit(p, limit) == limit > 0 /\ inflight[p] > limit

(* IsAtLimit, and TryAcquire's refusal. *)
IsAtLimit(p, limit) == limit > 0 /\ inflight[p] >= limit

(* Faulty form: sessions are not counted while there is no limit. *)
AcquireUncounted(s, p, limit) ==
  /\ ~IsAtLimit(p, limit)
  /\ inflight' = IF limit = 0 THEN inflight ELSE [inflight EXCEPT ![p] = @ + 1]
  /\ grant' = [grant EXCEPT ![s] = [p |-> p, released |-> FALSE]]

(* TryAcquire of a free slot; a refusal changes nothing. *)
TryAcquire(s, p, limit) ==
  /\ ~IsAtLimit(p, limit)
  /\ inflight' = [inflight EXCEPT ![p] = @ + 1]
  /\ grant' = [grant EXCEPT ![s] = [p |-> p, released |-> FALSE]]

(* The release function: once only; the last slot deletes the entry. *)
Decremented(n) == IF n <= 1 THEN 0 ELSE n - 1

Release(s) ==
  IF grant[s].released
    THEN UNCHANGED <<inflight, grant>>
    ELSE /\ inflight' = [inflight EXCEPT ![grant[s].p] = Decremented(@)]
         /\ grant' = [grant EXCEPT ![s].released = TRUE]

-----------------------------------------------------------------------------
Acquire(s, p) ==
  /\ grant[s].released
  /\ TryAcquire(s, p, maxConcurrency[p])
  /\ UNCHANGED maxConcurrency

ReleaseAny(s) == Release(s) /\ UNCHANGED maxConcurrency

SetLimit(p) ==
  /\ \E n \in Limits : maxConcurrency' = [maxConcurrency EXCEPT ![p] = n]
  /\ UNCHANGED <<inflight, grant>>

LimiterNext ==
  \/ \E s \in Sessions : ReleaseAny(s) \/ \E p \in Providers : Acquire(s, p)
  \/ \E p \in Providers : SetLimit(p)

LimiterSpec == LimiterInit /\ [][LimiterNext]_limiterVars

-----------------------------------------------------------------------------
Live(p) == {s \in Sessions : ~grant[s].released /\ grant[s].p = p}

(* The counter of a provider is the number of sessions that hold a slot of *)
(* it: no interleaving of grants, first and repeated releases leaks a slot *)
(* or frees one twice.                                                     *)
CountsSessions == \A p \in Providers : inflight[p] = Cardinality(Live(p))

(* A provider gains a session only while it has fewer than its limit, also *)
(* after the limit was lowered below the sessions it had.                  *)
LimitHolds ==
  [][\A p \in Providers :
       maxConcurrency[p] > 0 /\ Cardinality(Live(p)) >= maxConcurrency[p]
         => Live(p)' \subseteq Live(p)]_limiterVars
=============================================================================
