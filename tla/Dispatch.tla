------------------------------ MODULE Dispatch ------------------------------
(***************************************************************************)
(* One instance serving HTTP requests: the executor's middleware chain     *)
(* (internal/executor: middleware_route_match.go, middleware_dispatch.go,  *)
(* middleware_egress.go, quota.go, handleCooldown of executor.go) over the *)
(* router's Match, the provider limiter and the local cooldowns.           *)
(*                                                                         *)
(* A request is matched to a list of providers and tries them in order,    *)
(* each several times, until one answers.  The steps of a request lie      *)
(* between its uses of shared state: slots, cooldowns, the quota balance.  *)
(*                                                                         *)
(* Abstracted: which routes and mappings an administrator configured (the  *)
(* constants); how long cooldowns and waits last (an active cooldown may   *)
(* expire, a wait may end); the text of errors; token warming, stickiness, *)
(* pricing and what is stored and broadcast of a response.  Database calls *)
(* succeed; the WebSocket transport has a dispatch loop of its own.        *)
(***************************************************************************)
EXTENDS CooldownKeys, FiniteSets, FiniteSetsExt, Sequences

CONSTANTS
  Requests,
  Routes,           \* enabled routes in the order of the strategy: providers
  Limits,           \* values of MaxConcurrency
  AskedTypes,       \* client types the requests come with
  AskedModels,      \* models they ask for
  SpokenType(_, _), \* the client type a provider is spoken to in
  Candidates(_, _), \* the mapped models to try at a provider, in order
  NoErrorCooldown,  \* providers with DisableErrorCooldown
  SmartMapping,     \* of these, the ones with SmartMappingRetryEnabled
  SmartRetryLimit,
  QuotaProviders,   \* providers with QuotaEnabled
  MaxRetries,
  ForceRetry,       \* ForceRetryUpstreamErrors of the retry configuration
  Errors(_, _, _),  \* what may come of an attempt at a provider in a client
                    \* type with a model, besides an answer
  Costs,            \* what an attempt may cost
  QuotaBalance,     \* balance of the token at the start
  MaxAttempts       \* bound on the attempts of one request

ASSUME DispatchAssumption ==
  /\ IsFiniteSet(Requests)
  /\ Routes \in Seq(Providers)
  /\ Limits \subseteq Nat
  /\ AskedTypes \subseteq ClientTypes
  /\ \A p \in Providers, ct \in AskedTypes : SpokenType(p, ct) \in ClientTypes
  /\ \A p \in Providers, m \in AskedModels : Candidates(p, m) \in Seq(Models) \ {<<>>}
  /\ SmartMapping \subseteq NoErrorCooldown
  /\ NoErrorCooldown \cup QuotaProviders \subseteq Providers
  /\ {MaxRetries, SmartRetryLimit, QuotaBalance, MaxAttempts} \subseteq Nat
  /\ Costs \subseteq Nat

VARIABLES
  inflight, grant, maxConcurrency, \* of the provider limiter
  cooling,    \* keys of the active cooldowns
  balance,    \* the token's quota balance
  request,    \* per request: its progress
  status,     \* per request: proxyReq.Status, in memory and in its row
  attempts,   \* per request: its rows of attempts, in order
  cancelled,  \* requests whose client has gone
  origins,    \* history: cooldowns recorded, with what had been asked for
  overspent   \* history: cost at quota providers beyond the balance

INSTANCE ProviderLimiter WITH Sessions <- Requests

slotVars == <<inflight, grant, maxConcurrency>>
recordVars == <<request, status, attempts>>
sharedVars == <<cooling, balance, origins, overspent>>
vars == <<slotVars, sharedVars, recordVars, cancelled>>

-----------------------------------------------------------------------------
(***************************************************************************)
(* What an attempt that failed reports.  kind: whether it is a ProxyError,  *)
(* the next fields describe; network: the reason is a network error;       *)
(* stream: reading the upstream's stream failed; explicit: it names an end *)
(* or a Retry-After; disconnect: its text says that the client left;       *)
(* committed: part of a response has reached the client; ct and model: the *)
(* client type and model it names itself, if any.  http "schema" is the    *)
(* 400 that the retry policies leave alone.                                *)
(***************************************************************************)
Error ==
  [kind : {"proxy", "other"}, scope : Scopes, retryable : BOOLEAN,
   http : {"none", "schema", "4xx", "429", "5xx"}, network : BOOLEAN,
   connect : BOOLEAN, stream : BOOLEAN, explicit : BOOLEAN,
   disconnect : BOOLEAN, committed : BOOLEAN,
   ct : ClientTypes \cup {All}, model : Models \cup {All}]

ASSUME ErrorsAssumption ==
  \A p \in Providers, ct \in ClientTypes, m \in Models : Errors(p, ct, m) \subseteq Error

Answer == [kind |-> "answer"]
Pending == [kind |-> "pending"]

(* normalizeUpstreamConnectionError *)
Normalized(e) ==
  IF e.connect
    THEN [e EXCEPT !.scope = "provider", !.network = TRUE, !.retryable = TRUE]
    ELSE e

(* isCommittedStreamReadRetryableError *)
StreamRead(e) == e.stream /\ e.scope = "provider" /\ e.network

(* applyDisabledErrorCooldownRetryPolicy, applyCommittedStreamReadRetryPolicy *)
PolicyRetries(p, e) ==
  \/ StreamRead(e)
  \/ p \in NoErrorCooldown /\ e.http \in {"4xx", "429", "5xx"}

(* forceRetryUpstreamErrorIfSafe, for a request that is not cancelled *)
ForceRetries(e) ==
  /\ ForceRetry
  /\ e.scope \in {"provider", "endpoint", "model"}
  /\ e.http # "4xx"

(* The error as the retry policies leave it. *)
Adjusted(p, e) ==
  LET n == Normalized(e)
  IN  [n EXCEPT !.retryable = n.retryable \/ PolicyRetries(p, n)]

WillRetry(e) == e.kind = "proxy" /\ (e.retryable \/ ForceRetries(e))

-----------------------------------------------------------------------------
(* cooldown keys consulted by Match and written by handleCooldown *)
IsCooling(p, ct, m) == CheckedKeys(p, ct, m) \cap cooling # {}

(* The error's own client type and model come before those of the call. *)
Named(name, ofCall) == IF name = All THEN ofCall ELSE name

RecordedKey(p, ct, mapped, e) ==
  EffectiveKey(p, Named(e.ct, SpokenType(p, ct)),
               IF e.scope = "model" THEN Named(e.model, mapped) ELSE All, e.scope)

-----------------------------------------------------------------------------
Terminal == {"COMPLETED", "FAILED", "CANCELLED", "REJECTED"}

Phases == {"new", "route", "attempt", "execute", "settle", "wait", "egress",
           "done", "panicked"}

(***************************************************************************)
(* matched: the routes Match returned; at: the one tried, past the last    *)
(* when all have been; tries: attempt in the code, which counts the        *)
(* retries; candidate: the index of the mapped model; outcome: of the last *)
(* attempt.                                                                *)
(***************************************************************************)
Progress ==
  [phase : Phases, ct : AskedTypes, m : AskedModels,
   matched : SUBSET DOMAIN Routes, at : Nat, tries : Nat, candidate : Nat,
   outcome : Error \cup {Answer, Pending}]

Attempt ==
  [p : Providers, model : Models,
   status : {"IN_PROGRESS", "COMPLETED", "FAILED", "CANCELLED"}]

DispatchTypeOK ==
  /\ LimiterTypeOK
  /\ cooling \subseteq CooldownKey
  /\ balance \in Nat
  /\ request \in [Requests -> Progress]
  /\ status \in [Requests -> Terminal \cup {"none", "IN_PROGRESS"}]
  /\ attempts \in [Requests -> Seq(Attempt)]
  /\ cancelled \subseteq Requests
  /\ overspent \in Nat

Init ==
  /\ LimiterInit
  /\ cooling = {}
  /\ balance = QuotaBalance
  /\ request \in [Requests ->
       {[phase |-> "new", ct |-> ct, m |-> m, matched |-> {}, at |-> 0,
         tries |-> 0, candidate |-> 0, outcome |-> Pending] :
          ct \in AskedTypes, m \in AskedModels}]
  /\ status = [r \in Requests |-> "none"]
  /\ attempts = [r \in Requests |-> <<>>]
  /\ cancelled = {}
  /\ origins = {}
  /\ overspent = 0

-----------------------------------------------------------------------------
At(r, phase) == request[r].phase = phase

Goto(r, phase) == request' = [request EXCEPT ![r].phase = phase]

(* The request is closed here, and its row written. *)
Close(r, s) == status' = [status EXCEPT ![r] = s] /\ Goto(r, "egress")

Provider(r) == Routes[request[r].at]
MappedModels(r) == Candidates(Provider(r), request[r].m)
MappedModel(r) == MappedModels(r)[request[r].candidate]
LastAttempt(r) == attempts[r][Len(attempts[r])]

(* shouldUseSmartMappingRetry; the first candidate is then the one that last *)
(* succeeded for some request, any of them, and otherwise the first one.    *)
Smart(r) == Provider(r) \in SmartMapping /\ Len(MappedModels(r)) > 1

StartCandidates(r) == IF Smart(r) THEN DOMAIN MappedModels(r) ELSE {1}

(* requestFailureStatusAndError *)
FailureStatus(r, disconnect) ==
  IF r \in cancelled /\ disconnect THEN "CANCELLED" ELSE "FAILED"

(* The first of the routes in matched that comes after n. *)
RouteAfter(matched, n) ==
  LET later == {k \in matched : k > n}
  IN  IF later = {} THEN Len(Routes) + 1 ELSE Min(later)

NextRoute(r) ==
  request' = [request EXCEPT ![r] =
    [@ EXCEPT !.phase = "route",
              !.at = RouteAfter(request[r].matched, request[r].at)]]

(* Match, and the row of the request. *)
Available(r) ==
  {n \in DOMAIN Routes : /\ ~IsAtLimit(Routes[n], maxConcurrency[Routes[n]])
                         /\ ~IsCooling(Routes[n], request[r].ct, request[r].m)}

RouteMatch(r) ==
  /\ At(r, "new")
  /\ IF Available(r) = {}
       THEN Close(r, "REJECTED")
       ELSE /\ status' = [status EXCEPT ![r] = "IN_PROGRESS"]
            /\ request' = [request EXCEPT ![r] =
                 [@ EXCEPT !.phase = "route", !.matched = Available(r),
                           !.at = RouteAfter(Available(r), 0)]]
  /\ UNCHANGED <<slotVars, sharedVars, attempts, cancelled>>

(* The head of the route loop; past its end all routes have failed. *)
StartRoute(r) ==
  /\ At(r, "route")
  /\ IF request[r].at > Len(Routes)
       THEN Close(r, "FAILED")
       ELSE /\ IF r \in cancelled
                 THEN Goto(r, "egress")
                 ELSE \E n \in StartCandidates(r) :
                        request' = [request EXCEPT ![r] =
                          [@ EXCEPT !.phase = "attempt", !.tries = 0,
                                    !.candidate = n]]
            /\ UNCHANGED status
  /\ UNCHANGED <<slotVars, sharedVars, attempts, cancelled>>

(* Faulty form of what follows: the quota is never looked at.              *)
QuotaIgnored(r) == FALSE

(***************************************************************************)
(* The head of the attempt loop, in the order of the code: retries used    *)
(* up, client gone, quota, slot.  A request format that cannot be          *)
(* converted also leads to the next route, before a slot is asked for.     *)
(***************************************************************************)
RetriesUsed(r) ==
  /\ request[r].tries > MaxRetries
  /\ Provider(r) \notin NoErrorCooldown

QuotaExhausted(r) == Provider(r) \in QuotaProviders /\ balance = 0

GiveUpProvider(r) ==
  /\ At(r, "attempt")
  /\ \/ RetriesUsed(r)
     \/ /\ r \notin cancelled
        /\ ~QuotaExhausted(r)
        /\ \/ IsAtLimit(Provider(r), maxConcurrency[Provider(r)])
           \/ SpokenType(Provider(r), request[r].ct) # request[r].ct
  /\ NextRoute(r)
  /\ UNCHANGED <<slotVars, sharedVars, status, attempts, cancelled>>

(* Faulty form: goes round the loop, getting nowhere, where it should return. *)
ContinueBeforeAttempt(r) ==
  /\ At(r, "attempt")
  /\ ~RetriesUsed(r)
  /\ \/ r \in cancelled /\ UNCHANGED <<request, status>>
     \/ r \notin cancelled /\ QuotaExhausted(r) /\ Close(r, "REJECTED")
  /\ UNCHANGED <<slotVars, sharedVars, attempts, cancelled>>

StopBeforeAttempt(r) ==
  /\ At(r, "attempt")
  /\ ~RetriesUsed(r)
  /\ \/ r \in cancelled /\ Goto(r, "egress") /\ UNCHANGED status
     \/ r \notin cancelled /\ QuotaExhausted(r) /\ Close(r, "REJECTED")
  /\ UNCHANGED <<slotVars, sharedVars, attempts, cancelled>>

StartAttempt(r) ==
  /\ At(r, "attempt")
  /\ ~RetriesUsed(r)
  /\ r \notin cancelled
  /\ ~QuotaExhausted(r)
  /\ Len(attempts[r]) < MaxAttempts
  /\ TryAcquire(r, Provider(r), maxConcurrency[Provider(r)])
  /\ attempts' = [attempts EXCEPT ![r] = Append(@,
       [p |-> Provider(r), model |-> MappedModel(r), status |-> "IN_PROGRESS"])]
  /\ Goto(r, "execute")
  /\ UNCHANGED <<maxConcurrency, sharedVars, status, cancelled>>

(***************************************************************************)
(* The adapter returns, and the slot is released before anything else; or  *)
(* it panics, and nothing but the slot is seen to.                         *)
(***************************************************************************)
Execute(r) ==
  /\ At(r, "execute")
  /\ Release(r)
  /\ \E o \in Errors(Provider(r), SpokenType(Provider(r), request[r].ct), MappedModel(r))
              \cup {Answer} :
       request' = [request EXCEPT ![r] =
         [@ EXCEPT !.phase = "settle",
                   !.outcome = IF o = Answer THEN o ELSE Adjusted(Provider(r), o)]]
  /\ UNCHANGED <<maxConcurrency, sharedVars, status, attempts, cancelled>>

(* Faulty form: the release is not deferred. *)
PanicWithSlot(r) ==
  /\ At(r, "execute")
  /\ Goto(r, "panicked")
  /\ UNCHANGED <<slotVars, sharedVars, status, attempts, cancelled>>

Panic(r) ==
  /\ At(r, "execute")
  /\ Release(r)
  /\ Goto(r, "panicked")
  /\ UNCHANGED <<maxConcurrency, sharedVars, status, attempts, cancelled>>

-----------------------------------------------------------------------------
(* DeductQuotaBalanceToZero, whatever the provider. *)
Deduct(r, cost) ==
  /\ balance' = IF cost < balance THEN balance - cost ELSE 0
  /\ overspent' = IF Provider(r) \in QuotaProviders /\ cost > balance
                    THEN overspent + (cost - balance) ELSE overspent

AttemptEnds(r, s) ==
  attempts' = [attempts EXCEPT ![r][Len(attempts[r])].status = s]

(* An answer: the attempt, the quota, RecordSuccess, the request. *)
Succeed(r) ==
  /\ At(r, "settle")
  /\ request[r].outcome = Answer
  /\ \E cost \in Costs : Deduct(r, cost)
  /\ AttemptEnds(r, "COMPLETED")
  /\ cooling' = cooling \ {[p  |-> Provider(r),
                            ct |-> SpokenType(Provider(r), request[r].ct),
                            m  |-> MappedModel(r)]}
  /\ Close(r, "COMPLETED")
  /\ UNCHANGED <<slotVars, origins, cancelled>>

(***************************************************************************)
(* An error: the attempt and the quota, then one of the exits of the code, *)
(* in its order: a response has begun, the client is gone, the request     *)
(* itself is at fault, the next route, another try.  NeverBegun is the     *)
(* faulty form of ResponseBegun: what reached the client is forgotten.     *)
(***************************************************************************)
NeverBegun(e) == FALSE

ResponseBegun(e) == e.committed /\ ~(e.kind = "proxy" /\ e.retryable /\ StreamRead(e))

RequestAtFault(e) == e.kind = "proxy" /\ e.scope = "request" /\ ~e.retryable

Ends(r, e) ==
  \/ ResponseBegun(e)
  \/ e.kind = "proxy" /\ r \in cancelled
  \/ RequestAtFault(e)

(* shouldDeferNetworkErrorCooldown *)
Deferred(r, e) ==
  WillRetry(e) /\ e.network /\ ~e.explicit /\ request[r].tries < MaxRetries

(* handleCooldown, unless it is skipped. *)
Cools(r, e) ==
  /\ e.kind = "proxy"
  /\ e.scope # "request"
  /\ Provider(r) \notin NoErrorCooldown
  /\ ~Deferred(r, e)

HandleCooldown(r, e) ==
  LET k == RecordedKey(Provider(r), request[r].ct, MappedModel(r), e)
  IN  IF Cools(r, e)
        THEN /\ cooling' = cooling \cup {k}
             /\ origins' = origins \cup
                  {[key |-> k, ct |-> request[r].ct, m |-> request[r].m]}
        ELSE UNCHANGED <<cooling, origins>>

Failing(r) ==
  /\ At(r, "settle")
  /\ request[r].outcome # Answer
  /\ \E cost \in Costs : Deduct(r, cost)
  /\ AttemptEnds(r, FailureStatus(r, request[r].outcome.disconnect))
  /\ UNCHANGED <<slotVars, cancelled>>

FailRequest(r) ==
  LET e == request[r].outcome
  IN  /\ Failing(r)
      /\ Ends(r, e)
      /\ Close(r, IF ResponseBegun(e) THEN "FAILED"
                                      ELSE FailureStatus(r, e.disconnect))
      /\ UNCHANGED <<cooling, origins>>

FailProvider(r) ==
  LET e == request[r].outcome
  IN  /\ Failing(r)
      /\ ~Ends(r, e)
      /\ ~WillRetry(e)
      /\ HandleCooldown(r, e)
      /\ NextRoute(r)
      /\ UNCHANGED status

(* Another try: with the next mapped model, after a wait, or, the retries   *)
(* used up, none.                                                           *)
NextCandidate(r) == (request[r].candidate % Len(MappedModels(r))) + 1

SwitchesModel(r) == Smart(r) /\ request[r].tries + 1 >= SmartRetryLimit

Waits(r) == request[r].tries < MaxRetries \/ Provider(r) \in NoErrorCooldown

FailAttempt(r) ==
  LET e == request[r].outcome
  IN  /\ Failing(r)
      /\ ~Ends(r, e)
      /\ WillRetry(e)
      /\ HandleCooldown(r, e)
      /\ request' = [request EXCEPT ![r] =
           IF SwitchesModel(r)
             THEN [@ EXCEPT !.phase = "attempt", !.tries = 0,
                            !.candidate = NextCandidate(r)]
             ELSE IF Waits(r) THEN [@ EXCEPT !.phase = "wait"]
             ELSE [@ EXCEPT !.phase = "attempt", !.tries = request[r].tries + 1]]
      /\ UNCHANGED status

(* The wait before a retry ends, or is cut short by the client's leaving. *)
RetryWait(r) ==
  /\ At(r, "wait")
  /\ \/ /\ request' = [request EXCEPT ![r] =
                         [@ EXCEPT !.phase = "attempt", !.tries = request[r].tries + 1]]
        /\ UNCHANGED status
     \/ /\ r \in cancelled
        /\ Close(r, FailureStatus(r, request[r].outcome.disconnect))
  /\ UNCHANGED <<slotVars, sharedVars, attempts, cancelled>>

(* Faulty form: an open row of the request is left to the sweep. *)
EgressLeavingRow(r) ==
  /\ At(r, "egress")
  /\ Goto(r, "done")
  /\ UNCHANGED <<slotVars, sharedVars, status, attempts, cancelled>>

(* egress closes what is still open; lastErr is the context's error then,  *)
(* which is not taken for a disconnect.                                    *)
Egress(r) ==
  /\ At(r, "egress")
  /\ Goto(r, "done")
  /\ status' = IF status[r] = "IN_PROGRESS" THEN [status EXCEPT ![r] = "FAILED"]
                                             ELSE status
  /\ IF attempts[r] # <<>> /\ LastAttempt(r).status = "IN_PROGRESS"
       THEN AttemptEnds(r, "FAILED")
       ELSE UNCHANGED attempts
  /\ UNCHANGED <<slotVars, sharedVars, cancelled>>

-----------------------------------------------------------------------------
(* The client leaves; a cooldown expires. *)
Cancel(r) ==
  /\ r \notin cancelled
  /\ ~At(r, "done")
  /\ cancelled' = cancelled \cup {r}
  /\ UNCHANGED <<slotVars, sharedVars, recordVars>>

Expire(k) ==
  /\ k \in cooling
  /\ cooling' = cooling \ {k}
  /\ UNCHANGED <<slotVars, balance, origins, overspent, recordVars, cancelled>>

Serve(r) ==
  \/ RouteMatch(r) \/ StartRoute(r)
  \/ GiveUpProvider(r) \/ StopBeforeAttempt(r) \/ StartAttempt(r)
  \/ Execute(r) \/ Succeed(r)
  \/ FailRequest(r) \/ FailProvider(r) \/ FailAttempt(r)
  \/ RetryWait(r) \/ Egress(r)

Next ==
  \/ \E r \in Requests : Serve(r) \/ Panic(r) \/ Cancel(r)
  \/ \E k \in cooling : Expire(k)

Spec == Init /\ [][Next]_vars

(* A request keeps going: adapters bound every call to the upstream, or end *)
(* it with the client's context.  Panics and departures are never owed.     *)
FairSpec == Spec /\ \A r \in Requests : WF_vars(Serve(r))

-----------------------------------------------------------------------------
(* The last attempt failed after the client had seen part of its response. *)
Committed(r) ==
  request[r].outcome \in Error /\ request[r].outcome.committed

Ended(r) == At(r, "done") \/ At(r, "panicked")

TriedWithoutLimit(r) ==
  /\ request[r].at \in request[r].matched
  /\ Provider(r) \in NoErrorCooldown

(* A request holds a slot exactly while its attempt is with the provider:  *)
(* none is leaked by an error, a panic or a client that leaves, and none   *)
(* is held over a wait.                                                    *)
SlotsFollowAttempts ==
  /\ CountsSessions
  /\ \A r \in Requests :
       ~grant[r].released <=> At(r, "execute")
  /\ \A r \in Requests : At(r, "execute") => grant[r].p = LastAttempt(r).p

(* However a request leaves the chain, short of a panic, its row and those *)
(* of its attempts are closed, and they tell the same story: it completed  *)
(* if and only if its last attempt did, and no earlier attempt did.        *)
RecordsAreClosed ==
  \A r \in Requests : At(r, "done") =>
    /\ status[r] \in Terminal
    /\ \A n \in DOMAIN attempts[r] :
         /\ attempts[r][n].status # "IN_PROGRESS"
         /\ attempts[r][n].status = "COMPLETED"
              <=> n = Len(attempts[r]) /\ status[r] = "COMPLETED"
    /\ status[r] = "COMPLETED" => attempts[r] # <<>>

(* Once part of a response has reached the client no other attempt is made *)
(* for the request, unless the upstream's stream broke off.                *)
NoSecondAnswer ==
  [][\A r \in Requests :
       Committed(r) /\ ~StreamRead(request[r].outcome)
         => Len(attempts'[r]) = Len(attempts[r])]_vars

(* What requests spend beyond the quota is bounded by the attempts that    *)
(* were under way when it ran out: one for each request.                   *)
OverspendBounded ==
  \A c \in Costs :
    (\A d \in Costs : d <= c) => overspent <= c * Cardinality(Requests)

(* While a cooldown that a request's failure caused is active, Match keeps *)
(* the same request from that provider (router.go, line 369).              *)
CooldownsAreSeen ==
  \A o \in origins : o.key \in cooling => IsCooling(o.key.p, o.ct, o.m)

(* Every request that was matched ends, whatever the providers answer,     *)
(* unless it stays with a provider whose DisableErrorCooldown makes the    *)
(* retries endless; there it ends when its client has left.                *)
RequestsEnd ==
  \A r \in Requests :
    /\ (~At(r, "new") ~> Ended(r)) \/ <>[]TriedWithoutLimit(r)
    /\ r \in cancelled ~> Ended(r)
=============================================================================
