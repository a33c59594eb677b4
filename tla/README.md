# maxx in TLA+

maxx is a proxy in front of many AI providers. A client sends a request in one
of several API formats; the server picks a route, translates the request if it
has to, calls a provider, and falls over to the next one when that fails. Many
server instances may run against one database and one Redis. This directory
models the parts of maxx (`src/internal`, and `src/cmd/maxx/main.go` for the
shutdown) in which order, concurrency and failure decide whether it is correct.

Contents: [inventory](#inventory), [plan](#plan), [modules](#modules),
[runs](#runs), [fairness](#fairness), [proofs](#proofs),
[disagreements](#where-the-code-and-its-documentation-disagree),
[not modelled](#what-is-not-modelled).

## Inventory

| Component | State | Operations | Talks to | Hard behaviour |
|---|---|---|---|---|
| Cooldown manager (`cooldown/manager.go`, `events.go`, `store_redis.go`) | local table of cooldowns and of generations, Redis table and counters, `cooldowns` table | record failure or success, set, clear, look up, reload, clean up, load | Redis (KV, counters, pub/sub), database, executor, router, administrator | mutations hold a mutex, reloads read Redis without it; lost events; failing Redis calls; crashes between the writes |
| Failure tracker (`failure_tracker.go`) | counts in memory and in `failure_counts` | increment, reset, clean up, load | database, cooldown manager | absolute counts written by several instances; memory and table reset different keys |
| Cooldown policies, retry wait (`policy.go`, `executor.go`) | none | compute a duration | cooldown manager, dispatch | caps, first value, overflow |
| Provider limiter (`router/provider_limiter.go`) | sessions per provider | acquire, release, at limit? | router, dispatch, WebSocket sessions | releases called twice, limits that change under open sessions |
| HTTP dispatch (`executor/middleware_*.go`) | the request, its attempts, quota balance | match, attempt, retry, fail over, settle, close | router, limiter, cooldown manager, adapters, repositories | a dozen exits; the client leaves at any point; part of an answer already sent; endless retries; quota read before and deducted after |
| WebSocket dispatch (`handler/responses_websocket.go`, `executor/middleware_dispatch_websocket.go`, `adapter/provider/codex/websocket.go`) | a client's connection, upstream sessions in a store, a slot per session | begin a turn, reuse or dial a session, read events, time out, evict, prune, close | limiter, router, upstream | a session closed by five parties in any order; late answers; a full store |
| Format converter (`converter/`, `executor/converting_writer.go`) | the state of one stream: buffered line, open block, calls, what was added and sent | convert a chunk | adapters, clients | writes that cut an event; interleaved calls; numbering of blocks and items |
| Router (`router/router.go`) | adapter map | match, score, init / reconcile / refresh / remove adapters | provider and route caches, limiter, cooldowns | maps built from a snapshot and swapped in |
| Request tracker, shutdown (`core/request_tracker.go`, `cmd/maxx/main.go`) | counter, WaitGroup, flags, channel | add, done, graceful shutdown | ingress, signal handler, restart | check-then-add, dropped signals, two shutdowns |
| Ingress, large-upload admission (`handler/proxy.go`, `upload_limit.go`) | a semaphore with a queue | acquire with a waiting time, serve, release | tracker, executor | a slot held to the end of the request, through departures and a shutdown |
| Coordinator, heartbeat (`coordinator/`, `core/coordinator_setup.go`) | live instances in Redis | register, heartbeat, list the live, unregister; publish, subscribe, KV | Redis | drops; the expiry of a slow instance |
| Stale sweep, clean-up leader (`cmd/maxx/main.go`, `core/task.go`, `repository/sqlite/proxy_request.go`) | rows of requests and attempts | list the live, mark the stale, elect the least live identity, clean up | coordinator, database | a live request marked; a dead leader; failing calls |
| Usage statistics (`repository/sqlite/usage_stats.go`, `stats/pure.go`) | rows per minute, hour, day; attempts | aggregate, roll up, recalculate, retain, query | database, ticker of every instance | two aggregators; rows that arrive late; layers that overlap at a boundary |
| OAuth token refresh (`adapter/provider/codex/`, `handler/codex.go`, `service/codex_task.go`) | locks per account, token pairs in the row, the adapter's cache | lock, check, refresh, save | providers' rows, OAuth server | rotating tokens, a lock whose key changes, lost answers |
| Session cache, project waiter (`repository/cached/session.go`, `waiter/`, `service/admin.go`) | a session in the map of each server, in Redis and as a row; waiting requests | load, create, touch, wait, poll, bind, reject | database, Redis, administrator | three copies written one after the other; read-modify-write of the whole session |
| Sticky routing (`sticky/`) | session-to-provider bindings | get, set, delete | Redis, router, dispatch | bindings that outlive what they name |
| Cached repositories (`repository/cached/`) | copies of tables, per instance | read, write through, invalidate | database, pub/sub | invalidation racing a reload |
| Invite codes (`repository/sqlite/invite_code.go`) | uses | consume, roll back | database | use limit, double roll-back |
| Adapters, pricing, admin API, web UI, desktop, CLI | protocols, tables | translate, show, store | everything | left out, see below |

What makes each of them correct:

* *Cooldown manager*: what one instance learns about a failing provider reaches
  the others; nothing is blocked or let through beyond what a call names; a
  failure never shortens a block; generations are Redis's alone.
* *Failure tracker*: a restart brings back the counts that were there.
* *Policies and waits*: the documented formula, its cap, no zero cooldown.
* *Limiter*: the counter is the number of open sessions; the limit holds.
* *HTTP dispatch*: no slot leaks; every request ends with its rows closed; no
  second answer into a response; overspending is bounded; a
  provider that is cooling down because of a request is not given the same
  request.
* *WebSocket dispatch*: a slot per open session and no more; every open session
  is in somebody's hands; a turn hears its own answer only; it ends; nobody
  closes the session of another connection's turn.
* *Converter*: the client hears a stream of its own format, with everything the
  provider said, once and in order.
* *Tracker, ingress*: a shutdown waits for the answers of what was admitted,
  and returns; uploads are turned away only while the slots are really in use.
* *Sweep*: a dead instance's requests come to be failed, a live instance's are
  not; somebody always cleans up.
* *Statistics*: no attempt counts twice, and none is missing for good.
* *Token refresh*: one refresh of an account at a time, no token used twice,
  every caller returns.
* *Project waiter*: a request that waits learns of the binding.
* *Cached repositories, adapter map*: a change reaches every instance, and one
  that only follows the others agrees with the table.

`PROJECT.json` lists every component with its status and the hazards, each at
the line where it bites.

## Plan

Written and checked, in this order, the most important behaviour first:

1. `CooldownKeys`, `FailureTracker`, `Cooldown` with the abstract
   `GenerationClock`; `CooldownProofs`.
2. `CooldownPolicy`, `RetryBackoff`, and `Delays`, which puts them side by side;
   `ProcessProofs`.
3. `ProviderLimiter`; `ProviderLimiterProofs`.
4. `RequestTracker`.
5. `Dispatch`, which instantiates `ProviderLimiter` and uses `CooldownKeys`;
   `DispatchProofs`.
6. `StaleSweep`: registration, heartbeat, leader and sweep over the rows of
   requests; the promise of the RFC that only dead or stuck requests are swept;
   `SharedProofs`.
7. `UsageStats`: the statistics and their three queries; `UsageProofs`.
8. `Ingress`, which composes the large-upload admission with `RequestTracker`;
   `ProcessProofs`.
9. `TokenRefresh`: the refresh lock of OAuth tokens; `SharedProofs`.
10. `ResponsesSocket`: WebSocket sessions and turns; `SocketProofs`.
11. `StreamConversion`: the streaming converters.
12. `ProjectBinding`: the session cache under the project waiter;
    `SharingProofs`.
13. `CacheInvalidation`: the tables kept in memory, their announcements between
    instances, and the router's adapter map; `SharingProofs`.

Next:

14. Sticky bindings; the router's `Match` beyond its filter; invite codes; the
    clean-up of sessions with its delete events.
15. In `Cooldown`: Redis calls that time out after Redis applied them, and a
    Redis that loses its counters (`targetGen == 0` in `reloadProvider`).

## Modules

| Module | Models | State and actions |
|---|---|---|
| `CooldownKeys` | key space and look-ups | `CheckedKeys`, `IsInCooldown`, `GetCooldownUntil` as in `manager.go`; an empty client type or model is `All`, an absent entry ends at 0 |
| `FailureTracker` | `failure_tracker.go` and its table | counts per instance and in the table; a failed database call leaves the table |
| `Cooldown` | the distributed manager | `store`, `storeGen` are Redis; `cooldowns`, `providerGen` are the fields of `Manager`; `mutation[i]` is the holder of `m.mu` between its Redis write (`SetInStore`, `ClearInStore`), its local and database writes (`Apply`) and `BumpAndPublish`; `reload[i][t]` is a goroutine in `syncProviderGeneration` or `reloadProvider`; `events` are messages in flight |
| `GenerationClock` | the contract of the counters | versions only grow; an instance knows an old or current version, or forgets all |
| `CooldownPolicy` | `policy.go` | one failure after another of one reason |
| `RetryBackoff` | `calculateBackoff` | one wait after another; durations have `IntBits` bits and a float out of range converts to the least or the greatest one |
| `Delays` | the two of them | no state of its own |
| `ProviderLimiter` | `provider_limiter.go` | `inflight`; `grant[s]` is the release function a session holds, with its `sync.Once` |
| `RequestTracker` | `request_tracker.go` | one step per atomic operation, channel operation and WaitGroup call; `done[s]` is the goroutine in `wg.Wait` |
| `Ingress` (extends `RequestTracker`) | `ingress` of `proxy.go`, `upload_limit.go` | `stage` is where a working request is in the handler; `holding` and `queue` are the buffered channel and those blocked on it, served in turn |
| `Dispatch` | route match, dispatch, egress | `request[r]` is the position in the loops; a step runs from one use of shared state (slot, cooldown, quota, client's context) to the next; `status`, `attempts` are the rows |
| `ResponsesSocket` | `serveResponsesWebSocket`, the WebSocket dispatch loop, the Codex session store | `conn[c]` is the serve loop and its turn; `session[c, p]` is an upstream session: open, stored, queue of events, idle mark; `taken` are the slots. What the store removes under its lock is closed in the same step |
| `StreamConversion` | `ParseSSE`, eight `TransformChunk` functions, `writeStream` | `up` is the provider's side, `wire` what is not yet written, `buffer` the line that was cut, `ts` the rest of `TransformState`, `got` the client's parser; a write hands on any prefix of the wire |
| `StaleSweep` | heartbeat, sweep, leader election | `registered`, `left` are the sorted set and its scores; `task[i]` is the sweeper between reading the live instances and marking rows and attempts, `lead[i]` the clean-up; time in heartbeat intervals |
| `UsageStats` | aggregation, roll-up, recalculation, retention, three queries | rows per granularity and minute; `job` is what a worker has read and not yet written; time in minutes, hours and days scaled down |
| `TokenRefresh` | refresh by requests, the quota task and pages | `row`, `adapter` are the two copies of the account; `registry`, `entry` are `refreshLocks` with refcounts; `call[c]` is a goroutine between lock, check, send, answer, save, unlock and leave |
| `ProjectBinding` | session cache, waiter, bind and reject | `row`, `entry`, `local` are the three copies; `visit[t]` is a call between its look-ups and writes, `for` says on whose behalf |
| `CacheInvalidation` | seven cached repositories, `invalidation.go`, `ReconcileAdapters` | `entity` is the repository of the instance; `table`, `cache`, `adapters` are the copies; `admin[c]` is a call between the write, its own copy, the announcement and the adapter; `job[i]` is `Load` in the subscription or the main goroutine; what a call does is a record `Op` |
| `MCCooldown`, `MCDispatch`, `MCUsageStats` | instances for TLC | keys, policies, errors, thread sets, symmetry |
| `MCProcess`, `MCShared`, `MCExecutor`, `MCSharing` | several modules in one run | the part is chosen in the initial state and stays; the variables of the others are fixed there and never change. The parts have no state in common, so the run checks each part by itself: it is the union of their state spaces, not a product |
| `CooldownProofs`, `ProviderLimiterProofs`, `DispatchProofs`, `SocketProofs`, `ProcessProofs`, `SharedProofs`, `SharingProofs`, `UsageProofs` | theorems | see [proofs](#proofs) |

Conventions. A parameter `ok` or `dbOk` of an action is the outcome of the
Redis or database call it makes. A variable marked *history* in its
declaration is not in the code and decides nothing. A definition introduced as
a *faulty form* is no part of a specification: it is what its neighbour would
be with a plausible bug, and the run named with it in `PROJECT.json` finds the
property violated once it takes the neighbour's place.

In `Dispatch` the errors of adapters are records of what the executor
distinguishes (scope, retryable, status class, network, broken stream,
explicit end, part of the response sent, and the client type and model the error
names, if any). `MCDispatch` names the ones that
adapters produce: a refused connection, a stream that broke, an overloaded
model, a request that is at fault, a bad key, a client that left, a response cut
short, and an error that is no `ProxyError`; in run `sharing` one of the two providers
names what it was called with, the other one nothing. Slots, cooldowns and the quota are
the real shared state, so two requests suffice to make each of them contended.

In `UsageStats` what is assumed of the load and the machines is spelt out as
constants (`MaxLate`, `MaxStall`, `MaxDelay`, `MaxIdle`): how late a row
arrives, how long an aggregation takes, how far apart two of them and two
attempts are. `Alone` keeps aggregations and clean-ups out of a recalculation;
without it the recalculation is not exact (see the disagreements).
`StreamConversion` lets providers send whatever their format allows, and the
five oddities of `Copes` only towards clients whose converter copes with them.

## Runs

Passing runs. `MaxOps`, `MaxNow`, `MaxAttempts`, `MaxFailures`, `MaxTime`,
`MaxTurns`, `MaxPieces` and the like bound counters in the guards and end the
run, so no run checks for deadlock.

| Run | Instance | Shows | Why the bounds suffice |
|---|---|---|---|
| `cooldown_faults` | 2 instances, 1 provider, 1 key, 3 calls or crashes, any Redis call fails, any event is lost | generations form a clock and come from Redis alone, bumps have writes, failures never shorten a block | three operations allow a reload to overlap a mutation of either instance and a crash to come in between |
| `cooldown_levels` | 1 instance, 2 client types, keys of all four levels, 3 calls, time 0..3 | each call blocks or lifts exactly its scope; look-ups agree; clean-up changes no answer | a wide key, a narrow key and a call on either; ends at, before and after the clock |
| `cooldown_replica` | a writer and a follower with two reloading threads (its look-ups, and the subscription, whose events may be lost), failures of the whole provider, 1 key with a model, 3 calls | the follower's table converges, unless a table overtaken at the last generation comes to be installed; the database follows Redis | three generations, and two reloads at once, are enough to install towards one that is no longer current and to finish in either order |
| `process`: delays | all default policies and small ones around their caps, 24 failures; 54 retry configurations, 8 attempts | formulas and caps | the largest default cap is met at the 10th doubling; linear policies reach theirs after 60 or 120 failures, so small ones of the same kind have low caps |
| `process`: limiter | 4 sessions, 2 providers, limits 0, 1, 2 | the counter counts; the limit holds | more sessions than any limit; a limit lowered under open sessions |
| `process`: ingress | 3 requests, 1 shutdown, room for 1 signal, 1 upload slot | the shutdown waits for answers and returns; a queue means full slots | two of three signals are dropped; one upload holds, two wait |
| `process`: usage | 2 workers, hours of 6 and days of 12 minutes, a zone 6 minutes ahead, minutes 24 to 31, empty or with attempts in the two hours before, one more attempt, one failure or recalculation | no double count; an hour after the last attempt the totals of providers are exact; rows and answers become exact | two boundaries of hours and one of a day fall into the time; a mishap is made good by the next aggregation, which a second one would only repeat |
| `process`: stream | 8 pairs of formats, 3 pieces, call 1 freeform | well-formed streams, nothing lost, doubled or out of order | thinking, text and a call, or two interleaved calls with arguments, in every order; at most an event and a half on the wire. With 4 pieces (123 thousand states) nothing else appears |
| `shared`: sweep | 2 instances of which one may die, 1 request, a registration of 2 intervals, 2 of grace, stuck after 3, one failing call | orphans are failed, live requests spared, somebody cleans up | the failing call may be any one of register, list, mark, elect; ages reach every threshold |
| `shared`: refresh | 2 callers of every kind, 3 token pairs, 1 lost answer or failed save | one refresh at a time, no token used twice, callers return | the third pair is a refresh after one that waited for another |
| `executor`: HTTP | 1 request, 8 kinds of error, a plain provider and one that converts, maps to two models and retries without limit | rows closed, no second answer, every request ends | 5 attempts: both at the first provider and three at the other, one more than its models |
| `executor`: WebSocket | 2 connections, 2 providers with 1 slot, a store of 1, a queue of 1, 2 turns, answers of at most 2 events | slots owned, no session stranded, turns do not mix and end, sessions of turns are spared | every shared object is contended; the second turn meets what the first one left |
| `sharing`: dispatch | 2 requests, 2 providers, 1 slot each, quota 3 with costs 0 and 2 | slots, overspending, cooldowns | every shared object is contended; 4 attempts are all that `MaxRetries = 1` gives |
| `sharing`: binding | 2 servers, a request, a rejection, a binding, one write to Redis lost, time 0..1 | a binding through the waiter's own server is seen | one rejection that holds and one that has expired; the calls meet on one server or on two |
| `sharing`: cache | 2 instances, a row that exists and one that does not, 2 calls of any of 7 repositories, 1 crash, 1 failed reading, demotion or announcement | a change reaches every instance that no fault kept from it; an instance without changes of its own agrees with the table, adapters included | an announcement meets a reading under way on the other instance, which may be starting; both calls on one instance, or one on each |

Runs that find a disagreement, each with one property and a counterexample:
`cooldown_lost_update`, `dispatch_converted`, `usage_summary`,
`refresh_stale_key`, `binding_elsewhere`; the
[disagreements](#where-the-code-and-its-documentation-disagree) tell what they
show.

## Fairness

* `Cooldown!Fairness`: a mutation or reload that has begun continues, since
  its Redis calls carry timeouts and it waits only for a mutex; requests keep
  looking providers up, and every two seconds one look-up compares generations
  (`genSyncEvery`). New mutations, crashes and the delivery of events are never
  owed: convergence does not rest on any event.
* `Dispatch!FairSpec`: a request keeps going. An adapter bounds its calls or
  ends them with the client's context. Panics and departures are never owed, and
  a wait may always end by its timer. `RequestsEnd` excepts a request that stays
  for ever with a provider that has `DisableErrorCooldown`, which the code
  retries until the client leaves; once it has left there is no exception. The
  bound `MaxAttempts` stops such a request in front of its next attempt, where
  the client's leaving still ends it.
* `ResponsesSocket!SocketFairness`: the goroutine of a connection runs, the
  handshake has a deadline (`dialResponsesWebSocketSession`), and a read from
  an empty queue ends by the timer of the turn. That the upstream answers, that
  the client goes on or leaves, that idle sessions are pruned is never owed.
* `Ingress`: goroutines that can run do, and an admitted request is answered,
  gives up waiting for a slot, or is turned away; the deadline of the shutdown
  need not fire.
* `StaleSweep!SweepFairness`: time passes; the tickers of heartbeat, sweep and
  clean-up fire while their instance runs; the instances in `Lasting` start.
  That any other instance starts, stops or dies is not owed. Failing calls are
  finite in number (`MaxErrors`).
* `UsageStats!UsageFairSpec`: an aggregation that has begun goes on; time never
  has to pass.
* `TokenRefresh!RefreshFairness`: a caller goes on, since the OAuth client has a
  timeout; strongly fair `Lock`, as Go's mutex hands itself to a waiter that
  has starved.

## Proofs

Checked by TLAPS for every value of the constants that the named assumptions
allow (`CooldownAssumption`, `PolicyAssumption`, `AnyAssumption`,
`LimiterAssumption`, `RefreshAssumption`, `DispatchAssumption`,
`ErrorsAssumption`, `SocketAssumption`, `TrackerAssumption`,
`IngressAssumption`, `CacheAssumption`, `SweepAssumption`, `BindingAssumption`,
`PoliciesAssumption`, `ConfigsAssumption`, `UsageAssumption`).
They give constants their types, ask that what is counted is finite (sessions,
requests, connections, callers, the instances that owe a bump), that a client
type or model somebody asks for is not the empty one, that a policy of fixed
length has no cap, and that buckets of statistics fit into one another; TLC evaluates each of them
on a run. A hypothesis of a single theorem is stated in it and named below. None bounds how many instances, requests, rows
or routes there are, or what the adapters answer.

`ProviderLimiterProofs`. `CountsSessions` together with the type invariant is
inductive: an acquisition adds its session to `Live(p)` and one to the counter,
a first release takes it out again, a second one finds `released` set. The
cardinalities need the set of sessions to be finite. `LimitHolds` follows: a
session becomes live only through `TryAcquire`, whose guard compares the
counter, equal to the number of live sessions, with the limit.

`CooldownProofs`. The type invariant is proved action by action.
`GenerationsComeFromRedis` is inductive with it: every generation that is in a
table, in a reload or in an event was read from, or returned by, the counter,
which only grows. `ImplementsClock` maps each step of the manager to `Advance`
(a successful bump: it needs `GenerationsComeFromRedis` for nothing but typing,
since INCR returns the next version), to `Learn` (an install: here the
invariant is needed, because the version installed must lie between the known
one and the current one), to `Forget` (a restart) or to no step.
`FailureKeepsBlocks` needs the type invariant and `PolicyAssumption`: a policy
gives an end in the future, so `SetInStore` never takes its clearing branch, and
the comparison in the script keeps a later end. That the program's own policies
have this is `DefaultsAlwaysBlock` in `ProcessProofs`, for any number of failures.
`LookupsAgree` holds in every state with a well-typed table.

Three more theorems of `CooldownProofs` rest on `StepKinds`: every step either
begins a mutation (writing what it names to Redis, or failing to and then not
announcing it), is the next step of one, cleans up, restarts, ticks, or leaves Redis,
database and mutations alone. `BumpsHaveWrites` is inductive with `MutationInv`
(only an announced mutation gets to its bump): a beginning adds one announcer and
one write, a bump takes away one announcer for one generation, a crash takes one
away. `DatabaseFollowsRedis` has the hypothesis `LoneWriter`, one instance that
writes, whose Redis and database calls succeed and which does not crash; the
others may read, reload, clean up and restart, and INCR may fail. Its inductive
form `DatabaseInv` says where the two differ: exactly in the keys of a mutation
before its `Apply`, for which Redis already holds what will be written. Each part
of the hypothesis is needed: a second writer reverses the order, a failed write
and a crash leave the row behind. `AnswersChangeAsAsked` has the
hypothesis that nothing reloads or restarts, which take over what other instances were
asked; it needs `MutationInv` for the keys of a mutation, which are the
call's own or those of the whole provider.

`SharedProofs`, the refresh of tokens, for an account that is known from the start (`AccountKnown`:
the other case is the disagreement `refresh_stale_key` shows). All callers then
use one key, and `RefreshInv` is inductive: the entry registered for the key is
the one everybody between `Enlist` and `Leave` has; its `refcount` is their
number (so the set of callers must be finite) and its holder is whoever is
between `Lock` and `Unlock`; the other entries are free, of which `Enlist` finds
one when it needs one. So the mutex excludes, and `EntriesAreCounted`, which no
run checks, follows as well. What `TokensAreSpentOnce` needs
besides: the pair a caller sends is the row's, and the row is behind the
upstream only while its holder saves the next pair or because that was lost.

`DispatchProofs`. `DispatchInv` is inductive: for each request `Positioned` (it
is at one of the routes matched and at one of the models the provider maps to),
`Holding` (it has a grant that is not released exactly while its attempt is with
the provider), `Recorded` (every attempt row but the last is closed, the last one
is open until it is settled, and the row of the request agrees) and
`Uncommitted` (who goes on after part of a response was seen has had its
upstream's stream break off); and `CountsSessions` of the limiter, which
is not proved again: an acquisition and a release of dispatch are steps of
`ProviderLimiter`, whose lemmas are instantiated. `SlotsFollowAttempts`,
`RecordsAreClosed` and `NoSecondAnswer` follow. `OverspendBounded` needs
`QuotaInv`: once anything is overspent the quota is gone, and the excess is at
most the greatest cost times the number of requests that are not spending, so
that a request which is about to deduct has its own share still to come; the
number of requests alone would not be inductive. `PlainCooldownsAreSeen` proves
`CooldownsAreSeen` under `PlainRouting`, that no provider is spoken to in another
client type or under another model name, and `PlainErrors`, that an error names the
client type and the model of its call or none. `NamesInv` is inductive: the error a
request has in hand names, if anything, the type and model it was last called with, so
that `RecordedKey`, which prefers the error's own names as `handleCooldown` does, is
one of the keys `Match` looks up. Both hypotheses are the code's own limits: run
`dispatch_converted` refutes the property without the first, and the second fails
for errors of Codex streams (see the disagreements). The run `sharing` checks the
property with both.

`SocketProofs`. `SocketInv` is inductive: `SlotsAreOwned` (the slots taken of a
provider are its open sessions and the dials under way), and for every session
that it is quiet unless a turn reads it, that all there is to read then belongs to
that turn and what ends the turn is last, and that it is open only in the store
or between its dial and its being put there. Whoever closes a session takes it
out of the store in the same step, so a second close finds nothing to release.
`NoSessionIsStranded`, `TurnsDoNotMix` and, as an action property,
`BusySessionsAreSpared` follow: eviction and pruning choose among sessions with no
turn.

`ProcessProofs`, the delays. The recursive functions of policies and waits are
iterations of a function over the naturals (`TwoToIterates`, `DoubledIterates`,
`WaitIterates`, `IntervalIterates`). That such a function has values at all, and
which, is proved by the least number that would be an exception (`LeastNumber`),
since the library's recursion theorems take operators as parameters. What
`DelaysFollowDesign` says is then `DoublingIsCapped` and `WaitingIsCapped`: capping
at every step is capping once. Its two hypotheses are the code's own limits: the
first value is never capped by a policy, and always by `calculateBackoff`
(`StartsWithinCap`), and a wait that overflows before it is capped is the
disagreement named below (`NoWaitOverflows`).

`ProcessProofs`, the ingress. The counters of the tracker are cardinalities (`wg` of those
between Add's and Done's first step on it, `activeCount` of those at work); what a
shutdown has seen of the requests that were at work when the flag was set stays
true, since none of them can begin again (`EarlyInv`, `ShutdownInv`). With
`StageInv` (who holds a slot is being served, who left was answered) and
`QueueInv` (there is a queue only for full slots, and nobody is in it twice)
`IngressInv` is inductive and gives `WaitsForAnswers` and `QueueMeansFull`;
`CountersAreExact` is the part of it worth knowing by itself.

`SharingProofs`, the cached repositories. `ChangesArrive` speaks of quiet instances only; its
inductive form `ArrivalInv` says of every instance and row at any time that the
latest version has been seen or why it will be (`WillSee`): a fault is on record,
the instance is down, it was told, one of its goroutines is about to read or has
read the row as it is, or a change of the row is written and not announced yet.
`VersionsInv` (what anyone has read is no later than the table) and `LivesInv` (an
instance that is down hears nothing) are needed with it. `FollowersAgree` has
`FollowInv`: the copy of a follower is the table's, unless one of these reasons
holds, and *also* what its goroutine is about to install is the table as it is; the
adapters fit the copy except between a reading and the swap, and then those to be
swapped in do. Both refinements were found by failed proofs of weaker forms. A row is in
memory at most once on a follower, without which `ReconcileAdapters`, which compares
fingerprints only, would not restore the fit.

`SharedProofs`, the sweep. `LiveRequestsAreSpared` has the hypothesis `MaxStall < Grace`: a sweep
marks the rows sooner after its reading of the live instances than the minute
`deadInstanceGraceMillis` allows. `SweepInv` is inductive: a running instance is
registered or has not lived through a tick, so that its requests are all new (a
start whose registration failed serves before its first heartbeat); and an instance that
is missing from a list has no request older than the list. Without the second half the
first says nothing about a list read earlier; without the grace the sweep would
fail the requests of an instance that started since.

`SharingProofs`, the waiter. `OwnBindingsAreSeen` has `BindingInv`:
a call is only at places that fit what it is for (`Placed`), the administrator's
call carries the project from its look-up to the end of its write (`Binds`),
and while the others only wait nobody writes over what it put into its own server's
map. What expires in Redis does not matter there, which is why the
property stops at the server of the call (run `binding_elsewhere`).

`UsageProofs`. `SumFunction` is defined by recursion over subsets. What it returns
follows from `SmallestMember`: a non-empty family of subsets of a finite set
has a smallest member, so that a sum that were wrong would be wrong for a smallest set.
`OvercountInv` is inductive and gives `NeverOvercounts`: every raw attempt, every
row of every granularity, and every row a worker has yet to write counts no more than ended
in its bucket. Stale batches, failed ones and repeated roll-ups leave it true, since what
ended is never less later, and a roll-up adds up disjoint parts of its bucket (`SumOfUnion`).
For the three queries it is needed besides that the layers meet at the same
moments: the hypothesis `WholeHours` says that the zone is whole hours from UTC,
without which the hour rows straddle the border of a day (see the disagreements).
`QuietHourIsExact` needs the opposite bound, and that is a matter of time, stated as
`InTime`: an attempt that is stored late, and an aggregation that writes late,
stay within the minutes that are aggregated again (`MaxLate + MaxStall <= Overlap + 1`),
and what belongs to the hour is not cleaned up in it. `QuietInv` is inductive with
`OvercountInv`, as long as no aggregation failed: a minute of the last hour that the next
aggregation will not look at again (`Passed`) has its row, or a worker still has it to
write (`Known`); and what a worker has to write of such a minute is exact (`Exact`), so that
no overtaken batch can put an old count over a new one. The first form, without what
workers have to write, was not inductive. TLC agrees with both invariants on the instance
of run `process`.

Only model-checked: all liveness (`TablesConverge`, `ShutdownReturns`,
`RequestsEnd`, `TurnsEnd`, `TotalsSettle`, `OrphansAreFailed`,
`SomeoneCleansUp`, `CallersReturn`), since fairness and ENABLED are beyond the
prover; and the conversion of streams (`StreamsAreWellFormed`, `PiecesArrive`),
whose client is a recursive function over everything it got, for eight converters with
forms of their own.

## Where the code and its documentation disagree

With a run, whose counterexample shows it:

* `cooldown_lost_update`. `bumpAndPublishLocked` adopts the generation INCR
  returns even when it jumps over another instance's, whose change it has not
  loaded (`events.go:101`). From then on its table is stale and its generation
  says it is current. `manager.go:24-25` and `docs/multi-instance-rfc.md:131-132`
  promise convergence.
* `dispatch_converted`. A provider spoken to in another format, or with another
  model, records cooldowns under keys that `Match` never looks up
  (`router.go:370`, `executor.go:385`).
* `usage_summary`. In the first minute of an hour `queryAllWithRealtime` adds the
  attempts of the minute before, which the row of the closed hour already
  counts (`usage_stats.go:991`); its comment at line 885 promises disjoint
  layers, and `Query` avoids the overlap (lines 301-303).
* `refresh_stale_key`. The adapter computes the key of the refresh lock from the
  row it was built with (`codex/adapter.go:323`, `376`), which it goes on doing
  after the account id has been saved; the quota task and the pages then refresh
  the account under another lock. `refresh_lock.go:73-75` says this ends once
  the account id is set.
* `binding_elsewhere`. The waiter polls the session in its own server's map
  (`project_waiter.go:156`, `cached/session.go:232`), so a binding made through
  another instance is not seen until the request times out, although
  `project_waiter.go:82-83` promises to return once a project is assigned.

Met while modelling, without a run of their own. Where a constant or a property
is named, changing it as said shows the counterexample; the others were read
from the code, and the models are restricted so as not to depend on them.

*Cooldowns and dispatch*

* The reloads of one instance are not serialized, neither among each other nor with
  its mutations: the list is read without the mutex (`events.go:161-175`) and
  installed whatever was installed since, while `providerGen` keeps the later
  generation (`events.go:180-204`). A reload that listed first and installs last
  puts the older table back, and no later look-up reloads, since the generation
  says it is current: a block set by another instance is unseen, or a cleared
  one is back, until the provider's next change. `manager.go:24-25` promises
  convergence, and the comment at `events.go:152` that the whole operation is
  under the mutex. `TablesConverge` excepts exactly this case, `Overtaken`, at the
  last generation; without that conjunct TLC finds the case on
  `cooldown_replica`, with two reloads of the follower.
* The header comment of `setCooldownLocked` (`manager.go:262-264`) says that after a
  failed write the local generation is bumped and an event is tried, so that
  `syncProviderGeneration` reloads after recovery. The code does neither and says why
  in the branch itself (`manager.go:360-371`): a bump without a write would make the
  peers reload a table without the cooldown. `BumpsHaveWrites` states what the
  code does; what the header comment describes is `SetAnnouncesFailure`, the mutant
  of that property.
* Errors of Codex streams name the model the upstream reports
  (`codex/adapter.go:658-667`), and `handleCooldown` prefers it to the mapped one
  (`executor.go:376-383`). Where the two differ, the cooldown lies under a key that
  `Match` never looks up, without any conversion or mapping (`CooldownsAreSeen` on
  run `sharing`, with an error of `p2` that names another model).
* With two writers Redis and the database may be written in opposite orders, so
  the assumption at `manager.go:333-335` fails (`DatabaseFollowsRedis` with
  `Writers = {i1, i2}`).
* `ResetFailures` with an empty client type but a model resets that model only
  in memory, and every row of the provider in the table
  (`failure_tracker.go:101-109`, `failure_count_repository.go:81-85`).
* `calculateBackoff` converts before it caps (`executor.go:242`); out of range
  the wait becomes negative on amd64 and the retries no longer wait. Reachable
  where retries are endless (`FollowsDesign` with `IntBits = 8` and ten
  attempts, a scale model of the 64 bits).
* A broken stream is tried again after part of it was sent at every provider
  (`executor.go:451-455`, and the test
  `TestDispatchRetriesCommittedStreamReadErrorWhenErrorCooldownEnabled`), while
  the comment at `response_capture.go:86-88` names providers with
  `DisableErrorCooldown` only. `NoSecondAnswer` follows the code and the test.

*Shutdown*

* `Add` checks and joins in two steps (`request_tracker.go:32-36`): "All requests
  completed" may be logged while a request is about to work (`CleanMeansEmpty`
  as an invariant of `RequestTracker`).
* `GracefulShutdown` waits for the WaitGroup without its deadline after a signal
  that left nobody counted (`request_tracker.go:152`); a late request that does
  not end blocks it. A second `GracefulShutdown`, a signal during a restart,
  closes `shutdownCh` twice (`request_tracker.go:125`).

*Sweep and instances*

* The comment at `proxy_upstream_attempt.go:152-153` wants the sweep of attempts
  after every sweep of requests; the ticker in `main.go:308` sweeps requests
  only, so attempts stay open until the next start (`OrphanAttemptsEnd` as a
  property of the sweep).
* A live instance that was swept finishes its request and its `Update` writes
  the whole row over the FAILED one; an instance whose `Unregister` is followed
  by a heartbeat that was under way is registered again; the in-memory
  coordinator's `ListAliveInstances` knows its own instance only.

*Statistics*

* After an idle period the aggregation rolls up hours whose minute rows are
  partly deleted, and replaces complete hour rows, which `core/task.go:297`
  promises to keep for a month (`HourRowsAreKept`, with a `MaxIdle` greater than
  the minutes kept).
* A recalculation that overlaps the aggregator or the clean-up leaves sums that
  nothing corrects (`Alone = FALSE`); one that runs after raw attempts were
  deleted loses their history, and so does a first aggregation or a
  recalculation that is interrupted, since the next one starts from the latest
  minute written.
* Time zones that are not whole hours from UTC: the hour rows straddle the
  border of a day.

*Token refresh*

* A changed token whose answer is lost, or that is not saved, is gone: the next
  refresh sends a token already used (excepted in `TokensAreSpentOnce`). The
  lock is per process, so two instances do not exclude each other, nor do two
  provider rows of one account without an account id.
* An administrator's update of the provider that read the row before a refresh
  writes the old token back; a page's refresh overwrites the account id. A
  caller waiting for the lock cannot be cancelled.

*WebSocket sessions*

* The idle time of a session counts from the beginning of its last turn
  (`websocket.go:490`): after a turn of more than 65 minutes it may be pruned at
  once. A changed prompt cache key changes the fingerprint, and a turn that
  names a previous response is then refused with its session dropped.
* `CloseResponsesWebSocketConnection` reaches the session store through the
  adapters in the router's map (`router.go:601-616`). All Codex adapters share one
  store, so one of them suffices; a connection that closes after the last one was
  removed leaves its sessions open until the next put that prunes. `LeaveLoop` takes
  an adapter for granted, and `NoSessionIsStranded` with it.

*Streams*

* Five oddities which some providers show are handled towards the clients of
  `Copes` only; towards any other client `StreamsAreWellFormed` or
  `PiecesArrive` fails when they are allowed: `resumed` (text after a
  call, towards Codex: deltas after the item is done), `repeated` (Gemini),
  `whole` (arguments in one piece only, of Codex), `anonymous` (chunks without
  an id) and `unnamed` (a name that comes after the id) towards Claude. Of
  `anonymous` chunks `message_start` is sent at every one and
  no `message_stop`, against the comment at `openai_to_claude_stream.go:38`.
  The block of an `unnamed` call is opened with an empty name, which is never
  sent later (`openai_to_claude_stream.go:157-183`).
* Gemini to Claude: the arguments of a call are in the `input` of its
  `content_block_start` only, and no delta is sent
  (`gemini_to_claude_stream.go:113-130`). `PiecesArrive` accepts them there
  (`InInput`) and nowhere else; a reader that takes arguments from deltas alone, as
  the repository's own `claude_to_openai_stream.go:109` does, gets none, which is
  what TLC finds without `InInput`.
* Calls that are still open at the end are visited in the order of a Go map, which is
  random (`openai_to_gemini_stream.go:111`, `openai_to_claude_stream.go:228`).
  The model visits them in the order of their indices; no property depends on it.
* OpenAI to Codex: a second reasoning item has the id of the first.
* Codex to OpenAI: `[DONE]` is sent only if the provider sends it. Codex to
  Claude: `response.incomplete` and `response.failed` end nothing.
* `ParseSSE` loses what it holds when a chunk ends within the blank line (between
  CR and LF) or within an event of several data lines; adapters write whole
  lines, so the model cuts elsewhere.
* Codex to Gemini reads `delta` as an object and drops deltas that are strings.
  Claude to Gemini drops calls and thinking. Claude to OpenAI numbers calls with
  the index of the Claude block. Claude to Codex sends
  `response.output_item.delta` and `response.done`, which are no events of the
  Responses API; Gemini to Codex sends deltas without items and completes at
  `[DONE]` only, which Gemini does not send.

*Sessions*

* Every write is that of a whole session read before, and nothing compares: the
  waiter clears an expired rejection and loses a binding made in between
  (`project_waiter.go:109`); `RejectSession` and `UpdateSessionProject`
  overwrite each other; a late `Touch` puts an old session into Redis; a miss
  fills the map with an older session than another caller has just put there.
* `DeleteOlderThan` lists the keys and then deletes; a session that expires in
  between keeps its entry in Redis. Saving a session whose row was deleted
  creates it again.

*Caches*

* An instance ignores its own announcements (`invalidation.go:117`), but a reading
  of the whole table may be under way for another one: its list, read before the
  own change, is installed over it, and the change stays unseen by the instance
  that made it until somebody else changes something. This is why
  `FollowersAgree` asks for an instance without calls of its own; without that
  conjunct TLC finds the case.
* The same list, or a row put back by a look-up that read it before
  (`api_token.go:139`, `project.go:139`), keeps a deleted row in memory.
* `Create` of routes and model mappings appends without looking, so a reading in
  between leaves the row twice, and `Delete` removes the first copy alone
  (`route.go:53`, `82-87`).
* A configuration made the default whose second write fails
  (`retry_config.go:61`), and `Reorder`, `SeedDefaults` and `Reload` whose reading
  fails, leave a change written and not announced. A lost announcement is not
  repeated; the comment at `invalidation.go:65` says so.
* An update that read a provider before another caller deleted it writes the
  whole row back (`sqlite/provider.go:32-36`): the provider is there again.
* `ReconcileAdapters` swaps in a map built from an earlier snapshot
  (`router.go:202`): an adapter that `RefreshAdapter` or `RemoveAdapter` changed in
  between is undone.
* `DeductQuotaBalanceToZero` subtracts from the copy what a reading in between
  has already brought (`api_token.go:198-208`): the copy is too low until the next
  reading. Balances are not modelled; this is from reading the code.

## What is not modelled

By component, as in `PROJECT.json`:

* Left for later (steps 14 and 15 of the plan): sticky routing, invite codes, the
  scoring of routes, the clean-up of sessions.
* For good: what adapters say to their providers, prices, the administrator's
  CRUD, broadcasting to pages, user interfaces, the desktop and command-line
  programs, migrations. They are the greater part of the repository's lines
  (the largest files are request handlers, form validation, SQL for one
  request, protocol formats) and have no order of steps to explore; so the map
  covers a small share of all lines, and most lines of the components in which
  order, failure and concurrency decide.

Within the modelled components:

* In `Cooldown`: the reasons map (shown, never decided on), SCAN with MGET
  (a reload) or DEL (a clear of all keys) as several steps, the standalone store, differing clocks, a Redis call that
  fails after Redis applied it, Redis losing its counters. The throttle of
  look-ups is abstracted to any look-up may compare.
* In `Dispatch`: failing database calls (an ignored error leaves a row open
  until the sweep), the asynchronous cooldown update (an action of `Cooldown`),
  how long a cooldown or a wait lasts, stickiness and scoring of routes, token
  warming. A token's cached balance and its row are one balance.
* In `RequestTracker` and `Ingress`: the rest of `shutdownServer`, Go's panic for
  a WaitGroup reused while it is waited for, parsing and authentication.
* In `ResponsesSocket`: the rows, quota and cooldown of a turn (those of
  `Dispatch`), fingerprints, prompt cache keys, what frames contain, and an
  adapter removed while connections are open.
* In `StreamConversion`: whole requests and answers, usage and stop reasons, and
  the four pairs above that do not speak their client's format in full.
* In `UsageStats`: months, the cache of the dashboard, queries by dimension.
* In `StaleSweep`: the tickers for log retention, quotas and model lists, the
  in-memory coordinator, a subscription that reconnects.
* In `CacheInvalidation`: what is changed in place (positions of routes, balances,
  the time last seen), the second index by slug, token or default, failing
  writes, an adapter that cannot be built, a subscription that fails or
  reconnects, several tenants. Rows are versions; look-ups that miss are those
  of projects and tokens, the only ones that fill the copies.
* In `TokenRefresh`: the tokens of the other adapters (Antigravity, Claude,
  Kiro), which do not go through this lock.
* In `ProjectBinding`: the clean-up of sessions with its delete events, errors of
  the database, broadcasts to the administrator's page, and the project id
  written to past requests.
