------------------------------ MODULE Cooldown ------------------------------
(***************************************************************************)
(* The distributed cooldown manager: internal/cooldown/manager.go and      *)
(* events.go over the Redis store of store_redis.go and the tables of      *)
(* cooldown_repository.go and failure_count_repository.go.                 *)
(*                                                                         *)
(* Every server instance answers "is this provider cooling down?" from a   *)
(* table in its own memory.  Redis holds the shared table and, for each    *)
(* provider, a generation that counts the changes.  A mutation holds the   *)
(* manager's mutex from its first call to its last and goes                *)
(*     Redis table -> local table and database -> Redis generation, event  *)
(* while the Redis calls of other instances and of this instance's         *)
(* reloads, which hold no mutex, come in between.  A reload is started by  *)
(* an event or by a look-up whose throttle window has passed.              *)
(*                                                                         *)
(* Abstracted: the reasons map and log lines (shown, never decided on);    *)
(* SCAN with MGET or DEL of a provider, taken as one step; the clocks, as  *)
(* one; and lastGenSync: the two-second throttle of the look-ups decides   *)
(* when one of them compares generations, never what it does, so here any  *)
(* look-up may find the window over (as a failed mutation forces it to).   *)
(***************************************************************************)
EXTENDS FailureTracker, FiniteSets

CONSTANTS
  Readers,       \* goroutines that look cooldowns up
  Subscriber,    \* the goroutine that receives events, one per instance
  Writers,       \* instances that serve mutations
  Reloaders,     \* <<instance, thread>> pairs that run; a subscription may fail
  Crashing,      \* instances that may restart
  MutatedKeys,   \* keys the mutations name
  FailureScopes, \* scopes of the failures recorded
  Durations,     \* distances from now of an explicit end; 0 is the past
  Policy(_, _),  \* the duration for a reason and a failure count
  StoreOutcomes, \* results of Redis calls other than INCR: TRUE is success
  BumpOutcomes,  \* results of INCR
  DbOutcomes,    \* results of database calls
  MaxNow,        \* bound on the clock
  MaxOps         \* bound on mutations, clean-ups and restarts together

Threads == Readers \cup {Subscriber}

Subscribed == {i \in Instances : <<i, Subscriber>> \in Reloaders}

ASSUME CooldownAssumption ==
  /\ IsFiniteSet(Instances)
  /\ Writers \subseteq Instances
  /\ Crashing \subseteq Instances
  /\ Reloaders \subseteq Instances \X Threads
  /\ MutatedKeys \subseteq CooldownKey
  /\ FailureScopes \subseteq Scopes \ {"request"}
  /\ Durations \subseteq Nat
  /\ StoreOutcomes \subseteq BOOLEAN
  /\ BumpOutcomes \subseteq BOOLEAN
  /\ DbOutcomes \subseteq BOOLEAN
  /\ MaxNow \in Nat
  /\ MaxOps \in Nat
  /\ Subscriber \notin Readers

(* What MCProcess!DefaultsBlock finds of the policies of the program. *)
ASSUME PolicyAssumption ==
  \A r \in Reasons, n \in 1 .. MaxOps : Policy(r, n) \in Nat \ {0}

VARIABLES
  now,         \* the clock
  store,       \* Redis: cooldown entries
  storeGen,    \* Redis: generation of each provider
  cooldownDb,  \* the cooldowns table
  cooldowns,   \* per instance: Manager.cooldowns
  providerGen, \* per instance: Manager.providerGen
  mutation,    \* per instance: the mutation that holds m.mu, or Idle
  reload,      \* per instance and thread: the reload under way, or Idle
  events,      \* events in flight
  storeWrites, \* history: successful mutations of each provider's entries
  ops          \* history: mutations, clean-ups and restarts so far

localVars == <<cooldowns, providerGen>>
storeVars == <<store, storeGen, storeWrites>>
vars == <<now, storeVars, cooldownDb, localVars, mutation, reload, events,
          ops, failureVars>>

-----------------------------------------------------------------------------
Table == [CooldownKey -> Time]

NoTable == [k \in CooldownKey |-> NoCooldown]

KeysOf(p) == {k \in CooldownKey : k.p = p}

Idle == [phase |-> "idle"]

(***************************************************************************)
(* A mutation gives the entries of keys the value until: NoCooldown clears *)
(* them.  key is the key of the call.  announce is FALSE when Redis failed *)
(* to store a cooldown that the instance then keeps to itself.             *)
(***************************************************************************)
Mutation ==
  [phase : {"apply", "bump"}, key : CooldownKey, keys : SUBSET CooldownKey,
   until : Time, announce : BOOLEAN]

(***************************************************************************)
(* A reload of provider p: "check" compares generations, "list" reads the  *)
(* store, "install" takes the mutex and replaces the local entries.        *)
(***************************************************************************)
Reload ==
  [phase : {"check", "list", "install"}, p : Providers, gen : Nat,
   entries : Table]

Event == [to : Instances, p : Providers, gen : Nat]

TypeOK ==
  /\ FailureTypeOK
  /\ now \in Nat
  /\ store \in Table
  /\ storeGen \in [Providers -> Nat]
  /\ cooldownDb \in Table
  /\ cooldowns \in [Instances -> Table]
  /\ providerGen \in [Instances -> [Providers -> Nat]]
  /\ mutation \in [Instances -> Mutation \cup {Idle}]
  /\ reload \in [Instances -> [Threads -> Reload \cup {Idle}]]
  /\ events \in SUBSET Event
  /\ storeWrites \in [Providers -> Nat]
  /\ ops \in Nat

Init ==
  /\ FailureInit
  /\ now = 0
  /\ store = NoTable
  /\ storeGen = [p \in Providers |-> 0]
  /\ cooldownDb = NoTable
  /\ cooldowns = [i \in Instances |-> NoTable]
  /\ providerGen = [i \in Instances |-> [p \in Providers |-> 0]]
  /\ mutation = [i \in Instances |-> Idle]
  /\ reload = [i \in Instances |-> [t \in Threads |-> Idle]]
  /\ events = {}
  /\ storeWrites = [p \in Providers |-> 0]
  /\ ops = 0

-----------------------------------------------------------------------------
(* Redis commands (store_redis.go).                                        *)
Written(table, K, u) == [k \in CooldownKey |-> IF k \in K THEN u ELSE table[k]]

(* Set, DEL or the DEL of all keys of a provider: K gets the end u. *)
StoreWrite(p, K, u) ==
  /\ store' = Written(store, K, u)
  /\ storeWrites' = [storeWrites EXCEPT ![p] = @ + 1]
  /\ UNCHANGED storeGen

(* Faulty form: SET without the comparison. *)
NeverLater(k, u) == FALSE

(* setIfLaterScript: refused when the entry ends strictly later. *)
LaterInStore(k, u) == now < store[k] /\ store[k] > u

(* Faulty form: a pattern that misses the keys without a model. *)
ListModelKeys(p) ==
  [k \in CooldownKey |-> IF k.p = p /\ k.m # All THEN Unexpired(store, now)[k]
                                                ELSE NoCooldown]

ListByProvider(p) ==
  [k \in CooldownKey |-> IF k.p = p THEN Unexpired(store, now)[k]
                                    ELSE NoCooldown]

-----------------------------------------------------------------------------
(* Mutations.  Taking m.mu needs the instance to have none under way.      *)
Lockable(i) == mutation[i] = Idle

Begin(i) ==
  /\ i \in Writers
  /\ Lockable(i)
  /\ ops < MaxOps
  /\ ops' = ops + 1
  /\ UNCHANGED <<now, cooldownDb, cooldowns, providerGen, reload, events>>

Continue(i, k, K, u, announce) ==
  mutation' =
    [mutation EXCEPT ![i] = [phase |-> "apply", key |-> k, keys |-> K,
                             until |-> u, announce |-> announce]]

Abandon == UNCHANGED <<storeVars, mutation>>

(***************************************************************************)
(* The Redis step of a clear: a failed DEL ends the call, nothing changed. *)
(***************************************************************************)
ClearInStore(i, k, K, ok) ==
  IF ok THEN StoreWrite(k.p, K, NoCooldown) /\ Continue(i, k, K, NoCooldown, TRUE)
        ELSE Abandon

(* Faulty form: a failed write is announced. *)
SetAnnouncesFailure(i, k, u, ifLater, ok) ==
  CASE u <= now -> ClearInStore(i, k, {k}, ok)
    [] u > now /\ ~ok -> Continue(i, k, {k}, u, TRUE) /\ UNCHANGED storeVars
    [] u > now /\ ok /\ ifLater /\ LaterInStore(k, u) -> Abandon
    [] OTHER -> StoreWrite(k.p, {k}, u) /\ Continue(i, k, {k}, u, TRUE)

(***************************************************************************)
(* The Redis step of setCooldownLocked: an end that is not in the future   *)
(* clears the one key; a refused SetIfLater ends the call; a failed write  *)
(* continues unannounced.                                                  *)
(***************************************************************************)
SetInStore(i, k, u, ifLater, ok) ==
  CASE u <= now -> ClearInStore(i, k, {k}, ok)
    [] u > now /\ ~ok -> Continue(i, k, {k}, u, FALSE) /\ UNCHANGED storeVars
    [] u > now /\ ok /\ ifLater /\ LaterInStore(k, u) -> Abandon
    [] OTHER -> StoreWrite(k.p, {k}, u) /\ Continue(i, k, {k}, u, TRUE)

(***************************************************************************)
(* RecordFailure without an explicit end: count, ask the policy, never     *)
(* shorten.  A count stays below the bound on calls: the guard says so.    *)
(***************************************************************************)
RecordFailure(i, k, r, ok, dbOk) ==
  /\ Begin(i)
  /\ NextCount(i, k, r) <= MaxOps
  /\ IncrementFailure(i, k, r, dbOk)
  /\ SetInStore(i, k, now + Policy(r, NextCount(i, k, r)), TRUE, ok)

(***************************************************************************)
(* RecordFailure with the upstream's own end, and the administrator's      *)
(* SetCooldownUntil and SetCooldownDuration.                               *)
(***************************************************************************)
SetCooldownUntil(i, k, u, ok) ==
  /\ Begin(i)
  /\ SetInStore(i, k, u, FALSE, ok)
  /\ UNCHANGED failureVars

(* Faulty form: a success clears the whole provider. *)
SuccessClearsProvider(i, k, ok) ==
  /\ Begin(i)
  /\ k.ct # All /\ k.m # All
  /\ ClearInStore(i, k, KeysOf(k.p), ok)
  /\ UNCHANGED failureVars

(* RecordSuccess clears the one key of the request that succeeded. *)
RecordSuccess(i, k, ok) ==
  /\ Begin(i)
  /\ k.ct # All /\ k.m # All
  /\ ClearInStore(i, k, {k}, ok)
  /\ UNCHANGED failureVars

(* ClearCooldown of a provider-level key clears every key of the provider. *)
ClearCooldown(i, k, ok) ==
  /\ Begin(i)
  /\ ClearInStore(i, k, IF k.ct = All /\ k.m = All THEN KeysOf(k.p) ELSE {k}, ok)
  /\ UNCHANGED failureVars

(* UpdateCooldown: the quota reset time fetched after a failure. *)
UpdateCooldown(i, k, u, ok) ==
  IF u <= now THEN ClearCooldown(i, k, ok) ELSE SetCooldownUntil(i, k, u, ok)

(* Faulty form: a clear leaves the database row. *)
ApplyKeepingRow(i, dbOk) ==
  LET w == mutation[i]
  IN  /\ w.phase = "apply"
      /\ cooldowns' =
           [cooldowns EXCEPT ![i] = Written(cooldowns[i], w.keys, w.until)]
      /\ cooldownDb' = IF dbOk /\ w.until # NoCooldown
                         THEN Written(cooldownDb, w.keys, w.until) ELSE cooldownDb
      /\ IF w.until = NoCooldown THEN ResetOne(i, w.key, dbOk)
                                 ELSE UNCHANGED failureVars
      /\ mutation' = IF w.announce
                        THEN [mutation EXCEPT ![i].phase = "bump"]
                        ELSE [mutation EXCEPT ![i] = Idle]
      /\ UNCHANGED <<now, storeVars, providerGen, reload, events, ops>>

(***************************************************************************)
(* The local map and the database, after Redis.  A clear also resets the   *)
(* failure counts of the call's key.  An unannounced cooldown is done.     *)
(***************************************************************************)
Apply(i, dbOk) ==
  LET w == mutation[i]
  IN  /\ w.phase = "apply"
      /\ cooldowns' =
           [cooldowns EXCEPT ![i] = Written(cooldowns[i], w.keys, w.until)]
      /\ cooldownDb' = IF dbOk THEN Written(cooldownDb, w.keys, w.until)
                               ELSE cooldownDb
      /\ IF w.until = NoCooldown THEN ResetOne(i, w.key, dbOk)
                                 ELSE UNCHANGED failureVars
      /\ mutation' = IF w.announce
                        THEN [mutation EXCEPT ![i].phase = "bump"]
                        ELSE [mutation EXCEPT ![i] = Idle]
      /\ UNCHANGED <<now, storeVars, providerGen, reload, events, ops>>

(* Faulty form: the local generation advances although INCR failed. *)
BumpGuessing(i, ok) ==
  LET p == mutation[i].key.p
      newGen == providerGen[i][p] + 1
  IN  /\ mutation[i].phase = "bump"
      /\ mutation' = [mutation EXCEPT ![i] = Idle]
      /\ storeGen' = IF ok THEN [storeGen EXCEPT ![p] = @ + 1] ELSE storeGen
      /\ providerGen' = [providerGen EXCEPT ![i][p] = newGen]
      /\ events' = events \cup
           [to : Subscribed \ {i}, p : {p}, gen : {newGen}]
      /\ UNCHANGED <<now, store, storeWrites, cooldownDb, cooldowns, reload,
                     ops, failureVars>>

(***************************************************************************)
(* bumpAndPublishLocked: INCR, adopt the generation it returns, publish it *)
(* to the others that are subscribed.  If INCR fails nobody is told.       *)
(***************************************************************************)
BumpAndPublish(i, ok) ==
  LET p == mutation[i].key.p
      newGen == storeGen[p] + 1
  IN  /\ mutation[i].phase = "bump"
      /\ mutation' = [mutation EXCEPT ![i] = Idle]
      /\ IF ok
           THEN /\ storeGen' = [storeGen EXCEPT ![p] = newGen]
                /\ providerGen' = [providerGen EXCEPT ![i][p] = newGen]
                /\ events' = events \cup
                     [to : Subscribed \ {i}, p : {p}, gen : {newGen}]
           ELSE UNCHANGED <<storeGen, providerGen, events>>
      /\ UNCHANGED <<now, store, storeWrites, cooldownDb, cooldowns, reload,
                     ops, failureVars>>

(***************************************************************************)
(* CleanupExpired, every hour: drop expired entries here and in the        *)
(* database, reset their failure counts, then drop stale counts and reload *)
(* the rest.  D and stale are as in FailureTracker.                        *)
(***************************************************************************)
ExpiredKeys(i) ==
  {k \in CooldownKey : cooldowns[i][k] # NoCooldown /\ cooldowns[i][k] < now}

CleanupExpired(i, D, stale, dbOk) ==
  LET K == ExpiredKeys(i)
      kept == WithoutStale(ZeroedInDb(failureDb, D), stale)
  IN  /\ Lockable(i)
      /\ ops < MaxOps
      /\ ops' = ops + 1
      /\ ResetDeletes(i, K, D)
      /\ cooldowns' = [cooldowns EXCEPT ![i] = Without(cooldowns[i], K)]
      /\ IF dbOk
           THEN /\ cooldownDb' = Unexpired(cooldownDb, now)
                /\ failureDb' = kept
                /\ failureCounts' = [failureCounts EXCEPT ![i] = kept]
           ELSE /\ UNCHANGED cooldownDb
                /\ ResetFailures(i, K, D, FALSE)
      /\ UNCHANGED <<now, storeVars, providerGen, mutation, reload, events>>

-----------------------------------------------------------------------------
(* Reloads.  Their reads of Redis hold no mutex.                           *)
ReloadStep(i, t, next) ==
  /\ <<i, t>> \in Reloaders
  /\ reload' = [reload EXCEPT ![i][t] = next]
  /\ UNCHANGED <<now, storeVars, cooldownDb, mutation, ops, failureVars>>

(* syncProviderGeneration, first half: note the local generation. *)
SyncStart(i, t, p) ==
  /\ t \in Readers
  /\ reload[i][t] = Idle
  /\ Lockable(i)
  /\ ReloadStep(i, t, [phase |-> "check", p |-> p, gen |-> providerGen[i][p],
                       entries |-> NoTable])
  /\ UNCHANGED <<localVars, events>>

(* Second half: GET the generation; if it differs, reload towards it. *)
SyncCompare(i, t, ok) ==
  LET s == reload[i][t]
      differs == ok /\ storeGen[s.p] # s.gen
  IN  /\ s.phase = "check"
      /\ ReloadStep(i, t,
           IF differs THEN [s EXCEPT !.phase = "list", !.gen = storeGen[s.p]]
                      ELSE Idle)
      /\ UNCHANGED <<localVars, events>>

(* applyRemoteEvent: ignore what is not newer than the local generation. *)
ReceiveEvent(i, e) ==
  /\ e \in events
  /\ e.to = i
  /\ reload[i][Subscriber] = Idle
  /\ Lockable(i)
  /\ ReloadStep(i, Subscriber,
       IF e.gen <= providerGen[i][e.p]
         THEN Idle
         ELSE [phase |-> "list", p |-> e.p, gen |-> e.gen, entries |-> NoTable])
  /\ events' = events \ {e}
  /\ UNCHANGED localVars

(* reloadProvider, first half: read the store; an error ends it. *)
ReloadList(i, t, ok) ==
  LET s == reload[i][t]
  IN  /\ s.phase = "list"
      /\ ReloadStep(i, t,
           IF ok THEN [s EXCEPT !.phase = "install",
                                !.entries = ListByProvider(s.p)]
                 ELSE Idle)
      /\ UNCHANGED <<localVars, events>>

(* Faulty form: the generation is taken over even if it is an older one. *)
InstallAnyGeneration(i, t) ==
  LET s == reload[i][t]
  IN  /\ s.phase = "install"
      /\ Lockable(i)
      /\ cooldowns' =
           [cooldowns EXCEPT ![i] = Replaced(cooldowns[i], s.p, s.entries)]
      /\ providerGen' = [providerGen EXCEPT ![i][s.p] = s.gen]
      /\ ReloadStep(i, t, Idle)
      /\ UNCHANGED events

(***************************************************************************)
(* Second half, under m.mu: replace the entries; the generation only       *)
(* grows.  Reloads of one instance are not serialized, so these entries    *)
(* may be older than the ones they replace.                                *)
(***************************************************************************)
ReloadInstall(i, t) ==
  LET s == reload[i][t]
  IN  /\ s.phase = "install"
      /\ Lockable(i)
      /\ cooldowns' =
           [cooldowns EXCEPT ![i] = Replaced(cooldowns[i], s.p, s.entries)]
      /\ providerGen' = IF s.gen > providerGen[i][s.p]
                          THEN [providerGen EXCEPT ![i][s.p] = s.gen]
                          ELSE providerGen
      /\ ReloadStep(i, t, Idle)
      /\ UNCHANGED events

-----------------------------------------------------------------------------
(* The environment: time passes, Redis loses an event.                     *)
Tick ==
  /\ now < MaxNow
  /\ now' = now + 1
  /\ UNCHANGED <<storeVars, cooldownDb, localVars, mutation, reload, events,
                 ops, failureVars>>

LoseEvent(e) ==
  /\ e \in events
  /\ events' = events \ {e}
  /\ UNCHANGED <<now, storeVars, cooldownDb, localVars, mutation, reload, ops,
                 failureVars>>

(***************************************************************************)
(* A crash at any point, and the start-up of the next process:             *)
(* LoadFromDatabase fills the local map and the counts, SetCoordinator     *)
(* subscribes.  No generation is known.                                    *)
(***************************************************************************)
Restart(i, dbOk) ==
  /\ i \in Crashing
  /\ ops < MaxOps
  /\ ops' = ops + 1
  /\ cooldowns' = [cooldowns EXCEPT ![i] =
                     IF dbOk THEN Unexpired(cooldownDb, now) ELSE NoTable]
  /\ LoadFailures(i, dbOk)
  /\ providerGen' = [providerGen EXCEPT ![i] = [p \in Providers |-> 0]]
  /\ mutation' = [mutation EXCEPT ![i] = Idle]
  /\ reload' = [reload EXCEPT ![i] = [t \in Threads |-> Idle]]
  /\ events' = {e \in events : e.to # i}
  /\ UNCHANGED <<now, storeVars, cooldownDb>>

-----------------------------------------------------------------------------
(* Who calls what.                                                         *)
Fail(i) ==
  \E k \in MutatedKeys, sc \in FailureScopes, r \in Reasons,
     ok \in StoreOutcomes, dbOk \in DbOutcomes :
    RecordFailure(i, EffectiveKey(k.p, k.ct, k.m, sc), r, ok, dbOk)

Set(i) == \E k \in MutatedKeys, d \in Durations, ok \in StoreOutcomes :
  SetCooldownUntil(i, k, now + d, ok)

Update(i) == \E k \in MutatedKeys, d \in Durations, ok \in StoreOutcomes :
  UpdateCooldown(i, k, now + d, ok)

Succeed(i) == \E k \in MutatedKeys, ok \in StoreOutcomes :
  RecordSuccess(i, k, ok)

Clear(i) == \E k \in MutatedKeys, ok \in StoreOutcomes :
  ClearCooldown(i, k, ok)

Finish(i) ==
  /\ mutation[i] # Idle
  /\ \/ \E dbOk \in DbOutcomes : Apply(i, dbOk)
     \/ \E ok \in BumpOutcomes : BumpAndPublish(i, ok)

Cleanup(i) ==
  \E D \in SUBSET ExpiredKeys(i),
     stale \in SUBSET {f \in FailureKey : failureDb[f] > 0}, dbOk \in DbOutcomes :
    CleanupExpired(i, D, stale, dbOk)

Look(i, t) == \E p \in Providers : SyncStart(i, t, p)

Receive(i) == \E e \in events : ReceiveEvent(i, e)

ContinueReload(i, t) ==
  /\ reload[i][t] # Idle
  /\ \/ \E ok \in StoreOutcomes : SyncCompare(i, t, ok) \/ ReloadList(i, t, ok)
     \/ ReloadInstall(i, t)

Crash(i) == \E dbOk \in DbOutcomes : Restart(i, dbOk)

Next ==
  \/ \E i \in Instances :
       \/ Fail(i) \/ Set(i) \/ Update(i) \/ Succeed(i) \/ Clear(i)
       \/ Finish(i) \/ Cleanup(i)
       \/ \E t \in Threads : Look(i, t) \/ ContinueReload(i, t)
       \/ Receive(i) \/ Crash(i)
  \/ \E e \in events : LoseEvent(e)
  \/ Tick

Spec == Init /\ [][Next]_vars

(***************************************************************************)
(* A mutation and a reload that have begun run to their end: every Redis   *)
(* call they make has a timeout.  Requests keep looking the providers up,  *)
(* and every two seconds one of them compares generations.  Mutations,     *)
(* crashes and the delivery of an event are never owed.                    *)
(***************************************************************************)
Fairness ==
  \A i \in Instances :
    /\ WF_vars(Finish(i))
    /\ \A t \in Threads : WF_vars(Look(i, t)) /\ WF_vars(ContinueReload(i, t))

FairSpec == Spec /\ Fairness

-----------------------------------------------------------------------------
(* The abstract clock; mutations that still owe a generation; the end of a  *)
(* mutation; the client types and models a key stands for.                 *)
Clock == INSTANCE GenerationClock WITH version <- storeGen, known <- providerGen

Announcers(p) ==
  {i \in Instances : /\ mutation[i] # Idle
                     /\ mutation[i].announce
                     /\ mutation[i].key.p = p}

Applies(i) == mutation[i] # Idle /\ \E dbOk \in DbOutcomes : Apply(i, dbOk)

Covers(k, p, c, m) == k.p = p /\ k.ct \in {All, c} /\ k.m \in {All, m}

(* No instance believes in, is reloading towards, or has been told of a    *)
(* generation Redis has not reached: Redis is the only source of           *)
(* generations (events.go, bumpAndPublishLocked).                          *)
GenerationsComeFromRedis ==
  /\ \A i \in Instances, p \in Providers : providerGen[i][p] <= storeGen[p]
  /\ \A i \in Instances, t \in Threads :
       reload[i][t] # Idle => reload[i][t].gen <= storeGen[reload[i][t].p]
  /\ \A e \in events : e.gen <= storeGen[e.p]

(* The generations form a GenerationClock: versions only grow and local    *)
(* ones follow, whatever reloads, events, failed calls and restarts do in  *)
(* between.                                                                *)
ImplementsClock == Clock!ClockSpec

(* A generation is only ever bumped for a change that reached Redis: each  *)
(* bump made, and each one still to come from a mutation under way, has a  *)
(* Redis write of its own.  Were a failed write to bump, the peers would   *)
(* reload without the entry and drop their own (manager.go, branch 4; the  *)
(* handler's header comment, lines 262-264, promises that very bump).      *)
BumpsHaveWrites ==
  \A p \in Providers :
    storeGen[p] + Cardinality(Announcers(p)) <= storeWrites[p]

(* The failure policy never shortens what Redis blocks: no request that    *)
(* the shared table holds back is let through by one more failure.         *)
FailureKeepsBlocks ==
  [][\A i \in Instances : Fail(i) =>
       \A k \in CooldownKey : Unexpired(store, now)[k] <= store'[k]]_vars

(* What an instance answers to a request changes as a call asks for, and   *)
(* not otherwise: a cooldown holds back exactly the client types and       *)
(* models its key stands for, besides what was held back already; clearing *)
(* one, as a success does, lifts nothing that its key does not stand for   *)
(* or that a wider cooldown holds back; and the clean-up changes nothing.  *)
AnswersChangeAsAsked ==
  [][\A i \in Instances, p \in Providers, c \in ClientTypes, m \in Models :
       LET before == IsInCooldown(cooldowns[i], now, p, c, m)
           after == IsInCooldown(cooldowns'[i], now, p, c, m)
           set == now < mutation[i].until
           wider == \E k \in CooldownKey \ {mutation[i].key} :
                      /\ Covers(k, p, c, m) /\ now < cooldowns[i][k]
                      /\ mutation[i].key.m # All
       IN  /\ before # after =>
                Applies(i) /\ Covers(mutation[i].key, p, c, m) /\ (after <=> set)
           /\ Applies(i) /\ Covers(mutation[i].key, p, c, m) =>
                IF set THEN after ELSE wider => after]_cooldowns

(* The router's yes-or-no look-up and the look-up of the remaining time,   *)
(* which test different sets of keys, never disagree.                      *)
LookupsAgree ==
  \A i \in Instances, p \in Providers,
     c \in ClientTypes \cup {All}, m \in Models \cup {All} :
    IsInCooldown(cooldowns[i], now, p, c, m)
      <=> GetCooldownUntil(cooldowns[i], now, p, c, m) # NoCooldown

(* An instance at the generation of Redis, with no mutation under way      *)
(* anywhere, blocks exactly what Redis blocks.                             *)
UpToDateAgrees ==
  (\A i \in Instances : mutation[i] = Idle) =>
    \A i \in Instances, p \in Providers :
      providerGen[i][p] = storeGen[p] =>
        \A k \in KeysOf(p) :
          Unexpired(cooldowns[i], now)[k] = Unexpired(store, now)[k]

(* With no mutation under way the database, which a restart reads, holds   *)
(* the active cooldowns of Redis (manager.go, setCooldownLocked step 3).   *)
DatabaseFollowsRedis ==
  (\A i \in Instances : mutation[i] = Idle) =>
    Unexpired(cooldownDb, now) = Unexpired(store, now)

(* A table that thread t is about to install is not what Redis holds, and  *)
(* the instance already knows a later generation: another reload, or a     *)
(* mutation of its own, came in between (events.go, reloadProvider).       *)
Overtaken(i, t, p) ==
  LET s == reload[i][t]
  IN  /\ s # Idle
      /\ s.phase = "install"
      /\ s.p = p
      /\ s.gen < providerGen[i][p]
      /\ Unexpired(s.entries, now) # ListByProvider(p)

(* Even if every event is lost, each instance ends up blocking what Redis  *)
(* blocks of a provider, once its generation is g for good.  Excepted is   *)
(* the instance that comes to install an overtaken table at g: it never    *)
(* learns.  A table overtaken before g does no lasting harm.               *)
TablesConverge ==
  \A i \in Instances, p \in Providers, g \in 0 .. MaxOps :
    /\ <>[](storeGen[p] = g)
    /\ [](storeGen[p] = g => \A t \in Threads : ~Overtaken(i, t, p))
    => <>[](\A k \in KeysOf(p) :
             Unexpired(cooldowns[i], now)[k] = Unexpired(store, now)[k])
=============================================================================
