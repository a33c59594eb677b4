--------------------------- MODULE CooldownProofs ---------------------------
(* Proofs about Cooldown, for any number of instances, providers, client   *)
(* types, models, failures, crashes and lost events.                       *)
EXTENDS Cooldown, FiniteSetTheorems, TLAPS

-----------------------------------------------------------------------------
(* The operators that build tables, keys and counts.                       *)
LEMMA WrittenType ==
  ASSUME NEW table \in Table, NEW K, NEW u \in Nat
  PROVE  Written(table, K, u) \in Table
BY DEF Written, Table, Time

LEMMA UnexpiredType ==
  ASSUME NEW table \in Table, NEW t
  PROVE  Unexpired(table, t) \in Table
BY DEF Unexpired, Table, Time, NoCooldown

LEMMA WithoutType ==
  ASSUME NEW table \in Table, NEW K
  PROVE  Without(table, K) \in Table
BY DEF Without, Table, Time, NoCooldown

LEMMA ReplacedType ==
  ASSUME NEW table \in Table, NEW entries \in Table, NEW p
  PROVE  Replaced(table, p, entries) \in Table
BY DEF Replaced, Table, Time

LEMMA NoTableType == NoTable \in Table
BY DEF NoTable, Table, Time, NoCooldown

LEMMA EffectiveKeyType ==
  ASSUME NEW k \in CooldownKey, NEW scope
  PROVE  EffectiveKey(k.p, k.ct, k.m, scope) \in CooldownKey
BY DEF EffectiveKey, CooldownKey

LEMMA CountsType ==
  ASSUME NEW counts \in Counts, NEW K
  PROVE  /\ ZeroedInMemory(counts, K) \in Counts
         /\ ZeroedInDb(counts, K) \in Counts
         /\ WithoutStale(counts, K) \in Counts
         /\ NoFailures \in Counts
BY DEF ZeroedInMemory, ZeroedInDb, WithoutStale, NoFailures, Counts

(* A failure counted, and a reset, leave counts.                           *)
LEMMA IncrementFailureType ==
  ASSUME FailureTypeOK, NEW i \in Instances, NEW k \in CooldownKey,
         NEW r \in Reasons, NEW dbOk, IncrementFailure(i, k, r, dbOk)
  PROVE  FailureTypeOK' /\ NextCount(i, k, r) \in Nat \ {0}
<1> DEFINE f == [key |-> k, reason |-> r]
<1>1. f \in FailureKey
  BY DEF FailureKey
<1>2. failureCounts[i] \in Counts /\ failureDb \in Counts
  BY DEF FailureTypeOK
<1>3. NextCount(i, k, r) \in Nat \ {0}
  BY <1>1, <1>2 DEF NextCount, Counts
<1>4. [failureCounts[i] EXCEPT ![f] = NextCount(i, k, r)] \in Counts
  BY <1>1, <1>2, <1>3 DEF Counts
<1>5. [failureDb EXCEPT ![f] = NextCount(i, k, r)] \in Counts
  BY <1>1, <1>2, <1>3 DEF Counts
<1>6. QED
  BY <1>2, <1>3, <1>4, <1>5 DEF FailureTypeOK, IncrementFailure

LEMMA ResetFailuresType ==
  ASSUME FailureTypeOK, NEW i \in Instances, NEW K, NEW D, NEW dbOk,
         ResetFailures(i, K, D, dbOk)
  PROVE  FailureTypeOK'
BY CountsType DEF FailureTypeOK, ResetFailures

-----------------------------------------------------------------------------
(* The Redis step of a mutation of one key, or of all keys of a provider.  *)
StoreOK ==
  /\ store \in Table
  /\ storeGen \in [Providers -> Nat]
  /\ storeWrites \in [Providers -> Nat]
  /\ mutation \in [Instances -> Mutation \cup {Idle}]

LEMMA ContinueType ==
  ASSUME mutation \in [Instances -> Mutation \cup {Idle}],
         NEW i \in Instances, NEW k \in CooldownKey, NEW K \in SUBSET CooldownKey,
         NEW u \in Nat, NEW announce \in BOOLEAN, Continue(i, k, K, u, announce)
  PROVE  mutation' \in [Instances -> Mutation \cup {Idle}]
<1>1. [phase |-> "apply", key |-> k, keys |-> K, until |-> u,
       announce |-> announce] \in Mutation
  BY DEF Mutation, Time
<1>2. QED
  BY <1>1 DEF Continue

LEMMA ClearInStoreType ==
  ASSUME StoreOK, NEW i \in Instances, NEW k \in CooldownKey,
         NEW K \in SUBSET CooldownKey, NEW ok, ClearInStore(i, k, K, ok)
  PROVE  StoreOK'
<1>1. CASE ok
  <2>1. k.p \in Providers /\ NoCooldown \in Nat
    BY DEF CooldownKey, NoCooldown
  <2>2. StoreWrite(k.p, K, NoCooldown) /\ Continue(i, k, K, NoCooldown, TRUE)
    BY <1>1 DEF ClearInStore
  <2>3. mutation' \in [Instances -> Mutation \cup {Idle}]
    BY <2>1, <2>2, ContinueType DEF StoreOK
  <2>4. QED
    BY <2>1, <2>2, <2>3, WrittenType DEF StoreOK, StoreWrite
<1>2. CASE ~ok
  BY <1>2 DEF ClearInStore, Abandon, StoreOK, storeVars
<1>3. QED
  BY <1>1, <1>2

(* The four outcomes of the Redis step of setCooldownLocked.               *)
LEMMA SetInStoreCases ==
  ASSUME NEW i, NEW k, NEW u \in Nat, NEW ifLater \in BOOLEAN, NEW ok \in BOOLEAN,
         now \in Nat, SetInStore(i, k, u, ifLater, ok)
  PROVE  \/ u <= now /\ ClearInStore(i, k, {k}, ok)
         \/ u > now /\ ~ok /\ Continue(i, k, {k}, u, FALSE) /\ UNCHANGED storeVars
         \/ u > now /\ Abandon
         \/ /\ u > now
            /\ ifLater => ~LaterInStore(k, u)
            /\ StoreWrite(k.p, {k}, u)
            /\ Continue(i, k, {k}, u, TRUE)
<1>1. CASE u <= now
  BY <1>1 DEF SetInStore
<1>2. CASE u > now /\ ~ok
  BY <1>2 DEF SetInStore
<1>3. CASE u > now /\ ok /\ ifLater /\ LaterInStore(k, u)
  BY <1>3 DEF SetInStore
<1>4. CASE u > now /\ ok /\ ~(ifLater /\ LaterInStore(k, u))
  BY <1>4 DEF SetInStore
<1>5. u <= now \/ u > now
  OBVIOUS
<1>6. QED
  BY <1>1, <1>2, <1>3, <1>4, <1>5, Zenon

LEMMA SetInStoreType ==
  ASSUME StoreOK, NEW i \in Instances, NEW k \in CooldownKey, NEW u \in Nat,
         NEW ifLater \in BOOLEAN, NEW ok \in BOOLEAN, now \in Nat,
         SetInStore(i, k, u, ifLater, ok)
  PROVE  StoreOK'
<1>1. CASE ClearInStore(i, k, {k}, ok)
  BY <1>1, ClearInStoreType
<1>2. CASE Continue(i, k, {k}, u, FALSE) /\ UNCHANGED storeVars
  BY <1>2, ContinueType DEF StoreOK, storeVars
<1>3. CASE Abandon
  BY <1>3 DEF Abandon, StoreOK, storeVars
<1>4. CASE StoreWrite(k.p, {k}, u) /\ Continue(i, k, {k}, u, TRUE)
  <2>1. k.p \in Providers
    BY DEF CooldownKey
  <2>2. mutation' \in [Instances -> Mutation \cup {Idle}]
    BY <1>4, ContinueType DEF StoreOK
  <2>3. QED
    BY <1>4, <2>1, <2>2, WrittenType DEF StoreOK, StoreWrite
<1>5. QED
  BY SetInStoreCases, <1>1, <1>2, <1>3, <1>4

-----------------------------------------------------------------------------
(* Type correctness, one lemma for the calls that begin a mutation and one *)
(* for each other action.                                                  *)
LEMMA BeginType ==
  ASSUME TypeOK, NEW i, Begin(i), StoreOK', FailureTypeOK'
  PROVE  TypeOK'
BY DEF TypeOK, Begin, StoreOK

LEMMA FailType ==
  ASSUME TypeOK, NEW i \in Instances, Fail(i)
  PROVE  TypeOK'
<1>1. PICK k \in MutatedKeys, sc \in FailureScopes, r \in Reasons,
           ok \in StoreOutcomes, dbOk \in DbOutcomes :
        RecordFailure(i, EffectiveKey(k.p, k.ct, k.m, sc), r, ok, dbOk)
  BY DEF Fail
<1> DEFINE key == EffectiveKey(k.p, k.ct, k.m, sc)
           n == NextCount(i, key, r)
<1>2. key \in CooldownKey
  BY EffectiveKeyType, CooldownAssumption
<1> HIDE DEF key
<1>3. /\ Begin(i)
      /\ n <= MaxOps
      /\ IncrementFailure(i, key, r, dbOk)
      /\ SetInStore(i, key, now + Policy(r, n), TRUE, ok)
  BY <1>1 DEF RecordFailure, key
<1>4. FailureTypeOK' /\ n \in Nat \ {0}
  BY <1>2, <1>3, IncrementFailureType DEF TypeOK
<1>5. now + Policy(r, n) \in Nat
  <2>1. n \in 1 .. MaxOps
    BY <1>3, <1>4, CooldownAssumption
  <2>2. Policy(r, n) \in Nat
    BY <2>1, PolicyAssumption
  <2>3. QED
    BY <2>2 DEF TypeOK
<1>6. StoreOK'
  <2>1. ok \in BOOLEAN
    BY CooldownAssumption
  <2>2. StoreOK /\ now \in Nat
    BY DEF StoreOK, TypeOK
  <2>3. QED
    BY <1>2, <1>3, <1>5, <2>1, <2>2, SetInStoreType
<1>7. QED
  BY <1>3, <1>4, <1>6, BeginType

LEMMA SetCooldownUntilType ==
  ASSUME TypeOK, NEW i \in Instances, NEW k \in CooldownKey, NEW u \in Nat,
         NEW ok \in BOOLEAN, SetCooldownUntil(i, k, u, ok)
  PROVE  TypeOK'
<1>1. StoreOK'
  <2>1. StoreOK /\ now \in Nat
    BY DEF StoreOK, TypeOK
  <2>2. QED
    BY <2>1, SetInStoreType DEF SetCooldownUntil
<1>2. FailureTypeOK'
  BY DEF SetCooldownUntil, failureVars, TypeOK, FailureTypeOK
<1>3. QED
  BY <1>1, <1>2, BeginType DEF SetCooldownUntil

LEMMA ClearType ==
  ASSUME TypeOK, NEW i \in Instances, NEW k \in CooldownKey,
         NEW K \in SUBSET CooldownKey, NEW ok,
         Begin(i), ClearInStore(i, k, K, ok), UNCHANGED failureVars
  PROVE  TypeOK'
<1>1. StoreOK'
  <2>1. StoreOK
    BY DEF StoreOK, TypeOK
  <2>2. QED
    BY <2>1, ClearInStoreType
<1>2. FailureTypeOK'
  BY DEF failureVars, TypeOK, FailureTypeOK
<1>3. QED
  BY <1>1, <1>2, BeginType

LEMMA ClearCooldownType ==
  ASSUME TypeOK, NEW i \in Instances, NEW k \in CooldownKey, NEW ok,
         ClearCooldown(i, k, ok)
  PROVE  TypeOK'
<1> DEFINE K == IF k.ct = All /\ k.m = All THEN KeysOf(k.p) ELSE {k}
<1>1. K \in SUBSET CooldownKey
  BY DEF KeysOf
<1>2. Begin(i) /\ ClearInStore(i, k, K, ok) /\ UNCHANGED failureVars
  BY DEF ClearCooldown
<1> HIDE DEF K
<1>3. QED
  BY <1>1, <1>2, ClearType

LEMMA ApplyType ==
  ASSUME TypeOK, NEW i \in Instances, NEW dbOk, Apply(i, dbOk)
  PROVE  TypeOK'
<1> DEFINE w == mutation[i]
<1>1. w \in Mutation
  BY DEF TypeOK, Apply, Idle
<1>2. w.until \in Nat /\ w.keys \in SUBSET CooldownKey /\ w.key \in CooldownKey
  BY <1>1 DEF Mutation, Time
<1>3. cooldowns' \in [Instances -> Table]
  BY <1>2, WrittenType DEF TypeOK, Apply
<1>4. cooldownDb' \in Table
  BY <1>2, WrittenType DEF TypeOK, Apply
<1>5. FailureTypeOK'
  <2>1. CASE w.until = NoCooldown
    BY <2>1, ResetFailuresType DEF TypeOK, Apply, ResetOne
  <2>2. CASE w.until # NoCooldown
    BY <2>2 DEF TypeOK, Apply, FailureTypeOK, failureVars
  <2>3. QED
    BY <2>1, <2>2
<1>6. mutation' \in [Instances -> Mutation \cup {Idle}]
  <2>1. [w EXCEPT !.phase = "bump"] \in Mutation
    BY <1>1 DEF Mutation
  <2>2. QED
    BY <2>1 DEF TypeOK, Apply
<1>7. QED
  BY <1>3, <1>4, <1>5, <1>6 DEF TypeOK, Apply, storeVars

LEMMA BumpAndPublishType ==
  ASSUME TypeOK, NEW i \in Instances, NEW ok, BumpAndPublish(i, ok)
  PROVE  TypeOK'
<1> DEFINE p == mutation[i].key.p
           newGen == storeGen[p] + 1
<1>1. mutation[i] \in Mutation
  BY DEF TypeOK, BumpAndPublish, Idle
<1>2. p \in Providers
  BY <1>1 DEF Mutation, CooldownKey
<1>3. newGen \in Nat
  BY <1>2 DEF TypeOK
<1>4. [to : Subscribed \ {i}, p : {p}, gen : {newGen}] \subseteq Event
  BY <1>2, <1>3 DEF Event, Subscribed
<1>5. events' \in SUBSET Event
  BY <1>4 DEF TypeOK, BumpAndPublish
<1>6. storeGen' \in [Providers -> Nat]
  BY <1>2, <1>3 DEF TypeOK, BumpAndPublish
<1>7. providerGen' \in [Instances -> [Providers -> Nat]]
  BY <1>2, <1>3, SMTT(30) DEF TypeOK, BumpAndPublish
<1>8. mutation' \in [Instances -> Mutation \cup {Idle}]
  BY DEF TypeOK, BumpAndPublish
<1>9. FailureTypeOK'
  BY DEF TypeOK, BumpAndPublish, FailureTypeOK, failureVars
<1>10. QED
  BY <1>5, <1>6, <1>7, <1>8, <1>9 DEF TypeOK, BumpAndPublish

LEMMA CleanupType ==
  ASSUME TypeOK, NEW i \in Instances, Cleanup(i)
  PROVE  TypeOK'
<1>1. PICK D, stale, dbOk : CleanupExpired(i, D, stale, dbOk)
  BY DEF Cleanup
<1>2. cooldowns' \in [Instances -> Table]
  BY <1>1, WithoutType DEF TypeOK, CleanupExpired
<1>3. cooldownDb' \in Table /\ FailureTypeOK'
  <2>1. CASE dbOk
    <3>1. WithoutStale(ZeroedInDb(failureDb, D), stale) \in Counts
      BY CountsType DEF TypeOK, FailureTypeOK
    <3>2. FailureTypeOK'
      BY <1>1, <2>1, <3>1 DEF TypeOK, FailureTypeOK, CleanupExpired
    <3>3. QED
      BY <1>1, <2>1, <3>2, UnexpiredType DEF TypeOK, CleanupExpired
  <2>2. CASE ~dbOk
    BY <1>1, <2>2, ResetFailuresType DEF TypeOK, CleanupExpired
  <2>3. QED
    BY <2>1, <2>2
<1>4. QED
  BY <1>1, <1>2, <1>3 DEF TypeOK, CleanupExpired, storeVars

(* A step of a reload puts its next state in place.                        *)
ReloadOK == reload \in [Instances -> [Threads -> Reload \cup {Idle}]]

LEMMA ReloadStepType ==
  ASSUME TypeOK, NEW i \in Instances, NEW t \in Threads,
         NEW next \in Reload \cup {Idle}, ReloadStep(i, t, next),
         cooldowns' \in [Instances -> Table],
         providerGen' \in [Instances -> [Providers -> Nat]],
         events' \in SUBSET Event
  PROVE  TypeOK'
<1>1. FailureTypeOK'
  BY DEF TypeOK, ReloadStep, FailureTypeOK, failureVars
<1>2. ReloadOK'
  BY DEF TypeOK, ReloadStep, ReloadOK
<1>3. QED
  BY <1>1, <1>2 DEF TypeOK, ReloadStep, ReloadOK, storeVars

LEMMA ReloadAt ==
  ASSUME TypeOK, NEW i \in Instances, NEW t \in Threads, reload[i][t] # Idle
  PROVE  /\ reload[i][t] \in Reload
         /\ reload[i][t].p \in Providers
         /\ reload[i][t].gen \in Nat
         /\ reload[i][t].entries \in Table
BY DEF TypeOK, Reload

LEMMA LookType ==
  ASSUME TypeOK, NEW i \in Instances, NEW t \in Threads, Look(i, t)
  PROVE  TypeOK'
<1>1. PICK p \in Providers : SyncStart(i, t, p)
  BY DEF Look
<1> DEFINE next == [phase |-> "check", p |-> p, gen |-> providerGen[i][p],
                    entries |-> NoTable]
<1>2. next \in Reload
  BY NoTableType DEF Reload, TypeOK
<1>3. ReloadStep(i, t, next) /\ UNCHANGED <<localVars, events>>
  BY <1>1 DEF SyncStart
<1> HIDE DEF next
<1>4. QED
  BY <1>2, <1>3, ReloadStepType DEF TypeOK, localVars

LEMMA SyncCompareType ==
  ASSUME TypeOK, NEW i \in Instances, NEW t \in Threads, NEW ok \in BOOLEAN,
         SyncCompare(i, t, ok)
  PROVE  TypeOK'
<1> DEFINE s == reload[i][t]
           going == [s EXCEPT !.phase = "list", !.gen = storeGen[s.p]]
<1>1. s # Idle
  BY DEF SyncCompare, Idle
<1>2. s \in Reload /\ s.p \in Providers
  BY <1>1, ReloadAt
<1>3. going \in Reload
  BY <1>2 DEF TypeOK, Reload
<1>4. /\ ReloadStep(i, t, going) \/ ReloadStep(i, t, Idle)
      /\ UNCHANGED <<localVars, events>>
  BY DEF SyncCompare
<1> HIDE DEF going
<1>5. QED
  BY <1>3, <1>4, ReloadStepType DEF TypeOK, localVars

LEMMA ReloadListType ==
  ASSUME TypeOK, NEW i \in Instances, NEW t \in Threads, NEW ok \in BOOLEAN,
         ReloadList(i, t, ok)
  PROVE  TypeOK'
<1> DEFINE s == reload[i][t]
           read == [s EXCEPT !.phase = "install", !.entries = ListByProvider(s.p)]
<1>1. s # Idle
  BY DEF ReloadList, Idle
<1>2. s \in Reload
  BY <1>1, ReloadAt
<1>3. ListByProvider(s.p) \in Table
  BY UnexpiredType DEF TypeOK, ListByProvider, Table, Time, NoCooldown
<1>4. read \in Reload
  BY <1>2, <1>3 DEF Reload
<1>5. /\ ReloadStep(i, t, read) \/ ReloadStep(i, t, Idle)
      /\ UNCHANGED <<localVars, events>>
  BY DEF ReloadList
<1> HIDE DEF read
<1>6. QED
  BY <1>4, <1>5, ReloadStepType DEF TypeOK, localVars

LEMMA ReloadInstallType ==
  ASSUME TypeOK, NEW i \in Instances, NEW t \in Threads, ReloadInstall(i, t)
  PROVE  TypeOK'
<1> DEFINE s == reload[i][t]
<1>1. s # Idle
  BY DEF ReloadInstall, Idle
<1>2. s.p \in Providers /\ s.gen \in Nat /\ s.entries \in Table
  BY <1>1, ReloadAt
<1>3. cooldowns' \in [Instances -> Table]
  BY <1>2, ReplacedType DEF TypeOK, ReloadInstall
<1>4. providerGen' \in [Instances -> [Providers -> Nat]]
  BY <1>2 DEF TypeOK, ReloadInstall
<1>5. ReloadStep(i, t, Idle) /\ UNCHANGED events
  BY DEF ReloadInstall
<1>6. QED
  BY <1>3, <1>4, <1>5, ReloadStepType DEF TypeOK

LEMMA ReceiveType ==
  ASSUME TypeOK, NEW i \in Instances, Receive(i)
  PROVE  TypeOK'
<1>1. PICK e \in events : ReceiveEvent(i, e)
  BY DEF Receive
<1> DEFINE next == [phase |-> "list", p |-> e.p, gen |-> e.gen,
                    entries |-> NoTable]
<1>2. e.p \in Providers /\ e.gen \in Nat
  BY DEF TypeOK, Event
<1>3. next \in Reload
  BY <1>2, NoTableType DEF Reload
<1>4. /\ ReloadStep(i, Subscriber, next) \/ ReloadStep(i, Subscriber, Idle)
      /\ UNCHANGED localVars
      /\ events' = events \ {e}
  BY <1>1 DEF ReceiveEvent
<1>5. Subscriber \in Threads
  BY DEF Threads
<1> HIDE DEF next
<1>6. QED
  BY <1>3, <1>4, <1>5, ReloadStepType DEF TypeOK, localVars

LEMMA CrashType ==
  ASSUME TypeOK, NEW i \in Instances, Crash(i)
  PROVE  TypeOK'
<1>1. PICK dbOk : Restart(i, dbOk)
  BY DEF Crash
<1>2. cooldowns' \in [Instances -> Table]
  BY <1>1, UnexpiredType, NoTableType DEF TypeOK, Restart
<1>3. FailureTypeOK'
  BY <1>1, CountsType DEF TypeOK, FailureTypeOK, Restart, LoadFailures
<1>4. /\ providerGen' \in [Instances -> [Providers -> Nat]]
      /\ mutation' \in [Instances -> Mutation \cup {Idle}]
      /\ reload' \in [Instances -> [Threads -> Reload \cup {Idle}]]
      /\ events' \in SUBSET Event
  BY <1>1 DEF TypeOK, Restart
<1>5. QED
  BY <1>1, <1>2, <1>3, <1>4 DEF TypeOK, Restart, storeVars

LEMMA TypeStep ==
  ASSUME TypeOK, [Next]_vars
  PROVE  TypeOK'
<1> USE CooldownAssumption
<1>1. ASSUME NEW i \in Instances, Fail(i)
      PROVE  TypeOK'
  BY <1>1, FailType
<1>2. ASSUME NEW i \in Instances, Set(i)
      PROVE  TypeOK'
  <2>1. PICK k \in MutatedKeys, d \in Durations, ok \in StoreOutcomes :
          SetCooldownUntil(i, k, now + d, ok)
    BY <1>2 DEF Set
  <2>2. k \in CooldownKey /\ now + d \in Nat /\ ok \in BOOLEAN
    BY DEF TypeOK
  <2>3. QED
    BY <2>1, <2>2, SetCooldownUntilType
<1>3. ASSUME NEW i \in Instances, Update(i)
      PROVE  TypeOK'
  <2>1. PICK k \in MutatedKeys, d \in Durations, ok \in StoreOutcomes :
          UpdateCooldown(i, k, now + d, ok)
    BY <1>3 DEF Update
  <2>2. k \in CooldownKey /\ now + d \in Nat /\ ok \in BOOLEAN
    BY DEF TypeOK
  <2>3. ClearCooldown(i, k, ok) \/ SetCooldownUntil(i, k, now + d, ok)
    BY <2>1 DEF UpdateCooldown
  <2>4. QED
    BY <2>2, <2>3, SetCooldownUntilType, ClearCooldownType
<1>4. ASSUME NEW i \in Instances, Succeed(i)
      PROVE  TypeOK'
  <2>1. PICK k \in MutatedKeys, ok \in StoreOutcomes : RecordSuccess(i, k, ok)
    BY <1>4 DEF Succeed
  <2>2. {k} \in SUBSET CooldownKey
    OBVIOUS
  <2>3. QED
    BY <2>1, <2>2, ClearType DEF RecordSuccess
<1>5. ASSUME NEW i \in Instances, Clear(i)
      PROVE  TypeOK'
  BY <1>5, ClearCooldownType DEF Clear
<1>6. ASSUME NEW i \in Instances, Finish(i)
      PROVE  TypeOK'
  BY <1>6, ApplyType, BumpAndPublishType DEF Finish
<1>7. ASSUME NEW i \in Instances, Cleanup(i)
      PROVE  TypeOK'
  BY <1>7, CleanupType
<1>8. ASSUME NEW i \in Instances, NEW t \in Threads, Look(i, t)
      PROVE  TypeOK'
  BY <1>8, LookType
<1>9. ASSUME NEW i \in Instances, NEW t \in Threads, ContinueReload(i, t)
      PROVE  TypeOK'
  BY <1>9, SyncCompareType, ReloadListType, ReloadInstallType DEF ContinueReload
<1>10. ASSUME NEW i \in Instances, Receive(i) \/ Crash(i)
       PROVE  TypeOK'
  BY <1>10, ReceiveType, CrashType
<1>11. ASSUME NEW e \in events, LoseEvent(e)
       PROVE  TypeOK'
  BY <1>11 DEF TypeOK, LoseEvent, FailureTypeOK, storeVars, localVars, failureVars
<1>12. CASE Tick
  BY <1>12 DEF TypeOK, Tick, FailureTypeOK, storeVars, localVars, failureVars
<1>13. CASE UNCHANGED vars
  BY <1>13 DEF TypeOK, FailureTypeOK, vars, storeVars, localVars, failureVars
<1>14. QED
  BY <1>1, <1>2, <1>3, <1>4, <1>5, <1>6, <1>7, <1>8, <1>9, <1>10, <1>11,
     <1>12, <1>13 DEF Next

LEMMA TypeInit == Init => TypeOK
<1> SUFFICES ASSUME Init
             PROVE  TypeOK
  OBVIOUS
<1>1. FailureTypeOK
  BY CountsType DEF Init, FailureInit, FailureTypeOK, NoFailures, Counts
<1>2. QED
  BY <1>1, NoTableType DEF Init, TypeOK

(* Every variable keeps to its type: in particular no generation, end or   *)
(* count leaves the naturals, and a reload or a mutation in progress names *)
(* a real provider (manager.go, events.go, failure_tracker.go).            *)
THEOREM CooldownTypeCorrect == Spec => []TypeOK
BY TypeInit, TypeStep, PTL DEF Spec

-----------------------------------------------------------------------------
(* The generations.  Actions that leave them, the reloads and the events   *)
(* alone need no argument of their own.                                    *)
clockVars == <<storeGen, providerGen, reload, events>>

ClockStep(i) ==
  \/ \E ok : BumpAndPublish(i, ok)
  \/ \E t \in Threads : Look(i, t) \/ ContinueReload(i, t)
  \/ Receive(i)
  \/ Crash(i)

LEMMA OtherSteps ==
  ASSUME TypeOK, [Next]_vars
  PROVE  \/ \E i \in Instances : ClockStep(i)
         \/ \E e \in events : LoseEvent(e)
         \/ UNCHANGED clockVars
<1>1. ASSUME NEW i, Begin(i), UNCHANGED storeGen
      PROVE  UNCHANGED clockVars
  BY <1>1 DEF Begin, clockVars
<1>2. ASSUME NEW i, NEW k, NEW K, NEW ok, ClearInStore(i, k, K, ok)
      PROVE  UNCHANGED storeGen
  BY <1>2 DEF ClearInStore, StoreWrite, Abandon, storeVars
<1>3. ASSUME NEW i, NEW k, NEW u, NEW ifLater, NEW ok, SetInStore(i, k, u, ifLater, ok),
             u \in Nat, ifLater \in BOOLEAN, ok \in BOOLEAN
      PROVE  UNCHANGED storeGen
  <2>1. now \in Nat
    BY DEF TypeOK
  <2>2. QED
    BY <1>2, <1>3, <2>1, SetInStoreCases DEF StoreWrite, Abandon, storeVars
<1>4. ASSUME NEW i \in Instances, Fail(i)
      PROVE  UNCHANGED clockVars
  <2>1. PICK k \in MutatedKeys, sc \in FailureScopes, r \in Reasons,
             ok \in StoreOutcomes, dbOk \in DbOutcomes :
          RecordFailure(i, EffectiveKey(k.p, k.ct, k.m, sc), r, ok, dbOk)
    BY <1>4 DEF Fail
  <2> DEFINE key == EffectiveKey(k.p, k.ct, k.m, sc)
             n == NextCount(i, key, r)
  <2>2. key \in CooldownKey
    BY EffectiveKeyType, CooldownAssumption
  <2>3. n \in Nat \ {0}
    BY <2>1, <2>2, IncrementFailureType DEF TypeOK, RecordFailure
  <2>4. now + Policy(r, n) \in Nat
    BY <2>1, <2>3, PolicyAssumption, CooldownAssumption DEF TypeOK, RecordFailure
  <2>5. ok \in BOOLEAN
    BY CooldownAssumption
  <2>6. Begin(i) /\ SetInStore(i, key, now + Policy(r, n), TRUE, ok)
    BY <2>1 DEF RecordFailure
  <2> HIDE DEF key, n
  <2>7. QED
    BY <1>1, <1>3, <2>4, <2>5, <2>6
<1>5. ASSUME NEW i, NEW k, NEW u \in Nat, NEW ok \in BOOLEAN,
             SetCooldownUntil(i, k, u, ok)
      PROVE  UNCHANGED clockVars
  BY <1>1, <1>3, <1>5 DEF SetCooldownUntil
<1>6. ASSUME NEW i, NEW k, NEW ok, ClearCooldown(i, k, ok)
      PROVE  UNCHANGED clockVars
  BY <1>1, <1>2, <1>6 DEF ClearCooldown
<1>7. ASSUME NEW i \in Instances, Set(i)
      PROVE  UNCHANGED clockVars
  BY <1>5, <1>7, CooldownAssumption DEF Set, TypeOK
<1>8. ASSUME NEW i \in Instances, Update(i)
      PROVE  UNCHANGED clockVars
  BY <1>5, <1>6, <1>8, CooldownAssumption DEF Update, UpdateCooldown, TypeOK
<1>9. ASSUME NEW i \in Instances, Succeed(i) \/ Clear(i)
      PROVE  UNCHANGED clockVars
  BY <1>1, <1>2, <1>6, <1>9 DEF Succeed, RecordSuccess, Clear
<1>10. ASSUME NEW i \in Instances, Finish(i)
       PROVE  UNCHANGED clockVars \/ ClockStep(i)
  <2>1. ASSUME NEW dbOk, Apply(i, dbOk)
        PROVE  UNCHANGED clockVars
    BY <2>1 DEF Apply, clockVars, storeVars
  <2>2. QED
    BY <1>10, <2>1 DEF Finish, ClockStep
<1>11. ASSUME NEW i \in Instances, Cleanup(i)
       PROVE  UNCHANGED clockVars
  BY <1>11 DEF Cleanup, CleanupExpired, clockVars, storeVars
<1>12. CASE Tick
  BY <1>12 DEF Tick, clockVars, storeVars, localVars
<1>13. CASE UNCHANGED vars
  BY <1>13 DEF vars, clockVars, storeVars, localVars
<1>14. QED
  BY <1>4, <1>7, <1>8, <1>9, <1>10, <1>11, <1>12, <1>13 DEF Next, ClockStep

(* A generation an instance may adopt, and reloads and events that carry   *)
(* only such generations.                                                  *)
Reached(p, gen) == gen <= storeGen[p]

(* One step of the clock, as GenerationClock allows it.                    *)
ClockMove(i) ==
  \/ Clock!Forget(i)
  \/ \E p \in Providers : Clock!Advance(i, p) \/ Clock!Learn(i, p)
  \/ UNCHANGED <<storeGen, providerGen>>

LEMMA BumpMoves ==
  ASSUME TypeOK, GenerationsComeFromRedis, NEW i \in Instances, NEW ok,
         BumpAndPublish(i, ok)
  PROVE  GenerationsComeFromRedis' /\ ClockMove(i)
<1> DEFINE p == mutation[i].key.p
           newGen == storeGen[p] + 1
<1>1. mutation[i] \in Mutation
  BY DEF TypeOK, BumpAndPublish, Idle
<1>2. p \in Providers
  BY <1>1 DEF Mutation, CooldownKey
<1>3. CASE ~ok
  BY <1>3 DEF BumpAndPublish, ClockMove, GenerationsComeFromRedis
<1>4. CASE ok
  <2>1. /\ storeGen' = [storeGen EXCEPT ![p] = newGen]
        /\ providerGen' = [providerGen EXCEPT ![i][p] = newGen]
        /\ events' = events \cup [to : Subscribed \ {i}, p : {p}, gen : {newGen}]
        /\ reload' = reload
    BY <1>4 DEF BumpAndPublish
  <2>2. Clock!Advance(i, p)
    BY <2>1, <1>2 DEF TypeOK, Clock!Advance
  <2>3. \A q \in Providers : storeGen'[q] \in Nat /\ storeGen[q] <= storeGen'[q]
    BY <2>1, <1>2 DEF TypeOK
  <2>4. \A j \in Instances, q \in Providers : providerGen'[j][q] <= storeGen'[q]
    <3> TAKE j \in Instances, q \in Providers
    <3>1. CASE j = i /\ q = p
      BY <2>1, <1>2, <3>1 DEF TypeOK
    <3>2. CASE ~(j = i /\ q = p)
      <4>1. providerGen'[j][q] = providerGen[j][q]
        BY <2>1, <3>2 DEF TypeOK
      <4>2. providerGen[j][q] \in Nat /\ storeGen[q] \in Nat
        BY DEF TypeOK
      <4>3. QED
        BY <2>3, <4>1, <4>2 DEF GenerationsComeFromRedis
    <3>3. QED
      BY <3>1, <3>2
  <2>5. ASSUME NEW j \in Instances, NEW t \in Threads, reload'[j][t] # Idle
        PROVE  reload'[j][t].gen <= storeGen'[reload'[j][t].p]
    <3>1. reload[j][t].gen <= storeGen[reload[j][t].p]
      BY <2>1, <2>5 DEF GenerationsComeFromRedis
    <3>2. reload[j][t].p \in Providers /\ reload[j][t].gen \in Nat
      BY <2>1, <2>5, ReloadAt
    <3>3. storeGen[reload[j][t].p] \in Nat
      BY <3>2 DEF TypeOK
    <3>4. QED
      BY <2>1, <2>3, <3>1, <3>2, <3>3
  <2>6. ASSUME NEW e \in events'
        PROVE  e.gen <= storeGen'[e.p]
    <3>1. CASE e \in events
      <4>1. e.p \in Providers /\ e.gen \in Nat /\ e.gen <= storeGen[e.p]
        BY <3>1 DEF TypeOK, Event, GenerationsComeFromRedis
      <4>2. storeGen[e.p] \in Nat
        BY <4>1 DEF TypeOK
      <4>3. QED
        BY <2>3, <4>1, <4>2
    <3>2. CASE e \notin events
      <4>1. e.p = p /\ e.gen = newGen
        BY <2>1, <3>2
      <4>2. QED
        BY <1>2, <2>1, <4>1 DEF TypeOK
    <3>3. QED
      BY <3>1, <3>2
  <2>7. QED
    BY <1>2, <2>2, <2>4, <2>5, <2>6 DEF GenerationsComeFromRedis, ClockMove
<1>5. QED
  BY <1>3, <1>4

(* A reload that is put in place carries a generation Redis has reached.   *)
LEMMA ReloadStepMoves ==
  ASSUME TypeOK, GenerationsComeFromRedis, NEW i \in Instances, NEW t \in Threads,
         NEW next, ReloadStep(i, t, next),
         next # Idle => Reached(next.p, next.gen),
         UNCHANGED localVars, events' \subseteq events
  PROVE  GenerationsComeFromRedis' /\ ClockMove(i)
<1>1. storeGen' = storeGen /\ providerGen' = providerGen
  BY DEF ReloadStep, storeVars, localVars
<1>2. ASSUME NEW j \in Instances, NEW u \in Threads, reload'[j][u] # Idle
      PROVE  reload'[j][u].gen <= storeGen[reload'[j][u].p]
  <2>1. CASE j = i /\ u = t
    <3>1. reload'[j][u] = next
      BY <2>1 DEF TypeOK, ReloadStep
    <3>2. QED
      BY <1>2, <3>1 DEF Reached
  <2>2. CASE ~(j = i /\ u = t)
    <3>1. reload'[j][u] = reload[j][u]
      BY <2>2 DEF TypeOK, ReloadStep
    <3>2. QED
      BY <1>2, <3>1 DEF GenerationsComeFromRedis
  <2>3. QED
    BY <2>1, <2>2
<1>3. QED
  BY <1>1, <1>2 DEF GenerationsComeFromRedis, ClockMove

LEMMA LookMoves ==
  ASSUME TypeOK, GenerationsComeFromRedis, NEW i \in Instances, NEW t \in Threads,
         Look(i, t)
  PROVE  GenerationsComeFromRedis' /\ ClockMove(i)
<1>1. PICK p \in Providers : SyncStart(i, t, p)
  BY DEF Look
<1> DEFINE next == [phase |-> "check", p |-> p, gen |-> providerGen[i][p],
                    entries |-> NoTable]
<1>2. Reached(next.p, next.gen)
  BY DEF Reached, GenerationsComeFromRedis
<1>3. ReloadStep(i, t, next) /\ UNCHANGED <<localVars, events>>
  BY <1>1 DEF SyncStart
<1> HIDE DEF next
<1>4. QED
  BY <1>2, <1>3, ReloadStepMoves

LEMMA SyncCompareMoves ==
  ASSUME TypeOK, GenerationsComeFromRedis, NEW i \in Instances, NEW t \in Threads,
         NEW ok, SyncCompare(i, t, ok)
  PROVE  GenerationsComeFromRedis' /\ ClockMove(i)
<1> DEFINE s == reload[i][t]
           going == [s EXCEPT !.phase = "list", !.gen = storeGen[s.p]]
<1>1. s # Idle
  BY DEF SyncCompare, Idle
<1>2. s \in Reload /\ s.p \in Providers
  BY <1>1, ReloadAt
<1>3. going.p = s.p /\ going.gen = storeGen[s.p]
  BY <1>2 DEF Reload
<1>4. Reached(going.p, going.gen)
  BY <1>2, <1>3 DEF Reached, TypeOK
<1>5. /\ ReloadStep(i, t, going) \/ ReloadStep(i, t, Idle)
      /\ UNCHANGED <<localVars, events>>
  BY DEF SyncCompare
<1> HIDE DEF going
<1>6. QED
  BY <1>4, <1>5, ReloadStepMoves

LEMMA ReloadListMoves ==
  ASSUME TypeOK, GenerationsComeFromRedis, NEW i \in Instances, NEW t \in Threads,
         NEW ok, ReloadList(i, t, ok)
  PROVE  GenerationsComeFromRedis' /\ ClockMove(i)
<1> DEFINE s == reload[i][t]
           read == [s EXCEPT !.phase = "install", !.entries = ListByProvider(s.p)]
<1>1. s # Idle
  BY DEF ReloadList, Idle
<1>2. s \in Reload
  BY <1>1, ReloadAt
<1>3. read.p = s.p /\ read.gen = s.gen
  BY <1>2 DEF Reload
<1>4. Reached(read.p, read.gen)
  BY <1>1, <1>3 DEF Reached, GenerationsComeFromRedis
<1>5. /\ ReloadStep(i, t, read) \/ ReloadStep(i, t, Idle)
      /\ UNCHANGED <<localVars, events>>
  BY DEF ReloadList
<1> HIDE DEF read
<1>6. QED
  BY <1>4, <1>5, ReloadStepMoves

(* The one step that adopts a generation: forwards, never past Redis.      *)
LEMMA ReloadInstallMoves ==
  ASSUME TypeOK, GenerationsComeFromRedis, NEW i \in Instances, NEW t \in Threads,
         ReloadInstall(i, t)
  PROVE  GenerationsComeFromRedis' /\ ClockMove(i)
<1> DEFINE s == reload[i][t]
<1>1. s # Idle
  BY DEF ReloadInstall, Idle
<1>2. s.p \in Providers /\ s.gen \in Nat
  BY <1>1, ReloadAt
<1>3. s.gen <= storeGen[s.p]
  BY <1>1 DEF GenerationsComeFromRedis
<1>4. storeGen' = storeGen /\ events' = events
  BY DEF ReloadInstall, ReloadStep, storeVars
<1>5. ASSUME NEW j \in Instances, NEW u \in Threads, reload'[j][u] # Idle
      PROVE  reload'[j][u] = reload[j][u]
  BY <1>5 DEF TypeOK, ReloadInstall, ReloadStep
<1>6. CASE s.gen > providerGen[i][s.p]
  <2>1. providerGen' = [providerGen EXCEPT ![i][s.p] = s.gen]
    BY <1>6 DEF ReloadInstall
  <2>2. s.gen \in providerGen[i][s.p] .. storeGen[s.p]
    BY <1>2, <1>3, <1>6 DEF TypeOK
  <2>3. Clock!Learn(i, s.p)
    BY <1>4, <2>1, <2>2 DEF Clock!Learn
  <2>4. \A j \in Instances, q \in Providers : providerGen'[j][q] <= storeGen[q]
    BY <1>2, <1>3, <2>1 DEF TypeOK, GenerationsComeFromRedis
  <2>5. QED
    BY <1>2, <1>4, <1>5, <2>3, <2>4 DEF GenerationsComeFromRedis, ClockMove
<1>7. CASE ~(s.gen > providerGen[i][s.p])
  <2>1. providerGen' = providerGen
    BY <1>7 DEF ReloadInstall
  <2>2. QED
    BY <1>4, <1>5, <2>1 DEF GenerationsComeFromRedis, ClockMove
<1>8. QED
  BY <1>6, <1>7

LEMMA ReceiveMoves ==
  ASSUME TypeOK, GenerationsComeFromRedis, NEW i \in Instances, Receive(i)
  PROVE  GenerationsComeFromRedis' /\ ClockMove(i)
<1>1. PICK e \in events : ReceiveEvent(i, e)
  BY DEF Receive
<1> DEFINE next == [phase |-> "list", p |-> e.p, gen |-> e.gen,
                    entries |-> NoTable]
<1>2. Reached(next.p, next.gen)
  BY DEF Reached, GenerationsComeFromRedis
<1>3. /\ ReloadStep(i, Subscriber, next) \/ ReloadStep(i, Subscriber, Idle)
      /\ UNCHANGED localVars
      /\ events' \subseteq events
  BY <1>1 DEF ReceiveEvent
<1>4. Subscriber \in Threads
  BY DEF Threads
<1> HIDE DEF next
<1>5. QED
  BY <1>2, <1>3, <1>4, ReloadStepMoves

LEMMA CrashMoves ==
  ASSUME TypeOK, GenerationsComeFromRedis, NEW i \in Instances, Crash(i)
  PROVE  GenerationsComeFromRedis' /\ ClockMove(i)
<1>1. PICK dbOk : Restart(i, dbOk)
  BY DEF Crash
<1>2. /\ providerGen' = [providerGen EXCEPT ![i] = [p \in Providers |-> 0]]
      /\ reload' = [reload EXCEPT ![i] = [t \in Threads |-> Idle]]
      /\ events' \subseteq events
      /\ storeGen' = storeGen
  BY <1>1 DEF Restart, storeVars
<1>3. Clock!Forget(i)
  BY <1>2 DEF Clock!Forget
<1>4. \A j \in Instances, q \in Providers : providerGen'[j][q] <= storeGen[q]
  BY <1>2 DEF TypeOK, GenerationsComeFromRedis
<1>5. \A j \in Instances, u \in Threads :
        reload'[j][u] # Idle => reload'[j][u] = reload[j][u]
  BY <1>2 DEF TypeOK
<1>6. QED
  BY <1>2, <1>3, <1>4, <1>5 DEF GenerationsComeFromRedis, ClockMove

LEMMA ClockStepMoves ==
  ASSUME TypeOK, GenerationsComeFromRedis, [Next]_vars
  PROVE  /\ GenerationsComeFromRedis'
         /\ (\E i \in Instances : ClockMove(i)) \/ UNCHANGED <<storeGen, providerGen>>
<1>1. ASSUME NEW i \in Instances, ClockStep(i)
      PROVE  GenerationsComeFromRedis' /\ ClockMove(i)
  <2>1. ASSUME NEW t \in Threads, ContinueReload(i, t)
        PROVE  GenerationsComeFromRedis' /\ ClockMove(i)
    BY <2>1, SyncCompareMoves, ReloadListMoves, ReloadInstallMoves
    DEF ContinueReload
  <2>2. QED
    BY <1>1, <2>1, BumpMoves, LookMoves, ReceiveMoves, CrashMoves DEF ClockStep
<1>2. ASSUME NEW e \in events, LoseEvent(e)
      PROVE  GenerationsComeFromRedis' /\ UNCHANGED <<storeGen, providerGen>>
  BY <1>2 DEF LoseEvent, GenerationsComeFromRedis, storeVars, localVars
<1>3. CASE UNCHANGED clockVars
  BY <1>3 DEF clockVars, GenerationsComeFromRedis
<1>4. QED
  BY <1>1, <1>2, <1>3, OtherSteps

(* No instance believes in, reloads towards or is told of a generation     *)
(* that Redis has not reached, whatever calls fail, events are lost and    *)
(* instances restart (bumpAndPublishLocked, applyRemoteEvent,              *)
(* reloadProvider, syncProviderGeneration).                                *)
THEOREM CooldownGenerations == Spec => []GenerationsComeFromRedis
<1>1. Init => GenerationsComeFromRedis
  BY DEF Init, GenerationsComeFromRedis
<1>2. QED
  BY <1>1, CooldownTypeCorrect, ClockStepMoves, PTL DEF Spec

(* The cooldown manager implements GenerationClock: generations only grow, *)
(* and local ones follow Redis, never ahead of it and never backwards      *)
(* except by a restart.                                                    *)
THEOREM CooldownImplementsClock == Spec => ImplementsClock
<1>1. Init => Clock!ClockInit
  BY DEF Init, Clock!ClockInit
<1>2. ASSUME TypeOK, GenerationsComeFromRedis, [Next]_vars
      PROVE  [Clock!ClockNext]_<<storeGen, providerGen>>
  BY <1>2, ClockStepMoves DEF ClockMove, Clock!ClockNext
<1>3. QED
  BY <1>1, <1>2, CooldownTypeCorrect, CooldownGenerations, PTL
  DEF Spec, ImplementsClock, Clock!ClockSpec

-----------------------------------------------------------------------------
(* What a failure writes to Redis never ends before what is active there.  *)
LEMMA SetIfLaterKeepsBlocks ==
  ASSUME TypeOK, NEW i, NEW key \in CooldownKey, NEW u \in Nat, u > now,
         NEW ok \in BOOLEAN, SetInStore(i, key, u, TRUE, ok),
         NEW k \in CooldownKey
  PROVE  Unexpired(store, now)[k] <= store'[k]
<1>1. store \in Table /\ now \in Nat /\ store[k] \in Nat
  BY DEF TypeOK, Table, Time
<1>2. DOMAIN store = CooldownKey
  BY <1>1 DEF Table
<1>3. Unexpired(store, now)[k] = IF now < store[k] THEN store[k] ELSE 0
  BY <1>2 DEF Unexpired, NoCooldown
<1>4. CASE UNCHANGED store
  BY <1>1, <1>3, <1>4
<1>5. CASE ~LaterInStore(key, u) /\ StoreWrite(key.p, {key}, u)
  <2>1. store'[k] = IF k = key THEN u ELSE store[k]
    BY <1>5 DEF StoreWrite, Written
  <2>2. CASE k = key
    BY <1>1, <1>3, <1>5, <2>1, <2>2 DEF LaterInStore
  <2>3. CASE k # key
    BY <1>1, <1>3, <2>1, <2>3
  <2>4. QED
    BY <2>2, <2>3
<1>6. ~(u <= now)
  BY <1>1
<1>7. UNCHANGED store \/ (~LaterInStore(key, u) /\ StoreWrite(key.p, {key}, u))
  BY <1>1, <1>6, SetInStoreCases DEF Abandon, storeVars
<1>8. QED
  BY <1>4, <1>5, <1>7

(* However many instances record failures at once, no failure shortens or  *)
(* lifts a cooldown that Redis has (SetIfLater in setCooldownLocked); this *)
(* rests on the policies' durations being positive.                        *)
THEOREM CooldownFailureKeepsBlocks == Spec => FailureKeepsBlocks
<1>1. ASSUME TypeOK, NEW i \in Instances, Fail(i), NEW k \in CooldownKey
      PROVE  Unexpired(store, now)[k] <= store'[k]
  <2>1. PICK m \in MutatedKeys, sc \in FailureScopes, r \in Reasons,
             ok \in StoreOutcomes, dbOk \in DbOutcomes :
          RecordFailure(i, EffectiveKey(m.p, m.ct, m.m, sc), r, ok, dbOk)
    BY <1>1 DEF Fail
  <2> DEFINE key == EffectiveKey(m.p, m.ct, m.m, sc)
             n == NextCount(i, key, r)
  <2>2. key \in CooldownKey
    BY EffectiveKeyType, CooldownAssumption
  <2>3. n \in Nat \ {0}
    BY <1>1, <2>1, <2>2, IncrementFailureType DEF TypeOK, RecordFailure
  <2>4. Policy(r, n) \in Nat \ {0}
    BY <2>1, <2>3, PolicyAssumption, CooldownAssumption DEF RecordFailure
  <2>5. now + Policy(r, n) \in Nat /\ now + Policy(r, n) > now
    BY <1>1, <2>4 DEF TypeOK
  <2>6. ok \in BOOLEAN
    BY CooldownAssumption
  <2>7. SetInStore(i, key, now + Policy(r, n), TRUE, ok)
    BY <2>1 DEF RecordFailure
  <2> HIDE DEF key, n
  <2>8. QED
    BY <1>1, <2>2, <2>5, <2>6, <2>7, SetIfLaterKeepsBlocks
<1>2. ASSUME TypeOK
      PROVE  [\A i \in Instances : Fail(i) =>
                \A k \in CooldownKey : Unexpired(store, now)[k] <= store'[k]]_vars
  BY <1>1, <1>2
<1>3. QED
  BY <1>2, CooldownTypeCorrect, PTL DEF FailureKeepsBlocks

-----------------------------------------------------------------------------
(* The two look-ups search the same keys, although one tests the levels it *)
(* needs and the other all combinations.                                   *)
LEMMA SameLevels ==
  ASSUME NEW p, NEW c, NEW m
  PROVE  CheckedKeys(p, c, m) = Levels(p, c, m)
BY DEF CheckedKeys, Levels

(* Among at most four times one is the latest.                             *)
LEMMA LatestOfFour ==
  ASSUME NEW a \in Nat, NEW b \in Nat, NEW c \in Nat, NEW d \in Nat,
         NEW S \in SUBSET {a, b, c, d}, S # {}
  PROVE  \E u \in S : \A v \in S : v <= u
<1>1. a \in S \/ b \in S \/ c \in S \/ d \in S
  OBVIOUS
<1>2. \/ a \in S /\ (b \in S => b <= a) /\ (c \in S => c <= a) /\ (d \in S => d <= a)
      \/ b \in S /\ (a \in S => a <= b) /\ (c \in S => c <= b) /\ (d \in S => d <= b)
      \/ c \in S /\ (a \in S => a <= c) /\ (b \in S => b <= c) /\ (d \in S => d <= c)
      \/ d \in S /\ (a \in S => a <= d) /\ (b \in S => b <= d) /\ (c \in S => c <= d)
  BY <1>1
<1>3. \A v \in S : v \in {a, b, c, d}
  OBVIOUS
<1>4. ASSUME NEW u \in Nat, \A v \in {a, b, c, d} : v \in S => v <= u
      PROVE  \A v \in S : v <= u
  BY <1>3, <1>4
<1>5. ASSUME NEW u \in {a, b, c, d}, u \in S,
             \A v \in {a, b, c, d} : v \in S => v <= u
      PROVE  \E x \in S : \A v \in S : v <= x
  BY <1>4, <1>5
<1>6. \E u \in {a, b, c, d} :
        u \in S /\ \A v \in {a, b, c, d} : v \in S => v <= u
  BY <1>2
<1>7. QED
  BY <1>5, <1>6

(* GetCooldownUntil is the latest end, which is in the future, exactly if  *)
(* one of the levels is active.                                            *)
LEMMA LookupsOfTable ==
  ASSUME NEW table \in Table, NEW t \in Nat, NEW p \in Providers,
         NEW c \in ClientTypes \cup {All}, NEW m \in Models \cup {All}
  PROVE  IsInCooldown(table, t, p, c, m)
           <=> GetCooldownUntil(table, t, p, c, m) # NoCooldown
<1> DEFINE ends == ActiveEnds(table, t, p, c, m)
           at(x, y) == [p |-> p, ct |-> x, m |-> y]
<1>1. Levels(p, c, m) = {at(All, All), at(All, m), at(c, All), at(c, m)}
  BY DEF Levels
<1>2. /\ at(All, All) \in CooldownKey
      /\ at(All, m) \in CooldownKey
      /\ at(c, All) \in CooldownKey
      /\ at(c, m) \in CooldownKey
  BY DEF CooldownKey
<1>3. /\ table[at(All, All)] \in Nat
      /\ table[at(All, m)] \in Nat
      /\ table[at(c, All)] \in Nat
      /\ table[at(c, m)] \in Nat
  BY <1>2 DEF Table, Time
<1>4. ends \in SUBSET {table[at(All, All)], table[at(All, m)], table[at(c, All)],
                        table[at(c, m)]}
  BY <1>1 DEF ActiveEnds
<1>5. IsInCooldown(table, t, p, c, m) <=> ends # {}
  BY SameLevels DEF IsInCooldown, ActiveEnds
<1>6. \A u \in ends : t < u
  BY DEF ActiveEnds
<1>7. CASE ends = {}
  BY <1>5, <1>7 DEF GetCooldownUntil
<1>8. CASE ends # {}
  <2>1. \E u \in ends : \A v \in ends : v <= u
    BY <1>3, <1>4, <1>8, LatestOfFour
  <2>2. GetCooldownUntil(table, t, p, c, m) \in ends
    BY <1>8, <2>1 DEF GetCooldownUntil
  <2>3. t < GetCooldownUntil(table, t, p, c, m)
    BY <1>6, <2>2
  <2>4. GetCooldownUntil(table, t, p, c, m) \in Nat
    BY <1>3, <1>4, <2>2
  <2>5. QED
    BY <1>5, <1>8, <2>3, <2>4 DEF NoCooldown
<1>9. QED
  BY <1>7, <1>8

(* The router, which asks whether a provider is cooling down, and the      *)
(* callers that ask until when, always get the same answer                 *)
(* (IsInCooldown, getCooldownUntilLocked).                                 *)
THEOREM CooldownLookupsAgree == Spec => []LookupsAgree
<1>1. ASSUME TypeOK
      PROVE  LookupsAgree
  BY <1>1, LookupsOfTable DEF TypeOK, LookupsAgree
<1>2. QED
  BY <1>1, CooldownTypeCorrect, PTL

-----------------------------------------------------------------------------
(* Mutations.  A call that begins one writes its keys to Redis, or fails   *)
(* to and goes on unannounced, or ends at once.                            *)
KeysNamed(key, keys) ==
  keys = {key} \/ (key.ct = All /\ key.m = All /\ keys = KeysOf(key.p))

Goes(i, key, keys, until, announce) ==
  /\ Continue(i, key, keys, until, announce)
  /\ KeysNamed(key, keys)
  /\ IF announce THEN StoreWrite(key.p, keys, until)
                 ELSE UNCHANGED storeVars /\ FALSE \in StoreOutcomes

Begins(i) ==
  /\ Begin(i)
  /\ \/ Abandon
     \/ \E key \in CooldownKey, keys \in SUBSET CooldownKey, until \in Nat,
           announce \in BOOLEAN : Goes(i, key, keys, until, announce)

Calls(i) == Fail(i) \/ Set(i) \/ Update(i) \/ Succeed(i) \/ Clear(i)

LEMMA ClearBegins ==
  ASSUME NEW i \in Instances, Begin(i), NEW key \in CooldownKey,
         NEW keys \in SUBSET CooldownKey, KeysNamed(key, keys), NEW ok,
         ClearInStore(i, key, keys, ok)
  PROVE  Begins(i)
<1>1. CASE ok
  <2>1. Goes(i, key, keys, 0, TRUE)
    BY <1>1 DEF ClearInStore, Goes, NoCooldown
  <2>2. QED
    BY <2>1 DEF Begins
<1>2. CASE ~ok
  BY <1>2 DEF ClearInStore, Begins
<1>3. QED
  BY <1>1, <1>2

LEMMA SetBegins ==
  ASSUME TypeOK, NEW i \in Instances, Begin(i), NEW key \in CooldownKey, NEW u \in Nat,
         NEW ifLater \in BOOLEAN, NEW ok \in StoreOutcomes,
         SetInStore(i, key, u, ifLater, ok)
  PROVE  Begins(i)
<1>1. now \in Nat /\ ok \in BOOLEAN
  BY CooldownAssumption DEF TypeOK
<1>2. KeysNamed(key, {key}) /\ {key} \in SUBSET CooldownKey
  BY DEF KeysNamed
<1>3. CASE ClearInStore(i, key, {key}, ok)
  BY <1>2, <1>3, ClearBegins
<1>4. CASE ~ok /\ Continue(i, key, {key}, u, FALSE) /\ UNCHANGED storeVars
  <2>1. ok = FALSE
    BY <1>1, <1>4
  <2>2. Goes(i, key, {key}, u, FALSE)
    BY <1>2, <1>4, <2>1 DEF Goes
  <2>3. QED
    BY <1>2, <2>2 DEF Begins
<1>5. CASE StoreWrite(key.p, {key}, u) /\ Continue(i, key, {key}, u, TRUE)
  <2>1. Goes(i, key, {key}, u, TRUE)
    BY <1>2, <1>5 DEF Goes
  <2>2. QED
    BY <1>2, <2>1 DEF Begins
<1>6. CASE Abandon
  BY <1>6 DEF Begins
<1>7. QED
  BY <1>1, <1>3, <1>4, <1>5, <1>6, SetInStoreCases

LEMMA CallsBegin ==
  ASSUME TypeOK, NEW i \in Instances, Calls(i)
  PROVE  Begins(i)
<1> USE CooldownAssumption
<1>1. now \in Nat
  BY DEF TypeOK
<1>2. CASE Fail(i)
  <2>1. PICK k \in MutatedKeys, sc \in FailureScopes, r \in Reasons,
             ok \in StoreOutcomes, dbOk \in DbOutcomes :
          RecordFailure(i, EffectiveKey(k.p, k.ct, k.m, sc), r, ok, dbOk)
    BY <1>2 DEF Fail
  <2> DEFINE key == EffectiveKey(k.p, k.ct, k.m, sc)
             n == NextCount(i, key, r)
  <2>2. key \in CooldownKey
    BY EffectiveKeyType
  <2>3. n \in Nat \ {0}
    BY <2>1, <2>2, IncrementFailureType DEF TypeOK, RecordFailure
  <2>4. now + Policy(r, n) \in Nat
    BY <1>1, <2>1, <2>3, PolicyAssumption DEF RecordFailure
  <2>5. Begin(i) /\ SetInStore(i, key, now + Policy(r, n), TRUE, ok)
    BY <2>1 DEF RecordFailure
  <2> HIDE DEF key, n
  <2>6. QED
    BY <2>2, <2>4, <2>5, SetBegins
<1>3. ASSUME NEW k \in CooldownKey, NEW u \in Nat, NEW ok \in StoreOutcomes,
             SetCooldownUntil(i, k, u, ok)
      PROVE  Begins(i)
  BY <1>3, SetBegins DEF SetCooldownUntil
<1>4. ASSUME NEW k \in CooldownKey, NEW ok, ClearCooldown(i, k, ok)
      PROVE  Begins(i)
  <2> DEFINE keys == IF k.ct = All /\ k.m = All THEN KeysOf(k.p) ELSE {k}
  <2>1. keys \in SUBSET CooldownKey /\ KeysNamed(k, keys)
    BY DEF KeysOf, KeysNamed
  <2>2. Begin(i) /\ ClearInStore(i, k, keys, ok)
    BY <1>4 DEF ClearCooldown
  <2> HIDE DEF keys
  <2>3. QED
    BY <2>1, <2>2, ClearBegins
<1>5. CASE Set(i)
  BY <1>1, <1>3, <1>5 DEF Set
<1>6. CASE Update(i)
  <2>1. PICK k \in MutatedKeys, d \in Durations, ok \in StoreOutcomes :
          UpdateCooldown(i, k, now + d, ok)
    BY <1>6 DEF Update
  <2>2. k \in CooldownKey /\ now + d \in Nat
    BY <1>1
  <2>3. ClearCooldown(i, k, ok) \/ SetCooldownUntil(i, k, now + d, ok)
    BY <2>1 DEF UpdateCooldown
  <2>4. QED
    BY <1>3, <1>4, <2>2, <2>3
<1>7. CASE Succeed(i)
  <2>1. PICK k \in MutatedKeys, ok \in StoreOutcomes : RecordSuccess(i, k, ok)
    BY <1>7 DEF Succeed
  <2>2. k \in CooldownKey /\ {k} \in SUBSET CooldownKey /\ KeysNamed(k, {k})
    BY DEF KeysNamed
  <2>3. QED
    BY <2>1, <2>2, ClearBegins DEF RecordSuccess
<1>8. CASE Clear(i)
  BY <1>4, <1>8 DEF Clear
<1>9. QED
  BY <1>2, <1>5, <1>6, <1>7, <1>8 DEF Calls

(* The steps, as far as mutations are concerned.                           *)
LEMMA StepKinds ==
  ASSUME TypeOK, [Next]_vars
  PROVE  \/ \E i \in Instances :
              \/ Begins(i) \/ Cleanup(i) \/ Crash(i)
              \/ \E dbOk \in DbOutcomes : Apply(i, dbOk)
              \/ \E ok \in BumpOutcomes : BumpAndPublish(i, ok)
         \/ Tick
         \/ UNCHANGED <<now, storeVars, cooldownDb, mutation>>
              /\ (Reloaders = {} => UNCHANGED cooldowns)
<1>1. ASSUME NEW i \in Instances, Calls(i) \/ Finish(i)
      PROVE  \/ Begins(i)
             \/ \E dbOk \in DbOutcomes : Apply(i, dbOk)
             \/ \E ok \in BumpOutcomes : BumpAndPublish(i, ok)
  BY <1>1, CallsBegin DEF Finish
<1>2. ASSUME NEW i \in Instances, NEW t \in Threads, Look(i, t) \/ ContinueReload(i, t)
      PROVE  UNCHANGED <<now, storeVars, cooldownDb, mutation>>
               /\ (Reloaders = {} => UNCHANGED cooldowns)
  BY <1>2 DEF Look, SyncStart, ContinueReload, SyncCompare, ReloadList, ReloadInstall, ReloadStep
<1>3. ASSUME NEW i \in Instances, Receive(i)
      PROVE  UNCHANGED <<now, storeVars, cooldownDb, mutation>>
               /\ (Reloaders = {} => UNCHANGED cooldowns)
  BY <1>3 DEF Receive, ReceiveEvent, ReloadStep
<1>4. ASSUME NEW e \in events, LoseEvent(e)
      PROVE  UNCHANGED <<now, storeVars, cooldownDb, mutation, cooldowns>>
  BY <1>4 DEF LoseEvent, localVars
<1>5. CASE UNCHANGED vars
  BY <1>5 DEF vars, localVars
<1>6. QED
  BY <1>1, <1>2, <1>3, <1>4, <1>5 DEF Next, Calls

(* What a mutation under way is about to change, and that only one that is *)
(* announced gets to its bump.                                             *)
MutationInv ==
  \A i \in Instances : mutation[i] # Idle =>
    /\ KeysNamed(mutation[i].key, mutation[i].keys)
    /\ mutation[i].phase = "bump" => mutation[i].announce

LEMMA ContinueAt ==
  ASSUME TypeOK, NEW i \in Instances, NEW key, NEW keys, NEW until, NEW announce,
         Continue(i, key, keys, until, announce)
  PROVE  /\ mutation'[i] # Idle
         /\ mutation'[i].phase = "apply" /\ mutation'[i].key = key /\ mutation'[i].keys = keys
         /\ mutation'[i].until = until /\ mutation'[i].announce = announce
         /\ \A j \in Instances \ {i} : mutation'[j] = mutation[j]
<1> DEFINE w == [phase |-> "apply", key |-> key, keys |-> keys, until |-> until,
                 announce |-> announce]
<1>1. mutation' = [mutation EXCEPT ![i] = w]
  BY DEF Continue
<1>2. mutation'[i] = w /\ \A j \in Instances \ {i} : mutation'[j] = mutation[j]
  BY <1>1 DEF TypeOK
<1>3. w # Idle
  <2>1. w.phase # Idle.phase
    BY DEF Idle
  <2>2. QED
    BY <2>1
<1>4. QED
  BY <1>2, <1>3

LEMMA ApplyAt ==
  ASSUME TypeOK, NEW i \in Instances, NEW dbOk, Apply(i, dbOk)
  PROVE  /\ mutation[i] \in Mutation /\ mutation[i] # Idle /\ mutation[i].phase = "apply"
         /\ IF mutation[i].announce
            THEN /\ mutation'[i] # Idle /\ mutation'[i].phase = "bump"
                 /\ mutation'[i].key = mutation[i].key /\ mutation'[i].keys = mutation[i].keys
                 /\ mutation'[i].announce
            ELSE mutation'[i] = Idle
         /\ \A j \in Instances \ {i} : mutation'[j] = mutation[j]
<1>1. mutation[i] \in Mutation /\ mutation[i] # Idle /\ mutation[i].phase = "apply"
  BY DEF TypeOK, Apply, Idle
<1>2. mutation' = IF mutation[i].announce THEN [mutation EXCEPT ![i].phase = "bump"]
                  ELSE [mutation EXCEPT ![i] = Idle]
  BY DEF Apply
<1>3. CASE mutation[i].announce
  <2> DEFINE w == [mutation[i] EXCEPT !.phase = "bump"]
  <2>1. w \in Mutation /\ w.phase = "bump" /\ w.key = mutation[i].key
        /\ w.keys = mutation[i].keys /\ w.announce
    BY <1>1, <1>3 DEF Mutation
  <2>2. mutation'[i] = w /\ \A j \in Instances \ {i} : mutation'[j] = mutation[j]
    BY <1>2, <1>3 DEF TypeOK
  <2>3. w # Idle
    <3>1. w.phase # Idle.phase
      BY <2>1 DEF Idle
    <3>2. QED
      BY <3>1
  <2>4. QED
    BY <1>1, <1>3, <2>1, <2>2, <2>3
<1>4. CASE ~mutation[i].announce
  <2>1. mutation'[i] = Idle /\ \A j \in Instances \ {i} : mutation'[j] = mutation[j]
    BY <1>2, <1>4 DEF TypeOK
  <2>2. QED
    BY <1>1, <1>4, <2>1
<1>5. QED
  BY <1>3, <1>4

(* A bump, and a crash, end the mutation.                                  *)
LEMMA EndsAt ==
  ASSUME TypeOK, NEW i \in Instances,
         (\E ok \in BumpOutcomes : BumpAndPublish(i, ok)) \/ Crash(i)
  PROVE  /\ mutation'[i] = Idle /\ \A j \in Instances \ {i} : mutation'[j] = mutation[j]
         /\ UNCHANGED <<now, store, storeWrites, cooldownDb>>
BY DEF TypeOK, BumpAndPublish, Crash, Restart, storeVars

LEMMA MutationStep ==
  ASSUME TypeOK, MutationInv, [Next]_vars
  PROVE  MutationInv'
<1> DEFINE Good(w) == w # Idle => /\ KeysNamed(w.key, w.keys)
                                  /\ w.phase = "bump" => w.announce
<1>1. \A i \in Instances : Good(mutation[i])
  BY DEF MutationInv
<1>2. SUFFICES \A i \in Instances : Good(mutation'[i])
  BY DEF MutationInv, KeysNamed, KeysOf
<1>3. ASSUME NEW i \in Instances, Begins(i)
      PROVE  \A j \in Instances : Good(mutation'[j])
  <2>1. CASE Abandon
    BY <1>1, <2>1 DEF Abandon
  <2>2. ASSUME NEW key \in CooldownKey, NEW keys \in SUBSET CooldownKey, NEW until \in Nat,
               NEW announce \in BOOLEAN, Goes(i, key, keys, until, announce)
        PROVE  \A j \in Instances : Good(mutation'[j])
    <3>1. Good(mutation'[i]) /\ \A j \in Instances \ {i} : mutation'[j] = mutation[j]
      BY <2>2, ContinueAt DEF Goes
    <3>2. QED
      BY <1>1, <3>1
  <2>3. QED
    BY <1>3, <2>1, <2>2 DEF Begins
<1>4. ASSUME NEW i \in Instances, NEW dbOk, Apply(i, dbOk)
      PROVE  \A j \in Instances : Good(mutation'[j])
  <2>1. Good(mutation'[i]) /\ \A j \in Instances \ {i} : mutation'[j] = mutation[j]
    BY <1>1, <1>4, ApplyAt
  <2>2. QED
    BY <1>1, <2>1
<1>5. ASSUME NEW i \in Instances,
             (\E ok \in BumpOutcomes : BumpAndPublish(i, ok)) \/ Crash(i)
      PROVE  \A j \in Instances : Good(mutation'[j])
  BY <1>1, <1>5, EndsAt
<1>6. ASSUME UNCHANGED mutation
      PROVE  \A j \in Instances : Good(mutation'[j])
  BY <1>1, <1>6
<1>7. ASSUME NEW i \in Instances, Cleanup(i)
      PROVE  UNCHANGED mutation
  BY <1>7 DEF Cleanup, CleanupExpired
<1>8. Tick => UNCHANGED mutation
  BY DEF Tick
<1> HIDE DEF Good
<1>9. QED
  BY <1>3, <1>4, <1>5, <1>6, <1>7, <1>8, StepKinds

-----------------------------------------------------------------------------
(* Bumps and writes.  The mutations that owe a bump are counted.           *)
LEMMA AnnouncersFinite ==
  ASSUME NEW p
  PROVE  /\ IsFiniteSet(Announcers(p)) /\ Cardinality(Announcers(p)) \in Nat
         /\ IsFiniteSet(Announcers(p)') /\ Cardinality(Announcers(p)') \in Nat
         /\ Announcers(p) \subseteq Instances /\ Announcers(p)' \subseteq Instances
<1>1. Announcers(p) \subseteq Instances /\ Announcers(p)' \subseteq Instances
  BY DEF Announcers
<1>2. QED
  BY <1>1, CooldownAssumption, FS_Subset, FS_CardinalityType

(* One instance's mutation changes.                                        *)
LEMMA AnnouncersChange ==
  ASSUME NEW p, NEW i \in Instances, \A j \in Instances \ {i} : mutation'[j] = mutation[j]
  PROVE  /\ i \notin Announcers(p)' /\ i \notin Announcers(p)
              => Cardinality(Announcers(p)') = Cardinality(Announcers(p))
         /\ i \in Announcers(p)' /\ i \in Announcers(p)
              => Cardinality(Announcers(p)') = Cardinality(Announcers(p))
         /\ i \in Announcers(p)' /\ i \notin Announcers(p)
              => Cardinality(Announcers(p)') = Cardinality(Announcers(p)) + 1
         /\ i \notin Announcers(p)' /\ i \in Announcers(p)
              => Cardinality(Announcers(p)') = Cardinality(Announcers(p)) - 1
<1>1. \A j \in Instances \ {i} : j \in Announcers(p)' <=> j \in Announcers(p)
  BY DEF Announcers
<1>2. Announcers(p) \subseteq Instances /\ Announcers(p)' \subseteq Instances
  BY AnnouncersFinite
<1>3. CASE i \notin Announcers(p)' /\ i \notin Announcers(p)
  <2>1. Announcers(p)' = Announcers(p)
    BY <1>1, <1>2, <1>3
  <2>2. QED
    BY <1>3, <2>1
<1>4. CASE i \in Announcers(p)' /\ i \in Announcers(p)
  <2>1. Announcers(p)' = Announcers(p)
    BY <1>1, <1>2, <1>4
  <2>2. QED
    BY <1>4, <2>1
<1>5. CASE i \in Announcers(p)' /\ i \notin Announcers(p)
  <2>1. Announcers(p)' = Announcers(p) \cup {i}
    BY <1>1, <1>2, <1>5
  <2>2. QED
    BY <1>5, <2>1, AnnouncersFinite, FS_AddElement
<1>6. CASE i \notin Announcers(p)' /\ i \in Announcers(p)
  <2>1. Announcers(p)' = Announcers(p) \ {i}
    BY <1>1, <1>2, <1>6
  <2>2. QED
    BY <1>6, <2>1, AnnouncersFinite, FS_RemoveElement
<1>7. QED
  BY <1>3, <1>4, <1>5, <1>6

LEMMA BumpsStep ==
  ASSUME TypeOK, MutationInv, BumpsHaveWrites, [Next]_vars
  PROVE  BumpsHaveWrites'
<1> SUFFICES ASSUME NEW p \in Providers
             PROVE  storeGen'[p] + Cardinality(Announcers(p)') <= storeWrites'[p]
  BY DEF BumpsHaveWrites
<1> DEFINE n == Cardinality(Announcers(p))
           m == Cardinality(Announcers(p)')
<1>1. /\ storeGen \in [Providers -> Nat] /\ storeWrites \in [Providers -> Nat]
      /\ storeGen[p] \in Nat /\ storeWrites[p] \in Nat /\ n \in Nat /\ m \in Nat
      /\ storeGen[p] + n <= storeWrites[p]
  BY AnnouncersFinite DEF TypeOK, BumpsHaveWrites
<1>2. ASSUME NEW i \in Instances, Begins(i)
      PROVE  storeGen'[p] + m <= storeWrites'[p]
  <2>1. CASE Abandon
    <3>1. UNCHANGED <<storeGen, storeWrites>> /\ Announcers(p)' = Announcers(p)
      BY <2>1 DEF Abandon, storeVars, Announcers
    <3>2. QED
      BY <1>1, <3>1
  <2>2. ASSUME NEW key \in CooldownKey, NEW keys \in SUBSET CooldownKey, NEW until \in Nat,
               NEW announce \in BOOLEAN, Goes(i, key, keys, until, announce)
        PROVE  storeGen'[p] + m <= storeWrites'[p]
    <3>1. i \notin Announcers(p)
      BY <1>2 DEF Begins, Begin, Lockable, Announcers
    <3>2. /\ mutation'[i] # Idle /\ mutation'[i].key = key /\ mutation'[i].announce = announce
          /\ \A j \in Instances \ {i} : mutation'[j] = mutation[j]
      BY <2>2, ContinueAt DEF Goes
    <3>3. i \in Announcers(p)' <=> announce /\ key.p = p
      BY <3>2 DEF Announcers
    <3>4. /\ i \in Announcers(p)' => m = n + 1
          /\ i \notin Announcers(p)' => m = n
      BY <3>1, <3>2, AnnouncersChange
    <3>5. storeGen' = storeGen
      BY <2>2 DEF Goes, StoreWrite, storeVars
    <3>6. storeWrites'[p] = IF announce /\ key.p = p THEN storeWrites[p] + 1 ELSE storeWrites[p]
      <4>1. CASE announce
        BY <1>1, <2>2, <4>1 DEF Goes, StoreWrite
      <4>2. CASE ~announce
        BY <2>2, <4>2 DEF Goes, storeVars
      <4>3. QED
        BY <4>1, <4>2
    <3> HIDE DEF n, m
    <3>7. QED
      BY <1>1, <3>3, <3>4, <3>5, <3>6
  <2>3. QED
    BY <1>2, <2>1, <2>2 DEF Begins
<1>3. ASSUME NEW i \in Instances, NEW dbOk, Apply(i, dbOk)
      PROVE  storeGen'[p] + m <= storeWrites'[p]
  <2>1. i \in Announcers(p)' <=> i \in Announcers(p)
    BY <1>3, ApplyAt DEF Announcers
  <2>2. m = n
    BY <1>3, <2>1, ApplyAt, AnnouncersChange
  <2>3. UNCHANGED <<storeGen, storeWrites>>
    BY <1>3 DEF Apply, storeVars
  <2> HIDE DEF n, m
  <2>4. QED
    BY <1>1, <2>2, <2>3
<1>4. ASSUME NEW i \in Instances, NEW ok \in BumpOutcomes, BumpAndPublish(i, ok)
      PROVE  storeGen'[p] + m <= storeWrites'[p]
  <2>1. mutation[i] \in Mutation /\ mutation[i] # Idle /\ mutation[i].phase = "bump"
    BY <1>4 DEF BumpAndPublish, TypeOK, Idle
  <2>2. mutation[i].announce
    BY <2>1 DEF MutationInv
  <2>3. /\ mutation'[i] = Idle /\ \A j \in Instances \ {i} : mutation'[j] = mutation[j]
        /\ storeWrites' = storeWrites
    BY <1>4, EndsAt
  <2>4. (i \in Announcers(p) <=> mutation[i].key.p = p) /\ i \notin Announcers(p)'
    BY <2>1, <2>2, <2>3 DEF Announcers
  <2>5. m = IF mutation[i].key.p = p THEN n - 1 ELSE n
    BY <2>3, <2>4, AnnouncersChange
  <2>6. storeGen'[p] \in {storeGen[p], IF mutation[i].key.p = p THEN storeGen[p] + 1 ELSE storeGen[p]}
    <3>1. CASE ok
      <4>1. storeGen' = [storeGen EXCEPT ![mutation[i].key.p] = storeGen[mutation[i].key.p] + 1]
        BY <1>4, <3>1 DEF BumpAndPublish
      <4>2. QED
        BY <1>1, <4>1
    <3>2. CASE ~ok
      BY <1>4, <3>2 DEF BumpAndPublish
    <3>3. QED
      BY <3>1, <3>2
  <2> HIDE DEF n, m
  <2>7. QED
    BY <1>1, <2>3, <2>5, <2>6
<1>5. ASSUME NEW i \in Instances, Crash(i)
      PROVE  storeGen'[p] + m <= storeWrites'[p]
  <2>1. /\ mutation'[i] = Idle /\ \A j \in Instances \ {i} : mutation'[j] = mutation[j]
        /\ UNCHANGED <<storeGen, storeWrites>>
    BY <1>5, EndsAt DEF Crash, Restart, storeVars
  <2>2. i \notin Announcers(p)'
    BY <2>1 DEF Announcers
  <2>3. m = n \/ m = n - 1
    BY <2>1, <2>2, AnnouncersChange
  <2> HIDE DEF n, m
  <2>4. QED
    BY <1>1, <2>1, <2>3
<1>6. ASSUME UNCHANGED <<storeGen, storeWrites, mutation>>
      PROVE  storeGen'[p] + m <= storeWrites'[p]
  <2>1. Announcers(p)' = Announcers(p)
    BY <1>6 DEF Announcers
  <2>2. QED
    BY <1>1, <1>6, <2>1
<1>7. ASSUME NEW i \in Instances, Cleanup(i)
      PROVE  UNCHANGED <<storeGen, storeWrites, mutation>>
  BY <1>7 DEF Cleanup, CleanupExpired, storeVars
<1>8. Tick => UNCHANGED <<storeGen, storeWrites, mutation>>
  BY DEF Tick, storeVars
<1> HIDE DEF n, m
<1>9. QED
  BY <1>2, <1>3, <1>4, <1>5, <1>6, <1>7, <1>8, StepKinds DEF storeVars, m

LEMMA MutationInit ==
  Init => MutationInv /\ BumpsHaveWrites
<1> SUFFICES ASSUME Init PROVE MutationInv /\ BumpsHaveWrites
  OBVIOUS
<1>1. MutationInv
  BY DEF Init, MutationInv
<1>2. ASSUME NEW p \in Providers
      PROVE  storeGen[p] + Cardinality(Announcers(p)) <= storeWrites[p]
  <2>1. Announcers(p) = {}
    BY DEF Init, Announcers
  <2>2. QED
    BY <2>1, FS_EmptySet DEF Init
<1>3. QED
  BY <1>1, <1>2 DEF BumpsHaveWrites

(* A generation is bumped only for a change that reached Redis, whatever   *)
(* calls fail and whoever crashes: an entry that an instance keeps to      *)
(* itself is never announced (setCooldownLocked, bumpAndPublishLocked).    *)
THEOREM CooldownBumpsHaveWrites == Spec => []BumpsHaveWrites
BY MutationInit, MutationStep, BumpsStep, CooldownTypeCorrect, PTL DEF Spec

-----------------------------------------------------------------------------
(* The database and Redis, when one instance writes, no call fails and the *)
(* writer does not crash.  With two writers their Apply steps may come in  *)
(* the other order than their Redis steps (the run Cooldown_lost_update);  *)
(* a failed write or a crash leaves the two apart by design.               *)
LoneWriter(w) ==
  /\ Writers = {w} /\ w \notin Crashing
  /\ FALSE \notin StoreOutcomes \cup DbOutcomes

EndAt(u, t) == IF t < u THEN u ELSE 0

(* The writer's mutation has still to reach the database for key k.        *)
Pending(w, k) ==
  mutation[w] # Idle /\ mutation[w].phase = "apply" /\ k \in mutation[w].keys

(* Redis holds what a pending mutation will write; elsewhere the two agree *)
(* on what has not expired.                                                *)
DatabaseInv(w) ==
  /\ \A i \in Instances \ {w} : mutation[i] = Idle
  /\ \A k \in CooldownKey :
       IF Pending(w, k) THEN store[k] = mutation[w].until
                        ELSE EndAt(cooldownDb[k], now) = EndAt(store[k], now)

LEMMA UnexpiredAt ==
  ASSUME NEW table \in Table, NEW t \in Nat, NEW k \in CooldownKey
  PROVE  /\ Unexpired(table, t)[k] = EndAt(table[k], t)
         /\ EndAt(Unexpired(table, t)[k], t) = EndAt(table[k], t)
         /\ EndAt(table[k], t + 1) = EndAt(EndAt(table[k], t), t + 1)
BY DEF Unexpired, Table, Time, NoCooldown, EndAt

LEMMA DatabaseStep ==
  ASSUME NEW w \in Instances, LoneWriter(w), TypeOK, DatabaseInv(w), [Next]_vars
  PROVE  DatabaseInv(w)'
<1>1. /\ store \in Table /\ cooldownDb \in Table /\ now \in Nat
      /\ \A k \in CooldownKey : store[k] \in Nat /\ cooldownDb[k] \in Nat
  BY DEF TypeOK, Table, Time
<1>2. ASSUME NEW i \in Instances, Begins(i)
      PROVE  DatabaseInv(w)'
  <2>1. i = w /\ mutation[w] = Idle /\ UNCHANGED <<now, cooldownDb>>
    BY <1>2 DEF Begins, Begin, Lockable, LoneWriter
  <2>2. CASE Abandon
    BY <2>1, <2>2 DEF Abandon, DatabaseInv, Pending, storeVars
  <2>3. ASSUME NEW key \in CooldownKey, NEW keys \in SUBSET CooldownKey, NEW until \in Nat,
               NEW announce \in BOOLEAN, Goes(w, key, keys, until, announce)
        PROVE  DatabaseInv(w)'
    <3>1. store' = Written(store, keys, until)
      BY <2>3 DEF Goes, LoneWriter, StoreWrite
    <3>2. /\ mutation'[w] # Idle /\ mutation'[w].phase = "apply"
          /\ mutation'[w].keys = keys /\ mutation'[w].until = until
          /\ \A j \in Instances \ {w} : mutation'[j] = mutation[j]
      BY <2>3, ContinueAt DEF Goes
    <3>3. ASSUME NEW k \in CooldownKey
          PROVE  IF Pending(w, k)' THEN store'[k] = mutation'[w].until
                 ELSE EndAt(cooldownDb'[k], now') = EndAt(store'[k], now')
      <4>1. Pending(w, k)' <=> k \in keys
        BY <3>2 DEF Pending
      <4>2. store'[k] = IF k \in keys THEN until ELSE store[k]
        BY <3>1 DEF Written
      <4>3. EndAt(cooldownDb[k], now) = EndAt(store[k], now)
        BY <2>1 DEF DatabaseInv, Pending
      <4>4. QED
        BY <2>1, <3>2, <4>1, <4>2, <4>3
    <3>4. QED
      BY <3>2, <3>3 DEF DatabaseInv
  <2>4. QED
    BY <1>2, <2>1, <2>2, <2>3 DEF Begins
<1>3. ASSUME NEW i \in Instances, NEW dbOk \in DbOutcomes, Apply(i, dbOk)
      PROVE  DatabaseInv(w)'
  <2>1. i = w
    BY <1>3, ApplyAt DEF DatabaseInv
  <2>2. dbOk
    BY CooldownAssumption DEF LoneWriter
  <2>3. /\ mutation[w] \in Mutation /\ mutation[w] # Idle /\ mutation[w].phase = "apply"
        /\ \/ mutation'[w] # Idle /\ mutation'[w].phase = "bump"
           \/ mutation'[w] = Idle
        /\ \A j \in Instances \ {w} : mutation'[j] = mutation[j]
    BY <1>3, <2>1, ApplyAt
  <2>4. /\ cooldownDb' = Written(cooldownDb, mutation[w].keys, mutation[w].until)
        /\ UNCHANGED <<now, store>>
    BY <1>3, <2>1, <2>2 DEF Apply, storeVars
  <2>5. ASSUME NEW k \in CooldownKey
        PROVE  EndAt(cooldownDb'[k], now') = EndAt(store'[k], now')
    <3>1. cooldownDb'[k] = IF k \in mutation[w].keys THEN mutation[w].until ELSE cooldownDb[k]
      BY <2>4 DEF Written
    <3>2. IF k \in mutation[w].keys THEN store[k] = mutation[w].until
          ELSE EndAt(cooldownDb[k], now) = EndAt(store[k], now)
      BY <2>3 DEF DatabaseInv, Pending
    <3>3. QED
      BY <2>4, <3>1, <3>2
  <2>6. \A k \in CooldownKey : ~Pending(w, k)'
    BY <2>3 DEF Pending
  <2>7. QED
    BY <2>3, <2>5, <2>6 DEF DatabaseInv
<1>4. ASSUME NEW i \in Instances, NEW ok \in BumpOutcomes, BumpAndPublish(i, ok)
      PROVE  DatabaseInv(w)'
  <2>1. /\ mutation'[i] = Idle /\ \A j \in Instances \ {i} : mutation'[j] = mutation[j]
        /\ UNCHANGED <<now, store, cooldownDb>>
    BY <1>4, EndsAt
  <2>2. mutation[i].phase = "bump"
    BY <1>4 DEF BumpAndPublish
  <2>3. \A k \in CooldownKey : Pending(w, k)' = Pending(w, k)
    BY <2>1, <2>2 DEF Pending
  <2>4. \A k \in CooldownKey : Pending(w, k) => mutation'[w] = mutation[w]
    BY <2>1, <2>2 DEF Pending
  <2>5. QED
    BY <2>1, <2>3, <2>4 DEF DatabaseInv
<1>5. ASSUME NEW i \in Instances, Crash(i)
      PROVE  DatabaseInv(w)'
  <2>1. i # w
    BY <1>5 DEF Crash, Restart, LoneWriter
  <2>2. /\ mutation'[i] = Idle /\ \A j \in Instances \ {i} : mutation'[j] = mutation[j]
        /\ UNCHANGED <<now, store, cooldownDb>>
    BY <1>5, EndsAt
  <2>3. mutation'[w] = mutation[w]
    BY <2>1, <2>2
  <2>4. QED
    BY <2>2, <2>3 DEF DatabaseInv, Pending
<1>6. ASSUME NEW i \in Instances, Cleanup(i)
      PROVE  DatabaseInv(w)'
  <2>1. cooldownDb' = Unexpired(cooldownDb, now) /\ UNCHANGED <<now, store, mutation>>
    BY <1>6, CooldownAssumption DEF Cleanup, CleanupExpired, LoneWriter, storeVars
  <2>2. \A k \in CooldownKey : EndAt(cooldownDb'[k], now') = EndAt(cooldownDb[k], now)
    BY <1>1, <2>1, UnexpiredAt
  <2>3. QED
    BY <2>1, <2>2 DEF DatabaseInv, Pending
<1>7. ASSUME Tick
      PROVE  DatabaseInv(w)'
  <2>1. now' = now + 1 /\ UNCHANGED <<store, cooldownDb, mutation>>
    BY <1>7 DEF Tick, storeVars
  <2>2. \A k \in CooldownKey :
          EndAt(cooldownDb[k], now) = EndAt(store[k], now)
            => EndAt(cooldownDb'[k], now') = EndAt(store'[k], now')
    BY <1>1, <2>1, UnexpiredAt
  <2>3. QED
    BY <2>1, <2>2 DEF DatabaseInv, Pending
<1>8. ASSUME UNCHANGED <<now, storeVars, cooldownDb, mutation>>
      PROVE  DatabaseInv(w)'
  BY <1>8 DEF DatabaseInv, Pending, storeVars
<1>9. QED
  BY <1>2, <1>3, <1>4, <1>5, <1>6, <1>7, <1>8, StepKinds

(* With one instance that writes, whose calls succeed and which does not   *)
(* crash, a restart of any instance finds in the database exactly what     *)
(* Redis blocks, however many instances read, reload and clean up, and     *)
(* although entries expire in each on its own (setCooldownLocked step 3,   *)
(* clearCooldownLocked, CleanupExpired).                                   *)
THEOREM CooldownDatabaseFollows ==
  ASSUME NEW w \in Instances, LoneWriter(w)
  PROVE  Spec => []DatabaseFollowsRedis
<1>1. Init => DatabaseInv(w)
  <2>1. Init => store = cooldownDb /\ \A i \in Instances : mutation[i] = Idle
    BY DEF Init
  <2>2. QED
    BY <2>1 DEF DatabaseInv, Pending
<1>2. TypeOK /\ DatabaseInv(w) /\ [Next]_vars => DatabaseInv(w)'
  BY DatabaseStep
<1>3. TypeOK /\ DatabaseInv(w) => DatabaseFollowsRedis
  <2> SUFFICES ASSUME TypeOK, DatabaseInv(w), \A i \in Instances : mutation[i] = Idle
               PROVE  Unexpired(cooldownDb, now) = Unexpired(store, now)
    BY DEF DatabaseFollowsRedis
  <2>1. store \in Table /\ cooldownDb \in Table /\ now \in Nat
    BY DEF TypeOK
  <2>2. \A k \in CooldownKey : Unexpired(cooldownDb, now)[k] = Unexpired(store, now)[k]
    BY <2>1, UnexpiredAt DEF DatabaseInv, Pending
  <2>3. Unexpired(cooldownDb, now) \in Table /\ Unexpired(store, now) \in Table
    BY <2>1, UnexpiredType
  <2>4. QED
    BY <2>2, <2>3 DEF Table
<1>4. QED
  BY <1>1, <1>2, <1>3, CooldownTypeCorrect, PTL DEF Spec

-----------------------------------------------------------------------------
(* Answers.  The keys a look-up checks are those that stand for what it    *)
(* asks about.                                                             *)
LEMMA CheckedCover ==
  ASSUME NEW p \in Providers, NEW c \in ClientTypes, NEW m \in Models
  PROVE  CheckedKeys(p, c, m) = {k \in CooldownKey : Covers(k, p, c, m)}
<1>1. c # All /\ m # All
  BY AnyAssumption
<1>2. CheckedKeys(p, c, m) \subseteq {k \in CooldownKey : Covers(k, p, c, m)}
  BY <1>1 DEF CheckedKeys, CooldownKey, Covers
<1>3. ASSUME NEW k \in CooldownKey, Covers(k, p, c, m)
      PROVE  k \in CheckedKeys(p, c, m)
  <2>1. k = [p |-> p, ct |-> k.ct, m |-> k.m]
    BY <1>3 DEF CooldownKey, Covers
  <2>2. QED
    BY <1>1, <1>3, <2>1 DEF CheckedKeys, Covers
<1>4. QED
  BY <1>2, <1>3

(* A table with new ends for the keys of a call.                           *)
LEMMA WrittenAnswers ==
  ASSUME NEW table \in Table, NEW t \in Nat, NEW u \in Nat, NEW key \in CooldownKey,
         NEW keys, KeysNamed(key, keys),
         NEW p \in Providers, NEW c \in ClientTypes, NEW m \in Models
  PROVE  LET before == IsInCooldown(table, t, p, c, m)
             after == IsInCooldown(Written(table, keys, u), t, p, c, m)
             wider == \E k \in CooldownKey \ {key} :
                        Covers(k, p, c, m) /\ t < table[k] /\ key.m # All
         IN  /\ ~Covers(key, p, c, m) => (before <=> after)
             /\ Covers(key, p, c, m) /\ t < u => after
             /\ Covers(key, p, c, m) /\ ~(t < u) =>
                  (after => before) /\ (wider => after)
<1> DEFINE new == Written(table, keys, u)
           before == IsInCooldown(table, t, p, c, m)
           after == IsInCooldown(new, t, p, c, m)
<1>1. /\ before <=> \E k \in CooldownKey : Covers(k, p, c, m) /\ t < table[k]
      /\ after <=> \E k \in CooldownKey : Covers(k, p, c, m) /\ t < new[k]
  BY CheckedCover DEF IsInCooldown
<1>2. \A k \in CooldownKey : new[k] = IF k \in keys THEN u ELSE table[k]
  BY DEF Written
<1>3. key \in keys
  BY DEF KeysNamed, KeysOf
<1>4. ASSUME ~Covers(key, p, c, m)
      PROVE  before <=> after
  <2>1. ASSUME NEW k \in CooldownKey, Covers(k, p, c, m)
        PROVE  k \notin keys
    BY <1>4, <2>1 DEF KeysNamed, KeysOf, Covers
  <2>2. QED
    BY <1>1, <1>2, <2>1
<1>5. Covers(key, p, c, m) /\ t < u => after
  BY <1>1, <1>2, <1>3
<1>6. ASSUME ~(t < u)
      PROVE  after => before
  BY <1>1, <1>2, <1>6
<1>7. ASSUME NEW k \in CooldownKey \ {key}, Covers(k, p, c, m), t < table[k], key.m # All
      PROVE  after
  <2>1. k \notin keys
    BY <1>7 DEF KeysNamed
  <2>2. QED
    BY <1>1, <1>2, <1>7, <2>1
<1>8. QED
  BY <1>4, <1>5, <1>6, <1>7

(* What changes an instance's table, when nothing reloads or restarts.     *)
LEMMA TableChanges ==
  ASSUME Reloaders = {}, Crashing = {}, TypeOK, [Next]_vars, NEW i \in Instances
  PROVE  \/ Applies(i)
         \/ UNCHANGED cooldowns[i]
         \/ cooldowns'[i] = Without(cooldowns[i], ExpiredKeys(i))
<1>1. ASSUME NEW j \in Instances, NEW dbOk \in DbOutcomes, Apply(j, dbOk)
      PROVE  Applies(i) \/ UNCHANGED cooldowns[i]
  <2>1. CASE j = i
    BY <1>1, <2>1, ApplyAt DEF Applies
  <2>2. CASE j # i
    BY <1>1, <2>2 DEF TypeOK, Apply
  <2>3. QED
    BY <2>1, <2>2
<1>2. ASSUME NEW j \in Instances, Cleanup(j)
      PROVE  \/ UNCHANGED cooldowns[i]
             \/ cooldowns'[i] = Without(cooldowns[i], ExpiredKeys(i))
  <2>1. cooldowns' = [cooldowns EXCEPT ![j] = Without(cooldowns[j], ExpiredKeys(j))]
    BY <1>2 DEF Cleanup, CleanupExpired
  <2>2. QED
    BY <2>1 DEF TypeOK
<1>3. ASSUME NEW j \in Instances,
             Begins(j) \/ \E ok \in BumpOutcomes : BumpAndPublish(j, ok)
      PROVE  UNCHANGED cooldowns[i]
  BY <1>3 DEF Begins, Begin, BumpAndPublish
<1>4. ASSUME NEW j \in Instances
      PROVE  ~Crash(j)
  BY DEF Crash, Restart
<1>5. Tick => UNCHANGED cooldowns[i]
  BY DEF Tick, localVars
<1>6. QED
  BY <1>1, <1>2, <1>3, <1>4, <1>5, StepKinds

(* What an instance answers changes as the calls ask for and not otherwise *)
(* (setCooldownLocked, clearCooldownLocked, IsInCooldown), however many    *)
(* instances, clients and models there are; a reload and a restart take    *)
(* over what others asked for, and are left out.                           *)
THEOREM CooldownAnswersChangeAsAsked ==
  ASSUME Reloaders = {}, Crashing = {}
  PROVE  Spec => AnswersChangeAsAsked
<1>1. ASSUME TypeOK, MutationInv, [Next]_vars, NEW i \in Instances,
             NEW p \in Providers, NEW c \in ClientTypes, NEW m \in Models
      PROVE  LET before == IsInCooldown(cooldowns[i], now, p, c, m)
                 after == IsInCooldown(cooldowns'[i], now, p, c, m)
                 set == now < mutation[i].until
                 wider == \E k \in CooldownKey \ {mutation[i].key} :
                            /\ Covers(k, p, c, m) /\ now < cooldowns[i][k]
                            /\ mutation[i].key.m # All
             IN  /\ before # after =>
                      Applies(i) /\ Covers(mutation[i].key, p, c, m) /\ (after <=> set)
                 /\ Applies(i) /\ Covers(mutation[i].key, p, c, m) =>
                      IF set THEN after ELSE wider => after
  <2> DEFINE w == mutation[i]
             before == IsInCooldown(cooldowns[i], now, p, c, m)
             after == IsInCooldown(cooldowns'[i], now, p, c, m)
             wider == \E k \in CooldownKey \ {w.key} :
                        Covers(k, p, c, m) /\ now < cooldowns[i][k] /\ w.key.m # All
  <2>1. now \in Nat /\ cooldowns[i] \in Table
    BY <1>1 DEF TypeOK
  <2>2. ASSUME Applies(i)
        PROVE  /\ ~Covers(w.key, p, c, m) => (before <=> after)
               /\ Covers(w.key, p, c, m) /\ now < w.until => after
               /\ Covers(w.key, p, c, m) /\ ~(now < w.until) =>
                    (after => before) /\ (wider => after)
    <3>1. PICK dbOk \in DbOutcomes : Apply(i, dbOk)
      BY <2>2 DEF Applies
    <3>2. w \in Mutation /\ w # Idle
      BY <1>1, <3>1, ApplyAt
    <3>3. w.until \in Nat /\ w.key \in CooldownKey
      BY <3>2 DEF Mutation, Time
    <3>4. KeysNamed(w.key, w.keys)
      BY <1>1, <3>2 DEF MutationInv
    <3>5. cooldowns'[i] = Written(cooldowns[i], w.keys, w.until)
      BY <1>1, <3>1 DEF TypeOK, Apply
    <3> HIDE DEF w
    <3>6. QED
      BY <2>1, <3>3, <3>4, <3>5, WrittenAnswers
  <2>3. CASE UNCHANGED cooldowns[i]
    <3>1. before = after
      BY <2>3
    <3>2. QED
      BY <2>2, <3>1
  <2>4. CASE cooldowns'[i] = Without(cooldowns[i], ExpiredKeys(i))
    <3>1. \A k \in CooldownKey : now < cooldowns'[i][k] <=> now < cooldowns[i][k]
      BY <2>1, <2>4 DEF Without, ExpiredKeys, Table, Time, NoCooldown
    <3>2. before <=> after
      BY <3>1, CheckedCover DEF IsInCooldown
    <3>3. before = after
      BY <3>2 DEF IsInCooldown
    <3>4. (before # after => Applies(i) /\ Covers(w.key, p, c, m) /\ (after <=> now < w.until))
      BY <3>3
    <3>5. Applies(i) /\ Covers(w.key, p, c, m) => IF now < w.until THEN after ELSE wider => after
      <4>1. CASE now < w.until
        BY <2>2, <4>1
      <4>2. CASE ~(now < w.until)
        BY <2>2, <4>2
      <4>3. QED
        BY <4>1, <4>2
    <3>6. QED
      BY <3>4, <3>5
  <2>5. CASE Applies(i)
    <3>1. before # after => ~(before <=> after)
      BY DEF IsInCooldown
    <3>2. CASE Covers(w.key, p, c, m)
      <4>1. CASE now < w.until
        BY <2>2, <2>5, <3>2, <4>1
      <4>2. CASE ~(now < w.until)
        <5>1. (before # after => ~after) /\ (wider => after)
          BY <2>2, <2>5, <3>1, <3>2, <4>2
        <5>2. QED
          BY <2>5, <3>2, <4>2, <5>1
      <4>3. QED
        BY <4>1, <4>2
    <3>3. CASE ~Covers(w.key, p, c, m)
      BY <2>2, <2>5, <3>1, <3>3
    <3>4. QED
      BY <3>2, <3>3
  <2>6. QED
    BY <1>1, <2>3, <2>4, <2>5, TableChanges
<1>2. ASSUME TypeOK, MutationInv, [Next]_vars
      PROVE  [\A i \in Instances, p \in Providers, c \in ClientTypes, m \in Models :
                LET before == IsInCooldown(cooldowns[i], now, p, c, m)
                    after == IsInCooldown(cooldowns'[i], now, p, c, m)
                    set == now < mutation[i].until
                    wider == \E k \in CooldownKey \ {mutation[i].key} :
                               /\ Covers(k, p, c, m) /\ now < cooldowns[i][k]
                               /\ mutation[i].key.m # All
                IN  /\ before # after =>
                         Applies(i) /\ Covers(mutation[i].key, p, c, m) /\ (after <=> set)
                    /\ Applies(i) /\ Covers(mutation[i].key, p, c, m) =>
                         IF set THEN after ELSE wider => after]_cooldowns
  BY <1>1, <1>2
<1>3. QED
  BY <1>2, MutationInit, MutationStep, CooldownTypeCorrect, PTL
  DEF Spec, AnswersChangeAsAsked
=============================================================================
