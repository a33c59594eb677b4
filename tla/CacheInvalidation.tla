------------------------- MODULE CacheInvalidation --------------------------
(***************************************************************************)
(* A repository that keeps its whole table in memory, on several instances *)
(* (repository/cached): a change is written to the table, then to the      *)
(* instance's own copy, and then announced; whoever hears of it reads the  *)
(* table again.  For providers there is one copy more, the adapters of the *)
(* router (router/router.go), built from the rows in memory.               *)
(*                                                                         *)
(* A row is its version, counted for the properties alone, and the         *)
(* fingerprint of what adapters are built from.  Changes in place, of      *)
(* counters, balances and the time last seen, are left out, and so are a   *)
(* table that cannot be read while an instance starts and adapters that    *)
(* cannot be built.                                                        *)
(***************************************************************************)
EXTENDS Integers, Sequences

CONSTANTS
  Instances,
  Ids,            \* rows
  Repositories,   \* those of the instance, by their channel
  Callers,        \* one call each
  FirstRows,      \* the rows there are in the beginning
  MaxCrashes, MaxFaults

ASSUME CacheAssumption ==
  /\ FirstRows \subseteq Ids
  /\ Repositories \subseteq {"provider", "route", "retry_config", "routing_strategy",
                             "project", "api_token", "model_mapping"}
  /\ {MaxCrashes, MaxFaults} \subseteq Nat

VARIABLES
  entity,    \* the repository
  table,     \* per row
  cache,     \* per instance and row: its copies
  adapters,  \* per instance and row: the row the adapter was built from
  inbox,     \* per instance: an announcement waits to be received
  job,       \* per instance: the main and the subscription goroutine
  phase,     \* per instance
  admin,     \* per caller
  crashes, faults,
  seen,      \* history: per instance and row, the latest version it had
  owed       \* history: instances a fault keeps from reading a change

cacheVars == <<entity, table, cache, adapters, inbox, job, phase, admin,
               crashes, faults, seen, owed>>

Prints == {1, 2}
Absent == [v |-> 0, print |-> 1, there |-> FALSE]
First == [v |-> 1, print |-> 1, there |-> TRUE]
FirstTable == [r \in Ids |-> IF r \in FirstRows THEN First ELSE Absent]
CopiesOf(t) == [r \in Ids |-> IF t[r].there THEN <<t[r]>> ELSE <<>>]
Versions(t) == [r \in Ids |-> t[r].v]
NoCopies == [r \in Ids |-> <<>>]
NoJob == [at |-> "idle", read |-> FirstTable, next |-> NoCopies]

Goroutines == {"main", "loop"}
Rows == [v : Nat, print : Prints, there : BOOLEAN]
CopySeqs == [Ids -> Seq(Rows)]
Jobs == [at : {"idle", "list", "install", "snapshot", "swap"},
         read : [Ids -> Rows], next : CopySeqs]
Ops == [write : {"insert", "save", "set", "delete", "clear", "reorder", "none"},
        keep : {"put", "promote", "append", "replace", "drop", "drop first", "fill",
                "empty", "load"},
        adapter : {"none", "refresh", "remove"}]
Calls == [on : Instances,
          at : {"new", "write", "keep", "list", "install", "publish", "adapter",
                "look up", "fill", "over"},
          op : Ops, rows : SUBSET Ids, read : [Ids -> Rows]]

CacheTypeOK ==
  /\ entity \in Repositories /\ table \in [Ids -> Rows]
  /\ cache \in [Instances -> CopySeqs] /\ adapters \in [Instances -> CopySeqs]
  /\ inbox \in [Instances -> BOOLEAN] /\ owed \subseteq Instances
  /\ phase \in [Instances -> {"up", "down", "loading", "restarted"}]
  /\ job \in [Instances -> [Goroutines -> Jobs]]
  /\ admin \in [Callers -> Calls]
  /\ seen \in [Instances -> [Ids -> Nat]]
  /\ {crashes, faults} \subseteq Nat

-----------------------------------------------------------------------------
(* What the calls of each repository do to the table, to the copies and,   *)
(* for providers, to the adapters.                                         *)
Op(write, keep, adapter) == [write |-> write, keep |-> keep, adapter |-> adapter]

ProviderCalls ==
  {Op("insert", "put", "refresh"), Op("save", "put", "refresh"), Op("delete", "drop", "none")}
RefreshedToken == Op("save", "put", "none")
BulkDelete == Op("clear", "load", "remove")
RouteCalls ==
  {Op("insert", "append", "none"), Op("save", "replace", "none"), Op("delete", "drop first", "none"),
   Op("clear", "drop", "none")}
RereadRoutes == Op("clear", "load", "none")
RetryConfigCalls ==
  {Op("insert", "promote", "none"), Op("save", "promote", "none"), Op("save", "put", "none"),
   Op("delete", "drop", "none")}
RoutingStrategyCalls ==
  {Op("insert", "put", "none"), Op("save", "put", "none"), Op("delete", "drop", "none")}
ProjectCalls ==
  {Op("insert", "put", "none"), Op("save", "put", "none"), Op("delete", "drop", "none")}
ProjectBySlug == Op("none", "fill", "none")
APITokenCalls ==
  {Op("insert", "put", "none"), Op("set", "put", "none"), Op("delete", "drop", "none"),
   Op("clear", "drop", "none")}
TokenByValue == Op("none", "fill", "none")
ModelMappingCalls ==
  {Op("insert", "append", "none"), Op("save", "replace", "none"), Op("delete", "drop first", "none")}
ClearMappings == Op("clear", "empty", "none")
SeedMappings == Op("insert", "load", "none")
ReorderMappings == Op("reorder", "load", "none")
RereadMappings == Op("clear", "load", "none")

CallsOf(repo) ==
  CASE repo = "provider" -> ProviderCalls \cup {RefreshedToken, BulkDelete}
    [] repo = "route" -> RouteCalls \cup {RereadRoutes}
    [] repo = "retry_config" -> RetryConfigCalls
    [] repo = "routing_strategy" -> RoutingStrategyCalls
    [] repo = "project" -> ProjectCalls \cup {ProjectBySlug}
    [] repo = "api_token" -> APITokenCalls \cup {TokenByValue}
    [] repo = "model_mapping" -> ModelMappingCalls \cup
           {ClearMappings, SeedMappings, ReorderMappings, RereadMappings}

NoCall(i, at) ==
  [on |-> i, at |-> at, op |-> RefreshedToken, rows |-> {}, read |-> FirstTable]

CacheInit ==
  /\ entity \in Repositories
  /\ table = FirstTable
  /\ cache = [i \in Instances |-> CopiesOf(FirstTable)]
  /\ adapters = [i \in Instances |-> IF entity = "provider" THEN CopiesOf(FirstTable) ELSE NoCopies]
  /\ inbox = [i \in Instances |-> FALSE]
  /\ job = [i \in Instances |-> [g \in Goroutines |-> NoJob]]
  /\ phase = [i \in Instances |-> "up"]
  /\ \E at \in [Callers -> Instances] :
       admin = [c \in Callers |-> NoCall(at[c], "new")]
  /\ crashes = 0 /\ faults = 0
  /\ seen = [i \in Instances |-> Versions(FirstTable)]
  /\ owed = {}

-----------------------------------------------------------------------------
CallAt(c, at) == admin[c].at = at
On(c) == admin[c].on
Others(i) == Instances \ {i}

CallGoes(c, at) == admin' = [admin EXCEPT ![c].at = at]
CallEnds(c) == admin' = [admin EXCEPT ![c] = NoCall(On(c), "over")]
FaultHappens == faults < MaxFaults /\ faults' = faults + 1
NoFault == UNCHANGED faults

SawAll(i, t) ==
  seen' = [seen EXCEPT ![i] =
    [r \in Ids |-> IF t[r].v > seen[i][r] THEN t[r].v ELSE seen[i][r]]]
Saw(i, t, rows) == SawAll(i, [r \in Ids |-> IF r \in rows THEN t[r] ELSE Absent])

(* An administrator's page, a request that refreshes a provider's token,   *)
(* or a look-up by name.  DeleteProvider removes the adapter first.        *)
Known(i, r) == cache[i][r] # <<>> \/ table[r].there
Fresh(r) == table[r].v = 0 /\ \A c \in Callers : r \notin admin[c].rows

BeginChange(c) ==
  /\ CallAt(c, "new") /\ phase[On(c)] \in {"up", "restarted"}
  /\ \E op \in CallsOf(entity), r \in Ids :
       /\ CASE op.write = "insert" -> Fresh(r)
            [] op.write = "none" -> cache[On(c)][r] = <<>>
            [] op.write \in {"clear", "reorder"} -> r = CHOOSE x \in Ids : TRUE
            [] OTHER -> Known(On(c), r)
       /\ admin' = [admin EXCEPT ![c].op = op, ![c].rows = {r},
                                 ![c].at = IF op.write = "none" THEN "look up" ELSE "write"]
       /\ adapters' = IF entity = "provider" /\ op.write = "delete"
                      THEN [adapters EXCEPT ![On(c)][r] = <<>>] ELSE adapters
  /\ UNCHANGED <<entity, table, cache, inbox, job, phase, crashes, faults, seen, owed>>

(* The write to the table; bulk calls concern the rows there are. *)
Targets(c) ==
  IF admin[c].op.write \in {"clear", "reorder"} THEN {r \in Ids : table[r].there}
  ELSE admin[c].rows

Rewritten(row, write, print) ==
  [v |-> row.v + 1,
   print |-> IF write \in {"insert", "save", "set"} THEN print ELSE row.print,
   there |-> CASE write \in {"insert", "save"} -> TRUE
               [] write \in {"delete", "clear"} -> FALSE
               [] OTHER -> row.there]

WriteTable(c) ==
  /\ CallAt(c, "write")
  /\ \E print \in IF entity = "provider" THEN Prints ELSE {1} :
       table' = [r \in Ids |-> IF r \in Targets(c)
                               THEN Rewritten(table[r], admin[c].op.write, print) ELSE table[r]]
  /\ admin' = [admin EXCEPT ![c].at = IF admin[c].op.keep = "load" THEN "list" ELSE "keep",
                            ![c].rows = Targets(c), ![c].read = table']
  /\ UNCHANGED <<entity, cache, adapters, inbox, job, phase, crashes, faults, seen, owed>>

(* The instance's own copies.  Lists change or lose the first copy of a    *)
(* row, if there is one, and take a new row without looking for it.        *)
KeptCopies(c) ==
  LET Kept(r, old) ==
        LET new == admin[c].read[r]
        IN CASE admin[c].op.keep \in {"put", "promote"} -> <<new>>
             [] admin[c].op.keep = "append" -> Append(old, new)
             [] admin[c].op.keep = "replace" -> IF old = <<>> THEN old ELSE <<new>> \o Tail(old)
             [] admin[c].op.keep = "drop first" -> IF old = <<>> THEN old ELSE Tail(old)
             [] OTHER -> <<>>
      mine == IF admin[c].op.keep = "empty" THEN Ids ELSE admin[c].rows
  IN [r \in Ids |-> IF r \in mine THEN Kept(r, cache[On(c)][r]) ELSE cache[On(c)][r]]

KeepCopy(c) ==
  /\ CallAt(c, "keep")
  /\ cache' = [cache EXCEPT ![On(c)] = KeptCopies(c)]
  /\ Saw(On(c), admin[c].read, admin[c].rows)
  /\ CallGoes(c, "publish")
  /\ UNCHANGED <<entity, table, adapters, inbox, job, phase, crashes, faults, owed>>

(* A retry configuration becomes the default one: the former one is saved  *)
(* too, while the lock is held.  When this fails, nobody is told.          *)
Demote(c, d) ==
  LET row == [v |-> table[d].v + 1, print |-> 1, there |-> TRUE]
  IN /\ CallAt(c, "keep") /\ admin[c].op.keep = "promote"
     /\ d \notin admin[c].rows /\ cache[On(c)][d] # <<>>
     /\ \/ /\ table' = [table EXCEPT ![d] = row]
           /\ cache' = [cache EXCEPT ![On(c)] = [KeptCopies(c) EXCEPT ![d] = <<row>>]]
           /\ Saw(On(c), [admin[c].read EXCEPT ![d] = row], admin[c].rows \cup {d})
           /\ CallGoes(c, "publish") /\ NoFault /\ UNCHANGED owed
        \/ /\ cache' = [cache EXCEPT ![On(c)] = KeptCopies(c)]
           /\ Saw(On(c), admin[c].read, admin[c].rows)
           /\ CallEnds(c) /\ FaultHappens /\ owed' = owed \cup Others(On(c))
           /\ UNCHANGED table
     /\ UNCHANGED <<entity, adapters, inbox, job, phase, crashes>>

(* Load as a part of a call.  A change that could not be read again is not *)
(* announced.                                                              *)
ListRows(c) ==
  /\ CallAt(c, "list")
  /\ \/ /\ admin' = [admin EXCEPT ![c].at = "install", ![c].read = table]
        /\ owed' = owed \ {On(c)} /\ NoFault
     \/ /\ IF admin[c].op.adapter = "remove" THEN CallGoes(c, "adapter") ELSE CallEnds(c)
        /\ owed' = Instances /\ FaultHappens
  /\ UNCHANGED <<entity, table, cache, adapters, inbox, job, phase, crashes, seen>>

InstallRows(c) ==
  /\ CallAt(c, "install")
  /\ cache' = [cache EXCEPT ![On(c)] = CopiesOf(admin[c].read)]
  /\ SawAll(On(c), admin[c].read)
  /\ CallGoes(c, "publish")
  /\ UNCHANGED <<entity, table, adapters, inbox, job, phase, crashes, faults, owed>>

(* Faulty form of what follows: subscribed only when all is loaded. *)
SubscribedLate(i) == phase[i] \notin {"down", "loading"}

(* Who hears of a change; an instance subscribes before it loads.          *)
Subscribed(i) == phase[i] # "down"

(* One announcement that waits is as good as many: it leads to a reading   *)
(* that comes after all their changes.  What Redis does not take within    *)
(* the time limit is lost.                                                 *)
Publish(c) ==
  /\ CallAt(c, "publish")
  /\ \/ /\ inbox' = [j \in Instances |-> inbox[j] \/ (j # On(c) /\ Subscribed(j))]
        /\ NoFault /\ UNCHANGED owed
     \/ FaultHappens /\ owed' = owed \cup Others(On(c)) /\ UNCHANGED inbox
  /\ IF admin[c].op.adapter = "none" THEN CallEnds(c) ELSE CallGoes(c, "adapter")
  /\ UNCHANGED <<entity, table, cache, adapters, job, phase, crashes, seen>>

(* RefreshAdapter and RemoveAdapter. *)
ChangeAdapter(c) ==
  /\ CallAt(c, "adapter")
  /\ adapters' = [adapters EXCEPT ![On(c)] =
       [r \in Ids |-> IF r \notin admin[c].rows THEN adapters[On(c)][r]
                      ELSE IF admin[c].op.adapter = "remove" THEN <<>>
                      ELSE <<admin[c].read[r]>>]]
  /\ CallEnds(c)
  /\ UNCHANGED <<entity, table, cache, inbox, job, phase, crashes, faults, seen, owed>>

(* A look-up that misses reads the row and keeps it. *)
LookUp(c) ==
  /\ CallAt(c, "look up")
  /\ IF \E r \in admin[c].rows : table[r].there
     THEN admin' = [admin EXCEPT ![c].at = "fill", ![c].read = table]
     ELSE CallEnds(c)
  /\ UNCHANGED <<entity, table, cache, adapters, inbox, job, phase, crashes, faults, seen, owed>>

FillCopy(c) ==
  /\ CallAt(c, "fill")
  /\ cache' = [cache EXCEPT ![On(c)] =
       [r \in Ids |-> IF r \in admin[c].rows THEN <<admin[c].read[r]>>
                      ELSE cache[On(c)][r]]]
  /\ Saw(On(c), admin[c].read, admin[c].rows)
  /\ CallEnds(c)
  /\ UNCHANGED <<entity, table, adapters, inbox, job, phase, crashes, faults, owed>>

CallSteps(c) ==
  \/ BeginChange(c) \/ WriteTable(c) \/ KeepCopy(c) \/ (\E d \in Ids : Demote(c, d))
  \/ ListRows(c) \/ InstallRows(c) \/ Publish(c) \/ ChangeAdapter(c)
  \/ LookUp(c) \/ FillCopy(c)

-----------------------------------------------------------------------------
(* The goroutine of the subscription, which takes one announcement after   *)
(* the other, and the main one of an instance that starts, both at Load.   *)
JobAt(i, g, at) == job[i][g].at = at

Receive(i) ==
  /\ inbox[i] /\ JobAt(i, "loop", "idle")
  /\ inbox' = [inbox EXCEPT ![i] = FALSE]
  /\ job' = [job EXCEPT ![i]["loop"].at = "list"]
  /\ UNCHANGED <<entity, table, cache, adapters, phase, admin, crashes, faults, seen, owed>>

StartInstance(i) ==
  /\ phase[i] = "down"
  /\ phase' = [phase EXCEPT ![i] = "loading"]
  /\ job' = [job EXCEPT ![i]["main"].at = "list"]
  /\ UNCHANGED <<entity, table, cache, adapters, inbox, admin, crashes, faults, seen, owed>>

LoadLists(i, g) ==
  /\ JobAt(i, g, "list")
  /\ \/ /\ job' = [job EXCEPT ![i][g].at = "install", ![i][g].read = table]
        /\ owed' = owed \ {i} /\ NoFault
     \/ /\ g = "loop" /\ FaultHappens
        /\ job' = [job EXCEPT ![i][g] = NoJob] /\ owed' = owed \cup {i}
  /\ UNCHANGED <<entity, table, cache, adapters, inbox, phase, admin, crashes, seen>>

GoroutineEnds(i, g) ==
  /\ job' = [job EXCEPT ![i][g] = NoJob]
  /\ phase' = IF g = "main" THEN [phase EXCEPT ![i] = "restarted"] ELSE phase

LoadInstalls(i, g) ==
  /\ JobAt(i, g, "install")
  /\ cache' = [cache EXCEPT ![i] = CopiesOf(job[i][g].read)]
  /\ SawAll(i, job[i][g].read)
  /\ IF entity = "provider"
     THEN job' = [job EXCEPT ![i][g] = [NoJob EXCEPT !.at = "snapshot"]] /\ UNCHANGED phase
     ELSE GoroutineEnds(i, g)
  /\ UNCHANGED <<entity, table, adapters, inbox, admin, crashes, faults, owed>>

(* Faulty form of what follows: an adapter that exists is kept as it is. *)
KeepsAdapters(i) ==
  [r \in Ids |-> IF cache[i][r] # <<>> /\ adapters[i][r] # <<>> THEN adapters[i][r] ELSE cache[i][r]]

(* ReconcileAdapters: those whose fingerprint is unchanged stay, the other *)
(* ones are built from the rows in memory.                                 *)
Reconciled(i) ==
  [r \in Ids |-> IF /\ cache[i][r] # <<>> /\ adapters[i][r] # <<>>
                    /\ cache[i][r][1].print = adapters[i][r][1].print
                 THEN adapters[i][r] ELSE cache[i][r]]

SnapshotAdapters(i, g) ==
  /\ JobAt(i, g, "snapshot")
  /\ job' = [job EXCEPT ![i][g].at = "swap",
                        ![i][g].next = IF g = "main" THEN cache[i] ELSE Reconciled(i)]
  /\ UNCHANGED <<entity, table, cache, adapters, inbox, phase, admin, crashes, faults, seen, owed>>

SwapAdapters(i, g) ==
  /\ JobAt(i, g, "swap")
  /\ adapters' = [adapters EXCEPT ![i] = job[i][g].next]
  /\ GoroutineEnds(i, g)
  /\ UNCHANGED <<entity, table, cache, inbox, admin, crashes, faults, seen, owed>>

(* A change that was written and not announced is news to nobody. *)
Unannounced(c) == admin[c].at \in {"keep", "list", "install", "publish"}

CrashInstance(i) ==
  /\ phase[i] # "down" /\ crashes < MaxCrashes
  /\ crashes' = crashes + 1
  /\ phase' = [phase EXCEPT ![i] = "down"]
  /\ cache' = [cache EXCEPT ![i] = NoCopies] /\ adapters' = [adapters EXCEPT ![i] = NoCopies]
  /\ inbox' = [inbox EXCEPT ![i] = FALSE]
  /\ job' = [job EXCEPT ![i] = [g \in Goroutines |-> NoJob]]
  /\ admin' = [c \in Callers |-> IF On(c) = i /\ ~CallAt(c, "new")
                                 THEN NoCall(i, "over") ELSE admin[c]]
  /\ seen' = [seen EXCEPT ![i] = [r \in Ids |-> 0]]
  /\ owed' = IF \E c \in Callers : On(c) = i /\ Unannounced(c) THEN owed \cup Others(i) ELSE owed
  /\ UNCHANGED <<entity, table, faults>>

-----------------------------------------------------------------------------
CacheNext ==
  \/ \E c \in Callers : CallSteps(c)
  \/ \E i \in Instances :
       \/ Receive(i) \/ StartInstance(i) \/ CrashInstance(i)
       \/ \E g \in Goroutines :
            LoadLists(i, g) \/ LoadInstalls(i, g) \/ SnapshotAdapters(i, g) \/ SwapAdapters(i, g)

CacheSpec == CacheInit /\ [][CacheNext]_cacheVars

-----------------------------------------------------------------------------
(* Nothing is under way at instance i, or on its way to it, and no fault   *)
(* kept it from reading the table since it last did.                       *)
Settled(i) ==
  /\ phase[i] \in {"up", "restarted"} /\ ~inbox[i] /\ i \notin owed
  /\ \A g \in Goroutines : JobAt(i, g, "idle")
  /\ \A c \in Callers : IF On(c) = i THEN admin[c].at \in {"new", "over"} ELSE ~Unannounced(c)

(* Then the latest version of every row has been in its memory, however    *)
(* announcements were dropped because one waited already, and whenever it  *)
(* started: AttachInvalidation comes "before Load"                         *)
(* (core/coordinator_setup.go:90).                                         *)
ChangesArrive ==
  \A i \in Instances : Settled(i) => \A r \in Ids : seen[i][r] = table[r].v

(* And an instance that has served since the beginning and made no change  *)
(* of its own agrees with the table: each row is there once, as it is, and *)
(* its adapter is one for the row (AttachCachedReposToCoordinator,         *)
(* ReconcileAdapters).                                                     *)
Follows(i) == phase[i] = "up" /\ \A c \in Callers : On(c) # i

FollowersAgree ==
  \A i \in Instances : Settled(i) /\ Follows(i) =>
    /\ cache[i] = CopiesOf(table)
    /\ entity = "provider" =>
         \A r \in Ids :
           /\ Len(adapters[i][r]) = Len(cache[i][r])
           /\ cache[i][r] # <<>> => adapters[i][r][1].print = cache[i][r][1].print
=============================================================================
