----------------------------- MODULE StaleSweep -----------------------------
(***************************************************************************)
(* Instances that share one database and one Redis: how they say that they *)
(* are alive (internal/coordinator), how the requests of a dead one are    *)
(* marked FAILED (cmd/maxx/main.go, repository/sqlite/proxy_request.go),   *)
(* and how they agree on who cleans up (internal/core/task.go).            *)
(*                                                                         *)
(* An instance's identity is new at every start, so it starts once.  Time  *)
(* is counted in heartbeat intervals and kept as what is left of a         *)
(* registration and as the age of a request.  The instances' clocks agree. *)
(***************************************************************************)
EXTENDS Integers, FiniteSets, FiniteSetsExt

CONSTANTS
  Instances,    \* identities; their order is that of the names
  Lasting,      \* those that do not die
  Requests,
  Ttl,          \* intervals until a registration expires
  Grace,        \* deadInstanceGraceMillis
  HardTimeout,  \* the age at which any request is stuck
  MaxStall,     \* from reading the live instances to marking the rows
  MaxErrors     \* calls of Redis or of the database that fail

ASSUME SweepAssumption ==
  /\ Instances \subseteq Nat \ {0}
  /\ Lasting \subseteq Instances
  /\ {Ttl, Grace, HardTimeout} \subseteq Nat \ {0}
  /\ {MaxStall, MaxErrors} \subseteq Nat

VARIABLES
  phase,        \* per instance: new, starting, up, down
  registered,   \* members of the sorted set in Redis
  left,         \* per instance: intervals until its score is past
  record,       \* per request: its row and that of its attempt
  task,         \* per instance: what its sweeper is doing
  lead,         \* per instance: what its clean-up is doing
  errors

sweepVars == <<phase, registered, left, record, task, lead, errors>>

Unfinished == {"PENDING", "IN_PROGRESS"}
NoRow == [status |-> "none", owner |-> 0, age |-> 0, attempt |-> "none"]
NoTask == [step |-> "idle", alive |-> {}, stalled |-> 0]

SweepTypeOK ==
  /\ phase \in [Instances -> {"new", "starting", "up", "down"}]
  /\ registered \subseteq Instances
  /\ left \in [Instances -> 0 .. Ttl]
  /\ record \in [Requests ->
       [status : Unfinished \cup {"none", "COMPLETED", "FAILED"},
        owner : Instances \cup {0}, age : 0 .. HardTimeout,
        attempt : {"none", "IN_PROGRESS", "COMPLETED", "FAILED"}]]
  /\ task \in [Instances ->
       [step : {"idle", "list", "mark", "attempts"}, alive : SUBSET Instances, stalled : 0 .. MaxStall]]
  /\ lead \in [Instances -> {"idle", "list", "clean"}]
  /\ errors \in 0 .. MaxErrors

SweepInit ==
  /\ phase = [i \in Instances |-> "new"]
  /\ registered = {}
  /\ left = [i \in Instances |-> 0]
  /\ record = [r \in Requests |-> NoRow]
  /\ task = [i \in Instances |-> NoTask]
  /\ lead = [i \in Instances |-> "idle"]
  /\ errors = 0

-----------------------------------------------------------------------------
Running(i) == phase[i] \in {"starting", "up"}

(* RegisterInstance: the score is the moment at which it expires. *)
Register(i) ==
  /\ registered' = registered \cup {i}
  /\ left' = [left EXCEPT ![i] = Ttl]

Error == errors < MaxErrors /\ errors' = errors + 1
NoError == UNCHANGED errors

TaskTo(i, step) == task' = [task EXCEPT ![i].step = step]
LeadTo(i, step) == lead' = [lead EXCEPT ![i] = step]

(* main: register, then sweep, then serve.  A registration that fails is   *)
(* logged and the start goes on.                                           *)
Start(i) ==
  /\ phase[i] = "new"
  /\ phase' = [phase EXCEPT ![i] = "starting"]
  /\ \/ Register(i) /\ NoError
     \/ Error /\ UNCHANGED <<registered, left>>
  /\ UNCHANGED <<record, task, lead>>

Heartbeat(i) ==
  /\ Running(i)
  /\ Register(i)
  /\ UNCHANGED <<phase, record, task, lead>>
  /\ NoError

(* Faulty form of what follows: expired members stay. *)
NobodyExpires == UNCHANGED registered

(* The start or a ticker begins a sweep, another ticker the clean-up, with *)
(* the list of the live instances.  ListAliveInstances removes the members *)
(* whose score is past,                                                    *)
ExpireMembers == registered' = {i \in registered : left[i] > 0}

BeginSweep(i) ==
  /\ Running(i) /\ task[i].step = "idle"
  /\ TaskTo(i, "list")
  /\ ExpireMembers
  /\ UNCHANGED <<phase, left, record, lead>>
  /\ NoError

BeginCleanup(i) ==
  /\ phase[i] = "up" /\ lead[i] = "idle"
  /\ LeadTo(i, "list")
  /\ ExpireMembers
  /\ UNCHANGED <<phase, left, record, task>>
  /\ NoError

(* and then reads the rest: for the sweep,                                 *)
ReadMembers(i) ==
  /\ task[i].step = "list"
  /\ task' = [task EXCEPT ![i].step = "mark", ![i].alive = registered]
  /\ UNCHANGED <<phase, registered, left, record, lead>>
  /\ NoError

(* or to find out, in isCleanupLeader, whose identity is the least.        *)
ElectLeader(i) ==
  /\ lead[i] = "list"
  /\ LeadTo(i, IF registered # {} /\ Min(registered) = i THEN "clean" ELSE "idle")
  /\ UNCHANGED <<phase, registered, left, record, task>>
  /\ NoError

(* runCleanupTasks of the instance that found itself to be the leader. *)
CleanUp(i) ==
  /\ lead[i] = "clean"
  /\ LeadTo(i, "idle")
  /\ UNCHANGED <<phase, registered, left, record, task>>
  /\ NoError

(* Faulty forms of what follows: no period of grace; a request that was    *)
(* still pending is forgotten.                                             *)
StaleAtOnce(r, alive) ==
  /\ record[r].status \in Unfinished
  /\ record[r].owner \notin alive \/ record[r].age >= HardTimeout

StaleInProgress(r, alive) ==
  /\ record[r].status = "IN_PROGRESS"
  /\ \/ record[r].owner \notin alive /\ record[r].age >= Grace
     \/ record[r].age >= HardTimeout

Stale(r, alive) ==
  /\ record[r].status \in Unfinished
  /\ \/ record[r].owner \notin alive /\ record[r].age >= Grace
     \/ record[r].age >= HardTimeout

(* MarkStaleAsFailed: with no instance alive nothing is marked. *)
MarkStale(i) ==
  LET alive == task[i].alive
  IN  /\ task[i].step = "mark"
      /\ record' = [r \in Requests |->
                      IF alive # {} /\ Stale(r, alive)
                      THEN [record[r] EXCEPT !.status = "FAILED"] ELSE record[r]]
      /\ IF phase[i] = "starting" THEN TaskTo(i, "attempts")
         ELSE task' = [task EXCEPT ![i] = NoTask]
      /\ UNCHANGED <<phase, registered, left, lead>>
      /\ NoError

(* MarkStaleAttemptsFailed: only a start does it. *)
MarkAttempts(i) ==
  /\ task[i].step = "attempts"
  /\ record' = [r \in Requests |->
       IF record[r].status = "FAILED" /\ record[r].attempt = "IN_PROGRESS"
       THEN [record[r] EXCEPT !.attempt = "FAILED"] ELSE record[r]]
  /\ task' = [task EXCEPT ![i] = NoTask]
  /\ phase' = [phase EXCEPT ![i] = "up"]
  /\ UNCHANGED <<registered, left, lead>>
  /\ NoError

(* An error is logged and ends the round: a start goes on with what comes  *)
(* after the failed step.  Without the list nobody takes itself for the    *)
(* leader.                                                                 *)
SweepFails(i) ==
  /\ Running(i)
  /\ Error
  /\ IF phase[i] = "starting" /\ task[i].step # "attempts"
     THEN TaskTo(i, "attempts") /\ UNCHANGED phase
     ELSE /\ task' = [task EXCEPT ![i] = NoTask]
          /\ phase' = [phase EXCEPT ![i] = "up"]
  /\ UNCHANGED <<registered, left, record, lead>>

ElectionFails(i) ==
  /\ phase[i] = "up" /\ lead[i] # "clean"
  /\ Error
  /\ LeadTo(i, "idle")
  /\ UNCHANGED <<phase, registered, left, record, task>>

-----------------------------------------------------------------------------
Serving(r) == record[r].owner \in Instances /\ phase[record[r].owner] = "up"

Create(r, i) ==
  /\ record[r].status = "none"
  /\ phase[i] = "up"
  /\ record' = [record EXCEPT ![r] = [NoRow EXCEPT !.status = "PENDING", !.owner = i]]
  /\ UNCHANGED <<phase, registered, left, task, lead>>
  /\ NoError

(* The executor writes the whole row: what a sweep wrote in between is     *)
(* overwritten.                                                            *)
Attempt(r) ==
  /\ Serving(r) /\ record[r].attempt = "none"
  /\ record' = [record EXCEPT ![r].status = "IN_PROGRESS", ![r].attempt = "IN_PROGRESS"]
  /\ UNCHANGED <<phase, registered, left, task, lead>>
  /\ NoError

AttemptEnds(r) ==
  /\ Serving(r) /\ record[r].attempt # "COMPLETED" /\ record[r].attempt # "none"
  /\ record' = [record EXCEPT ![r].attempt = "COMPLETED"]
  /\ UNCHANGED <<phase, registered, left, task, lead>>
  /\ NoError

RequestEnds(r) ==
  /\ Serving(r) /\ record[r].attempt = "COMPLETED" /\ record[r].status # "COMPLETED"
  /\ record' = [record EXCEPT ![r].status = "COMPLETED"]
  /\ UNCHANGED <<phase, registered, left, task, lead>>
  /\ NoError

(* A crash, or a shutdown whose UnregisterInstance failed. *)
Dies(i) ==
  /\ i \notin Lasting
  /\ phase' = [phase EXCEPT ![i] = "down"]
  /\ task' = [task EXCEPT ![i] = NoTask]
  /\ lead' = [lead EXCEPT ![i] = "idle"]
  /\ UNCHANGED record
  /\ NoError

Crash(i) == Running(i) /\ Dies(i) /\ UNCHANGED <<registered, left>>

(* A shutdown unregisters after it has waited for the requests, or has     *)
(* waited long enough.                                                     *)
Stop(i) ==
  /\ phase[i] = "up" /\ Dies(i)
  /\ registered' = registered \ {i}
  /\ left' = [left EXCEPT ![i] = 0]

(* Time passes no faster than heartbeats arrive, at least one in Ttl       *)
(* intervals, and than a sweep takes.                                      *)
Older(r) ==
  IF record[r].status \in Unfinished THEN Min({record[r].age + 1, HardTimeout})
                                    ELSE record[r].age

Tick ==
  /\ \A i \in Instances : Running(i) => left[i] > 1
  /\ \A i \in Instances : task[i].step = "mark" => task[i].stalled < MaxStall
  /\ left' = [i \in Instances |-> Max({left[i] - 1, 0})]
  /\ record' = [r \in Requests |-> [record[r] EXCEPT !.age = Older(r)]]
  /\ task' = [i \in Instances |->
                IF task[i].step = "mark"
                THEN [task[i] EXCEPT !.stalled = @ + 1] ELSE task[i]]
  /\ UNCHANGED <<phase, registered, lead>>
  /\ NoError

SweepStep(i) ==
  BeginSweep(i) \/ ReadMembers(i) \/ MarkStale(i) \/ MarkAttempts(i)
LeadStep(i) ==
  BeginCleanup(i) \/ ElectLeader(i) \/ CleanUp(i)

SweepNext ==
  \/ \E i \in Instances :
       \/ Start(i) \/ Heartbeat(i)
       \/ SweepStep(i) \/ LeadStep(i) \/ SweepFails(i) \/ ElectionFails(i)
       \/ Crash(i) \/ Stop(i)
       \/ \E r \in Requests : Create(r, i)
  \/ \E r \in Requests : Attempt(r) \/ AttemptEnds(r) \/ RequestEnds(r)
  \/ Tick

(* Tickers tick, what they start goes on, and instances that last start.   *)
SweepFairness ==
  /\ WF_sweepVars(Tick)
  /\ \A i \in Instances :
       /\ WF_sweepVars(Heartbeat(i))
       /\ WF_sweepVars(SweepStep(i)) /\ WF_sweepVars(LeadStep(i))
  /\ \A i \in Lasting : WF_sweepVars(Start(i))

SweepSpec == SweepInit /\ [][SweepNext]_sweepVars
SweepFairSpec == SweepSpec /\ SweepFairness

-----------------------------------------------------------------------------
(* A sweep does not fail a request of an instance that runs and whose      *)
(* heartbeats arrive, unless the request is stuck: not when the list of    *)
(* live instances was read before that instance started, and not between   *)
(* the removal of expired members and the reading of the rest.             *)
LiveRequestsAreSpared ==
  [][\A r \in Requests :
       LET i == record[r].owner
       IN  /\ record[r].status \in Unfinished /\ record[r].age < HardTimeout
           /\ Running(i)
           => record[r].status' # "FAILED"]_sweepVars

(* The requests of an instance that died come to be FAILED, as long as     *)
(* some other instance lasts.                                              *)
OrphansAreFailed ==
  \A r \in Requests :
    (record[r].status \in Unfinished /\ phase[record[r].owner] = "down")
      ~> record[r].status \notin Unfinished

(* Whichever instances die, the clean-up goes on, as long as one of them   *)
(* lasts: a dead least identity does not lead for ever.                    *)
SomeoneCleansUp ==
  (\E i \in Lasting : phase[i] = "up") ~> (\E i \in Instances : lead[i] = "clean")

(* "Orphaned attempts" are cleaned up after the requests they belong to    *)
(* (proxy_upstream_attempt.go:152).                                        *)
OrphanAttemptsEnd ==
  \A r \in Requests :
    (/\ record[r].status = "FAILED" /\ record[r].attempt = "IN_PROGRESS"
     /\ phase[record[r].owner] = "down")
      ~> record[r].attempt # "IN_PROGRESS"
=============================================================================
