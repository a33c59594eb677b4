---------------------------- MODULE SharedProofs ----------------------------
(* Proofs about what is shared and swept or refreshed, for any number of   *)
(* those who share it: the requests that several servers sweep             *)
(* (StaleSweep), and the tokens of an account that several callers refresh *)
(* (TokenRefresh).                                                         *)
EXTENDS StaleSweep, TokenRefresh, FiniteSetTheorems, TLAPS

-----------------------------------------------------------------------------
(* The sweep of stale requests.                                            *)
LEMMA MinOfTwo ==
  ASSUME NEW a \in Nat, NEW b \in Nat
  PROVE  Min({a, b}) = IF a <= b THEN a ELSE b
BY DEF Min

LEMMA MaxWithZero ==
  ASSUME NEW a \in Int
  PROVE  Max({a, 0}) = IF a >= 0 THEN a ELSE 0
BY DEF Max

Tasks ==
  [step : {"idle", "list", "mark", "attempts"}, alive : SUBSET Instances, stalled : 0 .. MaxStall]

Records ==
  [status : Unfinished \cup {"none", "COMPLETED", "FAILED"},
   owner : Instances \cup {0}, age : 0 .. HardTimeout,
   attempt : {"none", "IN_PROGRESS", "COMPLETED", "FAILED"}]

LEMMA TaskTypes ==
  ASSUME SweepTypeOK, NEW i \in Instances
  PROVE  /\ [task EXCEPT ![i] = NoTask] \in [Instances -> Tasks]
         /\ [task EXCEPT ![i].step = "attempts"] \in [Instances -> Tasks]
         /\ \A step \in {"idle", "list", "mark", "attempts"} :
              [task EXCEPT ![i].step = step] \in [Instances -> Tasks]
         /\ [task EXCEPT ![i].step = "mark", ![i].alive = registered] \in [Instances -> Tasks]
<1> USE SweepAssumption
<1>1. task \in [Instances -> Tasks] /\ task[i] \in Tasks /\ registered \in SUBSET Instances
  BY DEF SweepTypeOK, Tasks
<1>2. NoTask \in Tasks
  BY DEF NoTask, Tasks
<1>3. ASSUME NEW step \in {"idle", "list", "mark", "attempts"}
      PROVE  [task[i] EXCEPT !.step = step] \in Tasks
  BY <1>1, <1>3 DEF Tasks
<1>4. [task[i] EXCEPT !.step = "mark", !.alive = registered] \in Tasks
  BY <1>1 DEF Tasks
<1>5. QED
  BY <1>1, <1>2, <1>3, <1>4

(* The steps of instance i, apart from the one that begins a request.      *)
InstanceStep(i) ==
  \/ Start(i) \/ Heartbeat(i)
  \/ SweepStep(i) \/ LeadStep(i) \/ SweepFails(i) \/ ElectionFails(i)
  \/ Crash(i) \/ Stop(i)

LEMMA InstanceTypes ==
  ASSUME SweepTypeOK, NEW i \in Instances, InstanceStep(i)
  PROVE  SweepTypeOK'
<1> USE SweepAssumption
<1>1. /\ task \in [Instances -> Tasks] /\ record \in [Requests -> Records]
      /\ errors \in 0 .. MaxErrors /\ registered \in SUBSET Instances
      /\ left \in [Instances -> 0 .. Ttl]
      /\ phase \in [Instances -> {"new", "starting", "up", "down"}]
      /\ lead \in [Instances -> {"idle", "list", "clean"}]
  BY DEF SweepTypeOK, Tasks, Records
<1>2. SUFFICES /\ task' \in [Instances -> Tasks] /\ record' \in [Requests -> Records]
               /\ errors' \in 0 .. MaxErrors /\ registered' \in SUBSET Instances
               /\ left' \in [Instances -> 0 .. Ttl]
               /\ phase' \in [Instances -> {"new", "starting", "up", "down"}]
               /\ lead' \in [Instances -> {"idle", "list", "clean"}]
  BY DEF SweepTypeOK, Tasks, Records, Unfinished
<1>3. Error \/ NoError => errors' \in 0 .. MaxErrors
  BY <1>1 DEF Error, NoError
<1>4. CASE Start(i)
  <2>1. /\ errors' \in 0 .. MaxErrors /\ UNCHANGED <<task, record, lead>>
        /\ phase' = [phase EXCEPT ![i] = "starting"]
    BY <1>3, <1>4 DEF Start
  <2>2. \/ UNCHANGED <<registered, left>>
        \/ registered' = registered \cup {i} /\ left' = [left EXCEPT ![i] = Ttl]
    BY <1>4 DEF Start, Register
  <2>3. registered' \in SUBSET Instances /\ left' \in [Instances -> 0 .. Ttl]
    <3>1. Ttl \in 0 .. Ttl
      OBVIOUS
    <3>2. CASE UNCHANGED <<registered, left>>
      BY <1>1, <3>2
    <3>3. CASE registered' = registered \cup {i} /\ left' = [left EXCEPT ![i] = Ttl]
      BY <1>1, <3>1, <3>3
    <3>4. QED
      BY <2>2, <3>2, <3>3
  <2>4. QED
    BY <1>1, <2>1, <2>3
<1>5. CASE Heartbeat(i)
  BY <1>1, <1>3, <1>5 DEF Heartbeat, Register
<1>6. CASE BeginSweep(i)
  BY <1>1, <1>3, <1>6, TaskTypes DEF BeginSweep, TaskTo, ExpireMembers
<1>7. CASE ReadMembers(i)
  BY <1>1, <1>3, <1>7, TaskTypes DEF ReadMembers
<1>8. CASE MarkStale(i)
  <2>1. task' \in [Instances -> Tasks]
    <3>1. \/ task' = [task EXCEPT ![i].step = "attempts"]
          \/ task' = [task EXCEPT ![i] = NoTask]
      BY <1>8 DEF MarkStale, TaskTo
    <3>2. CASE task' = [task EXCEPT ![i].step = "attempts"]
      BY <3>2, TaskTypes
    <3>3. CASE task' = [task EXCEPT ![i] = NoTask]
      BY <3>3, TaskTypes
    <3>4. QED
      BY <3>1, <3>2, <3>3
  <2>2. \A r \in Requests : [record[r] EXCEPT !.status = "FAILED"] \in Records
    BY <1>1 DEF Records
  <2>3. record' \in [Requests -> Records]
    BY <1>1, <1>8, <2>2 DEF MarkStale
  <2>4. QED
    BY <1>1, <1>3, <1>8, <2>1, <2>3 DEF MarkStale
<1>9. CASE MarkAttempts(i)
  <2>1. \A r \in Requests : [record[r] EXCEPT !.attempt = "FAILED"] \in Records
    BY <1>1 DEF Records
  <2>2. record' \in [Requests -> Records]
    BY <1>1, <1>9, <2>1 DEF MarkAttempts
  <2>3. QED
    BY <1>1, <1>3, <1>9, <2>2, TaskTypes DEF MarkAttempts
<1>10. CASE LeadStep(i)
  BY <1>1, <1>3, <1>10 DEF LeadStep, BeginCleanup, ElectLeader, CleanUp, LeadTo, ExpireMembers
<1>11. CASE SweepFails(i)
  <2>1. \/ task' = [task EXCEPT ![i].step = "attempts"] /\ phase' = phase
        \/ task' = [task EXCEPT ![i] = NoTask] /\ phase' = [phase EXCEPT ![i] = "up"]
    BY <1>11 DEF SweepFails, TaskTo
  <2>2. task' \in [Instances -> Tasks]
    <3>1. CASE task' = [task EXCEPT ![i].step = "attempts"]
      BY <3>1, TaskTypes
    <3>2. CASE task' = [task EXCEPT ![i] = NoTask]
      BY <3>2, TaskTypes
    <3>3. QED
      BY <2>1, <3>1, <3>2
  <2>3. errors' \in 0 .. MaxErrors /\ UNCHANGED <<registered, left, record, lead>>
    BY <1>3, <1>11 DEF SweepFails
  <2>4. QED
    BY <1>1, <2>1, <2>2, <2>3
<1>12. CASE ElectionFails(i)
  BY <1>1, <1>3, <1>12 DEF ElectionFails, LeadTo
<1>13. CASE Crash(i)
  BY <1>1, <1>3, <1>13, TaskTypes DEF Crash, Dies
<1>14. CASE Stop(i)
  <2>1. task' \in [Instances -> Tasks]
    BY <1>14, TaskTypes DEF Stop, Dies
  <2>2. registered' \in SUBSET Instances /\ left' \in [Instances -> 0 .. Ttl]
    BY <1>1, <1>14 DEF Stop
  <2>3. errors' \in 0 .. MaxErrors /\ record' = record
    BY <1>3, <1>14 DEF Stop, Dies
  <2>4. /\ phase' \in [Instances -> {"new", "starting", "up", "down"}]
        /\ lead' \in [Instances -> {"idle", "list", "clean"}]
    BY <1>1, <1>14 DEF Stop, Dies
  <2>5. QED
    BY <1>1, <2>1, <2>2, <2>3, <2>4
<1>15. QED
  BY <1>4, <1>5, <1>6, <1>7, <1>8, <1>9, <1>10, <1>11, <1>12, <1>13, <1>14
  DEF InstanceStep, SweepStep

(* The steps of a request, and the passing of time.                        *)
LEMMA RequestTypes ==
  ASSUME SweepTypeOK,
         \/ \E r \in Requests, i \in Instances : Create(r, i)
         \/ \E r \in Requests : Attempt(r) \/ AttemptEnds(r) \/ RequestEnds(r)
  PROVE  SweepTypeOK'
<1> USE SweepAssumption
<1>1. record \in [Requests -> Records]
  BY DEF SweepTypeOK, Records
<1>2. record' \in [Requests -> Records] => SweepTypeOK'
  BY DEF SweepTypeOK, Records, Create, Attempt, AttemptEnds, RequestEnds, NoError, Unfinished
<1>3. ASSUME NEW r \in Requests, NEW i \in Instances, Create(r, i)
      PROVE  record' \in [Requests -> Records]
  <2>1. [status |-> "PENDING", owner |-> i, age |-> 0, attempt |-> "none"] \in Records
    BY DEF Records, Unfinished
  <2>2. QED
    BY <1>1, <1>3, <2>1 DEF Create, NoRow
<1>4. ASSUME NEW r \in Requests, Attempt(r)
      PROVE  record' \in [Requests -> Records]
  <2>1. [record[r] EXCEPT !.status = "IN_PROGRESS", !.attempt = "IN_PROGRESS"] \in Records
    BY <1>1 DEF Records, Unfinished
  <2>2. record' = [record EXCEPT ![r] =
                     [record[r] EXCEPT !.status = "IN_PROGRESS", !.attempt = "IN_PROGRESS"]]
    BY <1>1, <1>4 DEF Attempt
  <2>3. QED
    BY <1>1, <2>1, <2>2
<1>5. ASSUME NEW r \in Requests, AttemptEnds(r)
      PROVE  record' \in [Requests -> Records]
  <2>1. [record[r] EXCEPT !.attempt = "COMPLETED"] \in Records
    BY <1>1 DEF Records
  <2>2. QED
    BY <1>1, <1>5, <2>1 DEF AttemptEnds
<1>6. ASSUME NEW r \in Requests, RequestEnds(r)
      PROVE  record' \in [Requests -> Records]
  <2>1. [record[r] EXCEPT !.status = "COMPLETED"] \in Records
    BY <1>1 DEF Records
  <2>2. QED
    BY <1>1, <1>6, <2>1 DEF RequestEnds
<1>7. QED
  BY <1>2, <1>3, <1>4, <1>5, <1>6

(* What a tick does to each registration, row and task.                    *)
LEMMA TickAt ==
  ASSUME SweepTypeOK, Tick
  PROVE  /\ \A i \in Instances : left'[i] = IF left[i] > 0 THEN left[i] - 1 ELSE 0
         /\ \A r \in Requests :
              /\ record'[r].owner = record[r].owner /\ record'[r].status = record[r].status
              /\ record'[r].attempt = record[r].attempt
              /\ record'[r].age \in 0 .. HardTimeout
              /\ record'[r].age \in {record[r].age, record[r].age + 1}
              /\ record'[r] \in Records
         /\ \A j \in Instances :
              /\ task'[j].step = task[j].step /\ task'[j].alive = task[j].alive
              /\ task'[j].stalled =
                   IF task[j].step = "mark" THEN task[j].stalled + 1 ELSE task[j].stalled
              /\ task'[j] \in Tasks
<1> USE SweepAssumption
<1>1. /\ task \in [Instances -> Tasks] /\ record \in [Requests -> Records]
      /\ left \in [Instances -> 0 .. Ttl]
  BY DEF SweepTypeOK, Tasks, Records
<1>2. ASSUME NEW i \in Instances
      PROVE  left'[i] = IF left[i] > 0 THEN left[i] - 1 ELSE 0
  <2>1. left[i] \in Nat /\ left[i] - 1 \in Int
    BY <1>1
  <2>2. left'[i] = Max({left[i] - 1, 0})
    BY DEF Tick
  <2>3. QED
    BY <2>1, <2>2, MaxWithZero
<1>3. ASSUME NEW r \in Requests
      PROVE  /\ record'[r].owner = record[r].owner /\ record'[r].status = record[r].status
             /\ record'[r].attempt = record[r].attempt
             /\ record'[r].age \in 0 .. HardTimeout
             /\ record'[r].age \in {record[r].age, record[r].age + 1}
             /\ record'[r] \in Records
  <2>1. record[r] \in Records /\ record[r].age \in 0 .. HardTimeout
    BY <1>1 DEF Records
  <2>2. Older(r) \in 0 .. HardTimeout /\ Older(r) \in {record[r].age, record[r].age + 1}
    <3>1. Min({record[r].age + 1, HardTimeout}) =
            IF record[r].age + 1 <= HardTimeout THEN record[r].age + 1 ELSE HardTimeout
      BY <2>1, MinOfTwo
    <3>2. QED
      BY <2>1, <3>1 DEF Older
  <2>3. record'[r] = [record[r] EXCEPT !.age = Older(r)]
    BY DEF Tick
  <2>4. QED
    BY <2>1, <2>2, <2>3 DEF Records
<1>4. ASSUME NEW j \in Instances
      PROVE  /\ task'[j].step = task[j].step /\ task'[j].alive = task[j].alive
             /\ task'[j].stalled =
                  IF task[j].step = "mark" THEN task[j].stalled + 1 ELSE task[j].stalled
             /\ task'[j] \in Tasks
  <2>1. task[j] \in Tasks
    BY <1>1
  <2>2. task'[j] = IF task[j].step = "mark"
                   THEN [task[j] EXCEPT !.stalled = task[j].stalled + 1] ELSE task[j]
    BY DEF Tick
  <2>3. task[j].step = "mark" => task[j].stalled < MaxStall
    BY DEF Tick
  <2>4. QED
    BY <2>1, <2>2, <2>3 DEF Tasks
<1>5. QED
  BY <1>2, <1>3, <1>4

SweepersRun == \A i \in Instances : task[i].step # "idle" => Running(i)

(* What a step of instance j does to anybody's registration, rows and      *)
(* sweep: registrations of running instances last, and a list of the live  *)
(* ones is always that of the moment.                                      *)
LEMMA InstanceMoves ==
  ASSUME SweepTypeOK, SweepersRun, NEW j \in Instances, InstanceStep(j)
  PROVE  /\ \A r \in Requests : /\ record'[r].owner = record[r].owner
                                /\ record'[r].age = record[r].age
         /\ \A i \in Instances :
              /\ phase'[i] = "new" => phase[i] = "new"
              /\ Running(i)' => Running(i) \/ phase[i] = "new"
              /\ Running(i)' /\ left[i] > 0 => left'[i] > 0
              /\ (left[i] > 0 => i \in registered) => (left'[i] > 0 => i \in registered')
              /\ \/ task'[i] = task[i]
                 \/ task'[i].step = "attempts"
                 \/ task'[i].step = "idle" /\ task'[i].stalled = 0
                 \/ task'[i].step = "list" /\ task[i].step = "idle"
                    /\ task'[i].stalled = task[i].stalled
                 \/ /\ task[i].step = "list" /\ task'[i].step = "mark"
                    /\ task'[i].alive = registered /\ task'[i].stalled = task[i].stalled
                    /\ UNCHANGED <<phase, left>>
<1> USE SweepAssumption
<1>1. /\ task \in [Instances -> Tasks] /\ record \in [Requests -> Records]
      /\ registered \in SUBSET Instances /\ left \in [Instances -> 0 .. Ttl] /\ Ttl > 0
      /\ phase \in [Instances -> {"new", "starting", "up", "down"}]
      /\ \A i \in Instances : left[i] \in Nat
  BY DEF SweepTypeOK, Tasks, Records
<1> DEFINE Rows == \A r \in Requests : /\ record'[r].owner = record[r].owner
                                       /\ record'[r].age = record[r].age
           Phases == \A i \in Instances :
                       /\ phase'[i] = "new" => phase[i] = "new"
                       /\ Running(i)' => Running(i) \/ phase[i] = "new"
           Lasts == \A i \in Instances :
                      /\ Running(i)' /\ left[i] > 0 => left'[i] > 0
                      /\ (left[i] > 0 => i \in registered) => (left'[i] > 0 => i \in registered')
           Sweeps == \A i \in Instances :
             \/ task'[i] = task[i]
             \/ task'[i].step = "attempts"
             \/ task'[i].step = "idle" /\ task'[i].stalled = 0
             \/ task'[i].step = "list" /\ task[i].step = "idle"
                /\ task'[i].stalled = task[i].stalled
             \/ /\ task[i].step = "list" /\ task'[i].step = "mark"
                /\ task'[i].alive = registered /\ task'[i].stalled = task[i].stalled
                /\ UNCHANGED <<phase, left>>
<1>2. record' = record => Rows
  OBVIOUS
<1>3. phase' = phase => Phases
  BY DEF Running
<1>4. task' = task => Sweeps
  OBVIOUS
<1>5. UNCHANGED <<registered, left>> => Lasts
  OBVIOUS
<1>6. ExpireMembers /\ UNCHANGED left => Lasts
  BY <1>1 DEF ExpireMembers
<1>7. Register(j) => Lasts
  BY <1>1 DEF Register
<1>8. task' = [task EXCEPT ![j] = NoTask] => Sweeps
  BY <1>1 DEF NoTask
<1>9. ASSUME task' = [task EXCEPT ![j].step = "attempts"]
      PROVE  Sweeps
  <2>1. task[j] \in Tasks
    BY <1>1
  <2>2. task'[j].step = "attempts" /\ \A i \in Instances \ {j} : task'[i] = task[i]
    BY <1>1, <1>9, <2>1 DEF Tasks
  <2>3. QED
    BY <2>2
<1>10. CASE Start(j)
  <2>1. Phases
    BY <1>1, <1>10 DEF Start, Running
  <2>2. QED
    BY <1>2, <1>4, <1>5, <1>7, <1>10, <2>1 DEF Start
<1>11. CASE Heartbeat(j)
  BY <1>2, <1>3, <1>4, <1>7, <1>11 DEF Heartbeat
<1>12. CASE BeginSweep(j)
  <2>1. task' = [task EXCEPT ![j] = [task[j] EXCEPT !.step = "list"]] /\ task[j].step = "idle"
    BY <1>1, <1>12 DEF BeginSweep, TaskTo
  <2>2. [task[j] EXCEPT !.step = "list"].step = "list"
        /\ [task[j] EXCEPT !.step = "list"].stalled = task[j].stalled
    BY <1>1 DEF Tasks
  <2>3. Sweeps
    BY <1>1, <2>1, <2>2
  <2>4. QED
    BY <1>2, <1>3, <1>6, <1>12, <2>3 DEF BeginSweep
<1>13. CASE ReadMembers(j)
  <2> DEFINE new == [task[j] EXCEPT !.step = "mark", !.alive = registered]
  <2>1. task' = [task EXCEPT ![j] = new] /\ task[j].step = "list" /\ UNCHANGED <<phase, left>>
    BY <1>1, <1>13 DEF ReadMembers
  <2>2. new.step = "mark" /\ new.alive = registered /\ new.stalled = task[j].stalled
    BY <1>1 DEF Tasks
  <2> HIDE DEF new
  <2>3. Sweeps
    BY <1>1, <2>1, <2>2
  <2>4. QED
    BY <1>2, <1>3, <1>5, <1>13, <2>3 DEF ReadMembers
<1>14. CASE MarkStale(j)
  <2>1. ASSUME NEW r \in Requests
        PROVE  record'[r].owner = record[r].owner /\ record'[r].age = record[r].age
    <3>1. record[r] \in Records
      BY <1>1
    <3>2. record'[r] \in {record[r], [record[r] EXCEPT !.status = "FAILED"]}
      BY <1>14 DEF MarkStale
    <3>3. QED
      BY <3>1, <3>2 DEF Records
  <2>2. \/ task' = [task EXCEPT ![j].step = "attempts"]
        \/ task' = [task EXCEPT ![j] = NoTask]
    BY <1>14 DEF MarkStale, TaskTo
  <2>3. Sweeps
    BY <1>8, <1>9, <2>2
  <2>4. QED
    BY <1>3, <1>5, <1>14, <2>1, <2>3 DEF MarkStale
<1>15. CASE MarkAttempts(j)
  <2>1. ASSUME NEW r \in Requests
        PROVE  record'[r].owner = record[r].owner /\ record'[r].age = record[r].age
    <3>1. record[r] \in Records
      BY <1>1
    <3>2. record'[r] \in {record[r], [record[r] EXCEPT !.attempt = "FAILED"]}
      BY <1>15 DEF MarkAttempts
    <3>3. QED
      BY <3>1, <3>2 DEF Records
  <2>2. Running(j) /\ phase' = [phase EXCEPT ![j] = "up"]
    BY <1>15 DEF MarkAttempts, SweepersRun
  <2>3. Phases
    BY <1>1, <2>2 DEF Running
  <2>4. QED
    BY <1>5, <1>8, <1>15, <2>1, <2>3 DEF MarkAttempts
<1>16. CASE LeadStep(j)
  BY <1>2, <1>3, <1>4, <1>5, <1>6, <1>16 DEF LeadStep, BeginCleanup, ElectLeader, CleanUp
<1>17. CASE SweepFails(j)
  <2>1. \/ task' = [task EXCEPT ![j].step = "attempts"] /\ phase' = phase
        \/ task' = [task EXCEPT ![j] = NoTask] /\ phase' = [phase EXCEPT ![j] = "up"]
    BY <1>17 DEF SweepFails, TaskTo
  <2>2. Sweeps
    BY <1>8, <1>9, <2>1
  <2>3. Phases
    BY <1>1, <1>17, <2>1 DEF SweepFails, Running
  <2>4. QED
    BY <1>2, <1>5, <1>17, <2>2, <2>3 DEF SweepFails
<1>18. CASE ElectionFails(j)
  BY <1>2, <1>3, <1>4, <1>5, <1>18 DEF ElectionFails
<1>19. CASE Crash(j) \/ Stop(j)
  <2>1. task' = [task EXCEPT ![j] = NoTask] /\ record' = record
        /\ phase' = [phase EXCEPT ![j] = "down"]
    BY <1>19 DEF Crash, Stop, Dies
  <2>2. Phases
    BY <1>1, <2>1 DEF Running
  <2>3. Lasts
    BY <1>1, <1>19, <2>1 DEF Crash, Stop, Running
  <2>4. QED
    BY <1>2, <1>8, <2>1, <2>2, <2>3
<1>20. QED
  BY <1>10, <1>11, <1>12, <1>13, <1>14, <1>15, <1>16, <1>17, <1>18, <1>19
  DEF InstanceStep, SweepStep

LEMMA SweepersRunStep ==
  ASSUME SweepTypeOK, SweepersRun, SweepNext \/ UNCHANGED sweepVars
  PROVE  SweepersRun'
<1>1. /\ task \in [Instances -> Tasks]
      /\ phase \in [Instances -> {"new", "starting", "up", "down"}]
      /\ \A i \in Instances : task[i].step # "idle" => Running(i)
  BY DEF SweepTypeOK, Tasks, SweepersRun
<1>2. ASSUME NEW j \in Instances, InstanceStep(j)
      PROVE  SweepersRun'
  <2>1. \A i \in Instances \ {j} : task'[i] = task[i] /\ phase'[i] = phase[i]
    <3>1. CASE Start(j) \/ Heartbeat(j) \/ LeadStep(j) \/ ElectionFails(j)
      BY <1>1, <3>1 DEF Start, Heartbeat, LeadStep, BeginCleanup, ElectLeader, CleanUp,
                        ElectionFails
    <3>2. CASE BeginSweep(j) \/ ReadMembers(j)
      BY <1>1, <3>2 DEF BeginSweep, ReadMembers, TaskTo
    <3>3. CASE MarkStale(j) \/ MarkAttempts(j)
      BY <1>1, <3>3 DEF MarkStale, MarkAttempts, TaskTo
    <3>4. CASE SweepFails(j)
      BY <1>1, <3>4 DEF SweepFails, TaskTo
    <3>5. CASE Crash(j) \/ Stop(j)
      BY <1>1, <3>5 DEF Crash, Stop, Dies
    <3>6. QED
      BY <1>2, <3>1, <3>2, <3>3, <3>4, <3>5 DEF InstanceStep, SweepStep
  <2>2. task'[j].step # "idle" => Running(j)'
    <3>1. CASE Start(j) \/ Heartbeat(j) \/ LeadStep(j) \/ ElectionFails(j)
      BY <1>1, <3>1 DEF Start, Heartbeat, LeadStep, BeginCleanup, ElectLeader, CleanUp,
                        ElectionFails, Running
    <3>2. CASE BeginSweep(j)
      BY <1>1, <3>2 DEF BeginSweep, Running
    <3>3. CASE ReadMembers(j) \/ MarkStale(j)
      BY <1>1, <3>3 DEF ReadMembers, MarkStale, Running
    <3>4. CASE MarkAttempts(j)
      BY <1>1, <3>4 DEF MarkAttempts, NoTask
    <3>5. CASE SweepFails(j)
      BY <1>1, <3>5 DEF SweepFails, Running
    <3>6. CASE Crash(j) \/ Stop(j)
      BY <1>1, <3>6 DEF Crash, Stop, Dies, NoTask
    <3>7. QED
      BY <1>2, <3>1, <3>2, <3>3, <3>4, <3>5, <3>6 DEF InstanceStep, SweepStep
  <2>3. QED
    BY <1>1, <2>1, <2>2 DEF SweepersRun, Running
<1>3. CASE Tick
  BY <1>1, <1>3, TickAt DEF SweepersRun, Running, Tick
<1>4. ASSUME UNCHANGED <<task, phase>>
      PROVE  SweepersRun'
  BY <1>1, <1>4 DEF SweepersRun, Running
<1>5. QED
  BY <1>2, <1>3, <1>4
  DEF SweepNext, InstanceStep, Create, Attempt, AttemptEnds, RequestEnds, sweepVars

(* Every row has the owner that made it.                                   *)
Owned == \A r \in Requests : record[r].status # "none" => record[r].owner \in Instances

LEMMA OwnedStep ==
  ASSUME SweepTypeOK, SweepersRun, Owned, SweepNext \/ UNCHANGED sweepVars
  PROVE  Owned'
<1>1. \A r \in Requests : record[r] \in Records
                          /\ (record[r].status # "none" => record[r].owner \in Instances)
  BY DEF SweepTypeOK, Records, Owned
<1>2. ASSUME NEW j \in Instances, InstanceStep(j)
      PROVE  MarkStale(j) \/ MarkAttempts(j) \/ record' = record
  BY <1>2 DEF InstanceStep, Start, Heartbeat, SweepStep, BeginSweep, ReadMembers,
    LeadStep, BeginCleanup, ElectLeader, CleanUp, SweepFails, ElectionFails, Crash, Stop, Dies
<1>3. ASSUME NEW j \in Instances, MarkStale(j), NEW r \in Requests
      PROVE  record'[r].status # "none" => record'[r].owner \in Instances
  <2>1. record'[r] = record[r] \/ (record[r].status \in Unfinished
                                   /\ record'[r] = [record[r] EXCEPT !.status = "FAILED"])
    BY <1>3 DEF MarkStale, Stale
  <2>2. QED
    BY <1>1, <2>1 DEF Records, Unfinished
<1>4. ASSUME NEW j \in Instances, MarkAttempts(j), NEW r \in Requests
      PROVE  record'[r].status # "none" => record'[r].owner \in Instances
  <2>1. record'[r] \in {record[r], [record[r] EXCEPT !.attempt = "FAILED"]}
    BY <1>4 DEF MarkAttempts
  <2>2. QED
    BY <1>1, <2>1 DEF Records
<1>5. ASSUME NEW q \in Requests, NEW i \in Instances, Create(q, i), NEW r \in Requests
      PROVE  record'[r].status # "none" => record'[r].owner \in Instances
  BY <1>1, <1>5 DEF Create, NoRow, SweepTypeOK
<1>6. ASSUME NEW q \in Requests, Attempt(q) \/ AttemptEnds(q) \/ RequestEnds(q),
             NEW r \in Requests
      PROVE  record'[r].status # "none" => record'[r].owner \in Instances
  <2>1. record'[r] = record[r] \/ (record[r].owner \in Instances
                                   /\ record'[r].owner = record[r].owner)
    BY <1>6 DEF Attempt, AttemptEnds, RequestEnds, Serving, SweepTypeOK
  <2>2. QED
    BY <1>1, <2>1
<1>7. ASSUME Tick, NEW r \in Requests
      PROVE  record'[r].status # "none" => record'[r].owner \in Instances
  BY <1>1, <1>7, TickAt
<1>8. ASSUME record' = record
      PROVE  Owned'
  BY <1>1, <1>8 DEF Owned
<1>9. ASSUME \A r \in Requests : record'[r].status # "none" => record'[r].owner \in Instances
      PROVE  Owned'
  BY <1>9 DEF Owned
<1>10. QED
  BY <1>2, <1>3, <1>4, <1>5, <1>6, <1>7, <1>8, <1>9 DEF SweepNext, InstanceStep, sweepVars

(* A running instance is registered, or has not lived through a tick yet;  *)
(* an instance that a list of the live ones lacks had, when the list was   *)
(* read, no request that was any older than new.                           *)
RowsOf(i, age) == \A r \in Requests : record[r].owner = i => record[r].age <= age

SweepInv ==
  /\ SweepTypeOK /\ SweepersRun /\ Owned
  /\ \A i \in Instances :
       /\ phase[i] = "new" => \A r \in Requests : record[r].owner # i
       /\ left[i] > 0 => i \in registered
       /\ Running(i) => left[i] > 0 \/ RowsOf(i, 0)
       /\ task[i].step \in {"idle", "list"} => task[i].stalled = 0
  /\ \A i \in Instances, j \in Instances :
       Running(i) /\ task[j].step = "mark" /\ i \notin task[j].alive
         => RowsOf(i, task[j].stalled)

LEMMA SweepInvInit ==
  SweepInit => SweepInv
<1> SUFFICES ASSUME SweepInit PROVE SweepInv
  OBVIOUS
<1> USE SweepAssumption DEF SweepInit, NoTask, NoRow
<1>1. /\ \A i \in Instances : phase[i] = "new" /\ left[i] = 0 /\ task[i] = NoTask
      /\ \A r \in Requests : record[r] = NoRow
  OBVIOUS
<1>2. SweepTypeOK
  <2>1. NoTask \in [step : {"idle", "list", "mark", "attempts"}, alive : SUBSET Instances,
                    stalled : 0 .. MaxStall]
    OBVIOUS
  <2>2. NoRow \in [status : Unfinished \cup {"none", "COMPLETED", "FAILED"},
                   owner : Instances \cup {0}, age : 0 .. HardTimeout,
                   attempt : {"none", "IN_PROGRESS", "COMPLETED", "FAILED"}]
    OBVIOUS
  <2>3. QED
    BY <2>1, <2>2 DEF SweepTypeOK
<1>3. \A i \in Instances, r \in Requests : record[r].owner # i
  BY <1>1
<1>4. QED
  BY <1>1, <1>2, <1>3 DEF SweepInv, SweepersRun, Owned, Running

LEMMA SweepInvStep ==
  ASSUME SweepInv, SweepNext \/ UNCHANGED sweepVars
  PROVE  SweepInv'
<1> USE SweepAssumption
<1>1. /\ SweepTypeOK /\ SweepersRun /\ Owned
      /\ \A r \in Requests : record[r] \in Records /\ record[r].age \in Nat
      /\ \A i \in Instances : task[i] \in Tasks /\ task[i].stalled \in Nat /\ left[i] \in Nat
  BY DEF SweepInv, SweepTypeOK, Records, Tasks
<1>2. SweepersRun' /\ Owned'
  BY <1>1, SweepersRunStep, OwnedStep
<1>3. ASSUME NEW j \in Instances, InstanceStep(j)
      PROVE  SweepInv'
  <2>1. SweepTypeOK'
    BY <1>1, <1>3, InstanceTypes
  <2>2. \A r \in Requests : record'[r].owner = record[r].owner /\ record'[r].age = record[r].age
    BY <1>1, <1>3, InstanceMoves
  <2>3. ASSUME NEW i \in Instances
        PROVE  /\ phase'[i] = "new" => \A r \in Requests : record'[r].owner # i
               /\ left'[i] > 0 => i \in registered'
               /\ Running(i)' => left'[i] > 0 \/ RowsOf(i, 0)'
               /\ task'[i].step \in {"idle", "list"} => task'[i].stalled = 0
    <3>1. phase'[i] = "new" => \A r \in Requests : record'[r].owner # i
      BY <1>1, <1>3, <2>2, InstanceMoves DEF SweepInv
    <3>2. left'[i] > 0 => i \in registered'
      BY <1>1, <1>3, InstanceMoves DEF SweepInv
    <3>3. Running(i)' => left'[i] > 0 \/ RowsOf(i, 0)'
      <4>1. Running(i)' => Running(i) \/ phase[i] = "new"
        BY <1>1, <1>3, InstanceMoves
      <4>2. Running(i)' /\ left[i] > 0 => left'[i] > 0
        BY <1>1, <1>3, InstanceMoves
      <4>3. Running(i) => left[i] > 0 \/ RowsOf(i, 0)
        BY DEF SweepInv
      <4>4. phase[i] = "new" => RowsOf(i, 0)
        BY DEF SweepInv, RowsOf
      <4>5. RowsOf(i, 0) => RowsOf(i, 0)'
        BY <2>2 DEF RowsOf
      <4>6. QED
        BY <4>1, <4>2, <4>3, <4>4, <4>5
    <3>4. task'[i].step \in {"idle", "list"} => task'[i].stalled = 0
      <4>1. \/ task'[i] = task[i]
            \/ task'[i].step \notin {"idle", "list"}
            \/ task'[i].stalled = 0
            \/ task[i].step = "idle" /\ task'[i].stalled = task[i].stalled
        BY <1>1, <1>3, InstanceMoves
      <4>2. task[i].step \in {"idle", "list"} => task[i].stalled = 0
        BY DEF SweepInv
      <4>3. QED
        BY <4>1, <4>2
    <3>5. QED
      BY <3>1, <3>2, <3>3, <3>4
  <2>4. ASSUME NEW i \in Instances, NEW k \in Instances,
               Running(i)', task'[k].step = "mark", i \notin task'[k].alive
        PROVE  RowsOf(i, task[k].stalled)'
    <3>1. Running(i) \/ phase[i] = "new"
      BY <1>1, <1>3, <2>4, InstanceMoves
    <3>2. CASE phase[i] = "new"
      BY <2>2, <3>2 DEF SweepInv, RowsOf
    <3>3. CASE Running(i) /\ task'[k] = task[k]
      <4>1. RowsOf(i, task[k].stalled)
        BY <2>4, <3>3 DEF SweepInv
      <4>2. QED
        BY <2>2, <3>3, <4>1 DEF RowsOf
    <3>4. CASE /\ Running(i) /\ task[k].step = "list"
               /\ task'[k].alive = registered /\ task'[k].stalled = task[k].stalled
      <4>1. RowsOf(i, 0)
        BY <2>4, <3>4 DEF SweepInv
      <4>2. task'[k].stalled = 0
        BY <3>4 DEF SweepInv
      <4>3. QED
        BY <2>2, <4>1, <4>2 DEF RowsOf
    <3>5. \/ task'[k] = task[k]
          \/ /\ task[k].step = "list" /\ task'[k].alive = registered
             /\ task'[k].stalled = task[k].stalled
      BY <1>1, <1>3, <2>4, InstanceMoves
    <3>6. QED
      BY <3>1, <3>2, <3>3, <3>4, <3>5
  <2>5. QED
    BY <1>2, <2>1, <2>3, <2>4 DEF SweepInv
<1>4. ASSUME UNCHANGED <<phase, registered, left, task>>,
             \A r \in Requests :
               \/ record'[r].owner = record[r].owner /\ record'[r].age = record[r].age
               \/ record'[r].age = 0 /\ record'[r].owner \in Instances
                  /\ phase[record'[r].owner] = "up",
             SweepTypeOK'
      PROVE  SweepInv'
  <2>1. \A i \in Instances : Running(i)' <=> Running(i)
    BY <1>4 DEF Running
  <2>2. ASSUME NEW i \in Instances, NEW n \in Nat, RowsOf(i, n)
        PROVE  RowsOf(i, n)'
    BY <1>4, <2>2 DEF RowsOf
  <2>3. \A i \in Instances : phase[i] = "new" => \A r \in Requests : record'[r].owner # i
    BY <1>4 DEF SweepInv
  <2>4. ASSUME NEW i \in Instances
        PROVE  Running(i)' => left'[i] > 0 \/ RowsOf(i, 0)'
    BY <1>4, <2>1, <2>2 DEF SweepInv
  <2>5. ASSUME NEW i \in Instances, NEW k \in Instances,
               Running(i)', task'[k].step = "mark", i \notin task'[k].alive
        PROVE  RowsOf(i, task[k].stalled)'
    <3>1. RowsOf(i, task[k].stalled)
      BY <1>4, <2>1, <2>5 DEF SweepInv
    <3>2. task'[k].stalled = task[k].stalled /\ task[k].stalled \in Nat
      BY <1>1, <1>4
    <3>3. QED
      BY <1>4, <3>1, <3>2 DEF RowsOf
  <2>6. QED
    BY <1>2, <1>4, <2>3, <2>4, <2>5 DEF SweepInv
<1>5. ASSUME NEW r \in Requests, NEW i \in Instances, Create(r, i)
      PROVE  SweepInv'
  <2>1. /\ record'[r].age = 0 /\ record'[r].owner = i
        /\ \A q \in Requests \ {r} : record'[q] = record[q]
    BY <1>5 DEF Create, NoRow, SweepInv, SweepTypeOK
  <2>2. SweepTypeOK' /\ phase[i] = "up" /\ UNCHANGED <<phase, registered, left, task>>
    BY <1>1, <1>5, RequestTypes DEF Create
  <2>3. QED
    BY <1>4, <2>1, <2>2
<1>6. ASSUME NEW r \in Requests, Attempt(r) \/ AttemptEnds(r) \/ RequestEnds(r)
      PROVE  SweepInv'
  <2>1. /\ record'[r].age = record[r].age /\ record'[r].owner = record[r].owner
        /\ \A q \in Requests \ {r} : record'[q] = record[q]
    BY <1>6 DEF Attempt, AttemptEnds, RequestEnds, SweepInv, SweepTypeOK
  <2>2. SweepTypeOK' /\ UNCHANGED <<phase, registered, left, task>>
    BY <1>1, <1>6, RequestTypes DEF Attempt, AttemptEnds, RequestEnds
  <2>3. QED
    BY <1>4, <2>1, <2>2
<1>7. ASSUME Tick
      PROVE  SweepInv'
  <2>1. UNCHANGED <<phase, registered>> /\ (\A i \in Instances : Running(i)' <=> Running(i))
    BY <1>7 DEF Tick, Running
  <2>2. \A i \in Instances : (Running(i) => left[i] > 1)
    BY <1>7 DEF Tick
  <2>3. ASSUME NEW i \in Instances
        PROVE  /\ phase'[i] = "new" => \A r \in Requests : record'[r].owner # i
               /\ left'[i] > 0 => i \in registered'
               /\ Running(i)' => left'[i] > 0
               /\ task'[i].step \in {"idle", "list"} => task'[i].stalled = 0
    BY <1>1, <1>7, <2>1, <2>2, TickAt DEF SweepInv
  <2>4. ASSUME NEW i \in Instances, NEW k \in Instances,
               Running(i)', task'[k].step = "mark", i \notin task'[k].alive
        PROVE  RowsOf(i, task[k].stalled)'
    <3>1. RowsOf(i, task[k].stalled) /\ task'[k].stalled = task[k].stalled + 1
      BY <1>1, <1>7, <2>1, <2>4, TickAt DEF SweepInv
    <3>2. /\ task[k].stalled \in Nat
          /\ \A r \in Requests : /\ record[r].age \in Nat
                                 /\ record'[r].owner = record[r].owner
                                 /\ record'[r].age \in {record[r].age, record[r].age + 1}
      BY <1>1, <1>7, TickAt
    <3>3. QED
      BY <3>1, <3>2 DEF RowsOf
  <2>5. SweepTypeOK'
    <3>1. /\ \A i \in Instances : left'[i] \in 0 .. Ttl
          /\ \A i \in Instances : task'[i] \in Tasks
          /\ \A r \in Requests : record'[r] \in Records
      BY <1>1, <1>7, TickAt DEF SweepTypeOK
    <3>2. /\ left' \in [Instances -> 0 .. Ttl]
          /\ task' \in [Instances -> Tasks]
          /\ record' \in [Requests -> Records]
      BY <1>7, <3>1 DEF Tick
    <3>3. QED
      BY <1>1, <1>7, <3>2 DEF Tick, NoError, SweepTypeOK, Tasks, Records, Unfinished
  <2>6. QED
    BY <1>2, <2>3, <2>4, <2>5 DEF SweepInv
<1>8. ASSUME UNCHANGED sweepVars
      PROVE  SweepInv'
  <2>1. SweepTypeOK'
    BY <1>1, <1>8 DEF sweepVars, SweepTypeOK, Unfinished
  <2>2. QED
    BY <1>4, <1>8, <2>1 DEF sweepVars
<1>9. QED
  BY <1>3, <1>5, <1>6, <1>7, <1>8 DEF SweepNext, InstanceStep

(* A sweep fails no request of an instance that runs and whose heartbeats  *)
(* arrive, unless the request is stuck (MarkStaleAsFailed), as long as     *)
(* less time passes between its reading of the live instances and its      *)
(* marking of the rows than the grace that row gives an unknown owner.     *)
THEOREM LiveRequestsAreAlwaysSpared ==
  ASSUME MaxStall < Grace
  PROVE  SweepSpec => LiveRequestsAreSpared
<1> USE SweepAssumption
<1>1. ASSUME SweepInv, SweepNext, NEW r \in Requests,
             record[r].status \in Unfinished, record[r].age < HardTimeout,
             Running(record[r].owner)
      PROVE  record'[r].status # "FAILED"
  <2>1. record[r] \in Records /\ record[r].age \in Nat
    BY <1>1 DEF SweepInv, SweepTypeOK, Records
  <2>2. ASSUME NEW j \in Instances, MarkStale(j)
        PROVE  record'[r].status # "FAILED"
    <3>1. record[r].owner \in Instances
      BY <1>1 DEF SweepInv, Owned, Unfinished
    <3>2. task[j].stalled \in 0 .. MaxStall /\ task[j].step = "mark"
      BY <1>1, <2>2 DEF MarkStale, SweepInv, SweepTypeOK
    <3>3. record[r].owner \notin task[j].alive => record[r].age <= task[j].stalled
      BY <1>1, <3>1, <3>2 DEF SweepInv, RowsOf
    <3>4. ~Stale(r, task[j].alive)
      BY <1>1, <2>1, <3>2, <3>3 DEF Stale
    <3>5. record'[r] = record[r]
      BY <2>2, <3>4 DEF MarkStale
    <3>6. QED
      BY <1>1, <3>5 DEF Unfinished
  <2>3. ASSUME NEW j \in Instances, MarkAttempts(j)
        PROVE  record'[r].status # "FAILED"
    <3>1. record'[r] = record[r]
      BY <1>1, <2>3 DEF MarkAttempts, Unfinished
    <3>2. QED
      BY <1>1, <3>1 DEF Unfinished
  <2>4. ASSUME record' = record
        PROVE  record'[r].status # "FAILED"
    BY <1>1, <2>4 DEF Unfinished
  <2>5. ASSUME NEW q \in Requests, NEW i \in Instances, Create(q, i)
        PROVE  record'[r].status # "FAILED"
    BY <1>1, <2>5 DEF Create, NoRow, Unfinished, SweepInv, SweepTypeOK
  <2>6. ASSUME NEW q \in Requests, Attempt(q) \/ AttemptEnds(q) \/ RequestEnds(q)
        PROVE  record'[r].status # "FAILED"
    BY <1>1, <2>6, SMTT(30) DEF Attempt, AttemptEnds, RequestEnds, Unfinished, SweepInv, SweepTypeOK
  <2>7. Tick => record'[r].status # "FAILED"
    BY <1>1, TickAt DEF Unfinished, SweepInv
  <2>8. ASSUME NEW j \in Instances, InstanceStep(j)
        PROVE  MarkStale(j) \/ MarkAttempts(j) \/ record' = record
    BY <2>8 DEF InstanceStep, Start, Heartbeat, SweepStep, BeginSweep, ReadMembers,
      LeadStep, BeginCleanup, ElectLeader, CleanUp, SweepFails, ElectionFails, Crash, Stop, Dies
  <2>9. QED
    BY <1>1, <2>2, <2>3, <2>4, <2>5, <2>6, <2>7, <2>8 DEF SweepNext, InstanceStep
<1>2. ASSUME SweepInv, [SweepNext]_sweepVars
      PROVE  [\A r \in Requests :
                LET i == record[r].owner
                IN  /\ record[r].status \in Unfinished /\ record[r].age < HardTimeout
                    /\ Running(i)
                    => record[r].status' # "FAILED"]_sweepVars
  BY <1>1, <1>2
<1>3. SweepInv /\ [SweepNext]_sweepVars => SweepInv'
  BY SweepInvStep
<1>4. QED
  BY <1>2, <1>3, SweepInvInit, PTL DEF SweepSpec, LiveRequestsAreSpared

-----------------------------------------------------------------------------
(* The refresh of tokens: an account that is known from the start is       *)
(* refreshed by one caller at a time, and no refresh token is used twice,  *)
(* for any number of callers, pairs and faults.                            *)
HoldingSteps == {"check", "send", "answer", "save", "unlock"}
EnlistedSteps == HoldingSteps \cup {"lock", "leave"}

Users == {c \in Callers : call[c].step \in EnlistedSteps}
Holders == {c \in Callers : call[c].step \in HoldingSteps}

(* The account is known, so all callers use one key.                       *)
Calls ==
  [step : Steps, kind : Kinds, key : {-1}, entry : Entries \cup {0},
   pair : Nat, rejected : Int, tries : Nat, late : BOOLEAN]

Shape ==
  /\ row \in [pair : Nat, known : {TRUE}]
  /\ adapter \in [pair : Nat, known : {TRUE}, cache : Nat]
  /\ latest \in Nat
  /\ registry \in [LockKeys -> Entries \cup {0}]
  /\ entry \in [Entries -> [holder : SUBSET Callers, refcount : Int]]
  /\ call \in [Callers -> Calls]

(* The entry of the key is there while somebody uses it; it counts its     *)
(* users and knows its holder, and every other entry is free.              *)
EntryInv ==
  /\ \A c \in Callers :
       call[c].entry = IF call[c].step \in EnlistedSteps THEN registry[-1] ELSE 0
  /\ registry[-1] = 0 <=> Users = {}
  /\ \A k \in LockKeys \ {-1} : registry[k] = 0
  /\ \A e \in Entries :
       IF e = registry[-1]
       THEN entry[e].holder = Holders /\ entry[e].refcount = Cardinality(Users)
       ELSE entry[e].holder = {} /\ entry[e].refcount = 0

OneHolder == \A c, d \in Callers :
  call[c].step \in HoldingSteps /\ call[d].step \in HoldingSteps => c = d

(* The row is behind the upstream only while the next pair is being saved, *)
(* or because it was lost; who refreshes uses the pair of the row.         *)
PairInv ==
  /\ row.pair <= latest
  /\ \A c \in Callers :
       /\ call[c].step \in {"send", "answer", "save"} => call[c].pair = row.pair
       /\ call[c].step = "save" => latest = row.pair + 1
       /\ call[c].step = "answer" => row.pair < latest
  /\ row.pair < latest =>
       row.pair \in lost \/ \E c \in Callers : call[c].step = "save"

RefreshInv == Shape /\ EntryInv /\ OneHolder /\ PairInv

-----------------------------------------------------------------------------
LEMMA UsersFinite == IsFiniteSet(Users) /\ Cardinality(Users) \in Nat
<1>1. Users \subseteq Callers
  BY DEF Users
<1>2. QED
  BY <1>1, RefreshAssumption, FS_Subset, FS_CardinalityType

(* Whoever comes to a lock that nobody uses finds a free entry for it.     *)
LEMMA FreeEntry ==
  ASSUME Shape, EntryInv, registry[-1] = 0, NEW c \in Callers
  PROVE  Min(Entries \ InUse) \in Entries
<1>1. \A k \in LockKeys : registry[k] = 0
  BY DEF EntryInv
<1>2. \A d \in Callers : call[d].entry = 0
  BY DEF EntryInv
<1>3. Entries \ InUse = Entries
  BY <1>1, <1>2 DEF InUse, Entries
<1>4. Cardinality(Callers) \in Nat /\ Cardinality(Callers) # 0
  BY RefreshAssumption, FS_CardinalityType, FS_EmptySet
<1>5. 1 \in Entries /\ \A e \in Entries : 1 <= e
  BY <1>4 DEF Entries
<1>6. QED
  BY <1>3, <1>5 DEF Min

(* Steps that neither take, give back nor wait for a lock.                 *)
LEMMA LockUndisturbed ==
  ASSUME Shape, EntryInv, OneHolder, registry' = registry, entry' = entry,
         \A d \in Callers :
           /\ call'[d].entry = call[d].entry
           /\ call'[d].step \in EnlistedSteps <=> call[d].step \in EnlistedSteps
           /\ call'[d].step \in HoldingSteps <=> call[d].step \in HoldingSteps
  PROVE  EntryInv' /\ OneHolder'
<1>1. Users' = Users /\ Holders' = Holders
  BY DEF Users, Holders
<1>2. EntryInv'
  BY <1>1 DEF EntryInv
<1>3. OneHolder'
  BY DEF OneHolder
<1>4. QED
  BY <1>2, <1>3

LEMMA InvInit == AccountKnown /\ RefreshInit => RefreshInv
<1> SUFFICES ASSUME AccountKnown, RefreshInit
             PROVE  RefreshInv
  OBVIOUS
<1>1. Shape
  BY DEF RefreshInit, Shape, Calls, Idle, Steps, Kinds, LockKeys
<1>2. Users = {} /\ Holders = {}
  BY DEF RefreshInit, Users, Holders, EnlistedSteps, HoldingSteps, Idle
<1>3. EntryInv
  BY <1>2, FS_EmptySet
     DEF RefreshInit, EntryInv, Idle, EnlistedSteps, HoldingSteps, LockKeys, Entries
<1>4. OneHolder /\ PairInv
  BY DEF RefreshInit, OneHolder, PairInv, Idle, HoldingSteps
<1>5. QED
  BY <1>1, <1>3, <1>4 DEF RefreshInv

-----------------------------------------------------------------------------
(* The steps outside the lock. *)
LEMMA InvBegin ==
  ASSUME RefreshInv, NEW c \in Callers, NEW kind \in Kinds, Begin(c, kind)
  PROVE  RefreshInv'
<1> USE DEF RefreshInv, Shape
<1>1. PICK rejected \in IF kind = "forced" THEN 0 .. adapter.cache ELSE {-1} :
        call' = [call EXCEPT ![c] =
          [Idle EXCEPT !.step = "enlist", !.kind = kind, !.rejected = rejected,
             !.key = RefreshLockKey(IF kind \in {"request", "forced"}
                                    THEN adapter ELSE row),
             !.late = row.known]]
  BY DEF Begin
<1>2. /\ UNCHANGED <<row, adapter, latest, registry, entry, lost>>
      /\ call[c].step = "idle"
  BY DEF Begin, At
<1>3. rejected \in Int
  OBVIOUS
<1>4. row.known /\ adapter.known
  OBVIOUS
<1>5. call'[c] = [step |-> "enlist", kind |-> kind, key |-> -1, entry |-> 0,
                  pair |-> 0, rejected |-> rejected, tries |-> 0, late |-> TRUE]
  BY <1>1, <1>4 DEF RefreshLockKey, Idle
<1>6. \A d \in Callers \ {c} : call'[d] = call[d]
  BY <1>1
<1>7. Shape'
  <2>1. call'[c] \in Calls
    BY <1>3, <1>5 DEF Calls, Steps
  <2>2. QED
    BY <1>1, <1>2, <2>1
<1>8. EntryInv' /\ OneHolder'
  <2>1. call[c].entry = 0
    BY <1>2 DEF EntryInv, EnlistedSteps, HoldingSteps
  <2>2. \A d \in Callers :
          /\ call'[d].entry = call[d].entry
          /\ call'[d].step \in EnlistedSteps <=> call[d].step \in EnlistedSteps
          /\ call'[d].step \in HoldingSteps <=> call[d].step \in HoldingSteps
    BY <2>1, <1>2, <1>5, <1>6 DEF EnlistedSteps, HoldingSteps
  <2>3. QED
    BY <2>2, <1>2, LockUndisturbed
<1>9. PairInv'
  BY <1>2, <1>5, <1>6 DEF PairInv
<1>10. QED
  BY <1>7, <1>8, <1>9

LEMMA InvOutside ==
  ASSUME RefreshInv, UseBuiltWith \/ Expire
  PROVE  RefreshInv'
<1>1. UNCHANGED <<row, latest, registry, entry, call, lost>>
  BY DEF UseBuiltWith, Expire
<1>2. Shape'
  BY <1>1 DEF UseBuiltWith, Expire, RefreshInv, Shape
<1>3. EntryInv' /\ OneHolder'
  BY <1>1, LockUndisturbed DEF RefreshInv
<1>4. PairInv'
  BY <1>1 DEF RefreshInv, PairInv
<1>5. QED
  BY <1>2, <1>3, <1>4 DEF RefreshInv

-----------------------------------------------------------------------------
(* A step of caller c alone, with what it leaves as it is.                 *)
Moves(c, step) ==
  /\ call'[c] \in Calls /\ call'[c].step = step
  /\ call'[c].entry = call[c].entry
  /\ \A d \in Callers \ {c} : call'[d] = call[d]
  /\ call' \in [Callers -> Calls]

LEMMA ToMoves ==
  ASSUME Shape, NEW c \in Callers, NEW step \in Steps, To(c, step)
  PROVE  Moves(c, step) /\ call'[c].pair = call[c].pair
<1>1. call' = [call EXCEPT ![c].step = step]
  BY DEF To
<1>2. call'[c] = [call[c] EXCEPT !.step = step] /\ call[c] \in Calls
  BY <1>1 DEF Shape
<1>3. /\ call'[c] \in Calls /\ call'[c].step = step
      /\ call'[c].entry = call[c].entry /\ call'[c].pair = call[c].pair
  BY <1>2 DEF Calls
<1>4. QED
  BY <1>1, <1>3 DEF Moves, Shape

(* The steps of the holder of the lock change no lock.                     *)
LEMMA HolderMoves ==
  ASSUME RefreshInv, NEW c \in Callers, NEW step \in HoldingSteps, Moves(c, step),
         call[c].step \in HoldingSteps, registry' = registry, entry' = entry
  PROVE  /\ EntryInv' /\ OneHolder'
         /\ \A d \in Callers \ {c} : call'[d].step \notin HoldingSteps
<1>1. \A d \in Callers :
        /\ call'[d].entry = call[d].entry
        /\ call'[d].step \in EnlistedSteps <=> call[d].step \in EnlistedSteps
        /\ call'[d].step \in HoldingSteps <=> call[d].step \in HoldingSteps
  BY DEF Moves, EnlistedSteps, HoldingSteps
<1>2. EntryInv' /\ OneHolder'
  BY <1>1, LockUndisturbed DEF RefreshInv
<1>3. QED
  BY <1>2 DEF OneHolder, Moves, RefreshInv

LEMMA InvCheck ==
  ASSUME RefreshInv, NEW c \in Callers, Check(c)
  PROVE  RefreshInv'
<1>1. /\ call[c].step = "check"
      /\ UNCHANGED <<row, latest, registry, entry, lost>>
  BY DEF Check, At
<1>2. CASE To(c, "unlock")
  <2>1. Moves(c, "unlock")
    BY <1>2, ToMoves DEF RefreshInv, Steps
  <2>2. Shape'
    BY <1>1, <2>1 DEF Check, Moves, RefreshInv, Shape
  <2>3. EntryInv' /\ OneHolder' /\ \A d \in Callers \ {c} : call'[d].step \notin HoldingSteps
    BY <1>1, <2>1, HolderMoves DEF HoldingSteps
  <2>4. PairInv'
    BY <1>1, <2>1, <2>3 DEF PairInv, Moves, RefreshInv, HoldingSteps
  <2>5. QED
    BY <2>2, <2>3, <2>4 DEF RefreshInv
<1>3. CASE /\ call' = [call EXCEPT ![c].step = "send", ![c].pair = row.pair]
           /\ UNCHANGED adapter
  <2>1. /\ call[c] \in Calls /\ row.pair \in Nat
        /\ call'[c] = [call[c] EXCEPT !.step = "send", !.pair = row.pair]
    BY <1>3 DEF RefreshInv, Shape
  <2>2. Moves(c, "send") /\ call'[c].pair = row.pair
    <3>1. /\ call'[c] \in Calls /\ call'[c].step = "send"
          /\ call'[c].entry = call[c].entry /\ call'[c].pair = row.pair
      BY <2>1 DEF Calls, Steps
    <3>2. QED
      BY <1>3, <3>1 DEF Moves, RefreshInv, Shape
  <2>3. Shape'
    BY <1>1, <1>3, <2>2 DEF Moves, RefreshInv, Shape
  <2>4. EntryInv' /\ OneHolder' /\ \A d \in Callers \ {c} : call'[d].step \notin HoldingSteps
    BY <1>1, <2>2, HolderMoves DEF HoldingSteps
  <2>5. PairInv'
    BY <1>1, <2>2, <2>4 DEF PairInv, Moves, RefreshInv, HoldingSteps
  <2>6. QED
    BY <2>3, <2>4, <2>5 DEF RefreshInv
<1>4. QED
  BY <1>2, <1>3 DEF Check

LEMMA InvSend ==
  ASSUME RefreshInv, NEW c \in Callers, Send(c)
  PROVE  RefreshInv'
<1>1. /\ call[c].step = "send" /\ call[c].pair = row.pair
      /\ UNCHANGED <<row, adapter, registry, entry>>
  BY DEF Send, At, RefreshInv, PairInv
<1>2. ASSUME NEW step \in HoldingSteps, To(c, step), latest' \in Nat
      PROVE  /\ Shape' /\ EntryInv' /\ OneHolder' /\ Moves(c, step)
             /\ call'[c].pair = row.pair
             /\ \A d \in Callers \ {c} : call'[d].step \notin HoldingSteps
  <2>1. Moves(c, step) /\ call'[c].pair = row.pair
    BY <1>1, <1>2, ToMoves DEF RefreshInv, Steps, HoldingSteps
  <2>2. Shape'
    BY <1>1, <1>2, <2>1 DEF Moves, RefreshInv, Shape
  <2>3. EntryInv' /\ OneHolder' /\ \A d \in Callers \ {c} : call'[d].step \notin HoldingSteps
    BY <1>1, <2>1, HolderMoves DEF HoldingSteps
  <2>4. QED
    BY <2>1, <2>2, <2>3
<1>3. /\ latest \in Nat /\ row.pair \in Nat /\ row.pair <= latest
  BY DEF RefreshInv, Shape, PairInv
<1>4. CASE call[c].pair = latest /\ latest' = latest + 1 /\ To(c, "save") /\ UNCHANGED lost
  <2>1. PairInv'
    BY <1>1, <1>2, <1>3, <1>4 DEF PairInv, Moves, HoldingSteps
  <2>2. QED
    BY <1>2, <1>3, <1>4, <2>1 DEF RefreshInv, HoldingSteps
<1>5. CASE /\ call[c].pair = latest /\ latest' = latest + 1
           /\ lost' = lost \cup {call[c].pair} /\ To(c, "answer")
  <2>1. PairInv'
    BY <1>1, <1>2, <1>3, <1>5 DEF PairInv, Moves, HoldingSteps
  <2>2. QED
    BY <1>2, <1>3, <1>5, <2>1 DEF RefreshInv, HoldingSteps
<1>6. CASE call[c].pair # latest /\ To(c, "unlock") /\ UNCHANGED <<latest, lost>>
  <2>1. row.pair \in lost
    BY <1>1, <1>3, <1>6 DEF RefreshInv, PairInv, OneHolder, HoldingSteps
  <2>2. PairInv'
    BY <1>1, <1>2, <1>3, <1>6, <2>1 DEF PairInv, Moves, HoldingSteps
  <2>3. QED
    BY <1>2, <1>3, <1>6, <2>2 DEF RefreshInv, HoldingSteps
<1>7. QED
  BY <1>4, <1>5, <1>6 DEF Send

LEMMA InvAnswerLost ==
  ASSUME RefreshInv, NEW c \in Callers, AnswerLost(c)
  PROVE  RefreshInv'
<1>1. /\ call[c].step = "answer" /\ call[c].pair = row.pair /\ row.pair < latest
      /\ UNCHANGED <<row, adapter, latest, registry, entry, lost>>
  BY DEF AnswerLost, At, RefreshInv, PairInv
<1>2. row.pair \in lost
  BY <1>1 DEF RefreshInv, PairInv, OneHolder, HoldingSteps
<1>3. PICK step \in {"send", "unlock"} : Moves(c, step) /\ call'[c].pair = row.pair
  <2>1. CASE To(c, "unlock")
    BY <1>1, <2>1, ToMoves DEF RefreshInv, Steps
  <2>2. CASE call' = [call EXCEPT ![c].step = "send", ![c].tries = @ + 1]
    <3>1. /\ call[c] \in Calls
          /\ call'[c] = [call[c] EXCEPT !.step = "send", !.tries = @ + 1]
      BY <2>2 DEF RefreshInv, Shape
    <3>2. call[c].tries + 1 \in Nat
      BY <3>1 DEF Calls
    <3>3. /\ call'[c].step = "send" /\ call'[c].entry = call[c].entry
          /\ call'[c].pair = row.pair
      BY <1>1, <3>1 DEF Calls
    <3>4. call'[c] \in Calls
      BY <3>1, <3>2 DEF Calls, Steps
    <3>5. QED
      BY <2>2, <3>3, <3>4 DEF Moves, RefreshInv, Shape
  <2>3. QED
    BY <2>1, <2>2 DEF AnswerLost
<1>4. Shape'
  BY <1>1, <1>3 DEF Moves, RefreshInv, Shape
<1>5. EntryInv' /\ OneHolder'
  BY <1>1, <1>3, HolderMoves DEF HoldingSteps
<1>6. PairInv'
  BY <1>1, <1>2, <1>3 DEF PairInv, Moves, RefreshInv
<1>7. QED
  BY <1>4, <1>5, <1>6 DEF RefreshInv

LEMMA InvSave ==
  ASSUME RefreshInv, NEW c \in Callers, Save(c)
  PROVE  RefreshInv'
<1>1. /\ call[c].step = "save" /\ call[c].pair = row.pair /\ latest = row.pair + 1
      /\ row' = [pair |-> latest, known |-> TRUE]
      /\ UNCHANGED <<latest, registry, entry, lost>> /\ To(c, "unlock")
  BY DEF Save, At, RefreshInv, PairInv, Shape
<1>2. Moves(c, "unlock")
  BY <1>1, ToMoves DEF RefreshInv, Steps
<1>3. Shape'
  <2>1. /\ row' \in [pair : Nat, known : {TRUE}]
        /\ adapter' \in [pair : Nat, known : {TRUE}, cache : Nat]
    <3>1. row.known /\ latest \in Nat /\ call[c].pair + 1 = latest
      BY <1>1 DEF RefreshInv, Shape
    <3>2. adapter' \in {adapter, [adapter EXCEPT !.cache = latest],
                        [pair |-> latest, known |-> TRUE, cache |-> latest]}
      BY <3>1 DEF Save
    <3>3. adapter \in [pair : Nat, known : {TRUE}, cache : Nat]
      BY DEF RefreshInv, Shape
    <3>4. [adapter EXCEPT !.cache = latest] \in [pair : Nat, known : {TRUE}, cache : Nat]
      BY <3>1, <3>3
    <3>5. row' \in [pair : Nat, known : {TRUE}]
      BY <1>1, <3>1
    <3>6. [pair |-> latest, known |-> TRUE, cache |-> latest]
            \in [pair : Nat, known : {TRUE}, cache : Nat]
      BY <3>1
    <3>7. QED
      BY <3>2, <3>3, <3>4, <3>5, <3>6
  <2>2. QED
    BY <1>1, <1>2, <2>1 DEF Moves, RefreshInv, Shape
<1>4. EntryInv' /\ OneHolder' /\ \A d \in Callers \ {c} : call'[d].step \notin HoldingSteps
  BY <1>1, <1>2, HolderMoves DEF HoldingSteps
<1>5. PairInv'
  BY <1>1, <1>2, <1>3, <1>4 DEF PairInv, Moves, HoldingSteps, Shape
<1>6. QED
  BY <1>3, <1>4, <1>5 DEF RefreshInv

LEMMA InvSaveFails ==
  ASSUME RefreshInv, NEW c \in Callers, SaveFails(c)
  PROVE  RefreshInv'
<1>1. /\ call[c].step = "save" /\ call[c].pair = row.pair
      /\ lost' = lost \cup {row.pair}
      /\ UNCHANGED <<row, adapter, latest, registry, entry>> /\ To(c, "unlock")
  BY DEF SaveFails, At, RefreshInv, PairInv
<1>2. Moves(c, "unlock")
  BY <1>1, ToMoves DEF RefreshInv, Steps
<1>3. Shape'
  BY <1>1, <1>2 DEF Moves, RefreshInv, Shape
<1>4. EntryInv' /\ OneHolder' /\ \A d \in Callers \ {c} : call'[d].step \notin HoldingSteps
  BY <1>1, <1>2, HolderMoves DEF HoldingSteps
<1>5. PairInv'
  BY <1>1, <1>2, <1>4 DEF PairInv, Moves, HoldingSteps, RefreshInv
<1>6. QED
  BY <1>3, <1>4, <1>5 DEF RefreshInv

-----------------------------------------------------------------------------
(* The steps of the lock. *)
LEMMA InvLock ==
  ASSUME RefreshInv, NEW c \in Callers, Lock(c)
  PROVE  RefreshInv'
<1> DEFINE e == call[c].entry
<1>1. /\ call[c].step = "lock" /\ entry[e].holder = {}
      /\ entry' = [entry EXCEPT ![e].holder = {c}] /\ To(c, "check")
      /\ UNCHANGED <<row, adapter, expired, latest, registry, lost>>
  BY DEF Lock, At
<1>2. Moves(c, "check")
  BY <1>1, ToMoves DEF RefreshInv, Steps
<1>3. e = registry[-1] /\ e \in Entries
  BY <1>1 DEF RefreshInv, EntryInv, Shape, EnlistedSteps, Users, LockKeys
<1>4. Holders = {} /\ Holders' = {c} /\ Users' = Users
  <2>1. Holders = {}
    BY <1>1, <1>3 DEF RefreshInv, EntryInv
  <2>2. QED
    BY <1>1, <1>2, <2>1 DEF Moves, Holders, Users, HoldingSteps, EnlistedSteps
<1>5. Shape'
  <2>1. entry[e] \in [holder : SUBSET Callers, refcount : Int]
    BY <1>3 DEF RefreshInv, Shape
  <2>2. [entry[e] EXCEPT !.holder = {c}] \in [holder : SUBSET Callers, refcount : Int]
    BY <2>1
  <2>3. entry' \in [Entries -> [holder : SUBSET Callers, refcount : Int]]
    BY <1>1, <2>2 DEF RefreshInv, Shape
  <2>4. QED
    BY <1>1, <1>2, <2>3 DEF Moves, RefreshInv, Shape
<1>6. entry'[e] = [entry[e] EXCEPT !.holder = {c}]
      /\ \A f \in Entries \ {e} : entry'[f] = entry[f]
  BY <1>1, <1>3 DEF RefreshInv, Shape
<1>7. EntryInv'
  <2>1. ASSUME NEW d \in Callers
        PROVE  (call[d].entry = IF call[d].step \in EnlistedSteps THEN registry[-1] ELSE 0)'
    BY <1>1, <1>2, <1>3 DEF Moves, RefreshInv, EntryInv, EnlistedSteps, HoldingSteps
  <2>2. ASSUME NEW f \in Entries
        PROVE  (IF f = registry[-1]
                THEN entry[f].holder = Holders /\ entry[f].refcount = Cardinality(Users)
                ELSE entry[f].holder = {} /\ entry[f].refcount = 0)'
    BY <1>1, <1>3, <1>4, <1>6 DEF RefreshInv, EntryInv, Shape
  <2>3. QED
    BY <1>1, <1>4, <2>1, <2>2 DEF RefreshInv, EntryInv
<1>8. OneHolder'
  BY <1>4 DEF OneHolder, Holders
<1>9. PairInv'
  BY <1>1, <1>2 DEF PairInv, Moves, RefreshInv
<1>10. QED
  BY <1>5, <1>7, <1>8, <1>9 DEF RefreshInv

LEMMA InvUnlock ==
  ASSUME RefreshInv, NEW c \in Callers, Unlock(c)
  PROVE  RefreshInv'
<1> DEFINE e == call[c].entry
<1>1. /\ call[c].step = "unlock"
      /\ entry' = [entry EXCEPT ![e].holder = {}] /\ To(c, "leave")
      /\ UNCHANGED <<row, adapter, expired, latest, registry, lost>>
  BY DEF Unlock, At
<1>2. Moves(c, "leave")
  BY <1>1, ToMoves DEF RefreshInv, Steps
<1>3. e = registry[-1] /\ e \in Entries
  BY <1>1 DEF RefreshInv, EntryInv, Shape, EnlistedSteps, HoldingSteps, Users, LockKeys
<1>4. Holders' = {} /\ Users' = Users
  BY <1>1, <1>2 DEF Moves, Holders, Users, HoldingSteps, EnlistedSteps, RefreshInv, OneHolder
<1>5. Shape'
  <2>1. entry[e] \in [holder : SUBSET Callers, refcount : Int]
    BY <1>3 DEF RefreshInv, Shape
  <2>2. [entry[e] EXCEPT !.holder = {}] \in [holder : SUBSET Callers, refcount : Int]
    BY <2>1
  <2>3. entry' \in [Entries -> [holder : SUBSET Callers, refcount : Int]]
    BY <1>1, <2>2 DEF RefreshInv, Shape
  <2>4. QED
    BY <1>1, <1>2, <2>3 DEF Moves, RefreshInv, Shape
<1>6. entry'[e] = [entry[e] EXCEPT !.holder = {}]
      /\ \A f \in Entries \ {e} : entry'[f] = entry[f]
  BY <1>1, <1>3 DEF RefreshInv, Shape
<1>7. EntryInv'
  <2>1. ASSUME NEW d \in Callers
        PROVE  (call[d].entry = IF call[d].step \in EnlistedSteps THEN registry[-1] ELSE 0)'
    BY <1>1, <1>2, <1>3 DEF Moves, RefreshInv, EntryInv, EnlistedSteps, HoldingSteps
  <2>2. ASSUME NEW f \in Entries
        PROVE  (IF f = registry[-1]
                THEN entry[f].holder = Holders /\ entry[f].refcount = Cardinality(Users)
                ELSE entry[f].holder = {} /\ entry[f].refcount = 0)'
    BY <1>1, <1>3, <1>4, <1>6 DEF RefreshInv, EntryInv, Shape
  <2>3. QED
    BY <1>1, <1>4, <2>1, <2>2 DEF RefreshInv, EntryInv
<1>8. OneHolder'
  BY <1>4 DEF OneHolder, Holders
<1>9. PairInv'
  BY <1>1, <1>2 DEF PairInv, Moves, RefreshInv
<1>10. QED
  BY <1>5, <1>7, <1>8, <1>9 DEF RefreshInv

LEMMA InvEnlist ==
  ASSUME RefreshInv, NEW c \in Callers, Enlist(c)
  PROVE  RefreshInv'
<1> DEFINE e == IF registry[-1] # 0 THEN registry[-1] ELSE Min(Entries \ InUse)
<1>1. call[c] \in Calls /\ call[c].key = -1 /\ -1 \in LockKeys
  BY DEF RefreshInv, Shape, Calls, LockKeys
<1>2. /\ call[c].step = "enlist"
      /\ registry' = [registry EXCEPT ![-1] = e]
      /\ entry' = [entry EXCEPT ![e].refcount = @ + 1]
      /\ call' = [call EXCEPT ![c].step = "lock", ![c].entry = e]
      /\ UNCHANGED <<row, adapter, expired, latest, lost>>
  BY <1>1 DEF Enlist, At
<1>3. e \in Entries
  BY <1>1, FreeEntry DEF RefreshInv, Shape
<1>4. registry'[-1] = e /\ e # 0 /\ \A k \in LockKeys \ {-1} : registry'[k] = registry[k]
  BY <1>1, <1>2, <1>3, RefreshAssumption, FS_CardinalityType DEF RefreshInv, Shape, Entries
<1>5. /\ call'[c] = [call[c] EXCEPT !.step = "lock", !.entry = e]
      /\ \A d \in Callers \ {c} : call'[d] = call[d]
  BY <1>2 DEF RefreshInv, Shape
<1>6. call'[c] \in Calls /\ call'[c].step = "lock" /\ call'[c].entry = e
  BY <1>1, <1>3, <1>5 DEF Calls, Steps
<1>7. entry[e] \in [holder : SUBSET Callers, refcount : Int]
      /\ entry'[e] = [entry[e] EXCEPT !.refcount = @ + 1]
      /\ \A f \in Entries \ {e} : entry'[f] = entry[f]
  BY <1>2, <1>3 DEF RefreshInv, Shape
<1>8. entry'[e].holder = entry[e].holder /\ entry'[e].refcount = entry[e].refcount + 1
  BY <1>7
<1>9. Shape'
  <2>1. entry'[e] \in [holder : SUBSET Callers, refcount : Int]
    <3>1. entry[e].refcount + 1 \in Int
      BY <1>7
    <3>2. [entry[e] EXCEPT !.refcount = entry[e].refcount + 1]
            \in [holder : SUBSET Callers, refcount : Int]
      BY <1>7, <3>1
    <3>3. QED
      BY <1>7, <3>2
  <2>2. entry' \in [Entries -> [holder : SUBSET Callers, refcount : Int]]
    BY <1>2, <1>7, <2>1 DEF RefreshInv, Shape
  <2>3. call' \in [Callers -> Calls]
    BY <1>2, <1>5, <1>6 DEF RefreshInv, Shape
  <2>4. QED
    BY <1>2, <1>3, <2>2, <2>3 DEF RefreshInv, Shape
<1>10. Users' = Users \cup {c} /\ c \notin Users /\ Holders' = Holders
  BY <1>2, <1>5, <1>6 DEF Users, Holders, EnlistedSteps, HoldingSteps
<1>11. Cardinality(Users') = Cardinality(Users) + 1
  BY <1>10, UsersFinite, FS_AddElement
<1>12. entry[e].holder = Holders /\ entry[e].refcount = Cardinality(Users)
  <2>1. CASE registry[-1] # 0
    BY <1>3, <2>1 DEF RefreshInv, EntryInv
  <2>2. CASE registry[-1] = 0
    <3>1. Users = {} /\ Holders = {}
      BY <2>2 DEF RefreshInv, EntryInv, Users, Holders, EnlistedSteps
    <3>2. e # registry[-1] /\ Cardinality(Users) = 0
      BY <1>4, <2>2, <3>1, FS_EmptySet
    <3>3. QED
      BY <1>3, <3>1, <3>2 DEF RefreshInv, EntryInv
  <2>3. QED
    BY <2>1, <2>2
<1>13. EntryInv'
  <2>1. ASSUME NEW d \in Callers
        PROVE  (call[d].entry = IF call[d].step \in EnlistedSteps THEN registry[-1] ELSE 0)'
    <3>1. CASE d = c
      BY <1>4, <1>6, <3>1 DEF EnlistedSteps
    <3>2. CASE d # c /\ call[d].step \notin EnlistedSteps
      BY <1>5, <3>2 DEF RefreshInv, EntryInv
    <3>3. CASE d # c /\ call[d].step \in EnlistedSteps
      BY <1>4, <1>5, <3>3 DEF RefreshInv, EntryInv, Users
    <3>4. QED
      BY <3>1, <3>2, <3>3
  <2>2. ASSUME NEW f \in Entries
        PROVE  (IF f = registry[-1]
                THEN entry[f].holder = Holders /\ entry[f].refcount = Cardinality(Users)
                ELSE entry[f].holder = {} /\ entry[f].refcount = 0)'
    <3>1. CASE f = e
      BY <1>4, <1>8, <1>10, <1>11, <1>12, <3>1
    <3>2. CASE f # e
      <4>1. f # registry[-1] /\ f # registry'[-1] /\ entry'[f] = entry[f]
        BY <1>3, <1>4, <1>7, <3>2, RefreshAssumption, FS_CardinalityType DEF Entries
      <4>2. entry[f].holder = {} /\ entry[f].refcount = 0
        BY <4>1 DEF RefreshInv, EntryInv
      <4>3. QED
        BY <4>1, <4>2
    <3>3. QED
      BY <3>1, <3>2
  <2>3. QED
    BY <1>4, <1>10, <2>1, <2>2 DEF RefreshInv, EntryInv
<1>14. OneHolder'
  BY <1>2, <1>5, <1>6, ZenonT(60) DEF RefreshInv, OneHolder, HoldingSteps
<1>15. PairInv'
  BY <1>2, <1>5, <1>6, ZenonT(60) DEF RefreshInv, PairInv
<1>16. QED
  BY <1>9, <1>13, <1>14, <1>15 DEF RefreshInv

LEMMA InvLeave ==
  ASSUME RefreshInv, NEW c \in Callers, Leave(c)
  PROVE  RefreshInv'
<1> DEFINE e == call[c].entry
<1>1. call[c] \in Calls /\ call[c].key = -1 /\ -1 \in LockKeys
  BY DEF RefreshInv, Shape, Calls, LockKeys
<1>2. /\ call[c].step = "leave"
      /\ entry' = [entry EXCEPT ![e].refcount = @ - 1]
      /\ registry' = [registry EXCEPT ![-1] = IF entry[e].refcount = 1 THEN 0 ELSE @]
      /\ call' = [call EXCEPT ![c] = Idle]
      /\ UNCHANGED <<row, adapter, expired, latest, lost>>
  BY <1>1 DEF Leave, At
<1>3. e = registry[-1] /\ e \in Entries /\ e # 0 /\ c \in Users /\ c \notin Holders
  BY <1>1, <1>2
     DEF RefreshInv, EntryInv, Shape, EnlistedSteps, HoldingSteps, Users, Holders
<1>4. call'[c] = Idle /\ \A d \in Callers \ {c} : call'[d] = call[d]
  BY <1>2 DEF RefreshInv, Shape
<1>5. entry[e] \in [holder : SUBSET Callers, refcount : Int]
      /\ entry'[e] = [entry[e] EXCEPT !.refcount = @ - 1]
      /\ \A f \in Entries \ {e} : entry'[f] = entry[f]
  BY <1>2, <1>3 DEF RefreshInv, Shape
<1>6. /\ entry'[e].holder = Holders
      /\ entry[e].refcount = Cardinality(Users)
      /\ entry'[e].refcount = Cardinality(Users) - 1
  BY <1>3, <1>5 DEF RefreshInv, EntryInv
<1>7. Users' = Users \ {c} /\ Holders' = Holders
  BY <1>3, <1>4 DEF Users, Holders, EnlistedSteps, HoldingSteps, Idle
<1>8. /\ Cardinality(Users') = Cardinality(Users) - 1
      /\ Cardinality(Users') = 0 <=> Users' = {}
  BY <1>3, <1>7, UsersFinite, FS_RemoveElement, FS_EmptySet
<1>9. /\ registry'[-1] = IF Users' = {} THEN 0 ELSE e
      /\ \A k \in LockKeys \ {-1} : registry'[k] = registry[k]
  <2>1. entry[e].refcount = 1 <=> Users' = {}
    BY <1>6, <1>8, UsersFinite
  <2>2. QED
    BY <1>1, <1>2, <1>3, <2>1 DEF RefreshInv, Shape
<1>10. Shape'
  <2>1. entry'[e] \in [holder : SUBSET Callers, refcount : Int]
    BY <1>5
  <2>2. entry' \in [Entries -> [holder : SUBSET Callers, refcount : Int]]
    BY <1>2, <1>5, <2>1 DEF RefreshInv, Shape
  <2>3. Idle \in Calls
    BY DEF Idle, Calls, Steps, Kinds
  <2>4. call' \in [Callers -> Calls]
    BY <1>2, <2>3 DEF RefreshInv, Shape
  <2>5. registry' \in [LockKeys -> Entries \cup {0}]
    BY <1>2 DEF RefreshInv, Shape
  <2>6. QED
    BY <1>2, <2>2, <2>4, <2>5 DEF RefreshInv, Shape
<1>11. EntryInv'
  <2>1. ASSUME NEW d \in Callers
        PROVE  (call[d].entry = IF call[d].step \in EnlistedSteps THEN registry[-1] ELSE 0)'
    <3>1. CASE d = c
      BY <1>4, <3>1 DEF Idle, EnlistedSteps, HoldingSteps
    <3>2. CASE d # c /\ call[d].step \notin EnlistedSteps
      BY <1>4, <3>2 DEF RefreshInv, EntryInv
    <3>3. CASE d # c /\ call[d].step \in EnlistedSteps
      <4>1. Users' # {}
        BY <1>7, <3>3 DEF Users
      <4>2. QED
        BY <1>3, <1>4, <1>9, <3>3, <4>1 DEF RefreshInv, EntryInv
    <3>4. QED
      BY <3>1, <3>2, <3>3
  <2>2. ASSUME NEW f \in Entries
        PROVE  (IF f = registry[-1]
                THEN entry[f].holder = Holders /\ entry[f].refcount = Cardinality(Users)
                ELSE entry[f].holder = {} /\ entry[f].refcount = 0)'
    <3>1. CASE f = e /\ Users' # {}
      BY <1>6, <1>7, <1>8, <1>9, <3>1
    <3>2. CASE f = e /\ Users' = {}
      <4>1. Holders' = {}
        BY <3>2 DEF Users, Holders, EnlistedSteps
      <4>2. QED
        BY <1>3, <1>6, <1>7, <1>8, <1>9, <3>2, <4>1
    <3>3. CASE f # e
      <4>1. f # registry'[-1]
        BY <1>9, <3>3, RefreshAssumption, FS_CardinalityType DEF Entries
      <4>2. entry[f].holder = {} /\ entry[f].refcount = 0
        BY <1>3, <3>3 DEF RefreshInv, EntryInv
      <4>3. QED
        BY <1>5, <3>3, <4>1, <4>2
    <3>4. QED
      BY <3>1, <3>2, <3>3
  <2>3. \A k \in LockKeys \ {-1} : registry'[k] = 0
    BY <1>9 DEF RefreshInv, EntryInv
  <2>4. QED
    BY <1>3, <1>9, <2>1, <2>2, <2>3 DEF EntryInv
<1>12. OneHolder'
  BY <1>4 DEF RefreshInv, OneHolder, HoldingSteps, Idle
<1>13. PairInv'
  BY <1>2, <1>4 DEF RefreshInv, PairInv, Idle
<1>14. QED
  BY <1>10, <1>11, <1>12, <1>13 DEF RefreshInv

-----------------------------------------------------------------------------
LEMMA InvStep ==
  ASSUME RefreshInv, [RefreshNext]_refreshVars
  PROVE  RefreshInv'
<1>1. ASSUME NEW c \in Callers, CallStep(c)
      PROVE  RefreshInv'
  BY <1>1, InvEnlist, InvCheck, InvSend, InvAnswerLost, InvSave, InvUnlock, InvLeave
     DEF CallStep
<1>2. ASSUME NEW c \in Callers, Lock(c) \/ SaveFails(c)
      PROVE  RefreshInv'
  BY <1>2, InvLock, InvSaveFails
<1>3. ASSUME NEW c \in Callers, NEW kind \in Kinds, Begin(c, kind)
      PROVE  RefreshInv'
  BY <1>3, InvBegin
<1>4. CASE UseBuiltWith \/ Expire
  BY <1>4, InvOutside
<1>5. CASE UNCHANGED refreshVars
  BY <1>5, ZenonT(60)
     DEF refreshVars, RefreshInv, Shape, EntryInv, OneHolder, PairInv, Users, Holders
<1>6. QED
  BY <1>1, <1>2, <1>3, <1>4, <1>5 DEF RefreshNext

LEMMA InvAlways == ASSUME AccountKnown PROVE RefreshSpec => []RefreshInv
<1>1. RefreshInit => RefreshInv
  BY InvInit
<1>2. QED
  BY <1>1, InvStep, PTL DEF RefreshSpec

(* However many callers there are and however the entries of the lock come *)
(* and go, an account that is known is refreshed by one at a time          *)
(* (AcquireRefreshLock).                                                   *)
THEOREM KnownAccountsAreSerial ==
  ASSUME AccountKnown
  PROVE  RefreshSpec => []RefreshesAreSerial
<1>1. RefreshInv => RefreshesAreSerial
  BY DEF RefreshInv, OneHolder, RefreshesAreSerial, Refreshing, HoldingSteps
<1>2. QED
  BY <1>1, InvAlways, PTL

(* And no refresh token is sent that was exchanged before, but for pairs   *)
(* that were lost (getAccessToken reads the row again under the lock).     *)
THEOREM KnownAccountsSpendOnce ==
  ASSUME AccountKnown
  PROVE  RefreshSpec => []TokensAreSpentOnce
<1>1. RefreshInv => TokensAreSpentOnce
  <2> SUFFICES ASSUME RefreshInv, NEW c \in Callers, At(c, "send"),
                      call[c].pair < latest
               PROVE  call[c].pair \in lost
    BY DEF TokensAreSpentOnce
  <2>1. call[c].step = "send" /\ call[c].pair = row.pair /\ row.pair < latest
    BY DEF At, RefreshInv, PairInv
  <2>2. \A d \in Callers : call[d].step # "save"
    BY <2>1 DEF RefreshInv, OneHolder, HoldingSteps
  <2>3. QED
    BY <2>1, <2>2 DEF RefreshInv, PairInv
<1>2. QED
  BY <1>1, InvAlways, PTL

(* The registry has an entry for the account exactly while somebody uses   *)
(* it, all who do have that one, and its refcount is their number          *)
(* (AcquireRefreshLock and the function it returns).                       *)
THEOREM KnownAccountsKeepEntries ==
  ASSUME AccountKnown
  PROVE  RefreshSpec => []EntriesAreCounted
<1>1. RefreshInv => EntriesAreCounted
  <2> SUFFICES ASSUME RefreshInv, NEW k \in LockKeys
               PROVE  LET users == {c \in Callers : call[c].key = k /\ call[c].entry # 0}
                      IN  IF users = {} THEN registry[k] = 0
                          ELSE /\ \A c \in users : call[c].entry = registry[k]
                               /\ entry[registry[k]].refcount = Cardinality(users)
    BY DEF EntriesAreCounted
  <2> DEFINE users == {c \in Callers : call[c].key = k /\ call[c].entry # 0}
  <2>1. CASE k # -1
    <3>1. users = {}
      BY <2>1 DEF RefreshInv, Shape, Calls
    <3>2. QED
      BY <2>1, <3>1 DEF RefreshInv, EntryInv
  <2>2. CASE k = -1
    <3>1. registry[-1] \in Entries \cup {0}
      BY <2>2 DEF RefreshInv, Shape
    <3>2. users = Users
      <4>1. ASSUME NEW c \in Users
            PROVE  c \in users
        BY <2>2, <4>1 DEF RefreshInv, Shape, Calls, EntryInv, Users
      <4>2. ASSUME NEW c \in users
            PROVE  c \in Users
        BY <4>2 DEF RefreshInv, EntryInv, Users
      <4>3. QED
        BY <4>1, <4>2
    <3>3. CASE Users = {}
      BY <2>2, <3>2, <3>3 DEF RefreshInv, EntryInv
    <3>4. CASE Users # {}
      <4>1. registry[-1] \in Entries
        BY <3>1, <3>4 DEF RefreshInv, EntryInv
      <4>2. entry[registry[-1]].refcount = Cardinality(Users)
        BY <4>1 DEF RefreshInv, EntryInv
      <4>3. \A c \in Users : call[c].entry = registry[-1]
        BY DEF RefreshInv, EntryInv, Users
      <4>4. QED
        BY <2>2, <3>2, <3>4, <4>2, <4>3
    <3>5. QED
      BY <3>3, <3>4
  <2>3. QED
    BY <2>1, <2>2
<1>2. QED
  BY <1>1, InvAlways, PTL
=============================================================================
