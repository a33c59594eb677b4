--------------------------- MODULE SharingProofs ---------------------------
(* Proofs about the copies that several servers keep, for any number of    *)
(* them: of rows, which announcements invalidate (CacheInvalidation), and  *)
(* of the session that one server binds while requests wait at others      *)
(* (ProjectBinding).                                                       *)
EXTENDS CacheInvalidation, ProjectBinding, SequenceTheorems, TLAPS

-----------------------------------------------------------------------------
(* The invalidation of caches: for any number of instances, rows and       *)
(* callers, and however many of them die or fail.                          *)

(* The invariant.  What anyone has read of a row is no later than the row. *)
NoLaterThanTable(rows) == \A r \in Ids : rows[r].v <= table[r].v

VersionsInv ==
  /\ NoLaterThanTable(FirstTable)
  /\ \A c \in Callers : NoLaterThanTable(admin[c].read)
  /\ \A i \in Instances, g \in Goroutines : NoLaterThanTable(job[i][g].read)
  /\ \A i \in Instances, r \in Ids : seen[i][r] <= table[r].v

(* Why instance i will see the row as it is: a fault is on record, it has  *)
(* to start again, it was told or is about to be, or the row is in the     *)
(* hands of one of its own goroutines.                                     *)
ReadsSoon(i, g, r) ==
  JobAt(i, g, "list") \/ (JobAt(i, g, "install") /\ job[i][g].read[r].v = table[r].v)

HasInHand(c, r) ==
  \/ CallAt(c, "list")
  \/ /\ CallAt(c, "install") \/ (CallAt(c, "keep") /\ r \in admin[c].rows)
     /\ admin[c].read[r].v = table[r].v

Excused(i) == i \in owed \/ phase[i] = "down" \/ inbox[i]

WillSee(i, r) ==
  \/ Excused(i)
  \/ \E g \in Goroutines : ReadsSoon(i, g, r)
  \/ \E c \in Callers : IF On(c) = i THEN HasInHand(c, r) ELSE Unannounced(c)

ArrivalInv == \A i \in Instances, r \in Ids : seen[i][r] = table[r].v \/ WillSee(i, r)

ArrivesInv == CacheTypeOK /\ VersionsInv /\ ArrivalInv

(* An instance that is down does nothing and hears nothing, and its main   *)
(* goroutine is done with the repositories once it serves.                 *)
LivesInv ==
  \A i \in Instances :
    /\ phase[i] = "down" => ~inbox[i] /\ \A g \in Goroutines : JobAt(i, g, "idle")
    /\ phase[i] # "loading" => JobAt(i, "main", "idle")

-----------------------------------------------------------------------------
(* Types.                                                                  *)
LEMMA FirstTyped ==
  /\ Absent \in Rows /\ First \in Rows
  /\ FirstTable \in [Ids -> Rows]
  /\ NoCopies \in CopySeqs /\ NoJob \in Jobs
  /\ \A r \in Ids : FirstTable[r].v \in Nat
<1>1. Absent \in Rows /\ First \in Rows
  BY DEF Absent, First, Rows, Prints
<1>2. FirstTable \in [Ids -> Rows]
  BY <1>1 DEF FirstTable
<1>3. \A r \in Ids : <<>> \in Seq(Rows)
  OBVIOUS
<1>4. NoCopies \in CopySeqs
  BY <1>3 DEF NoCopies, CopySeqs
<1>5. NoJob \in Jobs
  BY <1>2, <1>4 DEF NoJob, Jobs
<1>6. \A r \in Ids : FirstTable[r].v \in Nat
  BY <1>2 DEF Rows
<1>7. QED
  BY <1>1, <1>2, <1>4, <1>5, <1>6

LEMMA NoCopy ==
  <<>> \in Seq(Rows)
OBVIOUS

LEMMA OneCopy ==
  ASSUME NEW made \in Rows
  PROVE  <<made>> \in Seq(Rows)
OBVIOUS

LEMMA CopiesTyped ==
  ASSUME NEW t \in [Ids -> Rows]
  PROVE  CopiesOf(t) \in CopySeqs
<1>1. ASSUME NEW r \in Ids
      PROVE  (IF t[r].there THEN <<t[r]>> ELSE <<>>) \in Seq(Rows)
  <2>1. t[r] \in Rows /\ <<>> \in Seq(Rows)
    OBVIOUS
  <2>2. QED
    BY <2>1, OneCopy
<1>2. QED
  BY <1>1 DEF CopiesOf, CopySeqs

LEMMA NoCallTyped ==
  ASSUME NEW i \in Instances, NEW at \in {"new", "over"}
  PROVE  /\ NoCall(i, at) \in Calls
         /\ NoCall(i, at).on = i /\ NoCall(i, at).at = at /\ NoCall(i, at).read = FirstTable
<1>1. RefreshedToken \in Ops
  BY DEF RefreshedToken, Op, Ops
<1>2. /\ NoCall(i, at) \in Calls
      /\ NoCall(i, at).on = i /\ NoCall(i, at).at = at /\ NoCall(i, at).read = FirstTable
  BY <1>1, FirstTyped DEF NoCall, Calls
<1>3. QED
  BY <1>2

LEMMA OpsTyped ==
  ASSUME entity \in Repositories
  PROVE  CallsOf(entity) \subseteq Ops
<1>1. CASE entity = "provider"
  BY <1>1 DEF CallsOf, Op, Ops, ProviderCalls, RefreshedToken, BulkDelete
<1>2. CASE entity = "route"
  BY <1>2 DEF CallsOf, Op, Ops, RouteCalls, RereadRoutes
<1>3. CASE entity = "retry_config"
  BY <1>3 DEF CallsOf, Op, Ops, RetryConfigCalls
<1>4. CASE entity = "routing_strategy"
  BY <1>4 DEF CallsOf, Op, Ops, RoutingStrategyCalls
<1>5. CASE entity = "project"
  BY <1>5 DEF CallsOf, Op, Ops, ProjectCalls, ProjectBySlug
<1>6. CASE entity = "api_token"
  BY <1>6 DEF CallsOf, Op, Ops, APITokenCalls, TokenByValue
<1>7. CASE entity = "model_mapping"
  BY <1>7 DEF CallsOf, Op, Ops, ModelMappingCalls, ClearMappings, SeedMappings,
                       ReorderMappings, RereadMappings
<1>8. QED
  BY <1>1, <1>2, <1>3, <1>4, <1>5, <1>6, <1>7, CacheAssumption

LEMMA CallTyped ==
  ASSUME CacheTypeOK, NEW c \in Callers
  PROVE  /\ admin[c] \in Calls /\ On(c) \in Instances /\ admin[c].rows \subseteq Ids
         /\ admin[c].read \in [Ids -> Rows]
         /\ \A r \in Ids : admin[c].read[r] \in Rows /\ admin[c].read[r].v \in Nat
<1>1. admin[c] \in Calls
  BY DEF CacheTypeOK
<1>2. On(c) \in Instances /\ admin[c].rows \subseteq Ids /\ admin[c].read \in [Ids -> Rows]
  BY <1>1 DEF Calls, On
<1>3. \A r \in Ids : admin[c].read[r] \in Rows /\ admin[c].read[r].v \in Nat
  BY <1>2 DEF Rows
<1>4. QED
  BY <1>1, <1>2, <1>3

LEMMA TableTyped ==
  ASSUME CacheTypeOK, NEW r \in Ids
  PROVE  table[r] \in Rows /\ table[r].v \in Nat
BY DEF CacheTypeOK, Rows

(* A call that moves to another place, and one that ends.                  *)
LEMMA CallGoesTyped ==
  ASSUME CacheTypeOK, NEW c \in Callers,
         NEW at \in {"publish", "adapter", "fill", "install"}, CallGoes(c, at)
  PROVE  /\ admin' \in [Callers -> Calls]
         /\ admin'[c] = [admin[c] EXCEPT !.at = at] /\ admin'[c].at = at
         /\ admin'[c].on = admin[c].on /\ admin'[c].read = admin[c].read
         /\ admin'[c].rows = admin[c].rows
         /\ \A d \in Callers \ {c} : admin'[d] = admin[d]
<1>1. admin \in [Callers -> Calls] /\ admin[c] \in Calls
  BY DEF CacheTypeOK
<1>2. admin' = [admin EXCEPT ![c] = [admin[c] EXCEPT !.at = at]]
  BY <1>1 DEF CallGoes
<1>3. [admin[c] EXCEPT !.at = at] \in Calls
  BY <1>1 DEF Calls
<1>4. /\ [admin[c] EXCEPT !.at = at].at = at
      /\ [admin[c] EXCEPT !.at = at].on = admin[c].on
      /\ [admin[c] EXCEPT !.at = at].read = admin[c].read
      /\ [admin[c] EXCEPT !.at = at].rows = admin[c].rows
  BY <1>1 DEF Calls
<1>5. QED
  BY <1>1, <1>2, <1>3, <1>4

LEMMA CallEndsTyped ==
  ASSUME CacheTypeOK, NEW c \in Callers, CallEnds(c)
  PROVE  /\ admin' \in [Callers -> Calls]
         /\ admin'[c].at = "over" /\ admin'[c].on = admin[c].on
         /\ admin'[c].read = FirstTable
         /\ \A d \in Callers \ {c} : admin'[d] = admin[d]
<1>1. admin \in [Callers -> Calls] /\ On(c) \in Instances /\ On(c) = admin[c].on
  BY CallTyped DEF CacheTypeOK, On
<1>2. NoCall(On(c), "over") \in Calls
  BY <1>1, NoCallTyped
<1>3. NoCall(On(c), "over").at = "over" /\ NoCall(On(c), "over").on = On(c)
      /\ NoCall(On(c), "over").read = FirstTable
  BY <1>1, NoCallTyped
<1>4. QED
  BY <1>1, <1>2, <1>3 DEF CallEnds

(* A copy that is changed, and what an instance has seen.                  *)
LEMMA KeptTyped ==
  ASSUME CacheTypeOK, NEW c \in Callers
  PROVE  KeptCopies(c) \in CopySeqs
<1> DEFINE old(r) == cache[On(c)][r]
           new(r) == admin[c].read[r]
           Kept(r) == CASE admin[c].op.keep \in {"put", "promote"} -> <<new(r)>>
                        [] admin[c].op.keep = "append" -> Append(old(r), new(r))
                        [] admin[c].op.keep = "replace" ->
                             IF old(r) = <<>> THEN old(r) ELSE <<new(r)>> \o Tail(old(r))
                        [] admin[c].op.keep = "drop first" ->
                             IF old(r) = <<>> THEN old(r) ELSE Tail(old(r))
                        [] OTHER -> <<>>
           mine == IF admin[c].op.keep = "empty" THEN Ids ELSE admin[c].rows
<1>1. ASSUME NEW r \in Ids
      PROVE  old(r) \in Seq(Rows) /\ Kept(r) \in Seq(Rows)
  <2>1. new(r) \in Rows /\ On(c) \in Instances
    BY CallTyped
  <2>2. old(r) \in Seq(Rows)
    BY <2>1 DEF CacheTypeOK, CopySeqs
  <2>3. PICK o \in Seq(Rows), n \in Rows : o = old(r) /\ n = new(r)
    BY <2>1, <2>2
  <2>4. /\ <<n>> \in Seq(Rows) /\ <<>> \in Seq(Rows) /\ Append(o, n) \in Seq(Rows)
        /\ o # <<>> => Tail(o) \in Seq(Rows)
    OBVIOUS
  <2>5. o # <<>> => <<n>> \o Tail(o) \in Seq(Rows)
    BY <2>4, ConcatProperties
  <2>6. Kept(r) \in Seq(Rows)
    BY <2>3, <2>4, <2>5
  <2>7. QED
    BY <2>2, <2>6
<1>2. KeptCopies(c) = [r \in Ids |-> IF r \in mine THEN Kept(r) ELSE old(r)]
  BY DEF KeptCopies
<1> HIDE DEF Kept, old, mine
<1>3. QED
  BY <1>1, <1>2 DEF CopySeqs

LEMMA SawTyped ==
  ASSUME CacheTypeOK, NEW i \in Instances, NEW t, \A r \in Ids : t[r].v \in Nat, SawAll(i, t)
  PROVE  /\ seen' \in [Instances -> [Ids -> Nat]]
         /\ \A j \in Instances \ {i} : seen'[j] = seen[j]
         /\ \A r \in Ids : seen'[i][r] = IF t[r].v > seen[i][r] THEN t[r].v ELSE seen[i][r]
<1> DEFINE now == [r \in Ids |-> IF t[r].v > seen[i][r] THEN t[r].v ELSE seen[i][r]]
<1>1. now \in [Ids -> Nat]
  BY DEF CacheTypeOK
<1>2. seen' = [seen EXCEPT ![i] = now]
  BY DEF SawAll
<1>3. \A r \in Ids : now[r] = IF t[r].v > seen[i][r] THEN t[r].v ELSE seen[i][r]
  OBVIOUS
<1> HIDE DEF now
<1>4. QED
  BY <1>1, <1>2, <1>3 DEF CacheTypeOK

(* What was read of some of the rows, as Saw takes it.                     *)
LEMMA SawRowsTyped ==
  ASSUME CacheTypeOK, NEW i \in Instances, NEW t, NEW rows \in SUBSET Ids,
         \A r \in Ids : t[r].v \in Nat, Saw(i, t, rows)
  PROVE  /\ seen' \in [Instances -> [Ids -> Nat]]
         /\ \A j \in Instances \ {i} : seen'[j] = seen[j]
         /\ \A r \in rows : seen'[i][r] = IF t[r].v > seen[i][r] THEN t[r].v ELSE seen[i][r]
         /\ \A r \in Ids \ rows : seen'[i][r] = seen[i][r]
<1> DEFINE some == [r \in Ids |-> IF r \in rows THEN t[r] ELSE Absent]
<1>1. SawAll(i, some)
  BY DEF Saw
<1>2. \A r \in Ids : some[r].v = IF r \in rows THEN t[r].v ELSE 0
  BY DEF Absent
<1>3. \A r \in Ids : some[r].v \in Nat /\ seen[i][r] \in Nat
  BY <1>2 DEF CacheTypeOK
<1> HIDE DEF some
<1>4. /\ seen' \in [Instances -> [Ids -> Nat]]
      /\ \A j \in Instances \ {i} : seen'[j] = seen[j]
      /\ \A r \in Ids : seen'[i][r] = IF some[r].v > seen[i][r] THEN some[r].v ELSE seen[i][r]
  BY <1>1, <1>3, SawTyped
<1>5. QED
  BY <1>2, <1>3, <1>4

-----------------------------------------------------------------------------
LEMMA Larger ==
  ASSUME NEW a \in Nat, NEW b \in Nat, b <= a
  PROVE  (IF a > b THEN a ELSE b) = a
OBVIOUS

(* What keeps the invariant when no row changes: only the table is read,   *)
(* and nothing is taken back.                                              *)
LEMMA VersionsGrow ==
  ASSUME CacheTypeOK, VersionsInv,
         \A r \in Ids : table'[r].v \in Nat /\ table[r].v <= table'[r].v,
         \A c \in Callers : admin'[c].read \in {admin[c].read, table', FirstTable},
         \A i \in Instances, g \in Goroutines :
           job'[i][g].read \in {job[i][g].read, table', FirstTable},
         \A i \in Instances, r \in Ids : seen'[i][r] <= table'[r].v
  PROVE  VersionsInv'
<1>1. ASSUME NEW rows \in [Ids -> Rows], NoLaterThanTable(rows)
      PROVE  \A r \in Ids : rows[r].v <= table'[r].v
  <2>1. ASSUME NEW r \in Ids
        PROVE  rows[r].v <= table'[r].v
    <3>1. rows[r].v \in Nat /\ rows[r].v <= table[r].v /\ table[r].v \in Nat
      BY <1>1, TableTyped DEF NoLaterThanTable, Rows
    <3>2. QED
      BY <3>1
  <2>2. QED
    BY <2>1
<1>2. \A r \in Ids : table'[r].v <= table'[r].v
  OBVIOUS
<1>3. \A r \in Ids : FirstTable[r].v <= table'[r].v
  BY <1>1, FirstTyped DEF VersionsInv
<1>4. NoLaterThanTable(FirstTable)'
  BY <1>3 DEF NoLaterThanTable, FirstTable
<1>5. ASSUME NEW c \in Callers
      PROVE  NoLaterThanTable(admin[c].read)'
  <2>1. \A r \in Ids : admin'[c].read[r].v <= table'[r].v
    BY <1>1, <1>2, <1>3, CallTyped DEF VersionsInv
  <2>2. QED
    BY <2>1 DEF NoLaterThanTable
<1>6. ASSUME NEW i \in Instances, NEW g \in Goroutines
      PROVE  NoLaterThanTable(job[i][g].read)'
  <2>1. \A r \in Ids : job'[i][g].read[r].v <= table'[r].v
    <3>1. job[i][g].read \in [Ids -> Rows]
      BY DEF CacheTypeOK, Jobs
    <3>2. QED
      BY <1>1, <1>2, <1>3, <3>1 DEF VersionsInv
  <2>2. QED
    BY <2>1 DEF NoLaterThanTable
<1>7. QED
  BY <1>4, <1>5, <1>6 DEF VersionsInv

LEMMA VersionsKept ==
  ASSUME CacheTypeOK, VersionsInv, UNCHANGED table,
         \A c \in Callers : admin'[c].read \in {admin[c].read, table, FirstTable},
         \A i \in Instances, g \in Goroutines :
           job'[i][g].read \in {job[i][g].read, table, FirstTable},
         \A i \in Instances, r \in Ids : seen'[i][r] <= table[r].v
  PROVE  VersionsInv'
<1>1. \A r \in Ids : table'[r].v \in Nat /\ table[r].v <= table'[r].v
  BY TableTyped
<1>2. QED
  BY <1>1, VersionsGrow

LEMMA SeenAtMost ==
  ASSUME CacheTypeOK, VersionsInv, NEW i \in Instances, NEW r \in Ids
  PROVE  seen[i][r] \in Nat /\ seen[i][r] <= table[r].v /\ table[r].v \in Nat
BY TableTyped DEF CacheTypeOK, VersionsInv

(* A step of call c: what it had in hand has been seen, and what it owed   *)
(* to the others it still owes.                                            *)
LEMMA CallArrival ==
  ASSUME ArrivesInv, NEW c \in Callers, UNCHANGED <<table, job, phase>>,
         \A d \in Callers \ {c} : admin'[d] = admin[d],
         admin'[c].on = admin[c].on,
         \A i \in Instances : inbox[i] => inbox'[i],
         \A i \in Instances \ {On(c)} :
           /\ seen'[i] = seen[i]
           /\ i \in owed => i \in owed'
           /\ Unannounced(c) => Unannounced(c)' \/ Excused(i)',
         On(c) \in owed => On(c) \in owed' \/ \A r \in Ids : HasInHand(c, r)',
         \A r \in Ids :
           /\ seen[On(c)][r] = table[r].v => seen'[On(c)][r] = table[r].v
           /\ HasInHand(c, r) =>
                HasInHand(c, r)' \/ seen'[On(c)][r] = table[r].v \/ Excused(On(c))'
  PROVE  ArrivalInv'
<1> SUFFICES ASSUME NEW i \in Instances, NEW r \in Ids
             PROVE  seen'[i][r] = table[r].v \/ WillSee(i, r)'
  BY DEF ArrivalInv
<1>1. seen[i][r] = table[r].v \/ WillSee(i, r)
  BY DEF ArrivesInv, ArrivalInv
<1>2. \A d \in Callers : On(d)' = On(d)
  BY DEF On
<1>3. CASE seen[i][r] = table[r].v
  <2>1. CASE i = On(c)
    BY <1>3, <2>1
  <2>2. CASE i # On(c)
    BY <1>3, <2>2
  <2>3. QED
    BY <2>1, <2>2
<1>4. CASE Excused(i)
  <2>1. Excused(i)' \/ (i = On(c) /\ HasInHand(c, r)')
    BY <1>4 DEF Excused
  <2>2. QED
    BY <1>2, <2>1 DEF WillSee
<1>5. CASE \E g \in Goroutines : ReadsSoon(i, g, r)
  BY <1>5 DEF WillSee, ReadsSoon, JobAt
<1>6. ASSUME NEW d \in Callers, IF On(d) = i THEN HasInHand(d, r) ELSE Unannounced(d)
      PROVE  seen'[i][r] = table[r].v \/ WillSee(i, r)'
  <2>1. CASE d # c
    <3>1. /\ HasInHand(d, r)' <=> HasInHand(d, r)
          /\ Unannounced(d)' <=> Unannounced(d)
      BY <2>1 DEF HasInHand, Unannounced, CallAt
    <3>2. QED
      BY <1>2, <1>6, <3>1 DEF WillSee
  <2>2. CASE d = c /\ On(c) = i
    BY <1>2, <1>6, <2>2 DEF WillSee
  <2>3. CASE d = c /\ On(c) # i
    BY <1>2, <1>6, <2>3 DEF WillSee
  <2>4. QED
    BY <2>1, <2>2, <2>3
<1>7. QED
  BY <1>1, <1>3, <1>4, <1>5, <1>6 DEF WillSee

(* A step of goroutine g of instance i.                                    *)
LEMMA JobArrival ==
  ASSUME ArrivesInv, NEW i \in Instances, NEW g \in Goroutines, UNCHANGED <<table, admin>>,
         \A j \in Instances \ {i} :
           /\ seen'[j] = seen[j] /\ job'[j] = job[j] /\ (Excused(j) => Excused(j)'),
         \A h \in Goroutines \ {g} : job'[i][h] = job[i][h],
         Excused(i) => Excused(i)' \/ \A r \in Ids : ReadsSoon(i, g, r)',
         \A r \in Ids :
           /\ seen[i][r] = table[r].v => seen'[i][r] = table[r].v
           /\ ReadsSoon(i, g, r) =>
                ReadsSoon(i, g, r)' \/ seen'[i][r] = table[r].v \/ Excused(i)'
  PROVE  ArrivalInv'
<1> SUFFICES ASSUME NEW j \in Instances, NEW r \in Ids
             PROVE  seen'[j][r] = table[r].v \/ WillSee(j, r)'
  BY DEF ArrivalInv
<1>1. seen[j][r] = table[r].v \/ WillSee(j, r)
  BY DEF ArrivesInv, ArrivalInv
<1>2. CASE \E c \in Callers : IF On(c) = j THEN HasInHand(c, r) ELSE Unannounced(c)
  BY <1>2 DEF WillSee, On, HasInHand, Unannounced, CallAt
<1>3. CASE j # i
  <2>1. \A h \in Goroutines : ReadsSoon(j, h, r)' <=> ReadsSoon(j, h, r)
    BY <1>3 DEF ReadsSoon, JobAt
  <2>2. QED
    BY <1>1, <1>2, <1>3, <2>1 DEF WillSee
<1>4. CASE j = i
  <2>1. \A h \in Goroutines \ {g} : ReadsSoon(i, h, r)' <=> ReadsSoon(i, h, r)
    BY DEF ReadsSoon, JobAt
  <2>2. QED
    BY <1>1, <1>2, <1>4, <2>1 DEF WillSee
<1>5. QED
  BY <1>3, <1>4

-----------------------------------------------------------------------------
(* Calls, one step after the other.                                        *)
LEMMA BeginChangeArrives ==
  ASSUME ArrivesInv, NEW c \in Callers, BeginChange(c)
  PROVE  ArrivesInv'
<1>1. CacheTypeOK /\ VersionsInv
  BY DEF ArrivesInv
<1>2. PICK op \in CallsOf(entity), r \in Ids, at \in {"look up", "write"} :
        admin' = [admin EXCEPT ![c].op = op, ![c].rows = {r}, ![c].at = at]
  BY DEF BeginChange
<1>3. op \in Ops /\ {r} \subseteq Ids
  BY <1>1, OpsTyped DEF CacheTypeOK
<1> DEFINE mine == {r}
           call == [admin[c] EXCEPT !.op = op, !.rows = mine, !.at = at]
<1>4. /\ call \in Calls /\ call.on = admin[c].on /\ call.read = admin[c].read
      /\ call.at \in {"look up", "write"}
  <2>1. admin[c] \in Calls /\ mine \in SUBSET Ids
    BY <1>1, CallTyped
  <2> HIDE DEF mine
  <2>2. QED
    BY <1>3, <2>1 DEF Calls
<1>5. admin' = [admin EXCEPT ![c] = call]
  BY <1>1, <1>2 DEF CacheTypeOK
<1> HIDE DEF mine, call
<1>6. /\ admin' \in [Callers -> Calls] /\ admin'[c] = call
      /\ \A d \in Callers \ {c} : admin'[d] = admin[d]
  BY <1>1, <1>4, <1>5 DEF CacheTypeOK
<1>7. CallAt(c, "new")
      /\ UNCHANGED <<entity, table, cache, inbox, job, phase, crashes, faults, seen, owed>>
  BY DEF BeginChange
<1>8. adapters' \in [Instances -> CopySeqs]
  <2>1. adapters \in [Instances -> CopySeqs] /\ On(c) \in Instances
    BY <1>1, CallTyped DEF CacheTypeOK
  <2>2. ASSUME NEW q \in Ids
        PROVE  [adapters EXCEPT ![On(c)][q] = <<>>] \in [Instances -> CopySeqs]
    <3>1. adapters[On(c)] \in [Ids -> Seq(Rows)]
      BY <2>1 DEF CopySeqs
    <3>2. <<>> \in Seq(Rows)
      BY NoCopy
    <3>3. [adapters[On(c)] EXCEPT ![q] = <<>>] \in CopySeqs
      BY <3>1, <3>2 DEF CopySeqs
    <3>4. QED
      BY <2>1, <3>3
  <2>3. adapters' = adapters \/ \E q \in Ids : adapters' = [adapters EXCEPT ![On(c)][q] = <<>>]
    BY DEF BeginChange
  <2>4. QED
    BY <2>1, <2>2, <2>3
<1>9. CacheTypeOK'
  BY <1>1, <1>6, <1>7, <1>8 DEF CacheTypeOK
<1>10. VersionsInv'
  <2>1. \A d \in Callers : admin'[d].read = admin[d].read
    BY <1>4, <1>6
  <2>2. \A i \in Instances, r1 \in Ids : seen'[i][r1] <= table[r1].v
    BY <1>1, <1>7, SeenAtMost
  <2>3. QED
    BY <1>1, <1>7, <2>1, <2>2, VersionsKept
<1>11. ArrivalInv'
  <2>1. ~Unannounced(c) /\ \A r1 \in Ids : ~HasInHand(c, r1)
    BY <1>7 DEF Unannounced, HasInHand, CallAt
  <2>2. QED
    BY <1>4, <1>6, <1>7, <2>1, CallArrival
<1>12. QED
  BY <1>9, <1>10, <1>11 DEF ArrivesInv

(* Steps that only move the call on, or end it.                            *)
LEMMA KeepCopyArrives ==
  ASSUME ArrivesInv, NEW c \in Callers, KeepCopy(c)
  PROVE  ArrivesInv'
<1>1. CacheTypeOK /\ VersionsInv
  BY DEF ArrivesInv
<1>2. /\ CallAt(c, "keep") /\ CallGoes(c, "publish")
      /\ cache' = [cache EXCEPT ![On(c)] = KeptCopies(c)]
      /\ Saw(On(c), admin[c].read, admin[c].rows)
      /\ UNCHANGED <<entity, table, adapters, inbox, job, phase, crashes, faults, owed>>
  BY DEF KeepCopy
<1>3. /\ admin' \in [Callers -> Calls] /\ admin'[c].at = "publish"
      /\ admin'[c].on = admin[c].on /\ admin'[c].read = admin[c].read
      /\ \A d \in Callers \ {c} : admin'[d] = admin[d]
  BY <1>1, <1>2, CallGoesTyped
<1>4. /\ seen' \in [Instances -> [Ids -> Nat]]
      /\ \A j \in Instances \ {On(c)} : seen'[j] = seen[j]
      /\ \A r \in admin[c].rows :
           seen'[On(c)][r] = IF admin[c].read[r].v > seen[On(c)][r] THEN admin[c].read[r].v
                                                                    ELSE seen[On(c)][r]
      /\ \A r \in Ids \ admin[c].rows : seen'[On(c)][r] = seen[On(c)][r]
  BY <1>1, <1>2, CallTyped, SawRowsTyped
<1>5. CacheTypeOK'
  <2>1. cache' \in [Instances -> CopySeqs]
    BY <1>1, <1>2, KeptTyped DEF CacheTypeOK
  <2>2. QED
    BY <1>1, <1>2, <1>3, <1>4, <2>1 DEF CacheTypeOK
<1>6. ASSUME NEW r \in Ids
      PROVE  /\ seen'[On(c)][r] <= table[r].v
             /\ seen[On(c)][r] = table[r].v => seen'[On(c)][r] = table[r].v
             /\ HasInHand(c, r) => seen'[On(c)][r] = table[r].v
  <2>1. /\ admin[c].read[r].v \in Nat /\ admin[c].read[r].v <= table[r].v
        /\ table[r].v \in Nat /\ seen[On(c)][r] \in Nat /\ seen[On(c)][r] <= table[r].v
    BY <1>1, CallTyped, SeenAtMost DEF VersionsInv, NoLaterThanTable
  <2>2. HasInHand(c, r) => r \in admin[c].rows /\ admin[c].read[r].v = table[r].v
    BY <1>2 DEF HasInHand, CallAt
  <2>3. /\ seen'[On(c)][r] <= table[r].v
        /\ seen[On(c)][r] = table[r].v => seen'[On(c)][r] = table[r].v
    BY <1>4, <2>1
  <2>4. HasInHand(c, r) => seen'[On(c)][r] = table[r].v
    <3>1. SUFFICES ASSUME HasInHand(c, r) PROVE seen'[On(c)][r] = table[r].v
      OBVIOUS
    <3>2. seen'[On(c)][r] = IF table[r].v > seen[On(c)][r] THEN table[r].v ELSE seen[On(c)][r]
      BY <1>4, <2>2, <3>1
    <3>3. QED
      BY <2>1, <3>2, Larger
  <2>5. QED
    BY <2>3, <2>4
<1>7. VersionsInv'
  <2>1. \A i \in Instances, r \in Ids : seen'[i][r] <= table[r].v
    BY <1>1, <1>4, <1>6, SeenAtMost
  <2>2. \A d \in Callers : admin'[d].read = admin[d].read
    BY <1>3
  <2>3. QED
    BY <1>1, <1>2, <2>1, <2>2, VersionsKept
<1>8. ArrivalInv'
  <2>1. Unannounced(c)'
    BY <1>3 DEF Unannounced
  <2>2. QED
    BY <1>2, <1>3, <1>4, <1>6, <2>1, CallArrival
<1>9. QED
  BY <1>5, <1>7, <1>8 DEF ArrivesInv

LEMMA InstallRowsArrives ==
  ASSUME ArrivesInv, NEW c \in Callers, InstallRows(c)
  PROVE  ArrivesInv'
<1>1. CacheTypeOK /\ VersionsInv
  BY DEF ArrivesInv
<1>2. /\ CallAt(c, "install") /\ CallGoes(c, "publish")
      /\ cache' = [cache EXCEPT ![On(c)] = CopiesOf(admin[c].read)]
      /\ SawAll(On(c), admin[c].read)
      /\ UNCHANGED <<entity, table, adapters, inbox, job, phase, crashes, faults, owed>>
  BY DEF InstallRows
<1>3. /\ admin' \in [Callers -> Calls] /\ admin'[c].at = "publish"
      /\ admin'[c].on = admin[c].on /\ admin'[c].read = admin[c].read
      /\ \A d \in Callers \ {c} : admin'[d] = admin[d]
  BY <1>1, <1>2, CallGoesTyped
<1>4. /\ seen' \in [Instances -> [Ids -> Nat]]
      /\ \A j \in Instances \ {On(c)} : seen'[j] = seen[j]
      /\ \A r \in Ids :
           seen'[On(c)][r] = IF admin[c].read[r].v > seen[On(c)][r] THEN admin[c].read[r].v
                                                                    ELSE seen[On(c)][r]
  BY <1>1, <1>2, CallTyped, SawTyped
<1>5. CacheTypeOK'
  <2>1. cache' \in [Instances -> CopySeqs]
    BY <1>1, <1>2, CallTyped, CopiesTyped DEF CacheTypeOK
  <2>2. QED
    BY <1>1, <1>2, <1>3, <1>4, <2>1 DEF CacheTypeOK
<1>6. ASSUME NEW r \in Ids
      PROVE  /\ seen'[On(c)][r] <= table[r].v
             /\ seen[On(c)][r] = table[r].v => seen'[On(c)][r] = table[r].v
             /\ HasInHand(c, r) => seen'[On(c)][r] = table[r].v
  <2>1. /\ admin[c].read[r].v \in Nat /\ admin[c].read[r].v <= table[r].v
        /\ table[r].v \in Nat /\ seen[On(c)][r] \in Nat /\ seen[On(c)][r] <= table[r].v
    BY <1>1, CallTyped, SeenAtMost DEF VersionsInv, NoLaterThanTable
  <2>2. HasInHand(c, r) => admin[c].read[r].v = table[r].v
    BY <1>2 DEF HasInHand, CallAt
  <2>3. /\ seen'[On(c)][r] <= table[r].v
        /\ seen[On(c)][r] = table[r].v => seen'[On(c)][r] = table[r].v
    BY <1>4, <2>1
  <2>4. HasInHand(c, r) => seen'[On(c)][r] = table[r].v
    <3>1. SUFFICES ASSUME HasInHand(c, r) PROVE seen'[On(c)][r] = table[r].v
      OBVIOUS
    <3>2. seen'[On(c)][r] = IF table[r].v > seen[On(c)][r] THEN table[r].v ELSE seen[On(c)][r]
      BY <1>4, <2>2, <3>1
    <3>3. QED
      BY <2>1, <3>2, Larger
  <2>5. QED
    BY <2>3, <2>4
<1>7. VersionsInv'
  <2>1. \A i \in Instances, r \in Ids : seen'[i][r] <= table[r].v
    BY <1>1, <1>4, <1>6, SeenAtMost
  <2>2. \A d \in Callers : admin'[d].read = admin[d].read
    BY <1>3
  <2>3. QED
    BY <1>1, <1>2, <2>1, <2>2, VersionsKept
<1>8. ArrivalInv'
  <2>1. Unannounced(c)'
    BY <1>3 DEF Unannounced
  <2>2. QED
    BY <1>2, <1>3, <1>4, <1>6, <2>1, CallArrival
<1>9. QED
  BY <1>5, <1>7, <1>8 DEF ArrivesInv

(* A row read for a look-up, whenever it was read, is seen no later than   *)
(* the table has it.                                                       *)
LEMMA FillCopyArrives ==
  ASSUME ArrivesInv, NEW c \in Callers, FillCopy(c)
  PROVE  ArrivesInv'
<1>1. CacheTypeOK /\ VersionsInv
  BY DEF ArrivesInv
<1>2. /\ CallAt(c, "fill") /\ CallEnds(c)
      /\ Saw(On(c), admin[c].read, admin[c].rows)
      /\ UNCHANGED <<entity, table, adapters, inbox, job, phase, crashes, faults, owed>>
  BY DEF FillCopy
<1>3. /\ admin' \in [Callers -> Calls] /\ admin'[c].at = "over"
      /\ admin'[c].on = admin[c].on /\ admin'[c].read = FirstTable
      /\ \A d \in Callers \ {c} : admin'[d] = admin[d]
  BY <1>1, <1>2, CallEndsTyped
<1>4. /\ seen' \in [Instances -> [Ids -> Nat]]
      /\ \A j \in Instances \ {On(c)} : seen'[j] = seen[j]
      /\ \A r \in admin[c].rows :
           seen'[On(c)][r] = IF admin[c].read[r].v > seen[On(c)][r] THEN admin[c].read[r].v
                                                                    ELSE seen[On(c)][r]
      /\ \A r \in Ids \ admin[c].rows : seen'[On(c)][r] = seen[On(c)][r]
  BY <1>1, <1>2, CallTyped, SawRowsTyped
<1>5. CacheTypeOK'
  <2> DEFINE filled == [r \in Ids |-> IF r \in admin[c].rows THEN <<admin[c].read[r]>>
                                      ELSE cache[On(c)][r]]
  <2>1. filled \in CopySeqs
    <3>1. \A r \in Ids : <<admin[c].read[r]>> \in Seq(Rows)
      BY <1>1, CallTyped, OneCopy
    <3>2. \A r \in Ids : cache[On(c)][r] \in Seq(Rows)
      BY <1>1, CallTyped DEF CacheTypeOK, CopySeqs
    <3>3. QED
      BY <3>1, <3>2 DEF CopySeqs
  <2>2. cache' = [cache EXCEPT ![On(c)] = filled]
    BY DEF FillCopy
  <2> HIDE DEF filled
  <2>3. cache' \in [Instances -> CopySeqs]
    BY <1>1, <2>1, <2>2 DEF CacheTypeOK
  <2>4. QED
    BY <1>1, <1>2, <1>3, <1>4, <2>3 DEF CacheTypeOK
<1>6. ASSUME NEW r \in Ids
      PROVE  /\ seen'[On(c)][r] <= table[r].v
             /\ seen[On(c)][r] = table[r].v => seen'[On(c)][r] = table[r].v
  <2>1. /\ admin[c].read[r].v \in Nat /\ admin[c].read[r].v <= table[r].v
        /\ table[r].v \in Nat /\ seen[On(c)][r] \in Nat /\ seen[On(c)][r] <= table[r].v
    BY <1>1, CallTyped, SeenAtMost DEF VersionsInv, NoLaterThanTable
  <2>2. QED
    BY <1>4, <2>1
<1>7. VersionsInv'
  <2>1. \A i \in Instances, r \in Ids : seen'[i][r] <= table[r].v
    BY <1>1, <1>4, <1>6, SeenAtMost
  <2>2. \A d \in Callers : admin'[d].read \in {admin[d].read, FirstTable}
    BY <1>3
  <2>3. QED
    BY <1>1, <1>2, <2>1, <2>2, VersionsKept
<1>8. ArrivalInv'
  <2>1. ~Unannounced(c) /\ \A r \in Ids : ~HasInHand(c, r)
    BY <1>2 DEF Unannounced, HasInHand, CallAt
  <2>2. QED
    BY <1>2, <1>3, <1>4, <1>6, <2>1, CallArrival
<1>9. QED
  BY <1>5, <1>7, <1>8 DEF ArrivesInv

(* Load as a part of a call.                                               *)
LEMMA ListRowsArrives ==
  ASSUME ArrivesInv, NEW c \in Callers, ListRows(c)
  PROVE  ArrivesInv'
<1>1. CacheTypeOK /\ VersionsInv
  BY DEF ArrivesInv
<1>2. /\ CallAt(c, "list")
      /\ UNCHANGED <<entity, table, cache, adapters, inbox, job, phase, crashes, seen>>
  BY DEF ListRows
<1>3. CASE /\ admin' = [admin EXCEPT ![c].at = "install", ![c].read = table]
           /\ owed' = owed \ {On(c)} /\ NoFault
  <2> DEFINE call == [admin[c] EXCEPT !.at = "install", !.read = table]
  <2>1. /\ call \in Calls /\ call.on = admin[c].on /\ call.read = table /\ call.at = "install"
    BY <1>1, CallTyped DEF Calls, CacheTypeOK
  <2>2. admin' = [admin EXCEPT ![c] = call]
    BY <1>1, <1>3 DEF CacheTypeOK
  <2> HIDE DEF call
  <2>3. /\ admin' \in [Callers -> Calls] /\ admin'[c] = call
        /\ \A d \in Callers \ {c} : admin'[d] = admin[d]
    BY <1>1, <2>1, <2>2 DEF CacheTypeOK
  <2>4. CacheTypeOK'
    BY <1>1, <1>2, <1>3, <2>3 DEF CacheTypeOK, NoFault
  <2>5. VersionsInv'
    <3>1. \A d \in Callers : admin'[d].read \in {admin[d].read, table}
      BY <2>1, <2>3
    <3>2. \A i \in Instances, r \in Ids : seen'[i][r] <= table[r].v
      BY <1>1, <1>2, SeenAtMost
    <3>3. QED
      BY <1>1, <1>2, <3>1, <3>2, VersionsKept
  <2>6. ArrivalInv'
    <3>1. Unannounced(c)' /\ \A r \in Ids : HasInHand(c, r)'
      BY <1>2, <2>1, <2>3 DEF Unannounced, HasInHand, CallAt
    <3>2. \A i \in Instances \ {On(c)} : i \in owed => i \in owed'
      BY <1>3
    <3>3. QED
      BY <1>2, <2>1, <2>3, <3>1, <3>2, CallArrival
  <2>7. QED
    BY <2>4, <2>5, <2>6 DEF ArrivesInv
<1>4. CASE /\ IF admin[c].op.adapter = "remove" THEN CallGoes(c, "adapter") ELSE CallEnds(c)
           /\ owed' = Instances /\ FaultHappens
  <2>1. /\ admin' \in [Callers -> Calls] /\ admin'[c].on = admin[c].on
        /\ admin'[c].read \in {admin[c].read, FirstTable}
        /\ \A d \in Callers \ {c} : admin'[d] = admin[d]
    BY <1>1, <1>4, CallGoesTyped, CallEndsTyped
  <2>2. CacheTypeOK'
    BY <1>1, <1>2, <1>4, <2>1 DEF CacheTypeOK, FaultHappens
  <2>3. VersionsInv'
    <3>1. \A d \in Callers : admin'[d].read \in {admin[d].read, FirstTable}
      BY <2>1
    <3>2. \A i \in Instances, r \in Ids : seen'[i][r] <= table[r].v
      BY <1>1, <1>2, SeenAtMost
    <3>3. QED
      BY <1>1, <1>2, <3>1, <3>2, VersionsKept
  <2>4. ArrivalInv'
    BY <1>4 DEF ArrivalInv, WillSee, Excused
  <2>5. QED
    BY <2>2, <2>3, <2>4 DEF ArrivesInv
<1>5. QED
  BY <1>3, <1>4 DEF ListRows

(* A change that is announced is on its way to all who can hear of it.     *)
LEMMA PublishArrives ==
  ASSUME ArrivesInv, NEW c \in Callers, Publish(c)
  PROVE  ArrivesInv'
<1>1. CacheTypeOK /\ VersionsInv
  BY DEF ArrivesInv
<1>2. /\ CallAt(c, "publish")
      /\ UNCHANGED <<entity, table, cache, adapters, job, phase, crashes, seen>>
  BY DEF Publish
<1>3. /\ admin' \in [Callers -> Calls] /\ admin'[c].on = admin[c].on
      /\ admin'[c].read \in {admin[c].read, FirstTable}
      /\ \A d \in Callers \ {c} : admin'[d] = admin[d]
  BY <1>1, CallGoesTyped, CallEndsTyped DEF Publish
<1>4. /\ inbox' \in [Instances -> BOOLEAN] /\ owed' \subseteq Instances
      /\ \A i \in Instances : inbox[i] => inbox'[i]
      /\ owed \subseteq owed' /\ faults' \in Nat
      /\ \A i \in Instances \ {On(c)} : Excused(i)'
  <2>1. CASE /\ inbox' = [j \in Instances |-> inbox[j] \/ (j # On(c) /\ Subscribed(j))]
             /\ NoFault /\ UNCHANGED owed
    <3>1. \A i \in Instances : inbox'[i] = (inbox[i] \/ (i # On(c) /\ phase[i] # "down"))
      BY <2>1 DEF Subscribed
    <3>2. inbox' \in [Instances -> BOOLEAN]
      <4>1. \A i \in Instances : inbox[i] \in BOOLEAN
        BY <1>1 DEF CacheTypeOK
      <4>2. QED
        BY <2>1, <4>1, Zenon
    <3>3. \A i \in Instances \ {On(c)} : inbox'[i] \/ phase'[i] = "down"
      BY <1>2, <3>1
    <3>4. QED
      BY <1>1, <2>1, <3>1, <3>2, <3>3 DEF CacheTypeOK, NoFault, Excused
  <2>2. CASE FaultHappens /\ owed' = owed \cup Others(On(c)) /\ UNCHANGED inbox
    BY <1>1, <2>2 DEF CacheTypeOK, FaultHappens, Others, Excused
  <2>3. QED
    BY <2>1, <2>2 DEF Publish
<1>5. CacheTypeOK'
  BY <1>1, <1>2, <1>3, <1>4 DEF CacheTypeOK
<1>6. VersionsInv'
  <2>1. \A d \in Callers : admin'[d].read \in {admin[d].read, FirstTable}
    BY <1>3
  <2>2. \A i \in Instances, r \in Ids : seen'[i][r] <= table[r].v
    BY <1>1, <1>2, SeenAtMost
  <2>3. QED
    BY <1>1, <1>2, <2>1, <2>2, VersionsKept
<1>7. ArrivalInv'
  <2>1. \A r \in Ids : ~HasInHand(c, r)
    BY <1>2 DEF HasInHand, CallAt
  <2>2. QED
    BY <1>2, <1>3, <1>4, <2>1, CallArrival
<1>8. QED
  BY <1>5, <1>6, <1>7 DEF ArrivesInv

LEMMA ChangeAdapterArrives ==
  ASSUME ArrivesInv, NEW c \in Callers, ChangeAdapter(c)
  PROVE  ArrivesInv'
<1>1. CacheTypeOK /\ VersionsInv
  BY DEF ArrivesInv
<1>2. /\ CallAt(c, "adapter") /\ CallEnds(c)
      /\ UNCHANGED <<entity, table, cache, inbox, job, phase, crashes, faults, seen, owed>>
  BY DEF ChangeAdapter
<1>3. /\ admin' \in [Callers -> Calls] /\ admin'[c].on = admin[c].on
      /\ admin'[c].read = FirstTable
      /\ \A d \in Callers \ {c} : admin'[d] = admin[d]
  BY <1>1, <1>2, CallEndsTyped
<1>4. CacheTypeOK'
  <2> DEFINE changed == [r \in Ids |-> IF r \notin admin[c].rows THEN adapters[On(c)][r]
                                       ELSE IF admin[c].op.adapter = "remove" THEN <<>>
                                       ELSE <<admin[c].read[r]>>]
  <2>1. changed \in CopySeqs
    <3>1. \A r \in Ids : <<admin[c].read[r]>> \in Seq(Rows)
      BY <1>1, CallTyped, OneCopy
    <3>2. \A r \in Ids : adapters[On(c)][r] \in Seq(Rows)
      BY <1>1, CallTyped DEF CacheTypeOK, CopySeqs
    <3>3. QED
      BY <3>1, <3>2, NoCopy DEF CopySeqs
  <2>2. adapters' = [adapters EXCEPT ![On(c)] = changed]
    BY DEF ChangeAdapter
  <2> HIDE DEF changed
  <2>3. adapters' \in [Instances -> CopySeqs]
    BY <1>1, <2>1, <2>2 DEF CacheTypeOK
  <2>4. QED
    BY <1>1, <1>2, <1>3, <2>3 DEF CacheTypeOK
<1>5. VersionsInv'
  <2>1. \A d \in Callers : admin'[d].read \in {admin[d].read, FirstTable}
    BY <1>3
  <2>2. \A i \in Instances, r \in Ids : seen'[i][r] <= table[r].v
    BY <1>1, <1>2, SeenAtMost
  <2>3. QED
    BY <1>1, <1>2, <2>1, <2>2, VersionsKept
<1>6. ArrivalInv'
  <2>1. ~Unannounced(c) /\ \A r \in Ids : ~HasInHand(c, r)
    BY <1>2 DEF Unannounced, HasInHand, CallAt
  <2>2. QED
    BY <1>2, <1>3, <2>1, CallArrival
<1>7. QED
  BY <1>4, <1>5, <1>6 DEF ArrivesInv

LEMMA LookUpArrives ==
  ASSUME ArrivesInv, NEW c \in Callers, LookUp(c)
  PROVE  ArrivesInv'
<1>1. CacheTypeOK /\ VersionsInv
  BY DEF ArrivesInv
<1>2. /\ CallAt(c, "look up")
      /\ UNCHANGED <<entity, table, cache, adapters, inbox, job, phase, crashes, faults, seen, owed>>
  BY DEF LookUp
<1>3. /\ admin' \in [Callers -> Calls] /\ admin'[c].on = admin[c].on
      /\ admin'[c].read \in {table, FirstTable}
      /\ \A d \in Callers \ {c} : admin'[d] = admin[d]
  <2>1. CASE admin' = [admin EXCEPT ![c].at = "fill", ![c].read = table]
    <3> DEFINE call == [admin[c] EXCEPT !.at = "fill", !.read = table]
    <3>1. call \in Calls /\ call.on = admin[c].on /\ call.read = table
      BY <1>1, CallTyped DEF Calls, CacheTypeOK
    <3>2. admin' = [admin EXCEPT ![c] = call]
      BY <1>1, <2>1 DEF CacheTypeOK
    <3> HIDE DEF call
    <3>3. QED
      BY <1>1, <3>1, <3>2 DEF CacheTypeOK
  <2>2. CASE CallEnds(c)
    BY <1>1, <2>2, CallEndsTyped
  <2>3. QED
    BY <2>1, <2>2 DEF LookUp
<1>4. CacheTypeOK'
  BY <1>1, <1>2, <1>3 DEF CacheTypeOK
<1>5. VersionsInv'
  <2>1. \A d \in Callers : admin'[d].read \in {admin[d].read, table, FirstTable}
    BY <1>3
  <2>2. \A i \in Instances, r \in Ids : seen'[i][r] <= table[r].v
    BY <1>1, <1>2, SeenAtMost
  <2>3. QED
    BY <1>1, <1>2, <2>1, <2>2, VersionsKept
<1>6. ArrivalInv'
  <2>1. ~Unannounced(c) /\ \A r \in Ids : ~HasInHand(c, r)
    BY <1>2 DEF Unannounced, HasInHand, CallAt
  <2>2. QED
    BY <1>2, <1>3, <2>1, CallArrival
<1>7. QED
  BY <1>4, <1>5, <1>6 DEF ArrivesInv

(* Rows change, each to its next version.  The call that changed them has  *)
(* them in hand, and owes the others an announcement.                      *)
LEMMA WriteTableArrives ==
  ASSUME ArrivesInv, NEW c \in Callers, WriteTable(c)
  PROVE  ArrivesInv'
<1>1. CacheTypeOK /\ VersionsInv
  BY DEF ArrivesInv
<1>2. /\ CallAt(c, "write") /\ Targets(c) \subseteq Ids
      /\ UNCHANGED <<entity, cache, adapters, inbox, job, phase, crashes, faults, seen, owed>>
  BY <1>1, CallTyped DEF WriteTable, Targets
<1>3. /\ table' \in [Ids -> Rows]
      /\ \A r \in Ids : table'[r].v = table[r].v + (IF r \in Targets(c) THEN 1 ELSE 0)
      /\ \A r \in Ids \ Targets(c) : table'[r] = table[r]
  <2>1. PICK print \in Prints :
          table' = [r \in Ids |-> IF r \in Targets(c)
                                  THEN Rewritten(table[r], admin[c].op.write, print) ELSE table[r]]
    BY DEF WriteTable, Prints
  <2>2. ASSUME NEW r \in Ids
        PROVE  /\ Rewritten(table[r], admin[c].op.write, print) \in Rows
               /\ Rewritten(table[r], admin[c].op.write, print).v = table[r].v + 1
    <3> DEFINE w == admin[c].op.write
               p == IF w \in {"insert", "save", "set"} THEN print ELSE table[r].print
               b == CASE w \in {"insert", "save"} -> TRUE
                      [] w \in {"delete", "clear"} -> FALSE
                      [] OTHER -> table[r].there
               n == table[r].v + 1
    <3>1. table[r].v \in Nat /\ table[r].print \in Prints /\ table[r].there \in BOOLEAN
      BY <1>1, TableTyped DEF Rows
    <3>2. p \in Prints /\ b \in BOOLEAN /\ n \in Nat
      <4>1. p \in Prints /\ n \in Nat
        BY <3>1
      <4>2. CASE w \in {"insert", "save"}
        BY <4>1, <4>2
      <4>3. CASE w \in {"delete", "clear"}
        BY <4>1, <4>3
      <4>4. CASE w \notin {"insert", "save"} /\ w \notin {"delete", "clear"}
        <5>1. b = table[r].there
          BY <4>4
        <5>2. QED
          BY <3>1, <4>1, <5>1
      <4>5. QED
        BY <4>2, <4>3, <4>4
    <3>3. Rewritten(table[r], w, print) = [v |-> n, print |-> p, there |-> b]
      BY DEF Rewritten
    <3> HIDE DEF p, b, n
    <3>4. [v |-> n, print |-> p, there |-> b] \in Rows
      BY <3>2 DEF Rows
    <3>5. QED
      BY <3>3, <3>4 DEF n
  <2>3. \A r \in Ids : table[r] \in Rows /\ table[r].v \in Nat
    BY <1>1, TableTyped
  <2>4. QED
    BY <2>1, <2>2, <2>3
<1> DEFINE at == IF admin[c].op.keep = "load" THEN "list" ELSE "keep"
           t == Targets(c)
           call == [admin[c] EXCEPT !.at = at, !.rows = t, !.read = table']
<1>4. /\ call \in Calls /\ call.on = admin[c].on /\ call.at \in {"list", "keep"}
      /\ call.rows = Targets(c) /\ call.read = table'
  <2>1. admin[c] \in Calls /\ at \in {"list", "keep"}
    BY <1>1, CallTyped
  <2>2. t \in SUBSET Ids /\ t = Targets(c)
    BY <1>2
  <2> HIDE DEF at, t
  <2>3. QED
    BY <1>3, <2>1, <2>2 DEF Calls
<1>5. admin' = [admin EXCEPT ![c] = call]
  BY <1>1 DEF WriteTable, CacheTypeOK
<1> HIDE DEF call, at, t
<1>6. /\ admin' \in [Callers -> Calls] /\ admin'[c] = call
      /\ \A d \in Callers \ {c} : admin'[d] = admin[d]
  BY <1>1, <1>4, <1>5 DEF CacheTypeOK
<1>7. CacheTypeOK'
  BY <1>1, <1>2, <1>3, <1>6 DEF CacheTypeOK
<1>8. VersionsInv'
  <2>1. \A r \in Ids : table'[r].v \in Nat /\ table[r].v <= table'[r].v
    BY <1>1, <1>3, TableTyped
  <2>2. \A i \in Instances, r \in Ids : seen'[i][r] <= table'[r].v
    <3>1. ASSUME NEW i \in Instances, NEW r \in Ids
          PROVE  seen[i][r] <= table'[r].v
      BY <1>1, <1>3, SeenAtMost
    <3>2. QED
      BY <1>2, <3>1
  <2>3. \A d \in Callers : admin'[d].read \in {admin[d].read, table'}
    BY <1>4, <1>6
  <2>4. QED
    BY <1>1, <1>2, <2>1, <2>2, <2>3, VersionsGrow
<1>9. ArrivalInv'
  <2> SUFFICES ASSUME NEW i \in Instances, NEW r \in Ids
               PROVE  (seen[i][r] = table[r].v \/ WillSee(i, r))'
    BY DEF ArrivalInv
  <2>1. \A d \in Callers : On(d)' = On(d)
    BY <1>4, <1>6 DEF On
  <2>2. CASE i # On(c)
    <3>1. Unannounced(c)'
      BY <1>4, <1>6 DEF Unannounced
    <3>2. QED
      BY <2>1, <2>2, <3>1 DEF WillSee
  <2>3. CASE i = On(c) /\ (r \in Targets(c) \/ call.at = "list")
    <3>1. HasInHand(c, r)'
      BY <1>4, <1>6, <2>3 DEF HasInHand, CallAt
    <3>2. QED
      BY <2>1, <2>3, <3>1 DEF WillSee
  <2>4. CASE i = On(c) /\ r \notin Targets(c)
    <3>1. seen[i][r] = table[r].v \/ WillSee(i, r)
      BY DEF ArrivesInv, ArrivalInv
    <3>2. table'[r] = table[r] /\ seen' = seen
      BY <1>2, <1>3, <2>4
    <3>3. ~Unannounced(c) /\ ~HasInHand(c, r)
      BY <1>2 DEF Unannounced, HasInHand, CallAt
    <3>4. \A d \in Callers \ {c} : /\ HasInHand(d, r) => HasInHand(d, r)'
                                   /\ Unannounced(d) => Unannounced(d)'
      BY <1>6, <3>2 DEF HasInHand, Unannounced, CallAt
    <3>5. Excused(i) => Excused(i)'
      BY <1>2 DEF Excused
    <3>6. \A g \in Goroutines : ReadsSoon(i, g, r) => ReadsSoon(i, g, r)'
      BY <1>2, <3>2 DEF ReadsSoon, JobAt
    <3>7. WillSee(i, r) => WillSee(i, r)'
      BY <2>1, <3>3, <3>4, <3>5, <3>6 DEF WillSee
    <3>8. QED
      BY <3>1, <3>2, <3>7
  <2>5. QED
    BY <2>2, <2>3, <2>4
<1>10. QED
  BY <1>7, <1>8, <1>9 DEF ArrivesInv

LEMMA DemoteArrives ==
  ASSUME ArrivesInv, NEW c \in Callers, NEW d \in Ids, Demote(c, d)
  PROVE  ArrivesInv'
<1>1. CacheTypeOK /\ VersionsInv
  BY DEF ArrivesInv
<1> DEFINE made == [v |-> table[d].v + 1, print |-> 1, there |-> TRUE]
<1>2. /\ CallAt(c, "keep") /\ d \notin admin[c].rows
      /\ UNCHANGED <<entity, adapters, inbox, job, phase, crashes>>
  BY DEF Demote
<1>3. made \in Rows /\ made.v = table[d].v + 1
  BY <1>1, TableTyped DEF Rows, Prints
<1>4. On(c) \in Instances /\ admin[c].rows \subseteq Ids /\ KeptCopies(c) \in CopySeqs
  BY <1>1, CallTyped, KeptTyped
<1>5. CASE /\ table' = [table EXCEPT ![d] = made]
           /\ cache' = [cache EXCEPT ![On(c)] = [KeptCopies(c) EXCEPT ![d] = <<made>>]]
           /\ Saw(On(c), [admin[c].read EXCEPT ![d] = made], admin[c].rows \cup {d})
           /\ CallGoes(c, "publish") /\ NoFault /\ UNCHANGED owed
  <2> HIDE DEF made
  <2>1. table' \in [Ids -> Rows] /\ table'[d] = made /\ \A r \in Ids \ {d} : table'[r] = table[r]
    BY <1>1, <1>3, <1>5 DEF CacheTypeOK
  <2>2. /\ admin' \in [Callers -> Calls] /\ admin'[c].at = "publish"
        /\ admin'[c].on = admin[c].on /\ admin'[c].read = admin[c].read
        /\ \A e \in Callers \ {c} : admin'[e] = admin[e]
    BY <1>1, <1>5, CallGoesTyped
  <2>3. cache' \in [Instances -> CopySeqs]
    <3>1. <<made>> \in Seq(Rows)
      BY <1>3, OneCopy
    <3>2. [KeptCopies(c) EXCEPT ![d] = <<made>>] \in CopySeqs
      BY <1>4, <3>1 DEF CopySeqs
    <3>3. QED
      BY <1>1, <1>4, <1>5, <3>2 DEF CacheTypeOK
  <2> DEFINE read == [admin[c].read EXCEPT ![d] = made]
             rows == admin[c].rows \cup {d}
  <2>4. /\ read[d] = made /\ \A r \in Ids \ {d} : read[r] = admin[c].read[r]
        /\ \A r \in Ids : read[r].v \in Nat
    BY <1>1, <1>3, CallTyped DEF Rows
  <2>5. rows \in SUBSET Ids /\ d \in rows /\ admin[c].rows = rows \ {d}
    BY <1>2, <1>4
  <2>6. Saw(On(c), read, rows)
    BY <1>5
  <2> HIDE DEF read, rows
  <2>7. /\ seen' \in [Instances -> [Ids -> Nat]]
        /\ \A j \in Instances \ {On(c)} : seen'[j] = seen[j]
        /\ \A r \in rows : seen'[On(c)][r] = IF read[r].v > seen[On(c)][r] THEN read[r].v
                                                                          ELSE seen[On(c)][r]
        /\ \A r \in Ids \ rows : seen'[On(c)][r] = seen[On(c)][r]
    BY <1>1, <1>4, <2>4, <2>5, <2>6, SawRowsTyped
  <2>8. CacheTypeOK'
    BY <1>1, <1>2, <1>5, <2>1, <2>2, <2>3, <2>7 DEF CacheTypeOK, NoFault
  <2>9. seen'[On(c)][d] = table'[d].v
    <3>1. seen[On(c)][d] \in Nat /\ seen[On(c)][d] <= table[d].v /\ table[d].v \in Nat
      BY <1>1, <1>4, SeenAtMost
    <3>2. made.v \in Nat /\ seen[On(c)][d] <= made.v
      BY <1>3, <3>1
    <3>3. seen'[On(c)][d] = IF made.v > seen[On(c)][d] THEN made.v ELSE seen[On(c)][d]
      BY <2>4, <2>5, <2>7
    <3>4. QED
      BY <2>1, <3>1, <3>2, <3>3, Larger
  <2>10. ASSUME NEW r \in Ids \ {d}
         PROVE  /\ seen'[On(c)][r] <= table[r].v
                /\ seen[On(c)][r] = table[r].v => seen'[On(c)][r] = table[r].v
                /\ HasInHand(c, r) => seen'[On(c)][r] = table[r].v
    <3>1. /\ read[r].v \in Nat /\ read[r].v <= table[r].v
          /\ table[r].v \in Nat /\ seen[On(c)][r] \in Nat /\ seen[On(c)][r] <= table[r].v
      BY <1>1, <1>4, <2>4, CallTyped, SeenAtMost DEF VersionsInv, NoLaterThanTable
    <3>2. /\ seen'[On(c)][r] <= table[r].v
          /\ seen[On(c)][r] = table[r].v => seen'[On(c)][r] = table[r].v
      BY <2>7, <3>1
    <3>3. HasInHand(c, r) => seen'[On(c)][r] = table[r].v
      <4>1. SUFFICES ASSUME HasInHand(c, r) PROVE seen'[On(c)][r] = table[r].v
        OBVIOUS
      <4>2. r \in rows /\ read[r].v = table[r].v
        BY <1>2, <2>4, <2>5, <4>1 DEF HasInHand, CallAt
      <4>3. seen'[On(c)][r] = IF table[r].v > seen[On(c)][r] THEN table[r].v ELSE seen[On(c)][r]
        BY <2>7, <4>2
      <4>4. QED
        BY <3>1, <4>3, Larger
    <3>4. QED
      BY <3>2, <3>3
  <2>11. VersionsInv'
    <3>1. \A r \in Ids : table'[r].v \in Nat /\ table[r].v <= table'[r].v
      BY <1>1, <1>3, <2>1, TableTyped
    <3>2. ASSUME NEW i \in Instances, NEW r \in Ids
          PROVE  seen'[i][r] <= table'[r].v
      <4>1. seen[i][r] \in Nat /\ seen[i][r] <= table[r].v /\ table[r].v \in Nat
        BY <1>1, SeenAtMost
      <4>2. CASE i # On(c)
        BY <2>7, <3>1, <4>1, <4>2
      <4>3. CASE i = On(c) /\ r = d
        BY <2>9, <3>1, <4>3
      <4>4. CASE i = On(c) /\ r # d
        BY <2>1, <2>10, <4>4
      <4>5. QED
        BY <4>2, <4>3, <4>4
    <3>3. \A e \in Callers : admin'[e].read = admin[e].read
      BY <2>2
    <3>4. QED
      BY <1>1, <1>2, <3>1, <3>2, <3>3, VersionsGrow
  <2>12. ArrivalInv'
    <3> SUFFICES ASSUME NEW i \in Instances, NEW r \in Ids
                 PROVE  (seen[i][r] = table[r].v \/ WillSee(i, r))'
      BY DEF ArrivalInv
    <3>1. \A e \in Callers : On(e)' = On(e)
      BY <2>2 DEF On
    <3>2. CASE i # On(c)
      <4>1. Unannounced(c)'
        BY <2>2 DEF Unannounced
      <4>2. QED
        BY <3>1, <3>2, <4>1 DEF WillSee
    <3>3. CASE i = On(c) /\ r = d
      BY <2>9, <3>3
    <3>4. CASE i = On(c) /\ r # d
      <4>1. seen[i][r] = table[r].v \/ WillSee(i, r)
        BY DEF ArrivesInv, ArrivalInv
      <4>2. table'[r] = table[r]
        BY <2>1, <3>4
      <4>3. \A e \in Callers \ {c} : HasInHand(e, r) => HasInHand(e, r)'
        BY <2>2, <4>2 DEF HasInHand, CallAt
      <4>4. \A e \in Callers \ {c} : Unannounced(e) => Unannounced(e)'
        BY <2>2 DEF Unannounced
      <4>5. Excused(i) => Excused(i)'
        BY <1>2, <1>5 DEF Excused
      <4>6. \A g \in Goroutines : ReadsSoon(i, g, r) => ReadsSoon(i, g, r)'
        BY <1>2, <4>2 DEF ReadsSoon, JobAt
      <4>7. seen[i][r] = table[r].v \/ HasInHand(c, r) => seen'[i][r] = table'[r].v
        BY <2>10, <3>4, <4>2
      <4>8. WillSee(i, r) => WillSee(i, r)' \/ HasInHand(c, r)
        BY <3>1, <3>4, <4>3, <4>4, <4>5, <4>6 DEF WillSee
      <4>9. QED
        BY <4>1, <4>7, <4>8
    <3>5. QED
      BY <3>2, <3>3, <3>4
  <2>13. QED
    BY <2>8, <2>11, <2>12 DEF ArrivesInv
<1>6. CASE /\ cache' = [cache EXCEPT ![On(c)] = KeptCopies(c)]
           /\ Saw(On(c), admin[c].read, admin[c].rows)
           /\ CallEnds(c) /\ FaultHappens /\ owed' = owed \cup Others(On(c))
           /\ UNCHANGED table
  <2>1. /\ admin' \in [Callers -> Calls]
        /\ admin'[c].on = admin[c].on /\ admin'[c].read = FirstTable
        /\ \A e \in Callers \ {c} : admin'[e] = admin[e]
    BY <1>1, <1>6, CallEndsTyped
  <2>2. /\ seen' \in [Instances -> [Ids -> Nat]]
        /\ \A j \in Instances \ {On(c)} : seen'[j] = seen[j]
        /\ \A r \in admin[c].rows :
             seen'[On(c)][r] = IF admin[c].read[r].v > seen[On(c)][r] THEN admin[c].read[r].v
                                                                      ELSE seen[On(c)][r]
        /\ \A r \in Ids \ admin[c].rows : seen'[On(c)][r] = seen[On(c)][r]
    BY <1>1, <1>6, CallTyped, SawRowsTyped
  <2>3. CacheTypeOK'
    <3>1. cache' \in [Instances -> CopySeqs] /\ owed' \subseteq Instances
      BY <1>1, <1>4, <1>6 DEF CacheTypeOK, Others
    <3>2. QED
      BY <1>1, <1>2, <1>6, <2>1, <2>2, <3>1 DEF CacheTypeOK, FaultHappens
  <2>4. ASSUME NEW r \in Ids
        PROVE  /\ seen'[On(c)][r] <= table[r].v
               /\ seen[On(c)][r] = table[r].v => seen'[On(c)][r] = table[r].v
               /\ HasInHand(c, r) => seen'[On(c)][r] = table[r].v
    <3>1. /\ admin[c].read[r].v \in Nat /\ admin[c].read[r].v <= table[r].v
          /\ table[r].v \in Nat /\ seen[On(c)][r] \in Nat /\ seen[On(c)][r] <= table[r].v
      BY <1>1, CallTyped, SeenAtMost DEF VersionsInv, NoLaterThanTable
    <3>2. /\ seen'[On(c)][r] <= table[r].v
          /\ seen[On(c)][r] = table[r].v => seen'[On(c)][r] = table[r].v
      BY <2>2, <3>1
    <3>3. HasInHand(c, r) => seen'[On(c)][r] = table[r].v
      <4>1. SUFFICES ASSUME HasInHand(c, r) PROVE seen'[On(c)][r] = table[r].v
        OBVIOUS
      <4>2. r \in admin[c].rows /\ admin[c].read[r].v = table[r].v
        BY <1>2, <4>1 DEF HasInHand, CallAt
      <4>3. seen'[On(c)][r] = IF table[r].v > seen[On(c)][r] THEN table[r].v ELSE seen[On(c)][r]
        BY <2>2, <4>2
      <4>4. QED
        BY <3>1, <4>3, Larger
    <3>4. QED
      BY <3>2, <3>3
  <2>5. VersionsInv'
    <3>1. \A i \in Instances, r \in Ids : seen'[i][r] <= table[r].v
      BY <1>1, <2>2, <2>4, SeenAtMost
    <3>2. \A e \in Callers : admin'[e].read \in {admin[e].read, FirstTable}
      BY <2>1
    <3>3. QED
      BY <1>1, <1>2, <1>6, <3>1, <3>2, VersionsKept
  <2>6. ArrivalInv'
    <3>1. \A i \in Instances \ {On(c)} : Excused(i)'
      BY <1>6 DEF Excused, Others
    <3>2. owed \subseteq owed'
      BY <1>6
    <3>3. QED
      BY <1>2, <1>6, <2>1, <2>2, <2>4, <3>1, <3>2, CallArrival
  <2>7. QED
    BY <2>3, <2>5, <2>6 DEF ArrivesInv
<1>7. QED
  BY <1>5, <1>6 DEF Demote

-----------------------------------------------------------------------------
(* The goroutines of an instance.                                          *)
LEMMA JobGoes ==
  ASSUME CacheTypeOK, NEW i \in Instances, NEW g \in Goroutines, NEW new \in Jobs,
         job' = [job EXCEPT ![i][g] = new]
  PROVE  /\ job' \in [Instances -> [Goroutines -> Jobs]]
         /\ job'[i][g] = new
         /\ \A h \in Goroutines \ {g} : job'[i][h] = job[i][h]
         /\ \A j \in Instances \ {i} : job'[j] = job[j]
<1> DEFINE mine == [job[i] EXCEPT ![g] = new]
<1>1. job \in [Instances -> [Goroutines -> Jobs]] /\ job[i] \in [Goroutines -> Jobs]
  BY DEF CacheTypeOK
<1>2. job' = [job EXCEPT ![i] = mine]
  BY <1>1
<1>3. /\ mine \in [Goroutines -> Jobs] /\ mine[g] = new
      /\ \A h \in Goroutines \ {g} : mine[h] = job[i][h]
  BY <1>1
<1> HIDE DEF mine
<1>4. QED
  BY <1>1, <1>2, <1>3

LEMMA JobTyped ==
  ASSUME CacheTypeOK, NEW i \in Instances, NEW g \in Goroutines
  PROVE  /\ job[i][g] \in Jobs /\ job[i][g].read \in [Ids -> Rows]
         /\ job[i][g].next \in CopySeqs
         /\ \A r \in Ids : job[i][g].read[r].v \in Nat
<1>1. job[i][g] \in Jobs
  BY DEF CacheTypeOK
<1>2. job[i][g].read \in [Ids -> Rows] /\ job[i][g].next \in CopySeqs
  BY <1>1 DEF Jobs
<1>3. QED
  BY <1>1, <1>2 DEF Rows

(* The goroutine goes elsewhere and keeps what it has read.                *)
LEMMA JobMoves ==
  ASSUME CacheTypeOK, NEW i \in Instances, NEW g \in Goroutines,
         NEW at \in {"idle", "list", "install", "snapshot", "swap"}
  PROVE  job' = [job EXCEPT ![i][g].at = at] =>
           /\ job' \in [Instances -> [Goroutines -> Jobs]]
           /\ job'[i][g].at = at /\ job'[i][g].read = job[i][g].read
           /\ \A h \in Goroutines \ {g} : job'[i][h] = job[i][h]
           /\ \A j \in Instances \ {i} : job'[j] = job[j]
<1> DEFINE new == [job[i][g] EXCEPT !.at = at]
<1>1. new \in Jobs /\ new.at = at /\ new.read = job[i][g].read
  BY JobTyped DEF Jobs
<1>2. [job EXCEPT ![i][g].at = at] = [job EXCEPT ![i][g] = new]
  BY DEF CacheTypeOK
<1> HIDE DEF new
<1>3. ASSUME job' = [job EXCEPT ![i][g] = new]
      PROVE  /\ job' \in [Instances -> [Goroutines -> Jobs]]
             /\ job'[i][g] = new
             /\ \A h \in Goroutines \ {g} : job'[i][h] = job[i][h]
             /\ \A j \in Instances \ {i} : job'[j] = job[j]
  BY <1>1, <1>3, JobGoes
<1>4. QED
  BY <1>1, <1>2, <1>3

LEMMA GoroutinesAre ==
  "main" \in Goroutines /\ "loop" \in Goroutines
BY DEF Goroutines

LEMMA ReceiveArrives ==
  ASSUME ArrivesInv, NEW i \in Instances, Receive(i)
  PROVE  ArrivesInv'
<1>1. CacheTypeOK /\ VersionsInv
  BY DEF ArrivesInv
<1>2. /\ inbox' = [inbox EXCEPT ![i] = FALSE]
      /\ job' = [job EXCEPT ![i]["loop"].at = "list"]
      /\ UNCHANGED <<entity, table, cache, adapters, phase, admin, crashes, faults, seen, owed>>
  BY DEF Receive
<1>3. /\ job' \in [Instances -> [Goroutines -> Jobs]]
      /\ job'[i]["loop"].at = "list" /\ job'[i]["loop"].read = job[i]["loop"].read
      /\ \A h \in Goroutines \ {"loop"} : job'[i][h] = job[i][h]
      /\ \A j \in Instances \ {i} : job'[j] = job[j]
  BY <1>1, <1>2, JobMoves, GoroutinesAre
<1>4. inbox' \in [Instances -> BOOLEAN] /\ \A j \in Instances \ {i} : inbox'[j] = inbox[j]
  BY <1>1, <1>2 DEF CacheTypeOK
<1>5. CacheTypeOK'
  BY <1>1, <1>2, <1>3, <1>4 DEF CacheTypeOK
<1>6. VersionsInv'
  <2>1. \A j \in Instances, r \in Ids : seen'[j][r] <= table[r].v
    BY <1>1, <1>2, SeenAtMost
  <2>2. \A j \in Instances, h \in Goroutines : job'[j][h].read = job[j][h].read
    BY <1>3
  <2>3. QED
    BY <1>1, <1>2, <2>1, <2>2, VersionsKept
<1>7. ArrivalInv'
  <2>1. \A r \in Ids : ReadsSoon(i, "loop", r)'
    BY <1>3 DEF ReadsSoon, JobAt
  <2>2. \A j \in Instances \ {i} : Excused(j) => Excused(j)'
    BY <1>2, <1>4 DEF Excused
  <2>3. QED
    BY <1>2, <1>3, <2>1, <2>2, JobArrival, GoroutinesAre
<1>8. QED
  BY <1>5, <1>6, <1>7 DEF ArrivesInv

LEMMA StartInstanceArrives ==
  ASSUME ArrivesInv, NEW i \in Instances, StartInstance(i)
  PROVE  ArrivesInv'
<1>1. CacheTypeOK /\ VersionsInv
  BY DEF ArrivesInv
<1>2. /\ phase' = [phase EXCEPT ![i] = "loading"]
      /\ job' = [job EXCEPT ![i]["main"].at = "list"]
      /\ UNCHANGED <<entity, table, cache, adapters, inbox, admin, crashes, faults, seen, owed>>
  BY DEF StartInstance
<1>3. /\ job' \in [Instances -> [Goroutines -> Jobs]]
      /\ job'[i]["main"].at = "list" /\ job'[i]["main"].read = job[i]["main"].read
      /\ \A h \in Goroutines \ {"main"} : job'[i][h] = job[i][h]
      /\ \A j \in Instances \ {i} : job'[j] = job[j]
  BY <1>1, <1>2, JobMoves, GoroutinesAre
<1>4. /\ phase' \in [Instances -> {"up", "down", "loading", "restarted"}]
      /\ \A j \in Instances \ {i} : phase'[j] = phase[j]
  BY <1>1, <1>2 DEF CacheTypeOK
<1>5. CacheTypeOK'
  BY <1>1, <1>2, <1>3, <1>4 DEF CacheTypeOK
<1>6. VersionsInv'
  <2>1. \A j \in Instances, r \in Ids : seen'[j][r] <= table[r].v
    BY <1>1, <1>2, SeenAtMost
  <2>2. \A j \in Instances, h \in Goroutines : job'[j][h].read = job[j][h].read
    BY <1>3
  <2>3. QED
    BY <1>1, <1>2, <2>1, <2>2, VersionsKept
<1>7. ArrivalInv'
  <2>1. \A r \in Ids : ReadsSoon(i, "main", r)'
    BY <1>3 DEF ReadsSoon, JobAt
  <2>2. \A j \in Instances \ {i} : Excused(j) => Excused(j)'
    BY <1>2, <1>4 DEF Excused
  <2>3. QED
    BY <1>2, <1>3, <2>1, <2>2, JobArrival, GoroutinesAre
<1>8. QED
  BY <1>5, <1>6, <1>7 DEF ArrivesInv

(* Load reads the table ...                                                *)
LEMMA LoadListsArrives ==
  ASSUME ArrivesInv, NEW i \in Instances, NEW g \in Goroutines, LoadLists(i, g)
  PROVE  ArrivesInv'
<1>1. CacheTypeOK /\ VersionsInv
  BY DEF ArrivesInv
<1>2. UNCHANGED <<entity, table, cache, adapters, inbox, phase, admin, crashes, seen>>
  BY DEF LoadLists
<1>3. \A j \in Instances, r \in Ids : seen'[j][r] <= table[r].v
  BY <1>1, <1>2, SeenAtMost
<1>4. CASE /\ job' = [job EXCEPT ![i][g].at = "install", ![i][g].read = table]
           /\ owed' = owed \ {i} /\ NoFault
  <2> DEFINE new == [job[i][g] EXCEPT !.at = "install", !.read = table]
  <2>1. new \in Jobs /\ new.at = "install" /\ new.read = table
    <3>1. job[i][g] \in Jobs /\ table \in [Ids -> Rows]
      BY <1>1, JobTyped DEF CacheTypeOK
    <3>2. QED
      BY <3>1 DEF Jobs
  <2>2. job' = [job EXCEPT ![i][g] = new]
    BY <1>1, <1>4 DEF CacheTypeOK
  <2> HIDE DEF new
  <2>3. /\ job' \in [Instances -> [Goroutines -> Jobs]]
        /\ job'[i][g] = new
        /\ \A h \in Goroutines \ {g} : job'[i][h] = job[i][h]
        /\ \A j \in Instances \ {i} : job'[j] = job[j]
    BY <1>1, <2>1, <2>2, JobGoes
  <2>4. CacheTypeOK'
    BY <1>1, <1>2, <1>4, <2>3 DEF CacheTypeOK, NoFault
  <2>5. VersionsInv'
    <3>1. \A j \in Instances, h \in Goroutines : job'[j][h].read \in {job[j][h].read, table}
      BY <2>1, <2>3
    <3>2. QED
      BY <1>1, <1>2, <1>3, <3>1, VersionsKept
  <2>6. ArrivalInv'
    <3>1. \A r \in Ids : ReadsSoon(i, g, r)'
      BY <1>2, <2>1, <2>3 DEF ReadsSoon, JobAt
    <3>2. \A j \in Instances \ {i} : Excused(j) => Excused(j)'
      BY <1>2, <1>4 DEF Excused
    <3>3. QED
      BY <1>2, <2>3, <3>1, <3>2, JobArrival
  <2>7. QED
    BY <2>4, <2>5, <2>6 DEF ArrivesInv
<1>5. CASE /\ g = "loop" /\ FaultHappens
           /\ job' = [job EXCEPT ![i][g] = NoJob] /\ owed' = owed \cup {i}
  <2>1. /\ job' \in [Instances -> [Goroutines -> Jobs]]
        /\ job'[i][g] = NoJob
        /\ \A h \in Goroutines \ {g} : job'[i][h] = job[i][h]
        /\ \A j \in Instances \ {i} : job'[j] = job[j]
    BY <1>1, <1>5, FirstTyped, JobGoes, ZenonT(60)
  <2>2. CacheTypeOK'
    BY <1>1, <1>2, <1>5, <2>1 DEF CacheTypeOK, FaultHappens
  <2>3. VersionsInv'
    <3>1. \A j \in Instances, h \in Goroutines : job'[j][h].read \in {job[j][h].read, FirstTable}
      BY <2>1 DEF NoJob
    <3>2. QED
      BY <1>1, <1>2, <1>3, <3>1, VersionsKept
  <2>4. ArrivalInv'
    <3>1. Excused(i)' /\ \A j \in Instances \ {i} : Excused(j) => Excused(j)'
      BY <1>2, <1>5 DEF Excused
    <3>2. QED
      BY <1>2, <2>1, <3>1, JobArrival
  <2>5. QED
    BY <2>2, <2>3, <2>4 DEF ArrivesInv
<1>6. QED
  BY <1>4, <1>5 DEF LoadLists

(* ... and what it read replaces the copies.                               *)
LEMMA LoadInstallsArrives ==
  ASSUME ArrivesInv, LivesInv, NEW i \in Instances, NEW g \in Goroutines, LoadInstalls(i, g)
  PROVE  ArrivesInv'
<1>1. CacheTypeOK /\ VersionsInv
  BY DEF ArrivesInv
<1>2. /\ JobAt(i, g, "install")
      /\ cache' = [cache EXCEPT ![i] = CopiesOf(job[i][g].read)]
      /\ SawAll(i, job[i][g].read)
      /\ UNCHANGED <<entity, table, adapters, inbox, admin, crashes, faults, owed>>
  BY DEF LoadInstalls
<1>3. PICK at \in {"idle", "snapshot"} :
        /\ job' = [job EXCEPT ![i][g] = [NoJob EXCEPT !.at = at]]
        /\ phase' = phase \/ phase' = [phase EXCEPT ![i] = "restarted"]
        /\ at = "snapshot" => phase' = phase
        /\ at = "idle" => g = "main" \/ phase' = phase
  <2>1. NoJob = [NoJob EXCEPT !.at = "idle"]
    BY DEF NoJob
  <2>2. QED
    BY <2>1 DEF LoadInstalls, GoroutineEnds
<1> DEFINE new == [NoJob EXCEPT !.at = at]
<1>4. new \in Jobs /\ new.at = at /\ new.read = FirstTable
  BY FirstTyped DEF Jobs, NoJob
<1>5. job' = [job EXCEPT ![i][g] = new]
  BY <1>3
<1> HIDE DEF new
<1>6. /\ job' \in [Instances -> [Goroutines -> Jobs]]
      /\ job'[i][g] = new
      /\ \A h \in Goroutines \ {g} : job'[i][h] = job[i][h]
      /\ \A j \in Instances \ {i} : job'[j] = job[j]
  BY <1>1, <1>4, <1>5, JobGoes
<1>7. /\ seen' \in [Instances -> [Ids -> Nat]]
      /\ \A j \in Instances \ {i} : seen'[j] = seen[j]
      /\ \A r \in Ids :
           seen'[i][r] = IF job[i][g].read[r].v > seen[i][r] THEN job[i][g].read[r].v
                                                             ELSE seen[i][r]
  BY <1>1, <1>2, JobTyped, SawTyped
<1>8. /\ phase' \in [Instances -> {"up", "down", "loading", "restarted"}]
      /\ \A j \in Instances \ {i} : phase'[j] = phase[j]
  BY <1>1, <1>3 DEF CacheTypeOK
<1>9. CacheTypeOK'
  <2>1. cache' \in [Instances -> CopySeqs]
    BY <1>1, <1>2, JobTyped, CopiesTyped DEF CacheTypeOK
  <2>2. QED
    BY <1>1, <1>2, <1>6, <1>7, <1>8, <2>1 DEF CacheTypeOK
<1>10. ASSUME NEW r \in Ids
       PROVE  /\ seen'[i][r] <= table[r].v
              /\ seen[i][r] = table[r].v => seen'[i][r] = table[r].v
              /\ ReadsSoon(i, g, r) => seen'[i][r] = table[r].v
  <2>1. /\ job[i][g].read[r].v \in Nat /\ job[i][g].read[r].v <= table[r].v
        /\ table[r].v \in Nat /\ seen[i][r] \in Nat /\ seen[i][r] <= table[r].v
    BY <1>1, JobTyped, SeenAtMost DEF VersionsInv, NoLaterThanTable
  <2>2. /\ seen'[i][r] <= table[r].v
        /\ seen[i][r] = table[r].v => seen'[i][r] = table[r].v
    BY <1>7, <2>1
  <2>3. ReadsSoon(i, g, r) => seen'[i][r] = table[r].v
    <3>1. SUFFICES ASSUME ReadsSoon(i, g, r) PROVE seen'[i][r] = table[r].v
      OBVIOUS
    <3>2. job[i][g].read[r].v = table[r].v
      BY <1>2, <3>1 DEF ReadsSoon, JobAt
    <3>3. seen'[i][r] = IF table[r].v > seen[i][r] THEN table[r].v ELSE seen[i][r]
      BY <1>7, <3>2
    <3>4. QED
      BY <2>1, <3>3, Larger
  <2>4. QED
    BY <2>2, <2>3
<1>11. VersionsInv'
  <2>1. \A j \in Instances, r \in Ids : seen'[j][r] <= table[r].v
    BY <1>1, <1>7, <1>10, SeenAtMost
  <2>2. \A j \in Instances, h \in Goroutines : job'[j][h].read \in {job[j][h].read, FirstTable}
    BY <1>4, <1>6
  <2>3. QED
    BY <1>1, <1>2, <2>1, <2>2, VersionsKept
<1>12. ArrivalInv'
  <2>1. \A j \in Instances \ {i} : Excused(j) => Excused(j)'
    BY <1>2, <1>8 DEF Excused
  <2>2. Excused(i) => Excused(i)'
    <3>1. phase[i] # "down"
      BY <1>2 DEF LivesInv, JobAt
    <3>2. QED
      BY <1>2, <3>1 DEF Excused
  <2>3. QED
    BY <1>2, <1>6, <1>7, <1>10, <2>1, <2>2, JobArrival
<1>13. QED
  BY <1>9, <1>11, <1>12 DEF ArrivesInv

LEMMA SnapshotAdaptersArrives ==
  ASSUME ArrivesInv, NEW i \in Instances, NEW g \in Goroutines, SnapshotAdapters(i, g)
  PROVE  ArrivesInv'
<1>1. CacheTypeOK /\ VersionsInv
  BY DEF ArrivesInv
<1>2. /\ JobAt(i, g, "snapshot")
      /\ UNCHANGED <<entity, table, cache, adapters, inbox, phase, admin, crashes, faults, seen, owed>>
  BY DEF SnapshotAdapters
<1> DEFINE next == IF g = "main" THEN cache[i] ELSE Reconciled(i)
           new == [job[i][g] EXCEPT !.at = "swap", !.next = next]
<1>3. next \in CopySeqs
  <2>1. cache[i] \in CopySeqs /\ adapters[i] \in CopySeqs
    BY <1>1 DEF CacheTypeOK
  <2>2. Reconciled(i) \in CopySeqs
    BY <2>1 DEF Reconciled, CopySeqs
  <2>3. QED
    BY <2>1, <2>2
<1> HIDE DEF next
<1>4. new \in Jobs /\ new.at = "swap" /\ new.read = job[i][g].read
  BY <1>1, <1>3, JobTyped DEF Jobs
<1>5. job' = [job EXCEPT ![i][g] = new]
  BY <1>1 DEF SnapshotAdapters, CacheTypeOK, next
<1> HIDE DEF new
<1>6. /\ job' \in [Instances -> [Goroutines -> Jobs]]
      /\ job'[i][g] = new
      /\ \A h \in Goroutines \ {g} : job'[i][h] = job[i][h]
      /\ \A j \in Instances \ {i} : job'[j] = job[j]
  BY <1>1, <1>4, <1>5, JobGoes
<1>7. CacheTypeOK'
  BY <1>1, <1>2, <1>6 DEF CacheTypeOK
<1>8. VersionsInv'
  <2>1. \A j \in Instances, r \in Ids : seen'[j][r] <= table[r].v
    BY <1>1, <1>2, SeenAtMost
  <2>2. \A j \in Instances, h \in Goroutines : job'[j][h].read = job[j][h].read
    BY <1>4, <1>6
  <2>3. QED
    BY <1>1, <1>2, <2>1, <2>2, VersionsKept
<1>9. ArrivalInv'
  <2>1. \A r \in Ids : ~ReadsSoon(i, g, r)
    BY <1>2 DEF ReadsSoon, JobAt
  <2>2. \A j \in Instances : Excused(j) => Excused(j)'
    BY <1>2 DEF Excused
  <2>3. QED
    BY <1>2, <1>6, <2>1, <2>2, JobArrival
<1>10. QED
  BY <1>7, <1>8, <1>9 DEF ArrivesInv

LEMMA SwapAdaptersArrives ==
  ASSUME ArrivesInv, LivesInv, NEW i \in Instances, NEW g \in Goroutines, SwapAdapters(i, g)
  PROVE  ArrivesInv'
<1>1. CacheTypeOK /\ VersionsInv
  BY DEF ArrivesInv
<1>2. /\ JobAt(i, g, "swap") /\ adapters' = [adapters EXCEPT ![i] = job[i][g].next]
      /\ job' = [job EXCEPT ![i][g] = NoJob]
      /\ phase' = IF g = "main" THEN [phase EXCEPT ![i] = "restarted"] ELSE phase
      /\ UNCHANGED <<entity, table, cache, inbox, admin, crashes, faults, seen, owed>>
  BY DEF SwapAdapters, GoroutineEnds
<1>3. /\ job' \in [Instances -> [Goroutines -> Jobs]]
      /\ job'[i][g] = NoJob
      /\ \A h \in Goroutines \ {g} : job'[i][h] = job[i][h]
      /\ \A j \in Instances \ {i} : job'[j] = job[j]
  BY <1>1, <1>2, FirstTyped, JobGoes
<1>4. /\ phase' \in [Instances -> {"up", "down", "loading", "restarted"}]
      /\ \A j \in Instances \ {i} : phase'[j] = phase[j]
  BY <1>1, <1>2 DEF CacheTypeOK
<1>5. CacheTypeOK'
  <2>1. adapters' \in [Instances -> CopySeqs]
    BY <1>1, <1>2, JobTyped DEF CacheTypeOK
  <2>2. QED
    BY <1>1, <1>2, <1>3, <1>4, <2>1 DEF CacheTypeOK
<1>6. VersionsInv'
  <2>1. \A j \in Instances, r \in Ids : seen'[j][r] <= table[r].v
    BY <1>1, <1>2, SeenAtMost
  <2>2. \A j \in Instances, h \in Goroutines : job'[j][h].read \in {job[j][h].read, FirstTable}
    BY <1>3 DEF NoJob
  <2>3. QED
    BY <1>1, <1>2, <2>1, <2>2, VersionsKept
<1>7. ArrivalInv'
  <2>1. \A r \in Ids : ~ReadsSoon(i, g, r)
    BY <1>2 DEF ReadsSoon, JobAt
  <2>2. phase[i] # "down"
    BY <1>2 DEF LivesInv, JobAt
  <2>3. \A j \in Instances : Excused(j) => Excused(j)'
    BY <1>2, <1>4, <2>2 DEF Excused
  <2>4. QED
    BY <1>2, <1>3, <2>1, <2>3, JobArrival
<1>8. QED
  BY <1>5, <1>6, <1>7 DEF ArrivesInv

(* An instance that dies reads everything when it starts again, and what   *)
(* its calls had not announced is owed to the others.                      *)
LEMMA CrashInstanceArrives ==
  ASSUME ArrivesInv, NEW i \in Instances, CrashInstance(i)
  PROVE  ArrivesInv'
<1>1. CacheTypeOK /\ VersionsInv
  BY DEF ArrivesInv
<1>2. /\ phase' = [phase EXCEPT ![i] = "down"]
      /\ cache' = [cache EXCEPT ![i] = NoCopies] /\ adapters' = [adapters EXCEPT ![i] = NoCopies]
      /\ inbox' = [inbox EXCEPT ![i] = FALSE]
      /\ job' = [job EXCEPT ![i] = [g \in Goroutines |-> NoJob]]
      /\ seen' = [seen EXCEPT ![i] = [r \in Ids |-> 0]]
      /\ crashes' = crashes + 1
      /\ UNCHANGED <<entity, table, faults>>
  BY DEF CrashInstance
<1>3. /\ admin' \in [Callers -> Calls]
      /\ \A c \in Callers : /\ admin'[c].on = admin[c].on
                            /\ admin'[c] = admin[c] \/ On(c) = i
                            /\ admin'[c].read \in {admin[c].read, FirstTable}
  <2>1. admin' = [c \in Callers |-> IF On(c) = i /\ ~CallAt(c, "new")
                                    THEN NoCall(i, "over") ELSE admin[c]]
    BY DEF CrashInstance
  <2>2. ASSUME NEW c \in Callers
        PROVE  /\ admin'[c] \in Calls /\ admin'[c].on = admin[c].on
               /\ admin'[c] = admin[c] \/ On(c) = i
               /\ admin'[c].read \in {admin[c].read, FirstTable}
    <3>1. admin[c] \in Calls /\ NoCall(i, "over") \in Calls
          /\ NoCall(i, "over").on = i /\ NoCall(i, "over").read = FirstTable
      BY <1>1, CallTyped, NoCallTyped
    <3>2. QED
      BY <2>1, <3>1 DEF On
  <2>3. QED
    BY <2>1, <2>2
<1>4. owed' \subseteq Instances /\ owed \subseteq owed'
      /\ \A c \in Callers : On(c) = i /\ Unannounced(c) => Others(i) \subseteq owed'
  BY <1>1 DEF CrashInstance, CacheTypeOK, Others
<1>5. /\ job' \in [Instances -> [Goroutines -> Jobs]]
      /\ \A g \in Goroutines : job'[i][g] = NoJob
      /\ \A j \in Instances \ {i} : job'[j] = job[j]
  BY <1>1, <1>2, FirstTyped DEF CacheTypeOK
<1>6. /\ seen' \in [Instances -> [Ids -> Nat]] /\ \A r \in Ids : seen'[i][r] = 0
      /\ \A j \in Instances \ {i} : seen'[j] = seen[j]
  BY <1>1, <1>2 DEF CacheTypeOK
<1>7. CacheTypeOK'
  <2>1. cache' \in [Instances -> CopySeqs] /\ adapters' \in [Instances -> CopySeqs]
    BY <1>1, <1>2, FirstTyped DEF CacheTypeOK
  <2>2. /\ inbox' \in [Instances -> BOOLEAN] /\ crashes' \in Nat
        /\ phase' \in [Instances -> {"up", "down", "loading", "restarted"}]
    BY <1>1, <1>2 DEF CacheTypeOK
  <2>3. QED
    BY <1>1, <1>2, <1>3, <1>4, <1>5, <1>6, <2>1, <2>2 DEF CacheTypeOK
<1>8. VersionsInv'
  <2>1. ASSUME NEW j \in Instances, NEW r \in Ids
        PROVE  seen'[j][r] <= table[r].v
    <3>1. seen[j][r] <= table[r].v /\ table[r].v \in Nat
      BY <1>1, SeenAtMost
    <3>2. QED
      BY <1>6, <3>1
  <2>2. \A j \in Instances, h \in Goroutines : job'[j][h].read \in {job[j][h].read, FirstTable}
    BY <1>5 DEF NoJob
  <2>3. QED
    BY <1>1, <1>2, <1>3, <2>1, <2>2, VersionsKept
<1>9. ArrivalInv'
  <2> SUFFICES ASSUME NEW j \in Instances, NEW r \in Ids
               PROVE  (seen[j][r] = table[r].v \/ WillSee(j, r))'
    BY DEF ArrivalInv
  <2>1. CASE j = i
    <3>1. phase'[i] = "down"
      BY <1>1, <1>2 DEF CacheTypeOK
    <3>2. QED
      BY <2>1, <3>1 DEF WillSee, Excused
  <2>2. CASE j # i
    <3>1. seen[j][r] = table[r].v \/ WillSee(j, r)
      BY DEF ArrivesInv, ArrivalInv
    <3>2. seen'[j][r] = seen[j][r] /\ table' = table
      BY <1>2, <1>6, <2>2
    <3>3. Excused(j) => Excused(j)'
      BY <1>1, <1>2, <1>4, <2>2 DEF Excused, CacheTypeOK
    <3>4. \A g \in Goroutines : ReadsSoon(j, g, r) => ReadsSoon(j, g, r)'
      BY <1>2, <1>5, <2>2 DEF ReadsSoon, JobAt
    <3>5. ASSUME NEW c \in Callers, IF On(c) = j THEN HasInHand(c, r) ELSE Unannounced(c)
          PROVE  WillSee(j, r)'
      <4>1. On(c)' = On(c)
        BY <1>3 DEF On
      <4>2. CASE On(c) = i
        <5>1. j \in owed'
          BY <1>4, <2>2, <3>5, <4>2 DEF Others
        <5>2. QED
          BY <5>1 DEF WillSee, Excused
      <4>3. CASE On(c) # i
        <5>1. admin'[c] = admin[c]
          BY <1>3, <4>3
        <5>2. /\ HasInHand(c, r) => HasInHand(c, r)'
              /\ Unannounced(c) => Unannounced(c)'
          BY <1>2, <5>1 DEF HasInHand, Unannounced, CallAt
        <5>3. QED
          BY <3>5, <4>1, <5>2 DEF WillSee
      <4>4. QED
        BY <4>2, <4>3
    <3>6. QED
      BY <3>1, <3>2, <3>3, <3>4, <3>5 DEF WillSee
  <2>3. QED
    BY <2>1, <2>2
<1>10. QED
  BY <1>7, <1>8, <1>9 DEF ArrivesInv

-----------------------------------------------------------------------------
(* The lives of instances.                                                 *)
LEMMA CallsKeepLives ==
  ASSUME LivesInv, NEW c \in Callers, CallSteps(c)
  PROVE  LivesInv'
<1>1. UNCHANGED <<job, phase>>
  BY DEF CallSteps, BeginChange, WriteTable, KeepCopy, Demote, ListRows, InstallRows, Publish,
         ChangeAdapter, LookUp, FillCopy
<1>2. \A i \in Instances : inbox'[i] => inbox[i] \/ phase[i] # "down"
  <2>1. CASE Publish(c)
    <3>1. \/ inbox' = inbox
          \/ \A i \in Instances : inbox'[i] = (inbox[i] \/ (i # On(c) /\ phase[i] # "down"))
      BY <2>1 DEF Publish, Subscribed
    <3>2. QED
      BY <3>1
  <2>2. CASE inbox' = inbox
    BY <2>2
  <2>3. QED
    BY <2>1, <2>2 DEF CallSteps, BeginChange, WriteTable, KeepCopy, Demote, ListRows,
         InstallRows, ChangeAdapter, LookUp, FillCopy
<1>3. QED
  BY <1>1, <1>2 DEF LivesInv, JobAt

(* A goroutine at work goes on, the main one until the instance serves.    *)
LEMMA JobKeepsLives ==
  ASSUME CacheTypeOK, LivesInv, NEW i \in Instances, NEW g \in Goroutines,
         ~JobAt(i, g, "idle"), UNCHANGED <<inbox, phase>>,
         \A h \in Goroutines \ {g} : job'[i][h] = job[i][h],
         \A j \in Instances \ {i} : job'[j] = job[j]
  PROVE  LivesInv'
<1>1. phase[i] # "down" /\ (g = "main" => phase[i] = "loading")
  BY GoroutinesAre DEF LivesInv
<1>2. QED
  BY <1>1, GoroutinesAre DEF LivesInv, JobAt

LEMMA EndKeepsLives ==
  ASSUME CacheTypeOK, LivesInv, NEW i \in Instances, NEW g \in Goroutines,
         ~JobAt(i, g, "idle"), UNCHANGED inbox, GoroutineEnds(i, g)
  PROVE  LivesInv'
<1>1. /\ job' \in [Instances -> [Goroutines -> Jobs]]
      /\ job'[i][g] = NoJob
      /\ \A h \in Goroutines \ {g} : job'[i][h] = job[i][h]
      /\ \A j \in Instances \ {i} : job'[j] = job[j]
  <2>1. job' = [job EXCEPT ![i][g] = NoJob]
    BY DEF GoroutineEnds
  <2>2. QED
    BY <2>1, FirstTyped, JobGoes
<1>2. JobAt(i, g, "idle")'
  BY <1>1 DEF JobAt, NoJob
<1>3. /\ \A j \in Instances \ {i} : phase'[j] = phase[j]
      /\ phase'[i] = IF g = "main" THEN "restarted" ELSE phase[i]
  BY DEF GoroutineEnds, CacheTypeOK
<1>4. phase[i] # "down"
  BY DEF LivesInv
<1>5. QED
  BY <1>1, <1>2, <1>3, <1>4, GoroutinesAre DEF LivesInv, JobAt

LEMMA LivesStep ==
  ASSUME CacheTypeOK, LivesInv, [CacheNext]_cacheVars
  PROVE  LivesInv'
<1>1. ASSUME NEW i \in Instances, Receive(i)
      PROVE  LivesInv'
  <2>1. /\ phase' = phase /\ inbox' = [inbox EXCEPT ![i] = FALSE] /\ inbox[i]
        /\ job' = [job EXCEPT ![i]["loop"].at = "list"]
    BY <1>1 DEF Receive
  <2>2. /\ \A h \in Goroutines \ {"loop"} : job'[i][h] = job[i][h]
        /\ \A j \in Instances \ {i} : job'[j] = job[j]
    BY <2>1, JobMoves, GoroutinesAre
  <2>3. \A j \in Instances : inbox'[j] => inbox[j]
    BY <2>1 DEF CacheTypeOK
  <2>4. phase[i] # "down"
    BY <2>1 DEF LivesInv
  <2>5. QED
    BY <2>1, <2>2, <2>3, <2>4, GoroutinesAre DEF LivesInv, JobAt
<1>2. ASSUME NEW i \in Instances, StartInstance(i)
      PROVE  LivesInv'
  <2>1. /\ phase' = [phase EXCEPT ![i] = "loading"] /\ inbox' = inbox
        /\ job' = [job EXCEPT ![i]["main"].at = "list"]
    BY <1>2 DEF StartInstance
  <2>2. \A j \in Instances \ {i} : job'[j] = job[j]
    BY <2>1, JobMoves, GoroutinesAre
  <2>3. phase'[i] = "loading" /\ \A j \in Instances \ {i} : phase'[j] = phase[j]
    BY <2>1 DEF CacheTypeOK
  <2>4. QED
    BY <2>1, <2>2, <2>3 DEF LivesInv, JobAt
<1>3. ASSUME NEW i \in Instances, NEW g \in Goroutines, LoadLists(i, g)
      PROVE  LivesInv'
  <2>1. ~JobAt(i, g, "idle") /\ UNCHANGED <<inbox, phase>>
    BY <1>3 DEF LoadLists, JobAt
  <2>2. /\ \A h \in Goroutines \ {g} : job'[i][h] = job[i][h]
        /\ \A j \in Instances \ {i} : job'[j] = job[j]
    BY <1>3 DEF LoadLists, CacheTypeOK
  <2>3. QED
    BY <2>1, <2>2, JobKeepsLives
<1>4. ASSUME NEW i \in Instances, NEW g \in Goroutines, LoadInstalls(i, g)
      PROVE  LivesInv'
  <2>1. ~JobAt(i, g, "idle") /\ UNCHANGED inbox
    BY <1>4 DEF LoadInstalls, JobAt
  <2>2. CASE /\ job' = [job EXCEPT ![i][g] = [NoJob EXCEPT !.at = "snapshot"]]
             /\ UNCHANGED phase
    <3>1. /\ \A h \in Goroutines \ {g} : job'[i][h] = job[i][h]
          /\ \A j \in Instances \ {i} : job'[j] = job[j]
      BY <2>2 DEF CacheTypeOK
    <3>2. QED
      BY <2>1, <2>2, <3>1, JobKeepsLives
  <2>3. CASE GoroutineEnds(i, g)
    BY <2>1, <2>3, EndKeepsLives
  <2>4. QED
    BY <1>4, <2>2, <2>3 DEF LoadInstalls
<1>5. ASSUME NEW i \in Instances, NEW g \in Goroutines, SnapshotAdapters(i, g)
      PROVE  LivesInv'
  <2>1. ~JobAt(i, g, "idle") /\ UNCHANGED <<inbox, phase>>
    BY <1>5 DEF SnapshotAdapters, JobAt
  <2>2. /\ \A h \in Goroutines \ {g} : job'[i][h] = job[i][h]
        /\ \A j \in Instances \ {i} : job'[j] = job[j]
    BY <1>5 DEF SnapshotAdapters, CacheTypeOK
  <2>3. QED
    BY <2>1, <2>2, JobKeepsLives
<1>6. ASSUME NEW i \in Instances, NEW g \in Goroutines, SwapAdapters(i, g)
      PROVE  LivesInv'
  BY <1>6, EndKeepsLives DEF SwapAdapters, JobAt
<1>7. ASSUME NEW i \in Instances, CrashInstance(i)
      PROVE  LivesInv'
  <2>1. /\ phase' = [phase EXCEPT ![i] = "down"] /\ inbox' = [inbox EXCEPT ![i] = FALSE]
        /\ job' = [job EXCEPT ![i] = [g \in Goroutines |-> NoJob]]
    BY <1>7 DEF CrashInstance
  <2>2. /\ phase'[i] = "down" /\ ~inbox'[i] /\ \A g \in Goroutines : job'[i][g] = NoJob
        /\ \A j \in Instances \ {i} :
             phase'[j] = phase[j] /\ inbox'[j] = inbox[j] /\ job'[j] = job[j]
    BY <2>1 DEF CacheTypeOK
  <2>3. NoJob.at = "idle"
    BY DEF NoJob
  <2>4. QED
    BY <2>2, <2>3, GoroutinesAre DEF LivesInv, JobAt
<1>8. CASE UNCHANGED cacheVars
  BY <1>8 DEF cacheVars, LivesInv, JobAt
<1>9. QED
  BY <1>1, <1>2, <1>3, <1>4, <1>5, <1>6, <1>7, <1>8, CallsKeepLives DEF CacheNext

-----------------------------------------------------------------------------
LEMMA ArrivesInit ==
  CacheInit => ArrivesInv /\ LivesInv
<1> SUFFICES ASSUME CacheInit PROVE ArrivesInv /\ LivesInv
  OBVIOUS
<1>1. /\ entity \in Repositories /\ table = FirstTable
      /\ cache = [i \in Instances |-> CopiesOf(FirstTable)]
      /\ inbox = [i \in Instances |-> FALSE]
      /\ job = [i \in Instances |-> [g \in Goroutines |-> NoJob]]
      /\ phase = [i \in Instances |-> "up"]
      /\ crashes = 0 /\ faults = 0 /\ owed = {}
      /\ seen = [i \in Instances |-> Versions(FirstTable)]
  BY DEF CacheInit
<1>2. adapters \in [Instances -> CopySeqs]
  <2>1. adapters = [i \in Instances |-> CopiesOf(FirstTable)] \/ adapters = [i \in Instances |-> NoCopies]
    BY DEF CacheInit
  <2>2. QED
    BY <2>1, FirstTyped, CopiesTyped
<1>3. admin \in [Callers -> Calls] /\ \A c \in Callers : admin[c].read = FirstTable
  <2>1. PICK at \in [Callers -> Instances] : admin = [c \in Callers |-> NoCall(at[c], "new")]
    BY DEF CacheInit
  <2>2. ASSUME NEW c \in Callers
        PROVE  NoCall(at[c], "new") \in Calls /\ NoCall(at[c], "new").read = FirstTable
    BY NoCallTyped
  <2>3. QED
    BY <2>1, <2>2
<1>4. CacheTypeOK
  <2>1. cache \in [Instances -> CopySeqs] /\ job \in [Instances -> [Goroutines -> Jobs]]
    BY <1>1, FirstTyped, CopiesTyped
  <2>2. seen \in [Instances -> [Ids -> Nat]]
    <3>1. Versions(FirstTable) \in [Ids -> Nat]
      BY FirstTyped DEF Versions
    <3>2. QED
      BY <1>1, <3>1
  <2>3. QED
    BY <1>1, <1>2, <1>3, <2>1, <2>2, FirstTyped DEF CacheTypeOK
<1>5. \A r \in Ids : FirstTable[r].v <= FirstTable[r].v
  BY FirstTyped
<1>6. \A i \in Instances, r \in Ids : seen[i][r] = table[r].v
  BY <1>1 DEF Versions
<1>7. \A i \in Instances, g \in Goroutines : job[i][g] = NoJob /\ NoJob.read = FirstTable /\ NoJob.at = "idle"
  BY <1>1 DEF NoJob
<1>8. VersionsInv
  BY <1>1, <1>3, <1>5, <1>6, <1>7 DEF VersionsInv, NoLaterThanTable
<1>9. ArrivalInv
  BY <1>6 DEF ArrivalInv
<1>10. LivesInv
  BY <1>1, <1>7, GoroutinesAre DEF LivesInv, JobAt
<1>11. QED
  BY <1>4, <1>8, <1>9, <1>10 DEF ArrivesInv

LEMMA ArrivesStep ==
  ASSUME ArrivesInv, LivesInv, [CacheNext]_cacheVars
  PROVE  ArrivesInv' /\ LivesInv'
<1>1. LivesInv'
  BY LivesStep DEF ArrivesInv
<1>2. ASSUME NEW c \in Callers, CallSteps(c)
      PROVE  ArrivesInv'
  BY <1>2, BeginChangeArrives, WriteTableArrives, KeepCopyArrives, DemoteArrives,
     ListRowsArrives, InstallRowsArrives, PublishArrives, ChangeAdapterArrives,
     LookUpArrives, FillCopyArrives DEF CallSteps
<1>3. ASSUME NEW i \in Instances,
             \/ Receive(i) \/ StartInstance(i) \/ CrashInstance(i)
             \/ \E g \in Goroutines : \/ LoadLists(i, g) \/ LoadInstalls(i, g)
                                      \/ SnapshotAdapters(i, g) \/ SwapAdapters(i, g)
      PROVE  ArrivesInv'
  BY <1>3, ReceiveArrives, StartInstanceArrives, CrashInstanceArrives, LoadListsArrives,
     LoadInstallsArrives, SnapshotAdaptersArrives, SwapAdaptersArrives
<1>4. CASE UNCHANGED cacheVars
  <2>1. CacheTypeOK'
    BY <1>4 DEF cacheVars, ArrivesInv, CacheTypeOK
  <2>2. VersionsInv'
    BY <1>4 DEF cacheVars, ArrivesInv, VersionsInv, NoLaterThanTable, FirstTable
  <2>3. ArrivalInv'
    <3>1. ASSUME NEW i \in Instances, NEW r \in Ids
          PROVE  WillSee(i, r) => WillSee(i, r)'
      <4>1. Excused(i)' <=> Excused(i)
        BY <1>4 DEF cacheVars, Excused
      <4>2. \A g \in Goroutines : ReadsSoon(i, g, r)' <=> ReadsSoon(i, g, r)
        BY <1>4 DEF cacheVars, ReadsSoon, JobAt
      <4>3. \A c \in Callers : /\ HasInHand(c, r)' <=> HasInHand(c, r)
                               /\ Unannounced(c)' <=> Unannounced(c)
                               /\ On(c)' = On(c)
        BY <1>4 DEF cacheVars, HasInHand, Unannounced, CallAt, On
      <4>4. QED
        BY <4>1, <4>2, <4>3 DEF WillSee
    <3>2. seen' = seen /\ table' = table
      BY <1>4 DEF cacheVars
    <3>3. SUFFICES ASSUME NEW i \in Instances, NEW r \in Ids
                   PROVE  (seen[i][r] = table[r].v \/ WillSee(i, r))'
      BY DEF ArrivalInv
    <3>4. seen[i][r] = table[r].v \/ WillSee(i, r)
      BY DEF ArrivesInv, ArrivalInv
    <3>5. seen[i][r] = table[r].v => (seen[i][r] = table[r].v)'
      BY <3>2
    <3>6. QED
      BY <3>1, <3>4, <3>5, Zenon
  <2>4. QED
    BY <1>1, <2>1, <2>2, <2>3 DEF ArrivesInv
<1>5. QED
  BY <1>1, <1>2, <1>3, <1>4 DEF CacheNext

LEMMA ArrivesAlways ==
  CacheSpec => [](ArrivesInv /\ LivesInv)
<1>1. ArrivesInv /\ LivesInv /\ [CacheNext]_cacheVars => (ArrivesInv /\ LivesInv)'
  BY ArrivesStep
<1>2. QED
  BY <1>1, ArrivesInit, PTL DEF CacheSpec

(* The variables keep their types, for any instances, rows and callers.    *)
THEOREM CacheTypesHold ==
  CacheSpec => []CacheTypeOK
<1>1. ArrivesInv => CacheTypeOK
  BY DEF ArrivesInv
<1>2. QED
  BY <1>1, ArrivesAlways, PTL

(* Wherever nothing is under way and no fault was met, the latest version  *)
(* of every row has been in memory (AttachInvalidation, publish, Load).    *)
THEOREM ChangesAlwaysArrive ==
  CacheSpec => []ChangesArrive
<1>1. ASSUME ArrivesInv
      PROVE  ChangesArrive
  <2> SUFFICES ASSUME NEW i \in Instances, Settled(i), NEW r \in Ids
               PROVE  seen[i][r] = table[r].v
    BY DEF ChangesArrive
  <2>1. seen[i][r] = table[r].v \/ WillSee(i, r)
    BY <1>1 DEF ArrivesInv, ArrivalInv
  <2>2. ~Excused(i) /\ \A g \in Goroutines : ~ReadsSoon(i, g, r)
    BY DEF Settled, Excused, ReadsSoon, JobAt
  <2>3. \A c \in Callers : IF On(c) = i THEN ~HasInHand(c, r) ELSE ~Unannounced(c)
    BY DEF Settled, HasInHand, CallAt
  <2>4. QED
    BY <2>1, <2>2, <2>3 DEF WillSee
<1>2. QED
  BY <1>1, ArrivesAlways, PTL

-----------------------------------------------------------------------------
(* Followers.  What an instance keeps that only reads: the rows as they    *)
(* are, unless it is about to read them, and adapters for what it keeps,   *)
(* unless they are being built.                                            *)
Aligned(built, rows) ==
  \A r \in Ids :
    /\ Len(built[r]) = Len(rows[r])
    /\ rows[r] # <<>> => built[r][1].print = rows[r][1].print

AtMostOnce(rows) == \A r \in Ids : Len(rows[r]) <= 1

UpToDate(i) ==
  \/ Excused(i) \/ JobAt(i, "loop", "list")
  \/ JobAt(i, "loop", "install") /\ job[i]["loop"].read = table
  \/ ~JobAt(i, "loop", "install") /\ cache[i] = CopiesOf(table)
  \/ \E c \in Callers : Unannounced(c)

Fitted(i) ==
  \/ JobAt(i, "loop", "snapshot")
  \/ JobAt(i, "loop", "swap") /\ Aligned(job[i]["loop"].next, cache[i])
  \/ ~JobAt(i, "loop", "swap") /\ Aligned(adapters[i], cache[i])

FitsInv(i) ==
  entity = "provider" =>
    /\ Fitted(i) /\ AtMostOnce(adapters[i])
    /\ JobAt(i, "loop", "swap") => AtMostOnce(job[i]["loop"].next)

FollowInv ==
  \A i \in Instances : Follows(i) => UpToDate(i) /\ AtMostOnce(cache[i]) /\ FitsInv(i)

LEMMA CopiesAreSingle ==
  ASSUME NEW t \in [Ids -> Rows]
  PROVE  AtMostOnce(CopiesOf(t)) /\ Aligned(CopiesOf(t), CopiesOf(t))
<1>1. ASSUME NEW r \in Ids
      PROVE  Len(CopiesOf(t)[r]) <= 1
  <2>1. CopiesOf(t)[r] = IF t[r].there THEN <<t[r]>> ELSE <<>>
    BY DEF CopiesOf
  <2>2. CASE t[r].there
    BY <2>1, <2>2
  <2>3. CASE ~t[r].there
    BY <2>1, <2>3
  <2>4. QED
    BY <2>2, <2>3
<1>2. QED
  BY <1>1 DEF AtMostOnce, Aligned

(* ReconcileAdapters keeps an adapter only for the row it was built from.  *)
LEMMA ReconciledFits ==
  ASSUME CacheTypeOK, NEW i \in Instances, AtMostOnce(cache[i]), AtMostOnce(adapters[i])
  PROVE  Aligned(Reconciled(i), cache[i]) /\ AtMostOnce(Reconciled(i))
<1>1. ASSUME NEW r \in Ids
      PROVE  /\ Len(Reconciled(i)[r]) = Len(cache[i][r]) /\ Len(Reconciled(i)[r]) <= 1
             /\ cache[i][r] # <<>> => Reconciled(i)[r][1].print = cache[i][r][1].print
  <2>1. PICK rows \in Seq(Rows), built \in Seq(Rows) :
          rows = cache[i][r] /\ built = adapters[i][r] /\ Len(rows) <= 1 /\ Len(built) <= 1
    BY DEF CacheTypeOK, CopySeqs, AtMostOnce
  <2>2. Reconciled(i)[r] = IF rows # <<>> /\ built # <<>> /\ rows[1].print = built[1].print
                           THEN built ELSE rows
    BY <2>1 DEF Reconciled
  <2>3. CASE rows # <<>> /\ built # <<>> /\ rows[1].print = built[1].print
    <3>1. Len(rows) = 1 /\ Len(built) = 1
      <4>1. Len(rows) \in Nat /\ Len(built) \in Nat /\ Len(rows) # 0 /\ Len(built) # 0
        BY <2>3
      <4>2. ASSUME NEW n \in Nat, n # 0, n <= 1
            PROVE  n = 1
        BY <4>2
      <4>3. Len(rows) <= 1 /\ Len(built) <= 1
        BY <2>1
      <4>4. QED
        BY <4>1, <4>2, <4>3
    <3>2. QED
      BY <2>1, <2>2, <2>3, <3>1
  <2>4. CASE ~(rows # <<>> /\ built # <<>> /\ rows[1].print = built[1].print)
    <3>1. Reconciled(i)[r] = cache[i][r]
      BY <2>1, <2>2, <2>4
    <3>2. QED
      BY <2>1, <3>1
  <2>5. QED
    BY <2>3, <2>4
<1>2. QED
  BY <1>1 DEF Aligned, AtMostOnce

(* What a call on another instance does to a follower.                     *)
LEMMA CallsElsewhere ==
  ASSUME CacheTypeOK, NEW c \in Callers, CallSteps(c), NEW i \in Instances, On(c) # i
  PROVE  /\ cache'[i] = cache[i] /\ adapters'[i] = adapters[i]
         /\ UNCHANGED <<job, phase, entity>>
         /\ Excused(i) => Excused(i)'
         /\ Unannounced(c) => Unannounced(c)' \/ Excused(i)'
         /\ table' = table \/ Unannounced(c)'
         /\ admin'[c].on = admin[c].on /\ \A d \in Callers \ {c} : admin'[d] = admin[d]
<1> USE DEF CacheTypeOK
<1>1. CASE BeginChange(c)
  <2>1. /\ UNCHANGED <<entity, table, cache, inbox, job, phase, crashes, faults, seen, owed>>
        /\ CallAt(c, "new")
    BY <1>1 DEF BeginChange
  <2>2. adapters'[i] = adapters[i]
    BY <1>1 DEF BeginChange
  <2>3. PICK op \in CallsOf(entity), r \in Ids, at \in {"look up", "write"} :
          admin' = [admin EXCEPT ![c].op = op, ![c].rows = {r}, ![c].at = at]
    BY <1>1, ZenonT(60) DEF BeginChange
  <2>4. admin'[c].on = admin[c].on /\ \A d \in Callers \ {c} : admin'[d] = admin[d]
    BY <2>3, ZenonT(60) DEF Calls
  <2>5. QED
    BY <2>1, <2>2, <2>4 DEF Excused, Unannounced, CallAt
<1>2. CASE WriteTable(c)
  <2>1. /\ UNCHANGED <<entity, cache, adapters, inbox, job, phase, owed>>
        /\ CallAt(c, "write") /\ admin'[c].on = admin[c].on
        /\ admin'[c].at \in {"list", "keep"}
        /\ \A d \in Callers \ {c} : admin'[d] = admin[d]
    BY <1>2, CallTyped, ZenonT(60) DEF WriteTable, Calls
  <2>2. QED
    BY <2>1 DEF Excused, Unannounced
<1>3. CASE KeepCopy(c)
  <2>1. /\ cache'[i] = cache[i]
        /\ UNCHANGED <<entity, table, adapters, inbox, job, phase, owed>>
    BY <1>3 DEF KeepCopy
  <2>2. /\ admin'[c].at = "publish" /\ admin'[c].on = admin[c].on
        /\ \A d \in Callers \ {c} : admin'[d] = admin[d]
    BY <1>3, CallGoesTyped DEF KeepCopy
  <2>3. QED
    BY <2>1, <2>2 DEF Excused, Unannounced
<1>4. ASSUME NEW d \in Ids, Demote(c, d)
      PROVE  /\ cache'[i] = cache[i] /\ adapters'[i] = adapters[i]
             /\ UNCHANGED <<job, phase, entity>>
             /\ Excused(i) => Excused(i)'
             /\ Unannounced(c) => Unannounced(c)' \/ Excused(i)'
             /\ table' = table \/ Unannounced(c)'
             /\ admin'[c].on = admin[c].on /\ \A e \in Callers \ {c} : admin'[e] = admin[e]
  <2>1. /\ cache'[i] = cache[i]
        /\ UNCHANGED <<entity, adapters, inbox, job, phase>>
    BY <1>4 DEF Demote
  <2>2. CASE CallGoes(c, "publish") /\ UNCHANGED owed
    <3>1. /\ admin'[c].at = "publish" /\ admin'[c].on = admin[c].on
          /\ \A e \in Callers \ {c} : admin'[e] = admin[e]
      BY <2>2, CallGoesTyped
    <3>2. QED
      BY <2>1, <2>2, <3>1 DEF Excused, Unannounced
  <2>3. CASE CallEnds(c) /\ owed' = owed \cup Others(On(c)) /\ UNCHANGED table
    <3>1. /\ admin'[c].on = admin[c].on /\ \A e \in Callers \ {c} : admin'[e] = admin[e]
      BY <2>3, CallEndsTyped
    <3>2. i \in owed'
      BY <2>3 DEF Others
    <3>3. QED
      BY <2>1, <2>3, <3>1, <3>2 DEF Excused
  <2>4. QED
    BY <1>4, <2>2, <2>3 DEF Demote
<1>5. CASE ListRows(c)
  <2>1. UNCHANGED <<entity, table, cache, adapters, inbox, job, phase>>
    BY <1>5 DEF ListRows
  <2>2. CASE /\ admin' = [admin EXCEPT ![c].at = "install", ![c].read = table]
             /\ owed' = owed \ {On(c)}
    <3>1. /\ admin'[c].at = "install" /\ admin'[c].on = admin[c].on
          /\ \A d \in Callers \ {c} : admin'[d] = admin[d]
      BY <2>2, CallTyped DEF Calls
    <3>2. QED
      BY <2>1, <2>2, <3>1 DEF Excused, Unannounced
  <2>3. CASE /\ IF admin[c].op.adapter = "remove" THEN CallGoes(c, "adapter") ELSE CallEnds(c)
             /\ owed' = Instances
    <3>1. /\ admin'[c].on = admin[c].on /\ \A d \in Callers \ {c} : admin'[d] = admin[d]
      BY <2>3, CallEndsTyped, CallGoesTyped
    <3>2. QED
      BY <2>1, <2>3, <3>1 DEF Excused
  <2>4. QED
    BY <1>5, <2>2, <2>3 DEF ListRows
<1>6. CASE InstallRows(c)
  <2>1. /\ cache'[i] = cache[i]
        /\ UNCHANGED <<entity, table, adapters, inbox, job, phase, owed>>
    BY <1>6 DEF InstallRows
  <2>2. /\ admin'[c].at = "publish" /\ admin'[c].on = admin[c].on
        /\ \A d \in Callers \ {c} : admin'[d] = admin[d]
    BY <1>6, CallGoesTyped DEF InstallRows
  <2>3. QED
    BY <2>1, <2>2 DEF Excused, Unannounced
<1>7. CASE Publish(c)
  <2>1. UNCHANGED <<entity, table, cache, adapters, job, phase>>
    BY <1>7 DEF Publish
  <2>2. Excused(i)'
    <3>1. CASE inbox' = [j \in Instances |-> inbox[j] \/ (j # On(c) /\ Subscribed(j))]
      <4>1. inbox'[i] \/ phase[i] = "down"
        BY <3>1 DEF Subscribed
      <4>2. QED
        BY <2>1, <4>1 DEF Excused
    <3>2. CASE owed' = owed \cup Others(On(c))
      BY <3>2 DEF Excused, Others
    <3>3. QED
      BY <1>7, <3>1, <3>2 DEF Publish
  <2>3. /\ admin'[c].on = admin[c].on /\ \A d \in Callers \ {c} : admin'[d] = admin[d]
    BY <1>7, CallEndsTyped, CallGoesTyped DEF Publish
  <2>4. QED
    BY <2>1, <2>2, <2>3
<1>8. CASE ChangeAdapter(c)
  <2>1. /\ adapters'[i] = adapters[i] /\ CallAt(c, "adapter")
        /\ UNCHANGED <<entity, table, cache, inbox, job, phase, owed>>
    BY <1>8 DEF ChangeAdapter
  <2>2. /\ admin'[c].on = admin[c].on /\ \A d \in Callers \ {c} : admin'[d] = admin[d]
    BY <1>8, CallEndsTyped DEF ChangeAdapter
  <2>3. QED
    BY <2>1, <2>2 DEF Excused, Unannounced, CallAt
<1>9. CASE LookUp(c)
  <2>1. /\ CallAt(c, "look up")
        /\ UNCHANGED <<entity, table, cache, adapters, inbox, job, phase, owed>>
    BY <1>9 DEF LookUp
  <2>2. /\ admin'[c].on = admin[c].on /\ \A d \in Callers \ {c} : admin'[d] = admin[d]
    <3>1. CASE admin' = [admin EXCEPT ![c].at = "fill", ![c].read = table]
      BY <3>1 DEF Calls
    <3>2. CASE CallEnds(c)
      BY <3>2, CallEndsTyped
    <3>3. QED
      BY <1>9, <3>1, <3>2 DEF LookUp
  <2>3. QED
    BY <2>1, <2>2 DEF Excused, Unannounced, CallAt
<1>10. CASE FillCopy(c)
  <2>1. /\ cache'[i] = cache[i] /\ CallAt(c, "fill")
        /\ UNCHANGED <<entity, table, adapters, inbox, job, phase, owed>>
    BY <1>10 DEF FillCopy
  <2>2. /\ admin'[c].on = admin[c].on /\ \A d \in Callers \ {c} : admin'[d] = admin[d]
    BY <1>10, CallEndsTyped DEF FillCopy
  <2>3. QED
    BY <2>1, <2>2 DEF Excused, Unannounced, CallAt
<1>11. QED
  BY <1>1, <1>2, <1>3, <1>4, <1>5, <1>6, <1>7, <1>8, <1>9, <1>10 DEF CallSteps

(* Followers that a step leaves alone.                                     *)
LEMMA LeftAlone ==
  ASSUME NEW i \in Instances, FollowInv, Follows(i)', phase[i] = "up",
         cache'[i] = cache[i], adapters'[i] = adapters[i], job'[i] = job[i], entity' = entity,
         \A c \in Callers : admin'[c].on = admin[c].on,
         Excused(i) => Excused(i)',
         table' = table \/ \E c \in Callers : Unannounced(c)',
         (\E c \in Callers : Unannounced(c)) => (\E c \in Callers : Unannounced(c)') \/ Excused(i)'
  PROVE  UpToDate(i)' /\ AtMostOnce(cache'[i]) /\ FitsInv(i)'
<1>1. Follows(i)
  BY DEF Follows, On
<1>2. UpToDate(i) /\ AtMostOnce(cache[i]) /\ FitsInv(i)
  BY <1>1 DEF FollowInv
<1>3. UpToDate(i)'
  <2>1. CASE \E c \in Callers : Unannounced(c)'
    BY <2>1 DEF UpToDate
  <2>2. CASE table' = table
    BY <1>2, <2>1, <2>2 DEF UpToDate, JobAt, CopiesOf
  <2>3. QED
    BY <2>1, <2>2
<1>4. FitsInv(i)'
  <2>1. SUFFICES ASSUME entity = "provider" PROVE FitsInv(i)'
    BY DEF FitsInv
  <2>2. Fitted(i) /\ AtMostOnce(adapters[i])
        /\ (JobAt(i, "loop", "swap") => AtMostOnce(job[i]["loop"].next))
    BY <1>2, <2>1 DEF FitsInv
  <2>3. Fitted(i)'
    BY <2>2 DEF Fitted, JobAt, Aligned
  <2>4. AtMostOnce(adapters[i])'
    BY <2>2 DEF AtMostOnce
  <2>5. (JobAt(i, "loop", "swap") => AtMostOnce(job[i]["loop"].next))'
    BY <2>2 DEF AtMostOnce, JobAt
  <2>6. QED
    BY <2>3, <2>4, <2>5 DEF FitsInv
<1>5. AtMostOnce(cache'[i])
  BY <1>2
<1>6. QED
  BY <1>3, <1>4, <1>5

LEMMA FollowKept ==
  ASSUME \A i \in Instances : Follows(i)' => UpToDate(i)' /\ AtMostOnce(cache'[i]) /\ FitsInv(i)'
  PROVE  FollowInv'
<1>1. \A i \in Instances : AtMostOnce(cache'[i]) => AtMostOnce(cache[i])'
  BY DEF AtMostOnce
<1>2. QED
  BY <1>1 DEF FollowInv

LEMMA CallsFollow ==
  ASSUME ArrivesInv, ArrivesInv', FollowInv, NEW c \in Callers, CallSteps(c)
  PROVE  FollowInv'
<1>1. ASSUME NEW i \in Instances, Follows(i)'
      PROVE  UpToDate(i)' /\ AtMostOnce(cache'[i]) /\ FitsInv(i)'
  <2>1. admin'[c].on = admin[c].on
    <3>1. CASE \E i1 \in Instances : On(c) # i1
      BY <3>1, CallsElsewhere DEF ArrivesInv
    <3>2. CASE ~\E i1 \in Instances : On(c) # i1
      <4>1. admin'[c].on \in Instances /\ admin[c].on \in Instances
        BY DEF ArrivesInv, CacheTypeOK, Calls
      <4>2. QED
        BY <3>2, <4>1 DEF On
    <3>3. QED
      BY <3>1, <3>2
  <2>2. On(c) # i
    BY <1>1, <2>1 DEF Follows, On
  <2>3. /\ cache'[i] = cache[i] /\ adapters'[i] = adapters[i]
        /\ UNCHANGED <<job, phase, entity>>
        /\ Excused(i) => Excused(i)'
        /\ Unannounced(c) => Unannounced(c)' \/ Excused(i)'
        /\ table' = table \/ Unannounced(c)'
        /\ admin'[c].on = admin[c].on /\ \A d \in Callers \ {c} : admin'[d] = admin[d]
    BY <2>2, CallsElsewhere DEF ArrivesInv
  <2>4. \A d \in Callers : admin'[d].on = admin[d].on
    BY <2>3
  <2>5. (\E d \in Callers : Unannounced(d)) => (\E d \in Callers : Unannounced(d)') \/ Excused(i)'
    BY <2>3 DEF Unannounced
  <2>6. phase[i] = "up"
    BY <1>1, <2>3 DEF Follows
  <2>7. QED
    BY <1>1, <2>3, <2>4, <2>5, <2>6, LeftAlone
<1>2. QED
  BY <1>1, FollowKept

(* A follower reads for itself: the rows it installs, and the adapters it  *)
(* builds, are those of its subscription.                                  *)
LEMMA LoopFollows ==
  ASSUME ArrivesInv, LivesInv, FollowInv, NEW i \in Instances, Follows(i)', phase[i] = "up",
         UNCHANGED <<admin, table, entity>>,
         \/ Receive(i) \/ LoadLists(i, "loop") \/ LoadInstalls(i, "loop")
         \/ SnapshotAdapters(i, "loop") \/ SwapAdapters(i, "loop")
  PROVE  UpToDate(i)' /\ AtMostOnce(cache'[i]) /\ FitsInv(i)'
<1>1. /\ UpToDate(i) /\ AtMostOnce(cache[i])
      /\ entity = "provider" => Fitted(i) /\ AtMostOnce(adapters[i])
      /\ entity = "provider" /\ JobAt(i, "loop", "swap") => AtMostOnce(job[i]["loop"].next)
  BY DEF Follows, On, FollowInv, FitsInv
<1>2. /\ CacheTypeOK /\ "loop" \in Goroutines /\ job[i]["loop"] \in Jobs
      /\ table \in [Ids -> Rows] /\ job[i]["loop"].read \in [Ids -> Rows]
  BY JobTyped, GoroutinesAre DEF ArrivesInv, CacheTypeOK
<1>3. (\E c \in Callers : Unannounced(c)) => (\E c \in Callers : Unannounced(c)')
  BY DEF Unannounced
<1>4. CASE Receive(i)
  <2>1. JobAt(i, "loop", "idle") /\ UNCHANGED <<cache, adapters>>
        /\ job' = [job EXCEPT ![i]["loop"].at = "list"]
    BY <1>4 DEF Receive
  <2>2. JobAt(i, "loop", "list")'
    BY <1>2, <2>1, JobMoves DEF JobAt
  <2>3. entity = "provider" => Aligned(adapters[i], cache[i]) /\ AtMostOnce(adapters[i])
    BY <1>1, <2>1 DEF Fitted, JobAt
  <2>4. FitsInv(i)'
    BY <2>1, <2>2, <2>3 DEF FitsInv, Fitted, Aligned, AtMostOnce, JobAt
  <2>5. QED
    BY <1>1, <2>1, <2>2, <2>4 DEF UpToDate
<1>5. CASE LoadLists(i, "loop")
  <2>1. JobAt(i, "loop", "list") /\ UNCHANGED <<cache, adapters>>
    BY <1>5 DEF LoadLists
  <2>2. entity = "provider" => Aligned(adapters[i], cache[i]) /\ AtMostOnce(adapters[i])
    BY <1>1, <2>1 DEF Fitted, JobAt
  <2>3. job'[i]["loop"].at \in {"install", "idle"}
    <3>1. CASE job' = [job EXCEPT ![i]["loop"].at = "install", ![i]["loop"].read = table]
      BY <1>2, <3>1 DEF CacheTypeOK, Jobs
    <3>2. CASE job' = [job EXCEPT ![i]["loop"] = NoJob]
      BY <1>2, <3>2 DEF CacheTypeOK, NoJob
    <3>3. QED
      BY <1>5, <3>1, <3>2 DEF LoadLists
  <2>4. FitsInv(i)'
    BY <2>1, <2>2, <2>3 DEF FitsInv, Fitted, Aligned, AtMostOnce, JobAt
  <2>5. UpToDate(i)'
    <3>1. CASE job' = [job EXCEPT ![i]["loop"].at = "install", ![i]["loop"].read = table]
      <4>1. job'[i]["loop"].at = "install" /\ job'[i]["loop"].read = table
        BY <1>2, <3>1 DEF CacheTypeOK, Jobs
      <4>2. QED
        BY <4>1 DEF UpToDate, JobAt
    <3>2. CASE owed' = owed \cup {i}
      BY <3>2 DEF UpToDate, Excused
    <3>3. QED
      BY <1>5, <3>1, <3>2 DEF LoadLists
  <2>6. QED
    BY <1>1, <2>1, <2>4, <2>5
<1>6. CASE LoadInstalls(i, "loop")
  <2>1. /\ JobAt(i, "loop", "install") /\ UNCHANGED <<adapters, inbox, owed>>
        /\ cache' = [cache EXCEPT ![i] = CopiesOf(job[i]["loop"].read)]
        /\ IF entity = "provider"
           THEN job' = [job EXCEPT ![i]["loop"] = [NoJob EXCEPT !.at = "snapshot"]]
           ELSE job' = [job EXCEPT ![i]["loop"] = NoJob]
        /\ phase' = phase
    BY <1>6 DEF LoadInstalls, GoroutineEnds
  <2>2. cache'[i] = CopiesOf(job[i]["loop"].read) /\ AtMostOnce(cache'[i])
    <3>1. cache'[i] = CopiesOf(job[i]["loop"].read)
      BY <1>2, <2>1 DEF CacheTypeOK
    <3>2. QED
      BY <1>2, <3>1, CopiesAreSingle
  <2>3. UpToDate(i)'
    <3>1. \/ job[i]["loop"].read = table \/ Excused(i)
          \/ \E c \in Callers : Unannounced(c)
      BY <1>1, <2>1 DEF UpToDate, JobAt
    <3>2. CASE job[i]["loop"].read = table
      <4>1. job'[i]["loop"].at # "install"
        BY <1>2, <2>1 DEF CacheTypeOK, NoJob
      <4>2. cache'[i] = CopiesOf(table')
        BY <2>2, <3>2 DEF CopiesOf
      <4>3. QED
        BY <4>1, <4>2 DEF UpToDate, JobAt, CopiesOf
    <3>3. CASE Excused(i)
      BY <2>1, <3>3 DEF UpToDate, Excused
    <3>4. CASE \E c \in Callers : Unannounced(c)
      BY <1>3, <3>4 DEF UpToDate
    <3>5. QED
      BY <3>1, <3>2, <3>3, <3>4
  <2>4. FitsInv(i)'
    <3>1. SUFFICES ASSUME entity = "provider" PROVE FitsInv(i)'
      BY DEF FitsInv
    <3>2. job'[i]["loop"].at = "snapshot"
      BY <1>2, <2>1, <3>1 DEF CacheTypeOK, NoJob
    <3>3. AtMostOnce(adapters[i])'
      BY <1>1, <2>1, <3>1 DEF AtMostOnce
    <3>4. QED
      BY <3>2, <3>3 DEF FitsInv, Fitted, JobAt
  <2>5. QED
    BY <2>2, <2>3, <2>4
<1>7. CASE SnapshotAdapters(i, "loop")
  <2>1. /\ JobAt(i, "loop", "snapshot") /\ UNCHANGED <<cache, adapters, inbox, phase, owed>>
        /\ job' = [job EXCEPT ![i]["loop"].at = "swap", ![i]["loop"].next = Reconciled(i)]
    BY <1>7 DEF SnapshotAdapters
  <2>2. job'[i]["loop"].at = "swap" /\ job'[i]["loop"].next = Reconciled(i)
    BY <1>2, <2>1 DEF CacheTypeOK, Jobs
  <2>3. UpToDate(i)'
    <3>1. cache[i] = CopiesOf(table) \/ Excused(i) \/ \E c \in Callers : Unannounced(c)
      BY <1>1, <2>1 DEF UpToDate, JobAt
    <3>2. CASE cache[i] = CopiesOf(table)
      BY <2>1, <2>2, <3>2 DEF UpToDate, CopiesOf, JobAt
    <3>3. CASE Excused(i)
      BY <2>1, <3>3 DEF UpToDate, Excused
    <3>4. CASE \E c \in Callers : Unannounced(c)
      BY <1>3, <3>4 DEF UpToDate
    <3>5. QED
      BY <3>1, <3>2, <3>3, <3>4
  <2>4. FitsInv(i)'
    <3>1. SUFFICES ASSUME entity = "provider" PROVE FitsInv(i)'
      BY DEF FitsInv
    <3>2. Aligned(Reconciled(i), cache[i]) /\ AtMostOnce(Reconciled(i))
      BY <1>1, <1>2, <3>1, ReconciledFits
    <3>3. PICK built : built = Reconciled(i)
      OBVIOUS
    <3>4. /\ job'[i]["loop"].at = "swap" /\ job'[i]["loop"].next = built
          /\ Aligned(built, cache[i]) /\ AtMostOnce(built)
      BY <2>2, <3>2, <3>3
    <3>5. (Aligned(job[i]["loop"].next, cache[i]) /\ AtMostOnce(job[i]["loop"].next))'
      BY <2>1, <3>4 DEF Aligned, AtMostOnce
    <3>6. AtMostOnce(adapters[i])'
      BY <1>1, <2>1, <3>1 DEF AtMostOnce
    <3>7. QED
      BY <3>4, <3>5, <3>6 DEF FitsInv, Fitted, JobAt
  <2>5. QED
    BY <1>1, <2>1, <2>3, <2>4
<1>8. CASE SwapAdapters(i, "loop")
  <2>1. /\ JobAt(i, "loop", "swap") /\ UNCHANGED <<cache, inbox, phase, owed>>
        /\ adapters' = [adapters EXCEPT ![i] = job[i]["loop"].next]
        /\ job' = [job EXCEPT ![i]["loop"] = NoJob]
    BY <1>8 DEF SwapAdapters, GoroutineEnds
  <2>2. job'[i]["loop"].at = "idle" /\ adapters'[i] = job[i]["loop"].next
    BY <1>2, <2>1 DEF CacheTypeOK, NoJob
  <2>3. UpToDate(i)'
    <3>1. cache[i] = CopiesOf(table) \/ Excused(i) \/ \E c \in Callers : Unannounced(c)
      BY <1>1, <2>1 DEF UpToDate, JobAt
    <3>2. CASE cache[i] = CopiesOf(table)
      BY <2>1, <2>2, <3>2 DEF UpToDate, CopiesOf, JobAt
    <3>3. CASE Excused(i)
      BY <2>1, <3>3 DEF UpToDate, Excused
    <3>4. CASE \E c \in Callers : Unannounced(c)
      BY <1>3, <3>4 DEF UpToDate
    <3>5. QED
      BY <3>1, <3>2, <3>3, <3>4
  <2>4. FitsInv(i)'
    <3>1. SUFFICES ASSUME entity = "provider" PROVE FitsInv(i)'
      BY DEF FitsInv
    <3>2. PICK built : built = job[i]["loop"].next
      OBVIOUS
    <3>3. adapters'[i] = built /\ AtMostOnce(built)
      BY <1>1, <2>1, <2>2, <3>1, <3>2
    <3>4. ~JobAt(i, "loop", "snapshot")
      BY <2>1 DEF JobAt
    <3>5. Aligned(built, cache[i])
      BY <1>1, <2>1, <3>1, <3>2, <3>4 DEF Fitted
    <3>6. Aligned(adapters[i], cache[i])' /\ AtMostOnce(adapters[i])'
      BY <2>1, <3>3, <3>5 DEF Aligned, AtMostOnce
    <3>7. QED
      BY <2>2, <3>6 DEF FitsInv, Fitted, JobAt
  <2>5. QED
    BY <1>1, <2>1, <2>3, <2>4
<1>9. QED
  BY <1>4, <1>5, <1>6, <1>7, <1>8

(* What an instance does on its own touches no other one, but a crash in   *)
(* the middle of a change leaves the others in the dark.                   *)
LEMMA OthersAreLeft ==
  ASSUME CacheTypeOK, NEW j \in Instances, NEW i \in Instances \ {j},
         \/ Receive(j) \/ StartInstance(j) \/ CrashInstance(j)
         \/ \E g \in Goroutines : \/ LoadLists(j, g) \/ LoadInstalls(j, g)
                                  \/ SnapshotAdapters(j, g) \/ SwapAdapters(j, g)
  PROVE  /\ cache'[i] = cache[i] /\ adapters'[i] = adapters[i] /\ job'[i] = job[i]
         /\ phase'[i] = phase[i] /\ UNCHANGED <<entity, table>>
         /\ Excused(i) => Excused(i)'
         /\ \A c \in Callers : admin'[c].on = admin[c].on
         /\ (\E c \in Callers : Unannounced(c)) =>
              (\E c \in Callers : Unannounced(c)') \/ Excused(i)'
<1>1. ASSUME admin' = admin, phase'[i] = phase[i], inbox'[i] = inbox[i], i \in owed => i \in owed'
      PROVE  /\ Excused(i) => Excused(i)'
             /\ \A c \in Callers : admin'[c].on = admin[c].on
             /\ (\E c \in Callers : Unannounced(c)) => (\E c \in Callers : Unannounced(c)')
  BY <1>1 DEF Excused, Unannounced
<1>2. CASE Receive(j)
  <2>1. /\ UNCHANGED <<entity, table, cache, adapters, phase, admin, owed>>
        /\ inbox' = [inbox EXCEPT ![j] = FALSE]
        /\ job' = [job EXCEPT ![j]["loop"].at = "list"]
    BY <1>2 DEF Receive
  <2>2. inbox'[i] = inbox[i] /\ job'[i] = job[i]
    BY <2>1 DEF CacheTypeOK
  <2>3. QED
    BY <1>1, <2>1, <2>2
<1>3. CASE StartInstance(j)
  <2>1. /\ UNCHANGED <<entity, table, cache, adapters, inbox, admin, owed>>
        /\ phase' = [phase EXCEPT ![j] = "loading"]
        /\ job' = [job EXCEPT ![j]["main"].at = "list"]
    BY <1>3 DEF StartInstance
  <2>2. phase'[i] = phase[i] /\ job'[i] = job[i]
    BY <2>1 DEF CacheTypeOK
  <2>3. QED
    BY <1>1, <2>1, <2>2
<1>4. ASSUME NEW g \in Goroutines, LoadLists(j, g)
      PROVE  /\ UNCHANGED <<entity, table, cache, adapters, inbox, phase, admin>>
             /\ i \in owed => i \in owed'
             /\ job'[i] = job[i]
  BY <1>4 DEF LoadLists, CacheTypeOK
<1>5. ASSUME NEW g \in Goroutines, GoroutineEnds(j, g)
      PROVE  job'[i] = job[i] /\ phase'[i] = phase[i]
  BY <1>5 DEF GoroutineEnds, CacheTypeOK
<1>6. ASSUME NEW g \in Goroutines, LoadInstalls(j, g)
      PROVE  /\ UNCHANGED <<entity, table, adapters, inbox, admin, owed>>
             /\ cache'[i] = cache[i] /\ job'[i] = job[i] /\ phase'[i] = phase[i]
  <2>1. UNCHANGED <<entity, table, adapters, inbox, admin, owed>> /\ cache'[i] = cache[i]
    BY <1>6 DEF LoadInstalls, CacheTypeOK
  <2>2. CASE /\ job' = [job EXCEPT ![j][g] = [NoJob EXCEPT !.at = "snapshot"]]
             /\ UNCHANGED phase
    BY <2>1, <2>2 DEF CacheTypeOK
  <2>3. QED
    BY <1>5, <1>6, <2>1, <2>2 DEF LoadInstalls
<1>7. ASSUME NEW g \in Goroutines, SnapshotAdapters(j, g)
      PROVE  /\ UNCHANGED <<entity, table, cache, adapters, inbox, phase, admin, owed>>
             /\ job'[i] = job[i]
  BY <1>7 DEF SnapshotAdapters, CacheTypeOK
<1>8. ASSUME NEW g \in Goroutines, SwapAdapters(j, g)
      PROVE  /\ UNCHANGED <<entity, table, cache, inbox, admin, owed>>
             /\ adapters'[i] = adapters[i] /\ job'[i] = job[i] /\ phase'[i] = phase[i]
  <2>1. UNCHANGED <<entity, table, cache, inbox, admin, owed>> /\ adapters'[i] = adapters[i]
    BY <1>8 DEF SwapAdapters, CacheTypeOK
  <2>2. QED
    BY <1>5, <1>8, <2>1 DEF SwapAdapters
<1>9. CASE CrashInstance(j)
  <2>1. /\ phase' = [phase EXCEPT ![j] = "down"] /\ inbox' = [inbox EXCEPT ![j] = FALSE]
        /\ cache' = [cache EXCEPT ![j] = NoCopies] /\ adapters' = [adapters EXCEPT ![j] = NoCopies]
        /\ job' = [job EXCEPT ![j] = [g \in Goroutines |-> NoJob]]
        /\ admin' = [c \in Callers |-> IF On(c) = j /\ ~CallAt(c, "new")
                                       THEN NoCall(j, "over") ELSE admin[c]]
        /\ owed' = IF \E c \in Callers : On(c) = j /\ Unannounced(c)
                   THEN owed \cup Others(j) ELSE owed
        /\ UNCHANGED <<entity, table>>
    BY <1>9 DEF CrashInstance
  <2>2. /\ cache'[i] = cache[i] /\ adapters'[i] = adapters[i] /\ job'[i] = job[i]
        /\ phase'[i] = phase[i] /\ inbox'[i] = inbox[i] /\ (i \in owed => i \in owed')
    BY <2>1 DEF CacheTypeOK
  <2>3. \A c \in Callers : On(c) # j => admin'[c] = admin[c]
    BY <2>1
  <2>4. ASSUME NEW c \in Callers
        PROVE  admin'[c].on = admin[c].on
    <3>1. NoCall(j, "over").on = j
      BY DEF NoCall
    <3>2. CASE On(c) = j /\ ~CallAt(c, "new")
      <4>1. admin'[c] = NoCall(j, "over")
        BY <2>1, <3>2
      <4>2. QED
        BY <3>1, <3>2, <4>1 DEF On
    <3>3. CASE ~(On(c) = j /\ ~CallAt(c, "new"))
      BY <2>1, <3>3
    <3>4. QED
      BY <3>2, <3>3 DEF On, CallAt
  <2>5. Excused(i) => Excused(i)'
    BY <2>2 DEF Excused
  <2>6. ASSUME NEW c \in Callers, Unannounced(c)
        PROVE  Unannounced(c)' \/ Excused(i)'
    <3>1. CASE On(c) = j
      <4>1. i \in owed'
        BY <2>1, <2>6, <3>1 DEF Others
      <4>2. QED
        BY <4>1 DEF Excused
    <3>2. CASE On(c) # j
      BY <2>3, <2>6, <3>2 DEF Unannounced
    <3>3. QED
      BY <3>1, <3>2
  <2>7. QED
    BY <2>1, <2>2, <2>4, <2>5, <2>6
<1>10. QED
  <2>1. ASSUME NEW g \in Goroutines,
               \/ LoadLists(j, g) \/ LoadInstalls(j, g)
               \/ SnapshotAdapters(j, g) \/ SwapAdapters(j, g)
        PROVE  /\ cache'[i] = cache[i] /\ adapters'[i] = adapters[i] /\ job'[i] = job[i]
               /\ phase'[i] = phase[i] /\ inbox'[i] = inbox[i] /\ (i \in owed => i \in owed')
               /\ UNCHANGED <<entity, table, admin>>
    BY <1>4, <1>6, <1>7, <1>8, <2>1
  <2>2. QED
    BY <1>1, <1>2, <1>3, <1>9, <2>1

LEMMA InstancesFollow ==
  ASSUME ArrivesInv, LivesInv, FollowInv, NEW j \in Instances,
         \/ Receive(j) \/ StartInstance(j) \/ CrashInstance(j)
         \/ \E g \in Goroutines : \/ LoadLists(j, g) \/ LoadInstalls(j, g)
                                  \/ SnapshotAdapters(j, g) \/ SwapAdapters(j, g)
  PROVE  FollowInv'
<1>1. CacheTypeOK
  BY DEF ArrivesInv
<1>2. ASSUME NEW i \in Instances \ {j}, Follows(i)'
      PROVE  UpToDate(i)' /\ AtMostOnce(cache'[i]) /\ FitsInv(i)'
  <2>1. /\ cache'[i] = cache[i] /\ adapters'[i] = adapters[i] /\ job'[i] = job[i]
        /\ phase'[i] = phase[i] /\ UNCHANGED <<entity, table>>
        /\ Excused(i) => Excused(i)'
        /\ \A c \in Callers : admin'[c].on = admin[c].on
        /\ (\E c \in Callers : Unannounced(c)) =>
              (\E c \in Callers : Unannounced(c)') \/ Excused(i)'
    BY <1>1, OthersAreLeft
  <2>2. phase[i] = "up"
    BY <1>2, <2>1 DEF Follows
  <2>3. QED
    BY <1>2, <2>1, <2>2, LeftAlone
<1>3. ASSUME Follows(j)'
      PROVE  UpToDate(j)' /\ AtMostOnce(cache'[j]) /\ FitsInv(j)'
  <2>1. phase'[j] = "up"
    BY <1>3 DEF Follows
  <2>2. ~StartInstance(j) /\ ~CrashInstance(j)
    BY <1>1, <2>1 DEF StartInstance, CrashInstance, CacheTypeOK
  <2>3. ASSUME NEW g \in Goroutines,
               \/ LoadLists(j, g) \/ LoadInstalls(j, g)
               \/ SnapshotAdapters(j, g) \/ SwapAdapters(j, g)
        PROVE  g = "loop" /\ phase[j] = "up" /\ UNCHANGED <<admin, table, entity>>
    <3>1. ~JobAt(j, g, "idle") /\ UNCHANGED <<admin, table, entity>>
      BY <2>3 DEF LoadLists, LoadInstalls, SnapshotAdapters, SwapAdapters, JobAt
    <3>2. phase' = phase \/ phase' = [phase EXCEPT ![j] = "restarted"]
      BY <2>3 DEF LoadLists, LoadInstalls, SnapshotAdapters, SwapAdapters, GoroutineEnds
    <3>3. phase[j] = "up"
      BY <1>1, <2>1, <3>2 DEF CacheTypeOK
    <3>4. g # "main"
      BY <3>1, <3>3 DEF LivesInv
    <3>5. QED
      BY <3>1, <3>3, <3>4 DEF Goroutines
  <2>4. CASE Receive(j)
    <3>1. phase' = phase /\ UNCHANGED <<admin, table, entity>>
      BY <2>4 DEF Receive
    <3>2. QED
      BY <1>3, <2>1, <2>4, <3>1, LoopFollows
  <2>5. QED
    BY <1>3, <2>2, <2>3, <2>4, LoopFollows
<1>4. QED
  BY <1>2, <1>3, FollowKept

LEMMA FollowInit ==
  CacheInit => FollowInv
<1> SUFFICES ASSUME CacheInit, NEW i \in Instances
             PROVE  UpToDate(i) /\ AtMostOnce(cache[i]) /\ FitsInv(i)
  BY DEF FollowInv
<1>1. /\ table = FirstTable /\ cache[i] = CopiesOf(FirstTable)
      /\ entity = "provider" => adapters[i] = CopiesOf(FirstTable)
      /\ job[i]["loop"].at = "idle"
  BY GoroutinesAre DEF CacheInit, NoJob
<1>2. AtMostOnce(CopiesOf(FirstTable)) /\ Aligned(CopiesOf(FirstTable), CopiesOf(FirstTable))
  BY FirstTyped, CopiesAreSingle
<1>3. UpToDate(i)
  BY <1>1 DEF UpToDate, JobAt
<1>4. FitsInv(i)
  BY <1>1, <1>2 DEF FitsInv, Fitted, JobAt
<1>5. QED
  BY <1>1, <1>2, <1>3, <1>4

LEMMA FollowStep ==
  ASSUME ArrivesInv, ArrivesInv', LivesInv, FollowInv, [CacheNext]_cacheVars
  PROVE  FollowInv'
<1>1. CASE UNCHANGED cacheVars
  <2>1. ASSUME NEW i \in Instances, Follows(i)'
        PROVE  UpToDate(i)' /\ AtMostOnce(cache'[i]) /\ FitsInv(i)'
    <3>1. /\ cache' = cache /\ adapters' = adapters /\ job' = job /\ phase' = phase
          /\ UNCHANGED <<entity, table, admin, inbox, owed>>
      BY <1>1 DEF cacheVars
    <3>2. phase[i] = "up"
      BY <2>1, <3>1 DEF Follows
    <3>3. Excused(i) => Excused(i)'
      BY <3>1 DEF Excused
    <3>4. (\E c \in Callers : Unannounced(c)) => (\E c \in Callers : Unannounced(c)')
      BY <3>1 DEF Unannounced
    <3>5. QED
      BY <2>1, <3>1, <3>2, <3>3, <3>4, LeftAlone
  <2>2. QED
    BY <2>1, FollowKept
<1>2. QED
  BY <1>1, CallsFollow, InstancesFollow DEF CacheNext

LEMMA FollowAlways ==
  CacheSpec => [](ArrivesInv /\ FollowInv)
<1>1. ArrivesInv /\ LivesInv /\ FollowInv /\ [CacheNext]_cacheVars
        => (ArrivesInv /\ LivesInv /\ FollowInv)'
  BY ArrivesStep, FollowStep
<1>2. QED
  BY <1>1, ArrivesInit, FollowInit, PTL DEF CacheSpec

(* An instance that has served since the beginning and made no change of   *)
(* its own agrees, once nothing is under way, with the table row by row,   *)
(* and its adapters with the rows (AttachCachedReposToCoordinator,         *)
(* ReconcileAdapters).                                                     *)
THEOREM FollowersAlwaysAgree ==
  CacheSpec => []FollowersAgree
<1>1. ASSUME ArrivesInv, FollowInv
      PROVE  FollowersAgree
  <2> SUFFICES ASSUME NEW i \in Instances, Settled(i), Follows(i)
               PROVE  /\ cache[i] = CopiesOf(table)
                      /\ entity = "provider" => Aligned(adapters[i], cache[i])
    BY DEF FollowersAgree, Aligned
  <2>1. UpToDate(i) /\ FitsInv(i)
    BY <1>1 DEF FollowInv
  <2>2. /\ ~Excused(i) /\ JobAt(i, "loop", "idle")
        /\ \A c \in Callers : ~Unannounced(c)
    BY GoroutinesAre DEF Settled, Excused, Follows
  <2>3. QED
    BY <2>1, <2>2 DEF UpToDate, FitsInv, Fitted, JobAt
<1>2. QED
  BY <1>1, FollowAlways, PTL

-----------------------------------------------------------------------------
(* The binding of a session.  Where a call is decides for what.            *)
LookingUp == {"get", "coord", "repo", "install", "fill", "backfill"}

Visiting ==
  [on : Servers, copy : Copies, asked : BOOLEAN,
   for : {"load", "ingress", "through", "latest", "clear", "poll", "bind", "reject"},
   at : Over \cup {"new", "get", "coord", "repo", "install", "fill", "backfill", "create",
                   "touch", "touch local", "save", "keep", "write", "wait"}]

Placed(c) ==
  /\ c \in Visiting
  /\ c.at \in LookingUp => c.for \notin {"through", "clear"}
  /\ c.at \in {"touch", "touch local"} => c.for \in {"ingress", "through"}
  /\ c.at \in {"save", "keep"} => c.for \in {"ingress", "clear", "bind", "reject"}
  /\ c.at = "write" => c.for \in {"ingress", "through", "clear", "bind", "reject"}

LEMMA RestsPlaced ==
  ASSUME NEW c \in Visiting, NEW at \in Over \cup {"wait"}
  PROVE  /\ Placed(Rests(c, at)) /\ Rests(c, at).at = at /\ Rests(c, at).on = c.on
         /\ Rests(c, at).asked => c.asked
<1>1. Rests(c, at).at = at /\ Rests(c, at).on = c.on
      /\ (Rests(c, at).asked <=> c.asked /\ at \notin Over)
  BY DEF Visiting, Rests
<1>2. NoSession \in Copies
  BY DEF NoSession, Copies
<1>3. Rests(c, at) \in Visiting
  BY <1>2 DEF Visiting, Rests, Over
<1>4. QED
  BY <1>1, <1>3 DEF Placed, Over, LookingUp

LEMMA RestPlaced ==
  ASSUME NEW c \in Visiting, NEW d, \E at \in Over \cup {"wait"} : d = Rests(c, at)
  PROVE  Placed(d) /\ d.on = c.on /\ (d.asked => c.asked)
<1>1. PICK at \in Over \cup {"wait"} : d = Rests(c, at)
  OBVIOUS
<1>2. QED
  BY <1>1, RestsPlaced

LEMMA AnsweredPlaced ==
  ASSUME BindingTypeOK, NEW c \in Visiting, c.for \notin {"through", "clear"}, NEW s \in Copies
  PROVE  /\ Placed(Answered(c, s)) /\ Answered(c, s).on = c.on
         /\ Answered(c, s).asked => c.asked
<1>1. /\ c.for \in {"load", "ingress", "latest", "poll", "bind", "reject"}
      /\ s.project \in {-1, 0, 1} /\ clock \in 0 .. MaxTime
  BY DEF Visiting, Copies, Never, BindingTypeOK
<1>2. CASE c.for = "load"
  <2>1. Answered(c, s) = Loaded(c, s)
    BY <1>2 DEF Answered
  <2>2. QED
    BY <1>1, <1>2, <2>1, ZenonT(60) DEF Loaded, Placed, Visiting, LookingUp, Over
<1>3. CASE c.for = "ingress"
  <2>1. Answered(c, s) = AtIngress(c, s)
    BY <1>3 DEF Answered
  <2>2. CASE s.project > 0
    <3>1. \E at \in Over \cup {"wait"} : Answered(c, s) = Rests(c, at)
      BY <2>1, <2>2 DEF AtIngress, Over
    <3>2. QED
      BY <3>1, RestPlaced
  <2>3. CASE ~(s.project > 0)
    BY <2>1, <2>3, ZenonT(60) DEF AtIngress, Placed, Visiting, LookingUp
  <2>4. QED
    BY <2>2, <2>3
<1>4. CASE c.for = "latest"
  <2>1. Answered(c, s) = Latest(c, s)
    BY <1>4 DEF Answered
  <2>2. [s EXCEPT !.rejected = Never] \in Copies
    BY DEF Copies
  <2>3. \/ \E at \in {"refused", "through", "wait"} : Latest(c, s) = Rests(c, at)
        \/ Latest(c, s) = [c EXCEPT !.at = "save", !.for = "clear",
                                    !.copy = [s EXCEPT !.rejected = Never]]
    BY DEF Latest
  <2>4. CASE \E at \in {"refused", "through", "wait"} : Latest(c, s) = Rests(c, at)
    <3>1. \E at \in Over \cup {"wait"} : Answered(c, s) = Rests(c, at)
      BY <2>1, <2>4 DEF Over
    <3>2. QED
      BY <3>1, RestPlaced
  <2>5. CASE Latest(c, s) = [c EXCEPT !.at = "save", !.for = "clear",
                                      !.copy = [s EXCEPT !.rejected = Never]]
    <3> DEFINE e == [s EXCEPT !.rejected = Never]
    <3>1. e \in Copies
      BY <2>2
    <3>2. Answered(c, s) = [c EXCEPT !.at = "save", !.for = "clear", !.copy = e]
      BY <2>1, <2>5
    <3> HIDE DEF e
    <3>3. QED
      BY <3>1, <3>2 DEF Placed, Visiting, LookingUp
  <2>6. QED
    BY <2>3, <2>4, <2>5
<1>5. CASE c.for = "poll"
  <2>1. \E at \in Over \cup {"wait"} : Answered(c, s) = Rests(c, at)
    BY <1>5 DEF Answered, Polled, Over
  <2>2. QED
    BY <2>1, RestPlaced
<1>6. CASE c.for \in {"bind", "reject"}
  <2> DEFINE e == IF c.for = "bind" THEN [s EXCEPT !.project = 1]
                                    ELSE [s EXCEPT !.rejected = clock]
  <2>1. e \in Copies
    BY <1>1 DEF Copies
  <2>2. \/ Answered(c, s) = Rests(c, "missed")
        \/ Answered(c, s) = [c EXCEPT !.at = "save", !.copy = e]
    BY <1>6 DEF Answered, Changed
  <2> HIDE DEF e
  <2>3. CASE Answered(c, s) = Rests(c, "missed")
    <3>1. \E at \in Over \cup {"wait"} : Answered(c, s) = Rests(c, at)
      BY <2>3 DEF Over
    <3>2. QED
      BY <3>1, RestPlaced
  <2>4. CASE Answered(c, s) = [c EXCEPT !.at = "save", !.copy = e]
    BY <1>6, <2>1, <2>4 DEF Placed, Visiting, LookingUp
  <2>5. QED
    BY <2>2, <2>3, <2>4
<1>7. QED
  BY <1>1, <1>2, <1>3, <1>4, <1>5, <1>6

LEMMA ResumedPlaced ==
  ASSUME NEW c \in Visiting, c.for \in {"ingress", "through", "clear", "bind", "reject"}
  PROVE  /\ Placed(Resumed(c)) /\ Resumed(c).on = c.on
         /\ Resumed(c).asked => c.asked
<1>1. CASE c.for = "ingress"
  <2>1. Resumed(c) = [Rests(c, "get") EXCEPT !.for = "ingress"]
    BY <1>1 DEF Resumed
  <2>2. NoSession \in Copies
    BY DEF NoSession, Copies
  <2>3. Rests(c, "get") = [c EXCEPT !.at = "get", !.copy = NoSession]
    BY <1>1 DEF Rests, Over, Visiting
  <2>4. Resumed(c) = [c EXCEPT !.at = "get", !.copy = NoSession, !.for = "ingress"]
    BY <2>1, <2>3 DEF Visiting
  <2>5. Resumed(c) \in Visiting
    BY <2>2, <2>4 DEF Visiting
  <2>6. /\ Resumed(c).at = "get" /\ Resumed(c).for = "ingress"
        /\ Resumed(c).on = c.on /\ Resumed(c).asked = c.asked
    BY <2>4 DEF Visiting
  <2>7. QED
    BY <2>5, <2>6 DEF Placed
<1>2. CASE c.for # "ingress"
  <2>1. \E at \in Over \cup {"wait"} : Resumed(c) = Rests(c, at)
    BY <1>2 DEF Resumed, Over
  <2>2. QED
    BY <2>1, RestPlaced
<1>3. QED
  BY <1>1, <1>2

(* A step of call t: it goes on at a place that fits, the copies stay      *)
(* copies, and its poll is asked for only as Poll says.                    *)
LEMMA CallMoves ==
  ASSUME BindingTypeOK, NEW t \in Handlers, Placed(visit[t]), CallStep(t)
  PROVE  /\ row' \in Copies /\ entry' \in Copies /\ local' \in [Servers -> Copies]
         /\ losses' \in 0 .. MaxLosses
         /\ Placed(visit'[t]) /\ visit'[t].on = visit[t].on
         /\ visit' \in [Handlers -> Visiting]
         /\ \A u \in Handlers \ {t} : visit'[u] = visit[u]
         /\ visit'[t].asked =>
              \/ visit[t].asked
              \/ /\ visit[t].at = "wait" /\ visit'[t].at = "get"
                 /\ alone /\ Is(Binding, "done")
<1> USE BindingAssumption
<1> DEFINE v == visit[t]
           Stored == /\ row' \in Copies /\ entry' \in Copies /\ local' \in [Servers -> Copies]
                     /\ losses' \in 0 .. MaxLosses
           Fits(c) == /\ Placed(c) /\ c.on = v.on
                      /\ c.asked => \/ v.asked
                                    \/ /\ v.at = "wait" /\ c.at = "get"
                                       /\ alone /\ Is(Binding, "done")
<1>1. /\ row \in Copies /\ entry \in Copies /\ local \in [Servers -> Copies]
      /\ losses \in 0 .. MaxLosses /\ MaxLosses \in Nat
      /\ visit \in [Handlers -> Visiting] /\ v \in Visiting /\ v.on \in Servers
      /\ v.copy \in Copies /\ Here(t) \in Copies
      /\ NoSession \in Copies /\ NewSession \in Copies
  BY DEF BindingTypeOK, Visiting, Here, NoSession, NewSession, Copies
<1>2. SUFFICES Stored /\ \E c : Becomes(t, c) /\ Fits(c)
  <2>1. PICK c : Becomes(t, c) /\ Fits(c)
    BY <1>2
  <2>2. visit' = [visit EXCEPT ![t] = c] /\ c \in Visiting
    BY <2>1 DEF Becomes, Placed
  <2>3. /\ visit'[t] = c /\ visit' \in [Handlers -> Visiting]
        /\ \A u \in Handlers \ {t} : visit'[u] = visit[u]
    BY <1>1, <2>2
  <2>4. QED
    BY <1>2, <2>1, <2>3
<1>3. UNCHANGED <<storeVars, losses>> => Stored
  BY <1>1 DEF storeVars
<1>4. ASSUME v.at \in LookingUp, NEW s \in Copies
      PROVE  Fits(Answered(v, s))
  BY <1>1, <1>4, AnsweredPlaced DEF Placed
<1>5. ASSUME NEW at \in LookingUp, NEW s \in Copies, v.at \in LookingUp
      PROVE  /\ Fits([v EXCEPT !.at = at, !.copy = s])
             /\ Fits([v EXCEPT !.at = at])
  BY <1>1, <1>5, ZenonT(60) DEF Placed, Visiting, LookingUp
<1>6. ASSUME v.at \in {"touch", "touch local", "write"}
      PROVE  Fits(Resumed(v))
  BY <1>1, <1>6, ResumedPlaced DEF Placed
<1>7. CASE LookLocal(t)
  BY <1>1, <1>3, <1>4, <1>5, <1>7 DEF LookLocal, Is, LookingUp
<1>8. CASE ReadCoord(t)
  BY <1>1, <1>3, <1>5, <1>8 DEF ReadCoord, Is, LookingUp
<1>9. CASE ReadRepo(t)
  BY <1>1, <1>3, <1>4, <1>5, <1>9 DEF ReadRepo, Is, LookingUp
<1>10. ASSUME Put(t)
       PROVE  local' \in [Servers -> Copies]
  BY <1>1, <1>10 DEF Put
<1>11. CASE Install(t)
  <2>1. Stored
    BY <1>1, <1>10, <1>11 DEF Install
  <2>2. QED
    BY <1>1, <1>4, <1>5, <1>11, <2>1 DEF Install, Is, LookingUp
<1>12. CASE WriteCoord(t)
  <2>1. Stored
    BY <1>1, <1>12 DEF WriteCoord
  <2>2. QED
    BY <1>1, <1>4, <1>6, <1>12, <2>1 DEF WriteCoord, Is, LookingUp
<1>13. CASE CreateRow(t)
  <2> DEFINE c == [v EXCEPT !.for = "ingress"]
  <2>1. c \in Visiting /\ c.for = "ingress" /\ c.on = v.on /\ c.asked = v.asked
    BY <1>1 DEF Visiting
  <2>2. CASE row = NoSession
    <3>1. Becomes(t, [c EXCEPT !.at = "keep", !.copy = NewSession])
          /\ row' = NewSession /\ UNCHANGED <<entry, local, losses>>
      BY <1>13, <2>2 DEF CreateRow
    <3> HIDE DEF c
    <3>2. Fits([c EXCEPT !.at = "keep", !.copy = NewSession])
      BY <1>1, <2>1 DEF Placed, Visiting, LookingUp
    <3>3. QED
      BY <1>1, <3>1, <3>2
  <2>3. CASE row # NoSession
    <3>1. Becomes(t, Resumed(c)) /\ UNCHANGED <<storeVars, losses>>
      BY <1>13, <2>3 DEF CreateRow, storeVars
    <3> HIDE DEF c
    <3>2. Fits(Resumed(c))
      BY <2>1, ResumedPlaced
    <3>3. QED
      BY <1>3, <3>1, <3>2
  <2>4. QED
    BY <2>2, <2>3
<1>14. CASE SaveRow(t)
  <2>1. Fits([v EXCEPT !.at = "keep"])
    BY <1>1, <1>14 DEF SaveRow, Is, Placed, Visiting, LookingUp
  <2>2. QED
    BY <1>1, <1>14, <2>1 DEF SaveRow
<1>15. CASE Keep(t)
  <2>1. Fits([v EXCEPT !.at = "write"])
    BY <1>1, <1>15 DEF Keep, Is, Placed, Visiting, LookingUp
  <2>2. QED
    BY <1>1, <1>10, <1>15, <2>1 DEF Keep
<1>16. CASE Touch(t)
  <2>1. v.at = "touch" => Fits([v EXCEPT !.at = "touch local"])
    BY <1>1 DEF Placed, Visiting, LookingUp
  <2>2. QED
    BY <1>3, <1>6, <1>16, <2>1 DEF Touch, Is
<1>17. CASE TouchLocal(t)
  <2>1. v.at = "touch local" => Fits([v EXCEPT !.at = "write", !.copy = Here(t)])
    BY <1>1 DEF Placed, Visiting, LookingUp
  <2>2. QED
    BY <1>3, <1>6, <1>17, <2>1 DEF TouchLocal, Is
<1>18. CASE BeginCall(t)
  <2> DEFINE f == IF t \in Visits THEN "load" ELSE IF t = Binding THEN "bind" ELSE "reject"
  <2>1. f \in {"load", "bind", "reject"}
    OBVIOUS
  <2>2. Becomes(t, [v EXCEPT !.at = "get", !.for = f]) /\ UNCHANGED <<storeVars, losses>>
    BY <1>18 DEF BeginCall
  <2> HIDE DEF f
  <2>3. Fits([v EXCEPT !.at = "get", !.for = f])
    BY <1>1, <2>1 DEF Placed, Visiting, LookingUp
  <2>4. QED
    BY <1>3, <2>2, <2>3
<1>19. CASE Poll(t)
  <2> DEFINE q == alone /\ Is(Binding, "done")
  <2>1. q \in BOOLEAN
    BY DEF BindingTypeOK, Is
  <2>2. /\ Becomes(t, [v EXCEPT !.at = "get", !.for = "poll", !.asked = q])
        /\ v.at = "wait" /\ UNCHANGED <<storeVars, losses>>
    BY <1>19 DEF Poll, Is
  <2>3. q => alone /\ Is(Binding, "done")
    OBVIOUS
  <2> HIDE DEF q
  <2>4. Fits([v EXCEPT !.at = "get", !.for = "poll", !.asked = q])
    BY <1>1, <2>1, <2>2, <2>3 DEF Placed, Visiting, LookingUp
  <2>5. QED
    BY <1>3, <2>2, <2>4
<1>20. CASE EndWait(t)
  <2>1. Fits(Rests(v, "timed out")) /\ Fits(Rests(v, "left"))
    BY <1>1, RestsPlaced DEF Over
  <2>2. QED
    BY <1>3, <1>20, <2>1 DEF EndWait, TimesOut, ClientLeaves
<1>21. QED
  BY <1>7, <1>8, <1>9, <1>11, <1>12, <1>13, <1>14, <1>15, <1>16, <1>17, <1>18, <1>19, <1>20
  DEF CallStep, StoreStep

(* The administrator's call looks the session up, binds it and writes it,  *)
(* its own server's map before Redis.                                      *)
Binds(c) ==
  /\ \/ c.at \in {"new", "done", "missed"}
     \/ c.at \in LookingUp \cup {"save", "keep", "write"} /\ c.for = "bind"
  /\ c.at \in {"save", "keep", "write"} => c.copy.project = 1

LEMMA BindingMoves ==
  ASSUME BindingTypeOK, Placed(visit[Binding]), Binds(visit[Binding]), CallStep(Binding)
  PROVE  LET c == visit'[Binding]
         IN  /\ Binds(c) /\ c.at # "new" /\ visit[Binding].at \notin {"done", "missed"}
             /\ c.at = "write" => local'[c.on].project = 1
             /\ c.at = "done" => visit[Binding].at = "write" /\ local' = local
<1> USE BindingAssumption
<1> DEFINE v == visit[Binding]
           c == visit'[Binding]
           Done == /\ Binds(c) /\ c.at # "new"
                   /\ c.at = "write" => local'[c.on].project = 1
                   /\ c.at = "done" => v.at = "write" /\ local' = local
<1>1. /\ Binding \in Handlers /\ visit \in [Handlers -> Visiting] /\ v \in Visiting /\ v.on \in Servers
      /\ local \in [Servers -> Copies] /\ v.copy \in Copies /\ Here(Binding) \in Copies
      /\ row \in Copies /\ entry \in Copies /\ NoSession \in Copies
  BY DEF BindingTypeOK, Visiting, Handlers, Here, NoSession, Copies
<1>2. SUFFICES Done
  <2>1. v.at \notin {"done", "missed"}
    BY DEF CallStep, StoreStep, LookLocal, ReadCoord, ReadRepo, Install, WriteCoord, CreateRow,
      SaveRow, Keep, Touch, TouchLocal, BeginCall, Poll, EndWait, TimesOut, ClientLeaves, Is
  <2>2. QED
    BY <1>2, <2>1
<1>3. ASSUME NEW d, Becomes(Binding, d)
      PROVE  c = d
  BY <1>1, <1>3 DEF Becomes
<1>4. ASSUME v.at \in LookingUp, NEW s \in Copies, c = Answered(v, s)
      PROVE  Done
  <2>1. v.for = "bind"
    BY <1>4 DEF Binds, LookingUp
  <2>2. c = Changed(v, s)
    BY <1>4, <2>1 DEF Answered
  <2>3. CASE s = NoSession
    <3>1. c.at = "missed"
      BY <1>1, <2>2, <2>3 DEF Changed, Rests, Over, Visiting
    <3>2. QED
      BY <3>1 DEF Binds
  <2>4. CASE s # NoSession
    <3> DEFINE e == [s EXCEPT !.project = 1]
    <3>1. e.project = 1
      BY DEF Copies
    <3>2. c = [v EXCEPT !.at = "save", !.copy = e]
      BY <2>1, <2>2, <2>4 DEF Changed
    <3> HIDE DEF e
    <3>3. c.at = "save" /\ c.for = "bind" /\ c.copy = e
      BY <1>1, <2>1, <3>2 DEF Visiting
    <3>4. QED
      BY <3>1, <3>3 DEF Binds
  <2>5. QED
    BY <2>3, <2>4
<1>5. ASSUME v.at \in LookingUp, NEW at \in LookingUp, NEW s,
             c = [v EXCEPT !.at = at] \/ c = [v EXCEPT !.at = at, !.copy = s]
      PROVE  Done
  <2>1. c.at = at /\ c.for = v.for
    BY <1>1, <1>5 DEF Visiting
  <2>2. v.for = "bind"
    BY <1>5 DEF Binds, LookingUp
  <2>3. QED
    BY <2>1, <2>2 DEF Binds, LookingUp
<1>6. CASE LookLocal(Binding)
  BY <1>1, <1>3, <1>4, <1>5, <1>6 DEF LookLocal, Is, LookingUp
<1>7. CASE ReadCoord(Binding)
  BY <1>1, <1>3, <1>5, <1>7 DEF ReadCoord, Is, LookingUp
<1>8. CASE ReadRepo(Binding)
  BY <1>1, <1>3, <1>4, <1>5, <1>8 DEF ReadRepo, Is, LookingUp
<1>9. CASE Install(Binding)
  BY <1>1, <1>3, <1>4, <1>5, <1>9 DEF Install, Is, LookingUp
<1>10. CASE WriteCoord(Binding)
  <2>1. CASE v.at = "write"
    <3>1. c = Resumed(v) /\ v.for = "bind" /\ local' = local
      BY <1>3, <1>10, <2>1 DEF WriteCoord, Is, Binds, LookingUp
    <3>2. c.at = "done"
      BY <1>1, <3>1 DEF Resumed, Rests, Over, Visiting
    <3>3. QED
      BY <2>1, <3>1, <3>2 DEF Binds
  <2>2. CASE v.at # "write"
    BY <1>1, <1>3, <1>4, <1>10, <2>2 DEF WriteCoord, Is, LookingUp
  <2>3. QED
    BY <2>1, <2>2
<1>11. CASE SaveRow(Binding)
  <2>1. c = [v EXCEPT !.at = "keep"]
    BY <1>3, <1>11 DEF SaveRow
  <2>2. v.for = "bind" /\ v.copy.project = 1
    BY <1>11 DEF SaveRow, Is, Binds, LookingUp
  <2>3. c.at = "keep" /\ c.for = v.for /\ c.copy = v.copy
    BY <1>1, <2>1 DEF Visiting
  <2>4. Binds(c)
    BY <2>2, <2>3 DEF Binds
  <2>5. QED
    BY <2>3, <2>4
<1>12. CASE Keep(Binding)
  <2>1. c = [v EXCEPT !.at = "write"]
    BY <1>3, <1>12 DEF Keep
  <2>2. v.for = "bind" /\ v.copy.project = 1
    BY <1>12 DEF Keep, Is, Binds, LookingUp
  <2>3. c.at = "write" /\ c.for = v.for /\ c.copy = v.copy /\ c.on = v.on
    BY <1>1, <2>1 DEF Visiting
  <2>4. local'[v.on] = v.copy
    BY <1>1, <1>12 DEF Keep, Put
  <2>5. Binds(c)
    BY <2>2, <2>3 DEF Binds
  <2>6. QED
    BY <2>2, <2>3, <2>4, <2>5
<1>13. CASE BeginCall(Binding)
  <2>1. c = [v EXCEPT !.at = "get", !.for = "bind"]
    BY <1>3, <1>13 DEF BeginCall
  <2>2. c.at = "get" /\ c.for = "bind"
    BY <1>1, <2>1 DEF Visiting
  <2>3. Binds(c)
    BY <2>2 DEF Binds, LookingUp
  <2>4. QED
    BY <2>2, <2>3
<1>14. ~(CreateRow(Binding) \/ Touch(Binding) \/ TouchLocal(Binding) \/ Poll(Binding)
           \/ EndWait(Binding))
  BY DEF Binds, CreateRow, Touch, TouchLocal, Poll, EndWait, TimesOut, ClientLeaves, Is, LookingUp
<1>15. QED
  BY <1>6, <1>7, <1>8, <1>9, <1>10, <1>11, <1>12, <1>13, <1>14 DEF CallStep, StoreStep

(* A step of waiting changes nothing that is stored, and waits on only     *)
(* after it has found the session without a project.                       *)
LEMMA WaitingMoves ==
  ASSUME BindingTypeOK, NEW t \in Handlers, CallStep(t), OnlyWaits(t)
  PROVE  /\ UNCHANGED storeVars
         /\ visit'[t].at = "wait" => Here(t).project # 1
<1> USE BindingAssumption
<1> DEFINE v == visit[t]
<1>1. visit \in [Handlers -> Visiting] /\ v \in Visiting
  BY DEF BindingTypeOK, Visiting
<1>2. CASE v.at = "wait"
  <2>1. Poll(t) \/ EndWait(t)
    BY <1>2 DEF CallStep, StoreStep, LookLocal, ReadCoord, ReadRepo, Install, WriteCoord,
      CreateRow, SaveRow, Keep, Touch, TouchLocal, BeginCall, Is
  <2>2. visit'[t].at \in {"get", "timed out", "left"}
    <3>1. CASE Poll(t)
      BY <1>1, <3>1 DEF Poll, Becomes, Visiting
    <3>2. CASE EndWait(t)
      <4>1. visit'[t] \in {Rests(v, "timed out"), Rests(v, "left")}
        BY <1>1, <3>2 DEF EndWait, TimesOut, ClientLeaves, Becomes
      <4>2. QED
        BY <1>1, <4>1, RestsPlaced, ZenonT(60) DEF Over
    <3>3. QED
      BY <2>1, <3>1, <3>2
  <2>3. QED
    BY <2>1, <2>2 DEF Poll, EndWait
<1>3. CASE v.at = "get" /\ v.for = "poll" /\ Here(t) # NoSession
  <2>1. LookLocal(t)
    BY <1>3 DEF CallStep, StoreStep, ReadCoord, ReadRepo, Install, WriteCoord,
      CreateRow, SaveRow, Keep, Touch, TouchLocal, BeginCall, Poll, EndWait, TimesOut,
      ClientLeaves, Is
  <2>2. visit'[t] = Polled(v, Here(t)) /\ UNCHANGED storeVars
    BY <1>1, <1>3, <2>1 DEF LookLocal, Becomes, Answered
  <2>3. ASSUME Here(t).project = 1
        PROVE  visit'[t].at \in {"refused", "through"}
    <3>1. visit'[t] = Rests(v, "refused") \/ visit'[t] = Rests(v, "through")
      BY <2>2, <2>3 DEF Polled
    <3>2. QED
      BY <1>1, <3>1 DEF Rests, Over, Visiting
  <2>4. QED
    BY <2>2, <2>3
<1>4. QED
  BY <1>2, <1>3 DEF OnlyWaits, Is

(* As long as the others only wait, nobody overwrites what the call has    *)
(* put into its server's map, and a poll there that is asked for after the *)
(* call cannot go on waiting.                                              *)
BindingInv ==
  /\ BindingTypeOK
  /\ \A t \in Handlers : Placed(visit[t])
  /\ Binds(visit[Binding])
  /\ alone => ~Is(Binding, "new")
  /\ alone /\ visit[Binding].at \in {"write", "done"} => Here(Binding).project = 1
  /\ \A t \in Visits : visit[t].asked => Is(Binding, "done")
  /\ OwnBindingsAreSeen

LEMMA BindingInvInit ==
  BindingInit => BindingInv
<1> SUFFICES ASSUME BindingInit PROVE BindingInv
  OBVIOUS
<1> USE BindingAssumption
<1>1. NoSession \in Copies /\ NewSession \in Copies
  BY DEF NoSession, NewSession, Copies
<1>2. /\ visit \in [Handlers -> Visiting]
      /\ \A t \in Handlers : visit[t].at = "new" /\ visit[t].asked = FALSE
  <2>1. [on : Servers, at : {"new"}, for : {"load"}, copy : {NoSession}, asked : {FALSE}]
          \subseteq {c \in Visiting : c.at = "new" /\ c.asked = FALSE}
    BY <1>1 DEF Visiting
  <2>2. QED
    BY <2>1 DEF BindingInit
<1>3. BindingTypeOK
  <2>1. {row, entry} \subseteq Copies /\ local \in [Servers -> Copies]
    BY <1>1 DEF BindingInit
  <2>2. clock \in 0 .. MaxTime /\ losses \in 0 .. MaxLosses /\ alone \in BOOLEAN
    <3>1. clock = 0 /\ losses = 0 /\ alone = FALSE
      BY DEF BindingInit
    <3>2. MaxTime \in Nat /\ MaxLosses \in Nat
      OBVIOUS
    <3>3. clock \in 0 .. MaxTime /\ losses \in 0 .. MaxLosses
      BY <3>1, <3>2
    <3>4. alone \in BOOLEAN
      BY <3>1
    <3>5. QED
      BY <3>3, <3>4
  <2>3. QED
    BY <1>2, <2>1, <2>2 DEF BindingTypeOK, Visiting
<1>4. \A t \in Handlers : Placed(visit[t])
  BY <1>2 DEF Placed, LookingUp
<1>5. Binding \in Handlers /\ Visits \subseteq Handlers
  BY DEF Handlers
<1>6. QED
  BY <1>2, <1>3, <1>4, <1>5 DEF BindingInit, BindingInv, Binds, Is, OwnBindingsAreSeen, Overlooked

LEMMA BindingInvStep ==
  ASSUME BindingInv, BindingNext \/ UNCHANGED bindingVars
  PROVE  BindingInv'
<1> USE BindingAssumption
<1>1. /\ BindingTypeOK /\ (\A t \in Handlers : Placed(visit[t])) /\ Binds(visit[Binding])
      /\ Binding \in Handlers /\ Visits \subseteq Handlers /\ Rulings \subseteq Handlers
      /\ visit \in [Handlers -> Visiting]
  BY DEF BindingInv, BindingTypeOK, Handlers, Visiting
<1>2. ASSUME NEW t \in Handlers, CallStep(t), UNCHANGED clock, alone' \in BOOLEAN
      PROVE  BindingTypeOK' /\ \A u \in Handlers : Placed(visit'[u])
  <2>1. BindingTypeOK'
    BY <1>1, <1>2, CallMoves DEF BindingTypeOK, Visiting, Copies, Over
  <2>2. QED
    BY <1>1, <1>2, <2>1, CallMoves
<1>3. ASSUME CallStep(Binding), UNCHANGED clock,
             alone' = IF Is(Binding, "new") THEN Quiet ELSE alone
      PROVE  BindingInv'
  <2>1. alone' \in BOOLEAN
    BY <1>1, <1>3 DEF Quiet, BindingTypeOK
  <2>2. BindingTypeOK' /\ \A u \in Handlers : Placed(visit'[u])
    BY <1>1, <1>2, <1>3, <2>1
  <2>3. /\ Binds(visit'[Binding]) /\ visit'[Binding].at # "new"
        /\ visit[Binding].at \notin {"done", "missed"}
        /\ visit'[Binding].at = "write" => local'[visit'[Binding].on].project = 1
        /\ visit'[Binding].at = "done" => visit[Binding].at = "write" /\ local' = local
    BY <1>1, <1>3, BindingMoves
  <2>4. /\ \A t \in Visits : visit'[t] = visit[t]
        /\ visit'[Binding].on = visit[Binding].on
    BY <1>1, <1>3, CallMoves
  <2>5. \A t \in Visits : ~visit'[t].asked
    BY <2>3, <2>4 DEF BindingInv, Is
  <2>6. alone' /\ visit'[Binding].at \in {"write", "done"} => Here(Binding)'.project = 1
    <3>1. visit'[Binding].at = "done" /\ alone' => alone /\ Here(Binding).project = 1
      BY <1>3, <2>3 DEF BindingInv, Is
    <3>2. QED
      BY <2>3, <2>4, <3>1 DEF Here
  <2>7. QED
    BY <2>2, <2>3, <2>5, <2>6 DEF BindingInv, OwnBindingsAreSeen, Overlooked, Is
<1>4. ASSUME NEW t \in Visits \cup Rulings, CallStep(t), alone' = (alone /\ OnlyWaits(t)),
             UNCHANGED clock
      PROVE  BindingInv'
  <2>1. alone' \in BOOLEAN /\ t \in Handlers /\ t # Binding
    BY <1>1, <1>4 DEF OnlyWaits, Is
  <2>2. BindingTypeOK' /\ \A u \in Handlers : Placed(visit'[u])
    BY <1>1, <1>2, <1>4, <2>1
  <2>3. /\ \A u \in Handlers \ {t} : visit'[u] = visit[u]
        /\ visit'[Binding] = visit[Binding] /\ visit'[t].on = visit[t].on
        /\ visit'[t].asked => visit[t].asked
             \/ (visit'[t].at = "get" /\ Is(Binding, "done"))
    BY <1>1, <1>4, <2>1, CallMoves
  <2>4. alone' => /\ alone /\ UNCHANGED storeVars
                  /\ visit'[t].at = "wait" => Here(t).project # 1
    BY <1>1, <1>4, <2>1, WaitingMoves
  <2>5. alone' /\ visit'[Binding].at \in {"write", "done"} => Here(Binding)'.project = 1
    BY <2>3, <2>4 DEF BindingInv, Here, storeVars
  <2>6. ASSUME NEW u \in Visits, visit'[u].asked
        PROVE  Is(Binding, "done")'
    BY <1>1, <2>3, <2>6 DEF BindingInv, Is
  <2>7. ASSUME NEW u \in Visits, visit'[u].on = visit'[Binding].on, Overlooked(u)'
        PROVE  FALSE
    <3>1. alone' /\ alone /\ visit'[u].at = "wait" /\ visit'[u].asked
      BY <2>4, <2>7 DEF Overlooked, Is
    <3>2. CASE u # t
      BY <1>1, <2>3, <2>7, <3>1, <3>2 DEF BindingInv, OwnBindingsAreSeen, Overlooked, Is
    <3>3. CASE u = t
      <4>1. Is(Binding, "done")
        BY <2>3, <3>1, <3>3 DEF BindingInv
      <4>2. Here(t) = Here(Binding)
        BY <2>3, <2>7, <3>3 DEF Here
      <4>3. Here(t).project = 1
        BY <3>1, <4>1, <4>2 DEF BindingInv, Is
      <4>4. QED
        BY <2>4, <3>1, <3>3, <4>3
    <3>4. QED
      BY <3>2, <3>3
  <2>8. QED
    BY <2>2, <2>3, <2>4, <2>5, <2>6, <2>7 DEF BindingInv, OwnBindingsAreSeen, Is
<1>5. ASSUME UNCHANGED <<row, local, visit, losses, alone>>,
             entry' \in {entry, NoSession}, clock' \in 0 .. MaxTime
      PROVE  BindingInv'
  <2>1. NoSession \in Copies
    BY DEF NoSession, Copies
  <2>2. BindingTypeOK'
    BY <1>1, <1>5, <2>1 DEF BindingTypeOK, Copies, Over
  <2>3. QED
    BY <1>1, <1>5, <2>2 DEF BindingInv, Is, Here, OwnBindingsAreSeen, Overlooked
<1>6. EntryExpires \/ Minute =>
        UNCHANGED <<row, local>> /\ entry' \in {entry, NoSession} /\ clock' \in 0 .. MaxTime
  <2>1. clock \in 0 .. MaxTime /\ MaxTime \in Nat
    BY <1>1 DEF BindingTypeOK
  <2>2. QED
    BY <2>1 DEF EntryExpires, Minute, storeVars
<1>7. UNCHANGED bindingVars => /\ UNCHANGED <<row, local, visit, losses, alone>>
                               /\ entry' \in {entry, NoSession} /\ clock' \in 0 .. MaxTime
  BY <1>1 DEF bindingVars, storeVars, BindingTypeOK
<1>8. QED
  BY <1>3, <1>4, <1>5, <1>6, <1>7 DEF BindingNext

(* A poll that begins after the administrator's call returned, on the      *)
(* server of that call and with nobody but waiting requests at the session *)
(* meanwhile, does not go on waiting (UpdateSessionProject, cached Update, *)
(* WaitForProject), even if Redis loses the entry or it expires.           *)
THEOREM OwnBindingsAreAlwaysSeen == BindingSpec => []OwnBindingsAreSeen
<1>1. BindingInv => OwnBindingsAreSeen
  BY DEF BindingInv
<1>2. BindingInv /\ [BindingNext]_bindingVars => BindingInv'
  BY BindingInvStep
<1>3. QED
  BY <1>1, <1>2, BindingInvInit, PTL DEF BindingSpec
=============================================================================
