--------------------------- MODULE FailureTracker ---------------------------
(***************************************************************************)
(* internal/cooldown/failure_tracker.go and the failure_counts table       *)
(* behind it (internal/repository/sqlite/failure_count_repository.go).     *)
(*                                                                         *)
(* Every instance counts failures in memory and writes each new count, an  *)
(* absolute value, to the database that all instances share.  A database   *)
(* error is only logged: the parameter dbOk of an operation says whether   *)
(* its writes reached the table.  The rows carry TenantID = TenantIDAll,   *)
(* so the table is keyed like the memory map.                              *)
(*                                                                         *)
(* The cooldown manager calls these operations with its mutex held; module *)
(* Cooldown composes them.                                                 *)
(***************************************************************************)
EXTENDS CooldownKeys

CONSTANTS
  Instances,    \* server processes sharing the database
  Reasons       \* cooldown reasons

VARIABLES
  failureCounts, \* per instance: the count of each failure key
  failureDb      \* the failure_counts table

failureVars == <<failureCounts, failureDb>>

FailureKey == [key : CooldownKey, reason : Reasons]

Counts == [FailureKey -> Nat]

FailureTypeOK ==
  /\ failureCounts \in [Instances -> Counts]
  /\ failureDb \in Counts

NoFailures == [f \in FailureKey |-> 0]

FailureInit ==
  /\ failureCounts = [i \in Instances |-> NoFailures]
  /\ failureDb = NoFailures

-----------------------------------------------------------------------------
(* What a reset of key k matches in memory and in the table.  The table    *)
(* ignores the model as soon as the client type is empty.                  *)
MatchesInMemory(k, f) ==
  /\ f.key.p = k.p
  /\ k.ct \in {All, f.key.ct}
  /\ k.m \in {All, f.key.m}

MatchesInDb(k, f) ==
  /\ f.key.p = k.p
  /\ k.ct # All => k.ct = f.key.ct /\ k.m \in {All, f.key.m}

ZeroedInMemory(counts, K) ==
  [f \in FailureKey |->
     IF \E k \in K : MatchesInMemory(k, f) THEN 0 ELSE counts[f]]

ZeroedInDb(counts, K) ==
  [f \in FailureKey |->
     IF \E k \in K : MatchesInDb(k, f) THEN 0 ELSE counts[f]]

HasCounts(counts, k) ==
  \E f \in FailureKey : MatchesInMemory(k, f) /\ counts[f] > 0

(* Faulty form: counts downwards. *)
PreviousCount(i, k, r) == failureCounts[i][[key |-> k, reason |-> r]] - 1

(* IncrementFailure: count in memory, then upsert the new count. *)
NextCount(i, k, r) == failureCounts[i][[key |-> k, reason |-> r]] + 1

IncrementFailure(i, k, r, dbOk) ==
  LET f == [key |-> k, reason |-> r]
  IN  /\ failureCounts' = [failureCounts EXCEPT ![i][f] = NextCount(i, k, r)]
      /\ failureDb' = IF dbOk THEN [failureDb EXCEPT ![f] = NextCount(i, k, r)]
                              ELSE failureDb

(***************************************************************************)
(* ResetFailures of every key of K, one after another in no fixed order.   *)
(* A reset that finds no count in memory leaves the table alone, so D, the *)
(* keys whose rows are deleted, holds keys with counts, and enough of them *)
(* that the others found theirs gone.                                      *)
(***************************************************************************)
ResetDeletes(i, K, D) ==
  /\ \A k \in D : HasCounts(failureCounts[i], k)
  /\ \A k \in K \ D : ~HasCounts(ZeroedInMemory(failureCounts[i], D), k)

ResetFailures(i, K, D, dbOk) ==
  /\ failureCounts' =
       [failureCounts EXCEPT ![i] = ZeroedInMemory(failureCounts[i], K)]
  /\ failureDb' = IF dbOk THEN ZeroedInDb(failureDb, D) ELSE failureDb

ResetOne(i, k, dbOk) ==
  ResetFailures(i, {k}, {d \in {k} : HasCounts(failureCounts[i], d)}, dbOk)

(***************************************************************************)
(* CleanupExpired deletes the rows older than a day (the set stale) and    *)
(* reloads the memory map from the table; with the database down both      *)
(* calls fail and nothing changes.  Cooldown!CleanupExpired makes it part  *)
(* of the hourly clean-up.                                                 *)
(***************************************************************************)
WithoutStale(db, stale) ==
  [f \in FailureKey |-> IF f \in stale THEN 0 ELSE db[f]]

(* LoadFromDatabase at start-up; an error leaves the new map empty. *)
LoadFailures(i, dbOk) ==
  /\ failureCounts' =
       [failureCounts EXCEPT ![i] = IF dbOk THEN failureDb ELSE NoFailures]
  /\ UNCHANGED failureDb
=============================================================================
