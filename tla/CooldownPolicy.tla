--------------------------- MODULE CooldownPolicy ---------------------------
(***************************************************************************)
(* internal/cooldown/policy.go: how many seconds a provider is held back   *)
(* after its n-th failure for one reason.  A policy is a record; max = 0   *)
(* means no cap.  Every default has a cap or is fixed, so no product comes *)
(* near the width of an int.                                               *)
(***************************************************************************)
EXTENDS Naturals

CONSTANTS
  Policies,    \* the policies to run
  MaxFailures  \* bound on the failures counted

ASSUME PoliciesAssumption ==
  /\ \A p \in Policies : /\ p.kind \in {"fixed", "linear", "exponential"}
                         /\ p.base \in Nat /\ p.max \in Nat
                         /\ p.kind = "fixed" => p.max = 0
  /\ MaxFailures \in Nat

Fixed(d) == [kind |-> "fixed", base |-> d, max |-> 0]
Linear(b, m) == [kind |-> "linear", base |-> b, max |-> m]
Exponential(b, m) == [kind |-> "exponential", base |-> b, max |-> m]

DefaultPolicies ==
  [server_error        |-> Linear(5, 600),
   network_error       |-> Exponential(5, 1800),
   quota_exhausted     |-> Fixed(3600),
   rate_limit_exceeded |-> Fixed(5),
   concurrent_limit    |-> Fixed(5),
   unknown             |-> Linear(5, 300),
   auth_failure        |-> Fixed(3600),
   model_unavailable   |-> Fixed(300)]

(* RecordFailure's choice; a reason without a policy gets five seconds. *)
PolicyFor(reason) ==
  IF reason \in DOMAIN DefaultPolicies THEN DefaultPolicies[reason] ELSE Fixed(5)

Capped(policy, seconds) ==
  IF policy.max > 0 /\ seconds > policy.max THEN policy.max ELSE seconds

(* Faulty form: one doubling too many. *)
DoubledOnceMore(policy, n) ==
  LET seconds[i \in 0 .. n] ==
        IF i = 0 THEN policy.base ELSE Capped(policy, 2 * seconds[i - 1])
  IN  seconds[n]

(***************************************************************************)
(* One doubling per failure after the first.  The code leaves the loop at  *)
(* the cap; doubling and capping once more would change nothing.  The      *)
(* first value is never capped.                                            *)
(***************************************************************************)
Doubled(policy, n) ==
  LET seconds[i \in 1 .. n] ==
        IF i = 1 THEN policy.base ELSE Capped(policy, 2 * seconds[i - 1])
  IN  seconds[n]

CalculateCooldown(policy, n) ==
  CASE policy.kind = "fixed" -> policy.base
    [] policy.kind = "linear" -> Capped(policy, policy.base * n)
    [] policy.kind = "exponential" -> IF n = 0 THEN 0 ELSE Doubled(policy, n)

-----------------------------------------------------------------------------
(* A run of failures of one key for one reason.                            *)
VARIABLES
  policy,       \* the policy of the reason
  failureCount, \* failures counted so far
  duration      \* seconds of cooldown the last one gave

policyVars == <<policy, failureCount, duration>>

PolicyInit == policy \in Policies /\ failureCount = 0 /\ duration = 0

Failure ==
  /\ failureCount < MaxFailures
  /\ failureCount' = failureCount + 1
  /\ duration' = CalculateCooldown(policy, failureCount')
  /\ UNCHANGED policy

PolicySpec == PolicyInit /\ [][Failure]_policyVars

-----------------------------------------------------------------------------
TwoTo(n) ==
  LET power[i \in 0 .. n] == IF i = 0 THEN 1 ELSE 2 * power[i - 1]
  IN  power[n]

Formula ==
  CASE policy.kind = "fixed" -> policy.base
    [] policy.kind = "linear" -> policy.base * failureCount
    [] policy.kind = "exponential" -> policy.base * TwoTo(failureCount - 1)

(* The duration is the formula in the comments of policy.go (lines 23 and  *)
(* 38), cut off at the cap, wherever the base itself is within the cap.    *)
MatchesFormula ==
  failureCount > 0 =>
    duration = IF policy.max = 0 \/ Formula <= policy.max THEN Formula
                                                          ELSE policy.max
=============================================================================
