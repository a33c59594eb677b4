------------------------------- MODULE Delays -------------------------------
(* The two ways in which a failing provider is made to wait: a cooldown,   *)
(* which keeps it from the requests of all, and the wait of one request    *)
(* before it tries the provider again.  They have no state in common.      *)
EXTENDS CooldownPolicy, RetryBackoff

DelaysSpec == PolicySpec /\ BackoffSpec

(* Both ways to make a provider wait follow their design: a cooldown lasts *)
(* as long as the formula of its policy says (policy.go), and a retry of a *)
(* route waits as long as the retry configuration says (executor.go,       *)
(* calculateBackoff).                                                      *)
DelaysFollowDesign == MatchesFormula /\ FollowsDesign
=============================================================================
