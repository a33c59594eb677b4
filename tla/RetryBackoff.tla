---------------------------- MODULE RetryBackoff ----------------------------
(***************************************************************************)
(* The wait between two attempts of a request at one provider:             *)
(* calculateBackoff (internal/executor/executor.go) as the dispatch loop   *)
(* calls it with the number of the attempt that failed.  A provider with   *)
(* DisableErrorCooldown is tried again without a limit on attempts.        *)
(*                                                                         *)
(* The wait grows as a float64 and is converted to a time.Duration, a      *)
(* signed integer of IntBits bits, before it is compared with the cap.  A  *)
(* float out of range converts to the least integer on amd64 and to the    *)
(* greatest one on arm64.  Rates are whole numbers here.                   *)
(***************************************************************************)
EXTENDS Integers

CONSTANTS
  Configs,     \* retry configurations: [initial, rate, max]
  IntBits,     \* width of time.Duration (64 in the program)
  MaxAttempts  \* bound on the attempts

ASSUME ConfigsAssumption ==
  /\ \A c \in Configs : {c.initial, c.rate, c.max} \subseteq Nat
  /\ MaxAttempts \in Nat

VARIABLES
  config,      \* the retry configuration of the request
  attempt,     \* attempts that failed so far
  waitTime     \* the last wait

backoffVars == <<config, attempt, waitTime>>

LeastDuration == -(2 ^ (IntBits - 1))
GreatestDuration == 2 ^ (IntBits - 1) - 1

Durations(wait) ==
  IF wait <= GreatestDuration THEN {wait}
                              ELSE {LeastDuration, GreatestDuration}

(* The wait before it is capped: n times multiplied by the rate.           *)
Wait(c, n) ==
  LET wait[i \in 0 .. n] == IF i = 0 THEN c.initial ELSE wait[i - 1] * c.rate
  IN  wait[n]

CalculateBackoff(n) ==
  {IF d > config.max THEN config.max ELSE d : d \in Durations(Wait(config, n))}

BackoffInit == config \in Configs /\ attempt = 0 /\ waitTime = 0

RetryWait ==
  /\ attempt < MaxAttempts
  /\ waitTime' \in CalculateBackoff(attempt)
  /\ attempt' = attempt + 1
  /\ UNCHANGED config

BackoffSpec == BackoffInit /\ [][RetryWait]_backoffVars

-----------------------------------------------------------------------------
(* The interval of the design, before retry number n. *)
DesignInterval(c, n) ==
  LET interval[i \in 1 .. n] ==
        IF i = 1 THEN c.initial
        ELSE IF interval[i - 1] * c.rate > c.max THEN c.max
        ELSE interval[i - 1] * c.rate
  IN  interval[n]

(* The wait is the one of the design (internal/domain/design.md, lines     *)
(* 584-588): multiplied by the rate from one retry to the next and kept at *)
(* the maximum interval once it has reached it.                            *)
FollowsDesign == attempt > 0 => waitTime = DesignInterval(config, attempt)
=============================================================================
