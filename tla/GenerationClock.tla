--------------------------- MODULE GenerationClock ---------------------------
(***************************************************************************)
(* What the generation counters of the providers promise their readers:    *)
(* the shared version of a provider only grows, one step at a time; an     *)
(* instance knows some version that was current at one time, never one     *)
(* from the future, and what it knows only grows, until it restarts and    *)
(* knows nothing.                                                          *)
(*                                                                         *)
(* This is the contract stated in the comments of internal/cooldown/       *)
(* events.go ("Redis is the only truth of the generation", "providerGen    *)
(* only moves forward"); module Cooldown implements it.                    *)
(***************************************************************************)
EXTENDS Naturals

CONSTANTS Instances, Providers

VARIABLES
  version, \* the shared counter of each provider
  known    \* per instance: the version it knows of each provider

ClockInit ==
  /\ version = [p \in Providers |-> 0]
  /\ known = [i \in Instances |-> [p \in Providers |-> 0]]

(* A writer advances the version and knows the one it made. *)
Advance(i, p) ==
  /\ version' = [version EXCEPT ![p] = @ + 1]
  /\ known' = [known EXCEPT ![i][p] = version[p] + 1]

(* An instance catches up with any version up to the current one. *)
Learn(i, p) ==
  /\ \E v \in known[i][p] .. version[p] : known' = [known EXCEPT ![i][p] = v]
  /\ UNCHANGED version

Forget(i) ==
  /\ known' = [known EXCEPT ![i] = [p \in Providers |-> 0]]
  /\ UNCHANGED version

ClockNext ==
  \E i \in Instances :
    Forget(i) \/ \E p \in Providers : Advance(i, p) \/ Learn(i, p)

ClockSpec == ClockInit /\ [][ClockNext]_<<version, known>>
=============================================================================
