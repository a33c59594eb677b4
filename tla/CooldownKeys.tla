---------------------------- MODULE CooldownKeys ----------------------------
(***************************************************************************)
(* The key space of the cooldown manager (internal/cooldown/types.go) and  *)
(* the two look-ups of manager.go that search it.                          *)
(*                                                                         *)
(* A cooldown is stored under <<provider, client type, model>>; an empty   *)
(* client type or model stands for all of them and is written All here.    *)
(* A table of cooldowns maps every key to the time its cooldown ends, and  *)
(* to NoCooldown when the table has no entry for it.                       *)
(***************************************************************************)
EXTENDS Naturals

CONSTANTS
  Providers,    \* provider ids
  ClientTypes,  \* non-empty client types
  Models,       \* non-empty model names
  All           \* the empty client type or model

ASSUME AnyAssumption == All \notin ClientTypes \cup Models

CooldownKey ==
  [p : Providers, ct : ClientTypes \cup {All}, m : Models \cup {All}]

(* Times count ticks from 0, so "no entry" is a time that has passed. *)
NoCooldown == 0

Time == Nat

Scopes == {"request", "model", "key", "endpoint", "provider"}

(***************************************************************************)
(* The key RecordFailure writes for an error of a scope.  ScopeRequest     *)
(* writes none; any scope the switch does not name keeps all dimensions.   *)
(***************************************************************************)
EffectiveKey(p, ct, m, scope) ==
  [p  |-> p,
   ct |-> IF scope = "provider" THEN All ELSE ct,
   m  |-> IF scope \in {"key", "endpoint", "provider"} THEN All ELSE m]

(* Faulty forms: the level of any client type, or the exact key, forgotten. *)
CheckedWithoutAnyClient(p, ct, m) ==
  {[p |-> p, ct |-> All, m |-> All], [p |-> p, ct |-> ct, m |-> All],
   [p |-> p, ct |-> ct, m |-> m]}

CheckedWithoutExact(p, ct, m) ==
  {[p |-> p, ct |-> All, m |-> All], [p |-> p, ct |-> ct, m |-> All],
   [p |-> p, ct |-> All, m |-> m]}

(***************************************************************************)
(* The keys IsInCooldown consults.  Levels 2-4 are skipped when the        *)
(* dimension they need is empty.                                           *)
(***************************************************************************)
CheckedKeys(p, ct, m) ==
  {[p |-> p, ct |-> All, m |-> All]}
    \cup (IF ct # All THEN {[p |-> p, ct |-> ct, m |-> All]} ELSE {})
    \cup (IF m # All THEN {[p |-> p, ct |-> All, m |-> m]} ELSE {})
    \cup (IF ct # All /\ m # All THEN {[p |-> p, ct |-> ct, m |-> m]} ELSE {})

IsInCooldown(table, t, p, ct, m) ==
  \E k \in CheckedKeys(p, ct, m) : t < table[k]

(***************************************************************************)
(* getCooldownUntilLocked: the latest end among the same levels, looked up *)
(* without the guards; NoCooldown when none of them is active.             *)
(***************************************************************************)
Levels(p, ct, m) ==
  {[p |-> p, ct |-> c, m |-> x] : c \in {All, ct}, x \in {All, m}}

ActiveEnds(table, t, p, ct, m) ==
  {table[k] : k \in {l \in Levels(p, ct, m) : t < table[l]}}

GetCooldownUntil(table, t, p, ct, m) ==
  IF ActiveEnds(table, t, p, ct, m) = {}
    THEN NoCooldown
    ELSE CHOOSE u \in ActiveEnds(table, t, p, ct, m) :
           \A v \in ActiveEnds(table, t, p, ct, m) : v <= u

(* The entries of a table that have not expired; the others read as absent. *)
Unexpired(table, t) ==
  [k \in DOMAIN table |-> IF t < table[k] THEN table[k] ELSE NoCooldown]

(* A table with the entries of K dropped. *)
Without(table, K) ==
  [k \in DOMAIN table |-> IF k \in K THEN NoCooldown ELSE table[k]]

(* Faulty form: entries that are gone from the other table stay. *)
Merged(table, p, entries) ==
  [k \in DOMAIN table |->
     IF k.p = p /\ entries[k] # NoCooldown THEN entries[k] ELSE table[k]]

(* A table with the entries of provider p replaced by those of another. *)
Replaced(table, p, entries) ==
  [k \in DOMAIN table |-> IF k.p = p THEN entries[k] ELSE table[k]]
=============================================================================
