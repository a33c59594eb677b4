----------------------------- MODULE MCDispatch -----------------------------
(* Instances of Dispatch for TLC. *)
EXTENDS Dispatch, TLC

CONSTANTS r1, r2, p1, p2, ct1, ct2, m1, m2

(* Adapters differ in what they report: a refused connection, a broken     *)
(* stream, an overloaded model, a bad request, a bad key, a departed       *)
(* client, a response cut short, an error of no known kind.                *)
Plain ==
  [kind |-> "proxy", scope |-> "provider", retryable |-> FALSE, http |-> "none",
   network |-> FALSE, connect |-> FALSE, stream |-> FALSE, explicit |-> FALSE,
   disconnect |-> FALSE, committed |-> FALSE, ct |-> All, model |-> All]

Refused == [Plain EXCEPT !.connect = TRUE, !.scope = "endpoint"]
Broken == [Plain EXCEPT !.network = TRUE, !.stream = TRUE, !.committed = TRUE]
Overloaded(ct, m) == [Plain EXCEPT !.http = "429", !.scope = "model", !.explicit = TRUE,
                                   !.ct = ct, !.model = m]
BadRequest == [Plain EXCEPT !.http = "schema", !.scope = "request"]
BadKey == [Plain EXCEPT !.http = "4xx", !.scope = "key"]
Departed == [Plain EXCEPT !.scope = "request", !.disconnect = TRUE]
CutShort == [Plain EXCEPT !.http = "5xx", !.retryable = TRUE, !.committed = TRUE]
Unknown == [Plain EXCEPT !.kind = "other"]

(* Of an overloaded model p1 names what it was called with, and p2 nothing. *)
AllErrors(p, ct, m) ==
  {Refused, Broken, Overloaded(ct, m), BadRequest, BadKey, Departed, CutShort, Unknown}
SharedErrors(p, ct, m) ==
  {Refused, IF p = p1 THEN Overloaded(ct, m) ELSE Overloaded(All, All)}

OneRoute == <<p1>>
TwoRoutes == <<p1, p2>>

SameType(p, ct) == ct
SameModel(p, m) == <<m>>
TwoModels(p, m) == <<m1, m2>>

(* p2 speaks ct2 only, and its mapping replaces every model by m2. *)
OtherType(p, ct) == IF p = p2 THEN ct2 ELSE ct
OtherModel(p, m) == IF p = p2 THEN <<m2>> ELSE <<m>>

Symmetric == Permutations(Requests)
=============================================================================
