----------------------------- MODULE MCCooldown -----------------------------
(* Small instances of Cooldown: one provider, one or two client types, one *)
(* model.                                                                  *)
EXTENDS Cooldown, TLC

CONSTANTS i1, i2, p1, c1, c2, m1, r1, reader

ProviderKey == [p |-> p1, ct |-> All, m |-> All]
ClientKey == [p |-> p1, ct |-> c1, m |-> All]
ModelKey == [p |-> p1, ct |-> c1, m |-> m1]

AnyClientKey == [p |-> p1, ct |-> All, m |-> m1]

AllLevels == {ProviderKey, ClientKey, AnyClientKey, ModelKey}
OneKey == {ModelKey}

(* One tick more for each failure, at most two: a linear policy with a cap. *)
LinearPolicy(r, n) == IF n < 2 THEN n ELSE 2

AllThreads == Instances \X {reader, Subscriber}
LookUpsOnly == Instances \X {reader}
SecondInstanceReloads == {i2} \X {reader, Subscriber}
OneOfEach == {<<i1, reader>>, <<i2, Subscriber>>}
FirstInstanceLooks == {<<i1, reader>>}

Symmetry == Permutations(Instances)
=============================================================================
