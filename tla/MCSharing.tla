----------------------------- MODULE MCSharing ------------------------------
(* What requests share before and while they are sent on, each part run by *)
(* itself: the tables an instance keeps in memory, the session they wait   *)
(* to be bound, and the slots, cooldowns and quota of dispatch.  The part  *)
(* is chosen at the start, and the others stay as they were then.          *)
EXTENDS MCDispatch, ProjectBinding, CacheInvalidation

VARIABLE stage

Amid(s) == stage = s

SharingInit ==
  /\ stage \in {"cache", "binding", "dispatch"}
  /\ BindingInit
  /\ Amid("binding") \/ (row = NoSession /\ \A t \in Handlers : visit[t].on = 1)
  /\ Init /\ (Amid("dispatch") \/ \A p \in Providers : maxConcurrency[p] = 1)
  /\ CacheInit
  /\ admin[1].on = 1  \* as it may: instances only differ in what they do
  /\ Amid("cache") \/ (entity = "route" /\ admin[2].on = 1)

SharingVars == <<vars, bindingVars, cacheVars, stage>>

SharingNext ==
  /\ \/ Amid("cache") /\ CacheNext /\ UNCHANGED <<vars, bindingVars>>
     \/ Amid("binding") /\ BindingNext /\ UNCHANGED <<vars, cacheVars>>
     \/ Amid("dispatch") /\ Next /\ UNCHANGED <<bindingVars, cacheVars>>
  /\ UNCHANGED stage

SharingSpec == SharingInit /\ [][SharingNext]_SharingVars
=============================================================================
