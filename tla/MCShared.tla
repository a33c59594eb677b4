------------------------------ MODULE MCShared ------------------------------
(* What outlives a request, each part run by itself: the registrations and *)
(* rows that instances share, and the tokens of an account.  The part is   *)
(* chosen at the start, and the other stays as it was then.                *)
EXTENDS StaleSweep, TokenRefresh

VARIABLE part

Parts == {"sweep", "refresh"}
On(p) == part = p

SharedInit == part \in Parts /\ SweepInit /\ RefreshInit

SharedVars == <<sweepVars, refreshVars, part>>

SharedNext ==
  /\ \/ On("sweep") /\ SweepNext /\ UNCHANGED refreshVars
     \/ On("refresh") /\ RefreshNext /\ UNCHANGED sweepVars
  /\ UNCHANGED part

(* The fairness of the two modules, each for its part. *)
SharedFairness ==
  /\ WF_sweepVars(On("sweep") /\ Tick)
  /\ \A i \in Instances :
       /\ WF_sweepVars(On("sweep") /\ Heartbeat(i))
       /\ WF_sweepVars(On("sweep") /\ SweepStep(i))
       /\ WF_sweepVars(On("sweep") /\ LeadStep(i))
  /\ \A i \in Lasting : WF_sweepVars(On("sweep") /\ Start(i))
  /\ \A c \in Callers :
       /\ WF_refreshVars(On("refresh") /\ CallStep(c))
       /\ SF_refreshVars(On("refresh") /\ Lock(c))

SharedSpec == SharedInit /\ [][SharedNext]_SharedVars /\ SharedFairness
=============================================================================
