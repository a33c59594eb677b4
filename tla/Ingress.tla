------------------------------ MODULE Ingress ------------------------------
(***************************************************************************)
(* ingress (internal/handler/proxy.go) with its upload limiter             *)
(* (internal/handler/upload_limit.go): what a request passes between Add   *)
(* and Done of the tracker.  A large upload takes one of a few slots       *)
(* before its body is read, waits some time for one when all are taken,    *)
(* and keeps it until the request has been answered.                       *)
(*                                                                         *)
(* The slots are a buffered channel: those who wait for it are served in   *)
(* turn, and a slot that is given back goes to the first of them.  The     *)
(* waiting time is not zero, as by default.                                *)
(***************************************************************************)
EXTENDS RequestTracker, Sequences

CONSTANT UploadSlots  \* maxConcurrency

ASSUME IngressAssumption == UploadSlots \in Nat \ {0}

VARIABLES
  stage,    \* per request: where it is in ingress
  holding,  \* large uploads that hold a slot
  queue     \* large uploads that wait for one

uploadVars == <<stage, holding, queue>>
ingressVars == <<vars, uploadVars>>

IngressInit ==
  /\ Init
  /\ stage = [r \in Requests |-> "new"]
  /\ holding = {}
  /\ queue = <<>>

-----------------------------------------------------------------------------
To(r, from, to) ==
  /\ ~panicked
  /\ request[r] = "working" /\ stage[r] = from
  /\ stage' = [stage EXCEPT ![r] = to]
  /\ UNCHANGED vars

(* Not a POST, the kill switch, or a body that is too large by its header. *)
TurnAway(r) ==
  /\ To(r, "new", "answered")
  /\ UNCHANGED <<holding, queue>>

(* acquire: a small upload needs no slot; a large one, or one of unknown   *)
(* length, takes a free one or waits.                                      *)
PassSmall(r) ==
  /\ To(r, "new", "serving")
  /\ UNCHANGED <<holding, queue>>

TakeSlot(r) ==
  /\ Cardinality(holding) < UploadSlots
  /\ To(r, "new", "serving")
  /\ holding' = holding \cup {r}
  /\ UNCHANGED queue

WaitForSlot(r) ==
  /\ Cardinality(holding) >= UploadSlots
  /\ To(r, "new", "queued")
  /\ queue' = Append(queue, r)
  /\ UNCHANGED holding

(* The timer fires, or the client leaves. *)
QueueWithout(i) == [j \in 1 .. Len(queue) - 1 |-> IF j < i THEN queue[j] ELSE queue[j + 1]]

GiveUp(r) ==
  /\ To(r, "queued", "answered")
  /\ \E i \in DOMAIN queue : queue[i] = r /\ queue' = QueueWithout(i)
  /\ UNCHANGED holding

(* Faulty form of what follows: the slot is not given back. *)
ServeWithoutRelease(r) ==
  /\ To(r, "serving", "answered")
  /\ UNCHANGED <<holding, queue>>

(* The request ends: its body cannot be read or is too large, or the rest  *)
(* of the chain has run.  The slot is released, to the first that waits.   *)
Serve(r) ==
  LET next == IF r \in holding /\ queue # <<>> THEN {Head(queue)} ELSE {}
  IN  /\ ~panicked
      /\ request[r] = "working" /\ stage[r] = "serving"
      /\ stage' = [q \in Requests |-> IF q = r THEN "answered"
                                      ELSE IF q \in next THEN "serving"
                                      ELSE stage[q]]
      /\ holding' = (holding \ {r}) \cup next
      /\ queue' = IF next = {} THEN queue ELSE Tail(queue)
      /\ UNCHANGED vars

(* Done is deferred first and so runs last. *)
Depart(r) ==
  /\ stage[r] = "answered"
  /\ DoneUncount(r)
  /\ UNCHANGED uploadVars

-----------------------------------------------------------------------------
RequestStep(r) ==
  \/ TurnAway(r) \/ PassSmall(r) \/ TakeSlot(r) \/ WaitForSlot(r)
  \/ GiveUp(r) \/ Serve(r) \/ Depart(r)
  \/ (Enter(r) \/ Leave(r)) /\ UNCHANGED uploadVars

ShutdownStep(s) == Progress(s) /\ UNCHANGED uploadVars
WaitStep(s) == WaitGroupEmpty(s) /\ UNCHANGED uploadVars

IngressNext ==
  \/ \E r \in Requests : RequestStep(r)
  \/ \E s \in Shutdowns :
       \/ ShutdownStep(s) \/ WaitStep(s)
       \/ (MakeNotifyCh(s) \/ SelectDeadline(s)) /\ UNCHANGED uploadVars

(* Goroutines run, the timer of a waiting upload fires, and requests end;  *)
(* the deadline of the shutdown need not fire.                             *)
IngressSpec ==
  /\ IngressInit /\ [][IngressNext]_ingressVars
  /\ \A r \in Requests : WF_ingressVars(RequestStep(r))
  /\ \A s \in Shutdowns :
       WF_ingressVars(ShutdownStep(s)) /\ WF_ingressVars(WaitStep(s))

-----------------------------------------------------------------------------
(* A shutdown that returns true has waited until every request that was at *)
(* work when new ones began to be refused has been answered, the uploads   *)
(* that waited for a slot among them, and has given its slot back.         *)
WaitsForAnswers ==
  \A s \in Shutdowns : shutdown[s] = "clean" =>
    \A r \in early : stage[r] = "answered" /\ r \notin holding

(* No slot is lost or taken twice, whoever gives up while slots change     *)
(* hands: an upload waits only while others hold all of them.              *)
QueueMeansFull ==
  /\ queue # <<>> => Cardinality(holding) = UploadSlots
  /\ \A r \in holding : stage[r] = "serving"
  /\ \A r \in Requests : stage[r] = "queued" => \E i \in DOMAIN queue : queue[i] = r
=============================================================================
