--------------------------- MODULE RequestTracker ---------------------------
(***************************************************************************)
(* internal/core/request_tracker.go: requests register with Add and leave  *)
(* with Done, while a goroutine that shuts the server down                 *)
(* (cmd/maxx/main.go, shutdownServer) waits for them in GracefulShutdown.  *)
(*                                                                         *)
(* Every atomic operation, channel operation and WaitGroup call is a step  *)
(* of its own.  The deadline may fire at any moment of the wait: no clock  *)
(* is modelled, and the caller's choice of the longest wait (two minutes,  *)
(* or none when it saw no request) only decides how soon that is.          *)
(***************************************************************************)
EXTENDS Naturals, FiniteSets

CONSTANTS
  Requests,
  Shutdowns,  \* goroutines that call GracefulShutdown: a signal, a restart
  NotifyCap   \* buffer of notifyCh (100 in the program)

ASSUME TrackerAssumption == IsFiniteSet(Requests) /\ NotifyCap \in Nat

VARIABLES
  request,      \* per request: where it is in Add, its work, and Done
  wg,           \* counter of the WaitGroup
  activeCount,  \* requests counted
  isShutdown,   \* new requests are refused
  closed,       \* shutdownCh is closed
  notifyCh,     \* signals in the buffer of notifyCh
  shutdown,     \* per shutdown: where it is in GracefulShutdown
  done,         \* per shutdown: its waiting goroutine saw the WaitGroup empty
  panicked,     \* shutdownCh was closed twice: the process is gone
  early         \* history: requests at work when isShutdown was first set

counters == <<wg, activeCount>>
flags == <<isShutdown, closed, notifyCh, done, panicked, early>>
vars == <<request, counters, flags, shutdown>>

RequestPhase ==
  {"new", "checked", "added", "working", "uncounted", "notifying", "gone",
   "refused"}

ShutdownPhase ==
  {"idle", "noticed", "marked", "checking", "waiting", "draining", "clean",
   "timeout"}

TrackerTypeOK ==
  /\ request \in [Requests -> RequestPhase]
  /\ wg \in Nat
  /\ activeCount \in Nat
  /\ notifyCh \in 0 .. NotifyCap
  /\ shutdown \in [Shutdowns -> ShutdownPhase]
  /\ done \in [Shutdowns -> BOOLEAN]
  /\ early \subseteq Requests
  /\ {isShutdown, closed, panicked} \subseteq BOOLEAN

Init ==
  /\ request = [r \in Requests |-> "new"]
  /\ wg = 0
  /\ activeCount = 0
  /\ isShutdown = FALSE
  /\ closed = FALSE
  /\ notifyCh = 0
  /\ shutdown = [s \in Shutdowns |-> "idle"]
  /\ done = [s \in Shutdowns |-> FALSE]
  /\ panicked = FALSE
  /\ early = {}

-----------------------------------------------------------------------------
Move(r, from, to) ==
  /\ ~panicked
  /\ request[r] = from
  /\ request' = [request EXCEPT ![r] = to]
  /\ UNCHANGED shutdown

(* Add: check the flag, join the WaitGroup, count. *)
AddCheck(r) ==
  /\ Move(r, "new", IF isShutdown THEN "refused" ELSE "checked")
  /\ UNCHANGED <<counters, flags>>

AddJoin(r) ==
  /\ Move(r, "checked", "added")
  /\ wg' = wg + 1
  /\ UNCHANGED <<activeCount, flags>>

AddCount(r) ==
  /\ Move(r, "added", "working")
  /\ activeCount' = activeCount + 1
  /\ UNCHANGED <<wg, flags>>

(* Faulty form of Done: the WaitGroup is not left. *)
DoneWithoutLeaving(r) ==
  /\ Move(r, "uncounted", "notifying")
  /\ UNCHANGED <<counters, flags>>

(* Done: uncount, leave the WaitGroup, tell a shutdown if the buffer has room. *)
DoneUncount(r) ==
  /\ Move(r, "working", "uncounted")
  /\ activeCount' = activeCount - 1
  /\ UNCHANGED <<wg, flags>>

DoneLeave(r) ==
  /\ Move(r, "uncounted", "notifying")
  /\ wg' = wg - 1
  /\ UNCHANGED <<activeCount, flags>>

DoneNotify(r) ==
  /\ Move(r, "notifying", "gone")
  /\ notifyCh' = IF isShutdown /\ notifyCh < NotifyCap THEN notifyCh + 1
                                                       ELSE notifyCh
  /\ UNCHANGED <<counters, isShutdown, closed, done, panicked, early>>

-----------------------------------------------------------------------------
Step(s, from, to) ==
  /\ ~panicked
  /\ shutdown[s] = from
  /\ shutdown' = [shutdown EXCEPT ![s] = to]
  /\ UNCHANGED <<request, counters>>

(* GracefulShutdown: a new channel, the flag, the closing of shutdownCh. *)
MakeNotifyCh(s) ==
  /\ Step(s, "idle", "noticed")
  /\ notifyCh' = 0
  /\ UNCHANGED <<isShutdown, closed, done, panicked, early>>

MarkShutdown(s) ==
  /\ Step(s, "noticed", "marked")
  /\ isShutdown' = TRUE
  /\ early' = IF isShutdown THEN early
                            ELSE {r \in Requests : request[r] = "working"}
  /\ UNCHANGED <<closed, notifyCh, done, panicked>>

CloseShutdownCh(s) ==
  /\ Step(s, "marked", "checking")
  /\ closed' = TRUE
  /\ panicked' = closed
  /\ UNCHANGED <<isShutdown, notifyCh, done, early>>

(* Nothing counted: return at once.  Otherwise start to wait. *)
CheckCount(s) ==
  /\ Step(s, "checking", IF activeCount = 0 THEN "clean" ELSE "waiting")
  /\ UNCHANGED flags

(* The goroutine in wg.Wait. *)
WaitGroupEmpty(s) ==
  /\ ~panicked
  /\ shutdown[s] \in {"waiting", "draining"}
  /\ wg = 0
  /\ ~done[s]
  /\ done' = [done EXCEPT ![s] = TRUE]
  /\ UNCHANGED <<request, counters, shutdown, isShutdown, closed, notifyCh,
                 panicked, early>>

(* Faulty form: the first signal is taken for the last one. *)
FirstSignalReturns(s) ==
  /\ notifyCh > 0
  /\ Step(s, "waiting", "clean")
  /\ notifyCh' = notifyCh - 1
  /\ UNCHANGED <<isShutdown, closed, done, panicked, early>>

(* The select loop. *)
SelectDone(s) ==
  /\ done[s]
  /\ Step(s, "waiting", "clean")
  /\ UNCHANGED flags

SelectNotify(s) ==
  /\ notifyCh > 0
  /\ Step(s, "waiting", IF activeCount = 0 THEN "draining" ELSE "waiting")
  /\ notifyCh' = notifyCh - 1
  /\ UNCHANGED <<isShutdown, closed, done, panicked, early>>

SelectDeadline(s) ==
  /\ Step(s, "waiting", "timeout")
  /\ UNCHANGED flags

(* After a signal that left nobody counted: wait for the WaitGroup alone. *)
Drained(s) ==
  /\ done[s]
  /\ Step(s, "draining", "clean")
  /\ UNCHANGED flags

-----------------------------------------------------------------------------
Enter(r) == AddCheck(r) \/ AddJoin(r) \/ AddCount(r)
Leave(r) == DoneLeave(r) \/ DoneNotify(r)

Progress(s) ==
  \/ MarkShutdown(s) \/ CloseShutdownCh(s) \/ CheckCount(s)
  \/ SelectDone(s) \/ SelectNotify(s) \/ Drained(s)

Next ==
  \/ \E r \in Requests : Enter(r) \/ DoneUncount(r) \/ Leave(r)
  \/ \E s \in Shutdowns :
       MakeNotifyCh(s) \/ Progress(s) \/ WaitGroupEmpty(s) \/ SelectDeadline(s)

Spec == Init /\ [][Next]_vars

-----------------------------------------------------------------------------
Begun(s) == shutdown[s] # "idle"
Returned(s) == shutdown[s] \in {"clean", "timeout"}

(* A shutdown that has begun returns once every request has ended, without *)
(* the help of the deadline, and whatever signals Done dropped because the *)
(* buffer was full or replaced (lines 56-59, 118-162).                     *)
ShutdownReturns == \A s \in Shutdowns : Begun(s) ~> Returned(s)

(* "All requests completed, shutdown clean" (line 146): no request is at   *)
(* work, or on its way to it, once a shutdown has returned true.           *)
CleanMeansEmpty ==
  (\E s \in Shutdowns : shutdown[s] = "clean") =>
    \A r \in Requests : request[r] \notin {"checked", "added", "working"}
=============================================================================
