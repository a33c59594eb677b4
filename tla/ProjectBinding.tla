--------------------------- MODULE ProjectBinding ---------------------------
(***************************************************************************)
(* One session under force_project_binding: a request of a session without *)
(* a project waits (waiter/project_waiter.go) until an administrator binds *)
(* or rejects the session (service/admin.go), on this or another server.   *)
(* Both know it through the session repository of their server, which      *)
(* keeps three copies (repository/cached/session.go): a map in memory, an  *)
(* entry in Redis, and the row, and looks for them in this order.          *)
(*                                                                         *)
(* A session is its project and the time of its rejection.  Errors of the  *)
(* database are left out; an entry of Redis may vanish or not be written.  *)
(* The request brings no project of its own, from its header or its token. *)
(* The clean-up of old sessions is left out: while a request waits, its    *)
(* session is not old.                                                     *)
(***************************************************************************)
EXTENDS Integers, FiniteSets

CONSTANTS
  Servers,
  Visits,             \* requests of the session
  Rulings,            \* calls of RejectSession
  Binding,            \* the call of UpdateSessionProject
  BroadcastCooldown,  \* how long a rejection holds
  MaxTime,            \* bound: the clock
  MaxLosses           \* bound: entries that are not written to Redis

ASSUME BindingAssumption ==
  /\ Binding \notin Visits \cup Rulings /\ Visits \cap Rulings = {}
  /\ {BroadcastCooldown, MaxTime, MaxLosses} \subseteq Nat

VARIABLES
  row,     \* the row of the session
  entry,   \* the session's entry in Redis
  local,   \* per server: the session in its map
  visit,   \* per call: where it is
  clock,
  losses,
  alone    \* history: others have only waited since the binding began

storeVars == <<row, entry, local>>
bindingVars == <<storeVars, visit, clock, losses, alone>>

Never == -1
NoSession == [project |-> Never, rejected |-> Never]
NewSession == [project |-> 0, rejected |-> Never]

Handlers == Visits \cup Rulings \cup {Binding}
Over == {"through", "refused", "timed out", "left", "done", "missed"}
Copies == [project : {Never, 0, 1}, rejected : {Never} \cup 0 .. MaxTime]

BindingTypeOK ==
  /\ {row, entry} \subseteq Copies /\ local \in [Servers -> Copies]
  /\ visit \in [Handlers ->
       [on : Servers, copy : Copies, asked : BOOLEAN,
        for : {"load", "ingress", "through", "latest", "clear", "poll", "bind", "reject"},
        at : Over \cup {"new", "get", "coord", "repo", "install", "fill", "backfill", "create",
                        "touch", "touch local", "save", "keep", "write", "wait"}]]
  /\ clock \in 0 .. MaxTime /\ losses \in 0 .. MaxLosses
  /\ alone \in BOOLEAN

BindingInit ==
  /\ row \in {NoSession, NewSession}
  /\ entry = NoSession
  /\ local = [i \in Servers |-> NoSession]
  /\ visit \in [Handlers -> [on : Servers, at : {"new"}, for : {"load"},
                              copy : {NoSession}, asked : {FALSE}]]
  /\ clock = 0 /\ losses = 0
  /\ alone = FALSE

-----------------------------------------------------------------------------
Is(t, at) == visit[t].at = at
Here(t) == local[visit[t].on]
Becomes(t, c) == visit' = [visit EXCEPT ![t] = c]
Rests(c, at) == [c EXCEPT !.at = at, !.copy = NoSession,
                          !.for = IF at \in Over THEN "load" ELSE c.for,
                          !.asked = c.asked /\ at \notin Over]

(* What a call does with the session that GetBySessionID returned to it:   *)
(* the proxy handler touches or creates it; the waiter looks again for its *)
(* latest state and then polls; the administrator changes and writes it.   *)
Loaded(c, s) ==
  IF s = NoSession THEN [c EXCEPT !.at = "create"]
  ELSE [c EXCEPT !.at = "touch", !.for = IF s.project > 0 THEN "through" ELSE "ingress"]

AtIngress(c, s) ==
  IF s.project > 0 THEN Rests(c, "through") ELSE [c EXCEPT !.at = "get", !.for = "latest"]

Latest(c, s) ==
  CASE s.rejected # Never /\ clock - s.rejected < BroadcastCooldown -> Rests(c, "refused")
    [] s.rejected # Never ->
         [c EXCEPT !.at = "save", !.for = "clear", !.copy = [s EXCEPT !.rejected = Never]]
    [] OTHER -> Rests(c, IF s.project > 0 THEN "through" ELSE "wait")

Polled(c, s) ==
  CASE s.rejected # Never -> Rests(c, "refused")
    [] OTHER -> Rests(c, IF s.project > 0 THEN "through" ELSE "wait")

Changed(c, s) ==
  IF s = NoSession THEN Rests(c, "missed")
  ELSE [c EXCEPT !.at = "save",
                 !.copy = IF c.for = "bind" THEN [s EXCEPT !.project = 1]
                                            ELSE [s EXCEPT !.rejected = clock]]

Answered(c, s) ==
  CASE c.for = "load" -> Loaded(c, s)
    [] c.for = "ingress" -> AtIngress(c, s)
    [] c.for = "latest" -> Latest(c, s)
    [] c.for = "poll" -> Polled(c, s)
    [] c.for \in {"bind", "reject"} -> Changed(c, s)

(* What follows when a session has been written. *)
Resumed(c) ==
  CASE c.for = "ingress" -> [Rests(c, "get") EXCEPT !.for = "ingress"]
    [] c.for = "through" -> Rests(c, "through")
    [] c.for = "clear" -> Rests(c, IF c.copy.project > 0 THEN "through" ELSE "wait")
    [] c.for \in {"bind", "reject"} -> Rests(c, "done")

-----------------------------------------------------------------------------
(* GetBySessionID: the map, then Redis, then the row; what is found is put *)
(* into what was looked at before, as it was when it was read.             *)
LookLocal(t) ==
  /\ Is(t, "get")
  /\ Becomes(t, IF Here(t) # NoSession THEN Answered(visit[t], Here(t))
                                       ELSE [visit[t] EXCEPT !.at = "coord"])
  /\ UNCHANGED <<storeVars, losses>>

ReadCoord(t) ==
  /\ Is(t, "coord")
  /\ Becomes(t, IF entry # NoSession THEN [visit[t] EXCEPT !.at = "install", !.copy = entry]
                                     ELSE [visit[t] EXCEPT !.at = "repo"])
  /\ UNCHANGED <<storeVars, losses>>

ReadRepo(t) ==
  /\ Is(t, "repo")
  /\ Becomes(t, IF row # NoSession THEN [visit[t] EXCEPT !.at = "fill", !.copy = row]
                                   ELSE Answered(visit[t], NoSession))
  /\ UNCHANGED <<storeVars, losses>>

Put(t) == local' = [local EXCEPT ![visit[t].on] = visit[t].copy]

Install(t) ==
  /\ \/ Is(t, "install") /\ Becomes(t, Answered(visit[t], visit[t].copy))
     \/ Is(t, "fill") /\ Becomes(t, [visit[t] EXCEPT !.at = "backfill"])
  /\ Put(t)
  /\ UNCHANGED <<row, entry, losses>>

(* writeCoord fills Redis after a read or ends a write; its failure is     *)
(* logged.                                                                 *)
WriteCoord(t) ==
  /\ \/ Is(t, "backfill") /\ Becomes(t, Answered(visit[t], visit[t].copy))
     \/ Is(t, "write") /\ Becomes(t, Resumed(visit[t]))
  /\ \/ entry' = visit[t].copy /\ UNCHANGED losses
     \/ losses < MaxLosses /\ losses' = losses + 1 /\ UNCHANGED entry
  /\ UNCHANGED <<row, local>>

(* Create and Update write the row, then the map, then Redis.  A row that  *)
(* another request created meanwhile fails Create, which is ignored.       *)
CreateRow(t) ==
  /\ Is(t, "create")
  /\ LET c == [visit[t] EXCEPT !.for = "ingress"]
     IN IF row = NoSession
        THEN /\ row' = NewSession
             /\ Becomes(t, [c EXCEPT !.at = "keep", !.copy = NewSession])
        ELSE Becomes(t, Resumed(c)) /\ UNCHANGED row
  /\ UNCHANGED <<entry, local, losses>>

SaveRow(t) ==
  /\ Is(t, "save")
  /\ row' = visit[t].copy
  /\ Becomes(t, [visit[t] EXCEPT !.at = "keep"])
  /\ UNCHANGED <<entry, local, losses>>

(* Faulty form of what follows: the map keeps what it had. *)
KeepNothing(t) ==
  /\ Is(t, "keep")
  /\ Becomes(t, [visit[t] EXCEPT !.at = "write"])
  /\ UNCHANGED <<storeVars, losses>>

Keep(t) ==
  /\ Is(t, "keep")
  /\ Put(t)
  /\ Becomes(t, [visit[t] EXCEPT !.at = "write"])
  /\ UNCHANGED <<row, entry, losses>>

(* Touch renews the row, and Redis with what the map holds. *)
Touch(t) ==
  /\ Is(t, "touch")
  /\ Becomes(t, IF row = NoSession THEN Resumed(visit[t])
                                   ELSE [visit[t] EXCEPT !.at = "touch local"])
  /\ UNCHANGED <<storeVars, losses>>

TouchLocal(t) ==
  /\ Is(t, "touch local")
  /\ Becomes(t, IF Here(t) = NoSession THEN Resumed(visit[t])
                ELSE [visit[t] EXCEPT !.at = "write", !.copy = Here(t)])
  /\ UNCHANGED <<storeVars, losses>>

StoreStep(t) ==
  \/ LookLocal(t) \/ ReadCoord(t) \/ ReadRepo(t) \/ Install(t) \/ WriteCoord(t)
  \/ CreateRow(t) \/ SaveRow(t) \/ Keep(t) \/ Touch(t) \/ TouchLocal(t)

-----------------------------------------------------------------------------
BeginCall(t) ==
  /\ Is(t, "new")
  /\ Becomes(t, [visit[t] EXCEPT !.at = "get",
                                 !.for = IF t \in Visits THEN "load"
                                         ELSE IF t = Binding THEN "bind" ELSE "reject"])
  /\ UNCHANGED <<storeVars, losses>>

(* The waiter's ticker fires: it asks the repository of its own server. *)
Poll(t) ==
  /\ Is(t, "wait")
  /\ Becomes(t, [visit[t] EXCEPT !.at = "get", !.for = "poll",
                                 !.asked = alone /\ Is(Binding, "done")])
  /\ UNCHANGED <<storeVars, losses>>

TimesOut(t) == Is(t, "wait") /\ Becomes(t, Rests(visit[t], "timed out"))
ClientLeaves(t) == Is(t, "wait") /\ Becomes(t, Rests(visit[t], "left"))
EndWait(t) == (TimesOut(t) \/ ClientLeaves(t)) /\ UNCHANGED <<storeVars, losses>>

-----------------------------------------------------------------------------
(* The TTL of the entry passes. *)
EntryExpires ==
  /\ entry # NoSession
  /\ entry' = NoSession
  /\ UNCHANGED <<row, local, clock>>

Minute == clock < MaxTime /\ clock' = clock + 1 /\ UNCHANGED storeVars

-----------------------------------------------------------------------------
Quiet == \A t \in Visits \cup Rulings : visit[t].at \in Over \cup {"new", "wait"}

(* Steps of waiting that change no copy of the session. *)
OnlyWaits(t) ==
  \/ Is(t, "wait")
  \/ Is(t, "get") /\ visit[t].for = "poll" /\ Here(t) # NoSession

CallStep(t) == BeginCall(t) \/ StoreStep(t) \/ Poll(t) \/ EndWait(t)

BindingNext ==
  \/ /\ CallStep(Binding) /\ UNCHANGED clock
     /\ alone' = IF Is(Binding, "new") THEN Quiet ELSE alone
  \/ /\ \E t \in Visits \cup Rulings : CallStep(t) /\ alone' = (alone /\ OnlyWaits(t))
     /\ UNCHANGED clock
  \/ (EntryExpires \/ Minute) /\ UNCHANGED <<visit, losses, alone>>

BindingSpec == BindingInit /\ [][BindingNext]_bindingVars

-----------------------------------------------------------------------------
(* Overlooked: a poll that began after the administrator's call returned,  *)
(* with nothing but waiting going on since that call began, ends in a wait.*)
Overlooked(t) == alone /\ Is(t, "wait") /\ visit[t].asked

(* This does not happen to a request on the server of that call            *)
(* (UpdateSessionProject and the polls of WaitForProject).                 *)
OwnBindingsAreSeen ==
  \A t \in Visits : visit[t].on = visit[Binding].on => ~Overlooked(t)

(* Nor to one on any other server: "waits for session to be assigned a     *)
(* project / Returns nil if project is assigned"                           *)
(* (waiter/project_waiter.go:82).                                          *)
BindingsAreSeen == \A t \in Visits : ~Overlooked(t)
=============================================================================
