-------------------------- MODULE ResponsesSocket --------------------------
(***************************************************************************)
(* The Responses API over WebSocket: a client's connection                 *)
(* (handler/responses_websocket.go) asks for one turn after the other,     *)
(* each on a session with a provider                                       *)
(* (executor/middleware_dispatch_websocket.go).  Sessions outlive turns:   *)
(* they wait in a store (adapter/provider/codex/websocket.go) and each     *)
(* occupies one of the provider's slots for as long as it is open.         *)
(*                                                                         *)
(* What the store takes out under its lock it closes right after; nobody   *)
(* else can reach the session in between, so that is one step here.  A     *)
(* connection has at most one session with a provider at a time, hence     *)
(* sessions are named by the pair.  An upstream answers what it was asked, *)
(* ends each answer with a terminal event, and may close at any time.      *)
(***************************************************************************)
EXTENDS Naturals, Sequences, FiniteSets

CONSTANTS
  Conns,
  Preference,   \* providers in the order in which the router lists them
  SlotLimit,    \* MaxConcurrency of every provider
  MaxSessions,  \* capacity of the store
  QueueSize,    \* capacity of a session's queue of events
  MaxTurns,     \* per connection
  MaxParts      \* events of an answer, the terminal one aside

Gateways == {Preference[i] : i \in DOMAIN Preference}

ASSUME SocketAssumption ==
  /\ IsFiniteSet(Conns)
  /\ Preference \in Seq(Gateways) /\ Preference # <<>>
  /\ "none" \notin Gateways
  /\ {SlotLimit, MaxSessions, QueueSize, MaxTurns, MaxParts} \subseteq Nat \ {0}

VARIABLES
  conn,     \* per connection: its serve loop and the turn it is in
  session,  \* per connection and provider: the upstream session
  taken     \* per provider: slots in use

socketVars == <<conn, session, taken>>

Keys == Conns \X Gateways

ConnStep ==
  {"idle", "get", "acquire", "dial", "put", "write", "read", "leave", "left"}

(* An event belongs to the turn it answers; "over" and "failed" end it. *)
TurnEvent == [turn : 1 .. MaxTurns, kind : {"part", "over", "failed"}]

NoSession ==
  [open |-> FALSE, stored |-> FALSE, turns |-> 0, idle |-> FALSE,
   asked |-> 0, parts |-> 0, reads |-> <<>>]

UpstreamSession ==
  [open : BOOLEAN, stored : BOOLEAN, turns : {0, 1}, idle : BOOLEAN,
   asked : 0 .. MaxTurns, parts : 0 .. MaxParts, reads : Seq(TurnEvent)]

SocketTypeOK ==
  /\ conn \in [Conns ->
       [client : BOOLEAN, step : ConnStep, turn : 0 .. MaxTurns,
        pinned : Gateways \cup {"none"}, via : DOMAIN Preference]]
  /\ session \in [Keys -> UpstreamSession]
  /\ \A k \in Keys : Len(session[k].reads) <= QueueSize
  /\ taken \in [Gateways -> 0 .. SlotLimit]

SocketInit ==
  /\ conn = [c \in Conns |->
       [client |-> TRUE, step |-> "idle", turn |-> 0, pinned |-> "none",
        via |-> 1]]
  /\ session = [k \in Keys |-> NoSession]
  /\ taken = [p \in Gateways |-> 0]

-----------------------------------------------------------------------------
ConnAt(c, step) == conn[c].step = step
Go(c, step) ==
  conn' = [conn EXCEPT ![c].step = step,
                       ![c].via = IF step \in {"idle", "leave"} THEN 1 ELSE @]

(* The provider of the turn: the pinned one, or the route it has come to.  *)
TurnProvider(c) ==
  IF conn[c].pinned # "none" THEN conn[c].pinned ELSE Preference[conn[c].via]
Key(c) == <<c, TurnProvider(c)>>
Its(c) == session[Key(c)]

(* closeOnce: the slot is given back by the close that is the first. *)
Freed(ks) ==
  [p \in Gateways |->
     taken[p] - Cardinality({k \in ks : k[2] = p /\ session[k].open})]

(* Taken out of the store and closed: a turn still reads what is queued.   *)
Out(k) ==
  IF session[k].turns = 0 THEN NoSession
  ELSE [session[k] EXCEPT !.open = FALSE, !.stored = FALSE, !.asked = 0]

(* Closes the sessions ks, and the one of a turn that ends with it.        *)
CloseSessions(ks, mine) ==
  /\ session' = [k \in Keys |->
       IF k \in mine THEN NoSession ELSE IF k \in ks THEN Out(k) ELSE session[k]]
  /\ taken' = Freed(ks \cup mine)

Stored == {k \in Keys : session[k].stored}

(* Faulty form of what follows: a turn does not keep its session. *)
PrunableAnyhow(k) == session[k].stored /\ (~session[k].open \/ session[k].idle)

(* pruneIdleLocked: closed sessions, and idle ones that serve no turn.     *)
Prunable(k) ==
  /\ session[k].stored
  /\ ~session[k].open \/ (session[k].turns = 0 /\ session[k].idle)

-----------------------------------------------------------------------------
(* The serve loop takes the next frame: a new turn. *)
BeginTurn(c) ==
  /\ ConnAt(c, "idle") /\ conn[c].client /\ conn[c].turn < MaxTurns
  /\ conn' = [conn EXCEPT ![c].step = "get", ![c].turn = @ + 1]
  /\ UNCHANGED <<session, taken>>

(* No route, no token, no attempt row, an endpoint known not to speak      *)
(* WebSocket, at the first route or at a later one: the client may try     *)
(* again, or is sent to HTTP.                                              *)
TurnRefused(c) ==
  /\ ConnAt(c, "get")
  /\ \E step \in {"idle", "leave"} : Go(c, step)
  /\ UNCHANGED <<session, taken>>

(* get: a session to go on with, with the credentials and headers it was   *)
(* opened with.                                                            *)
Reusable(c) == Its(c).stored /\ Its(c).open /\ ~Prunable(Key(c))

Reuse(c) ==
  /\ ConnAt(c, "get") /\ Reusable(c)
  /\ session' = [session EXCEPT ![Key(c)].turns = 1, ![Key(c)].idle = FALSE]
  /\ Go(c, "write")
  /\ UNCHANGED taken

(* None, a closed or idle one, or one with another fingerprint than the    *)
(* turn's: the old one is closed.  A turn that continues a response fails. *)
Miss(c) ==
  /\ ConnAt(c, "get")
  /\ CloseSessions({}, {Key(c)})
  /\ \E step \in {"idle", "acquire"} : Go(c, step)

(* AcquireProviderSlot.  A turn that is pinned to no provider yet goes on  *)
(* to the next route; otherwise the client is sent to HTTP.                *)
AcquireSlot(c) ==
  /\ ConnAt(c, "acquire")
  /\ \/ /\ taken[TurnProvider(c)] < SlotLimit
        /\ taken' = [taken EXCEPT ![TurnProvider(c)] = @ + 1]
        /\ Go(c, "dial")
     \/ /\ taken[TurnProvider(c)] >= SlotLimit
        /\ conn[c].pinned = "none" /\ conn[c].via < Len(Preference)
        /\ conn' = [conn EXCEPT ![c].step = "get", ![c].via = @ + 1]
        /\ UNCHANGED taken
     \/ /\ taken[TurnProvider(c)] >= SlotLimit
        /\ conn[c].pinned # "none" \/ conn[c].via = Len(Preference)
        /\ Go(c, "leave")
        /\ UNCHANGED taken
  /\ UNCHANGED session

Dial(c) ==
  /\ ConnAt(c, "dial")
  /\ session' = [session EXCEPT ![Key(c)] =
       [NoSession EXCEPT !.open = TRUE, !.turns = 1]]
  /\ Go(c, "put")
  /\ UNCHANGED taken

(* Faulty form of what follows: the slot stays with nobody. *)
DialLeaks(c) ==
  /\ ConnAt(c, "dial")
  /\ Go(c, "idle")
  /\ UNCHANGED <<session, taken>>

DialFails(c) ==
  /\ ConnAt(c, "dial")
  /\ taken' = [taken EXCEPT ![TurnProvider(c)] = @ - 1]
  /\ Go(c, "idle")
  /\ UNCHANGED session

(* put: prune; in a full store evict the session used longest ago among    *)
(* those that serve no turn (any of them here); without one, give up.      *)
PutSession(c) ==
  LET pruned == {k \in Keys : Prunable(k)}
      rest == Stored \ pruned
      Store(gone) ==
        /\ session' = [k \in Keys |->
             IF k \in gone THEN Out(k)
             ELSE IF k = Key(c) THEN [session[k] EXCEPT !.stored = TRUE]
             ELSE session[k]]
        /\ taken' = Freed(gone)
        /\ Go(c, "write")
  IN  /\ ConnAt(c, "put")
      /\ \/ Cardinality(rest) < MaxSessions /\ Store(pruned)
         \/ /\ Cardinality(rest) >= MaxSessions
            /\ \E k \in rest : session[k].turns = 0 /\ Store(pruned \cup {k})
         \/ /\ Cardinality(rest) >= MaxSessions
            /\ \A k \in rest : session[k].turns > 0
            /\ CloseSessions(pruned, {Key(c)})
            /\ Go(c, "idle")

-----------------------------------------------------------------------------
(* executeTurn: a session that its upstream closed meanwhile is found out  *)
(* before the frame is written, and the client may try again.              *)
WriteFrame(c) ==
  /\ ConnAt(c, "write")
  /\ \/ /\ Its(c).open
        /\ session' = [session EXCEPT ![Key(c)] =
             [@ EXCEPT !.asked = conn[c].turn, !.parts = 0, !.idle = FALSE]]
        /\ Go(c, "read")
        /\ UNCHANGED taken
     \/ /\ ~Its(c).open
        /\ CloseSessions({}, {Key(c)})
        /\ Go(c, "idle")

(* Once the frame may have been sent an error removes the session. *)
FailTurn(c, step) ==
  /\ CloseSessions({}, {Key(c)})
  /\ Go(c, step)

(* The writing of the frame fails: an error that was committed closes the  *)
(* connection.                                                             *)
WriteFails(c) == ConnAt(c, "write") /\ Its(c).open /\ FailTurn(c, "leave")

(* An event is passed on to the client, if it is still there. *)
ReadEvent(c) ==
  LET event == Head(Its(c).reads)
      rest == [Its(c) EXCEPT !.reads = Tail(@)]
  IN  /\ ConnAt(c, "read") /\ Its(c).reads # <<>>
      /\ \/ ~conn[c].client /\ FailTurn(c, "leave")
         \/ /\ event.kind = "part"
            /\ session' = [session EXCEPT ![Key(c)] = rest]
            /\ UNCHANGED <<conn, taken>>
         \/ event.kind = "failed" /\ FailTurn(c, "idle")
         \/ /\ event.kind = "over"
            /\ session' = [session EXCEPT ![Key(c)] = [rest EXCEPT !.turns = 0]]
            /\ conn' = [conn EXCEPT ![c] =
                 [@ EXCEPT !.step = "idle", !.via = 1, !.pinned = TurnProvider(c)]]
            /\ UNCHANGED taken

(* All that was queued is read, and the upstream has gone. *)
ReadEnd(c) ==
  /\ ConnAt(c, "read") /\ Its(c).reads = <<>> /\ ~Its(c).open
  /\ FailTurn(c, "leave")

(* Faulty forms of what follows: the error does not say that the frame was *)
(* sent, so that both the session and the connection stay; there is no     *)
(* timer.                                                                  *)
TimeoutUncommitted(c) ==
  /\ ConnAt(c, "read")
  /\ session' = [session EXCEPT ![Key(c)].turns = 0]
  /\ Go(c, "idle")
  /\ UNCHANGED taken

NoTimeout(c) == FALSE /\ ConnAt(c, "read") /\ FailTurn(c, "leave")

(* No first event in time, or none after the last. *)
Timeout(c) == ConnAt(c, "read") /\ FailTurn(c, "leave")

(* The context of the connection is done. *)
Cancelled(c) == ConnAt(c, "read") /\ ~conn[c].client /\ FailTurn(c, "leave")

(* Faulty form of what follows: the sessions are left to the pruning. *)
LeaveOnly(c) ==
  /\ ConnAt(c, "leave") \/ (ConnAt(c, "idle") /\ ~conn[c].client)
  /\ Go(c, "left")
  /\ UNCHANGED <<session, taken>>

(* The end of the serve loop: closeForConnection.  All adapters of Codex   *)
(* share the store; that one of them is still in the router's map, which   *)
(* is how the store is reached, is taken for granted.                      *)
LeaveLoop(c) ==
  /\ ConnAt(c, "leave") \/ (ConnAt(c, "idle") /\ ~conn[c].client)
  /\ CloseSessions({k \in Stored : k[1] = c}, {})
  /\ Go(c, "left")

(* readPump ends: the client has gone, broke the protocol, or sent more    *)
(* frames than may wait.                                                   *)
ClientGone(c) ==
  /\ conn[c].client
  /\ conn' = [conn EXCEPT ![c].client = FALSE]
  /\ UNCHANGED <<session, taken>>

-----------------------------------------------------------------------------
(* readLoop: what the upstream sends is queued; one too many, like an end  *)
(* of the upstream, closes the session.                                    *)
Enqueue(k, kind) ==
  LET s == session[k]
  IN  IF Len(s.reads) < QueueSize
      THEN /\ session' = [session EXCEPT ![k] =
                [s EXCEPT !.reads = Append(s.reads, [turn |-> s.asked, kind |-> kind]),
                          !.parts = IF kind = "part" THEN @ + 1 ELSE 0,
                          !.asked = IF kind = "part" THEN @ ELSE 0]]
           /\ UNCHANGED taken
      ELSE /\ session' = [session EXCEPT ![k] = [s EXCEPT !.open = FALSE, !.asked = 0]]
           /\ taken' = Freed({k})

Upstream(k) ==
  /\ session[k].open /\ session[k].asked # 0
  /\ \E kind \in {"part", "over", "failed"} :
       (kind = "part" => session[k].parts < MaxParts) /\ Enqueue(k, kind)
  /\ UNCHANGED conn

UpstreamCloses(k) ==
  /\ session[k].open
  /\ session' = [session EXCEPT ![k] = [@ EXCEPT !.open = FALSE, !.asked = 0]]
  /\ taken' = Freed({k})
  /\ UNCHANGED conn

(* 65 minutes since the session was last used: also during a long turn.    *)
GrowIdle(k) ==
  /\ session[k].stored /\ session[k].open /\ ~session[k].idle
  /\ session' = [session EXCEPT ![k].idle = TRUE]
  /\ UNCHANGED <<conn, taken>>

PruneIdle ==
  /\ \E k \in Keys : Prunable(k)
  /\ CloseSessions({k \in Keys : Prunable(k)}, {})
  /\ UNCHANGED conn

-----------------------------------------------------------------------------
(* The steps of a connection that do not wait for its client or upstream. *)
TurnStep(c) ==
  \/ Reuse(c) \/ Miss(c) \/ AcquireSlot(c) \/ PutSession(c) \/ WriteFrame(c)
  \/ ReadEvent(c) \/ ReadEnd(c) \/ Cancelled(c) \/ LeaveLoop(c)

SocketNext ==
  \/ \E c \in Conns :
       \/ BeginTurn(c) \/ TurnRefused(c) \/ TurnStep(c) \/ Dial(c) \/ DialFails(c)
       \/ WriteFails(c) \/ Timeout(c) \/ ClientGone(c)
  \/ \E k \in Keys : Upstream(k) \/ UpstreamCloses(k) \/ GrowIdle(k)
  \/ PruneIdle

(* The goroutine of a connection runs, the handshake has a deadline, and   *)
(* the timer of a turn, which each event starts anew, fires if nothing     *)
(* arrives.                                                                *)
Serving(c) ==
  \/ TurnStep(c) \/ Dial(c) \/ DialFails(c)
  \/ Its(c).reads = <<>> /\ Timeout(c)

SocketFairness == \A c \in Conns : WF_socketVars(Serving(c))

SocketSpec == SocketInit /\ [][SocketNext]_socketVars
SocketFairSpec == SocketSpec /\ SocketFairness

-----------------------------------------------------------------------------
IsOpen(k) == session[k].open

(* "The returned release function belongs to that session and must run     *)
(* exactly once when the session closes" (domain/responses_websocket.go):  *)
(* the slots of a provider are those of its open sessions and of the dials *)
(* under way, whichever of a turn, an eviction, the pruning, the upstream  *)
(* and the end of the connection closes a session first.                   *)
SlotsAreOwned ==
  \A p \in Gateways :
    taken[p] = Cardinality({k \in Keys : k[2] = p /\ IsOpen(k)})
               + Cardinality({c \in Conns : ConnAt(c, "dial") /\ TurnProvider(c) = p})

(* No session is stranded: an open one is in the store, or on its way to   *)
(* it in a turn of its connection, and its connection has not left.        *)
NoSessionIsStranded ==
  \A c \in Conns, p \in Gateways :
    IsOpen(<<c, p>>) =>
      /\ ~ConnAt(c, "left")
      /\ session[<<c, p>>].stored \/ (ConnAt(c, "put") /\ TurnProvider(c) = p)

(* A session that serves a turn is taken out of the store by a step of its *)
(* own connection only: not by another's eviction, nor because the turn    *)
(* takes longer than a session may be idle.                                *)
BusySessionsAreSpared ==
  [][\A k \in Keys :
       /\ session[k].open /\ session[k].stored /\ session[k].turns > 0
       /\ ~session'[k].stored
       => conn'[k[1]] # conn[k[1]]]_socketVars

(* The events a turn reads are its own: a late answer to a turn that timed *)
(* out or failed is never taken for one to the next.                       *)
TurnsDoNotMix ==
  \A c \in Conns : ConnAt(c, "read") =>
    /\ \A i \in DOMAIN Its(c).reads : Its(c).reads[i].turn = conn[c].turn
    /\ Its(c).asked \in {0, conn[c].turn}

(* Every turn ends, whatever the upstream leaves unsaid, if its answers    *)
(* are finite.                                                             *)
TurnsEnd ==
  \A c \in Conns :
    conn[c].step \notin {"idle", "left"} ~> conn[c].step \in {"idle", "left"}
=============================================================================
