---------------------------- MODULE SocketProofs ----------------------------
(* Proofs about ResponsesSocket, for any finite set of connections, any    *)
(* list of providers and any limits, however long the connections last and *)
(* in whatever order sessions are closed.                                  *)
EXTENDS ResponsesSocket, FiniteSetTheorems, SequenceTheorems, TLAPS

-----------------------------------------------------------------------------
(* The invariant.  A session waits quietly, unless it is read: then all    *)
(* there is to read is of the turn, and what ends the turn comes last.     *)
Quiet(k) == session[k].asked = 0 /\ session[k].reads = <<>>

Answering(k, turn) ==
  LET s == session[k]
  IN  /\ s.asked \in {0, turn}
      /\ \A i \in DOMAIN s.reads :
           /\ s.reads[i].turn = turn
           /\ s.reads[i].kind # "part" => i = Len(s.reads) /\ s.asked = 0

(* A session that is open is in the store, except between its dial and its *)
(* being put there; none is open when a turn is about to dial another.     *)
SessionInv(c, p) ==
  LET k == <<c, p>>
      its == TurnProvider(c) = p
  IN  /\ IF ConnAt(c, "read") /\ its THEN Answering(k, conn[c].turn) ELSE Quiet(k)
      /\ its /\ conn[c].step \in {"acquire", "dial"} => ~IsOpen(k)
      /\ its /\ ConnAt(c, "put") => ~session[k].stored
      /\ IsOpen(k) => /\ ~ConnAt(c, "left")
                      /\ session[k].stored \/ (ConnAt(c, "put") /\ its)

SocketInv ==
  /\ SocketTypeOK
  /\ SlotsAreOwned
  /\ \A c \in Conns, p \in Gateways : SessionInv(c, p)

-----------------------------------------------------------------------------
(* Slots: the sets that are counted.                                       *)
OpenAt(p) == {k \in Keys : k[2] = p /\ IsOpen(k)}
DialingAt(p) == {c \in Conns : ConnAt(c, "dial") /\ TurnProvider(c) = p}

LEMMA Counted ==
  ASSUME NEW p \in Gateways
  PROVE  /\ IsFiniteSet(OpenAt(p)) /\ Cardinality(OpenAt(p)) \in Nat
         /\ IsFiniteSet(DialingAt(p)) /\ Cardinality(DialingAt(p)) \in Nat
<1>1. IsFiniteSet(Conns \X {p})
  BY SocketAssumption, FS_Singleton, FS_Product
<1>2. OpenAt(p) \subseteq Conns \X {p} /\ DialingAt(p) \subseteq Conns
  BY DEF OpenAt, DialingAt, Keys
<1>3. QED
  BY <1>1, <1>2, SocketAssumption, FS_Subset, FS_CardinalityType

LEMMA CountedNext ==
  ASSUME NEW p \in Gateways
  PROVE  /\ IsFiniteSet(OpenAt(p)') /\ Cardinality(OpenAt(p)') \in Nat
         /\ IsFiniteSet(DialingAt(p)') /\ Cardinality(DialingAt(p)') \in Nat
<1>1. IsFiniteSet(Conns \X {p})
  BY SocketAssumption, FS_Singleton, FS_Product
<1>2. OpenAt(p)' \subseteq Conns \X {p} /\ DialingAt(p)' \subseteq Conns
  BY DEF OpenAt, DialingAt, Keys
<1>3. QED
  BY <1>1, <1>2, SocketAssumption, FS_Subset, FS_CardinalityType

(* What a step must do to keep the account: as much as it opens, dials and *)
(* closes at a provider it takes from, or gives back to, its slots.        *)
SlotsWithin ==
  /\ SlotsAreOwned
  /\ taken \in [Gateways -> 0 .. SlotLimit]

LEMMA Owned ==
  SlotsAreOwned <=>
    \A p \in Gateways : taken[p] = Cardinality(OpenAt(p)) + Cardinality(DialingAt(p))
BY DEF SlotsAreOwned, OpenAt, DialingAt

LEMMA OwnedNext ==
  SlotsAreOwned' <=>
    \A p \in Gateways : taken'[p] = Cardinality(OpenAt(p)') + Cardinality(DialingAt(p)')
BY DEF SlotsAreOwned, OpenAt, DialingAt

(* The sessions ks are closed, each if it was open.                        *)
LEMMA FreedCounts ==
  ASSUME SlotsWithin, NEW ks \in SUBSET Keys, taken' = Freed(ks),
         \A k \in Keys : IsOpen(k)' <=> IsOpen(k) /\ k \notin ks,
         \A p \in Gateways : DialingAt(p)' = DialingAt(p)
  PROVE  SlotsWithin'
<1>1. ASSUME NEW p \in Gateways
      PROVE  /\ taken'[p] = Cardinality(OpenAt(p)') + Cardinality(DialingAt(p)')
             /\ taken'[p] \in 0 .. SlotLimit
  <2> DEFINE gone == {k \in ks : k[2] = p /\ session[k].open}
  <2>1. taken'[p] = taken[p] - Cardinality(gone)
    BY DEF Freed
  <2>2. OpenAt(p)' = OpenAt(p) \ ks /\ gone = OpenAt(p) \cap ks
    BY DEF OpenAt, IsOpen
  <2> HIDE DEF gone
  <2>3. Cardinality(OpenAt(p)') = Cardinality(OpenAt(p)) - Cardinality(gone)
    BY <2>2, Counted, FS_Difference
  <2>4. Cardinality(gone) \in Nat
    BY <2>2, Counted, FS_Intersection, FS_CardinalityType
  <2>5. taken[p] = Cardinality(OpenAt(p)) + Cardinality(DialingAt(p))
    BY Owned DEF SlotsWithin
  <2>6. taken'[p] = Cardinality(OpenAt(p)') + Cardinality(DialingAt(p)')
    BY <2>1, <2>3, <2>4, <2>5, Counted
  <2>7. taken[p] \in 0 .. SlotLimit /\ SlotLimit \in Nat
    BY SocketAssumption DEF SlotsWithin
  <2>8. taken'[p] >= 0 /\ taken'[p] <= taken[p] /\ taken'[p] \in Int
    BY <2>1, <2>4, <2>6, <2>7, CountedNext
  <2>9. QED
    BY <2>6, <2>7, <2>8
<1>2. taken' \in [Gateways -> 0 .. SlotLimit]
  <2>1. taken' = [p \in Gateways |-> taken'[p]]
    BY DEF Freed
  <2>2. QED
    BY <1>1, <2>1
<1>3. QED
  BY <1>1, <1>2, OwnedNext DEF SlotsWithin

(* A slot is acquired for a dial, becomes the slot of the session that was *)
(* dialled, or is given back.                                              *)
LEMMA DialCounts ==
  ASSUME SlotsWithin, NEW c \in Conns, NEW p \in Gateways,
         \A q \in Gateways : OpenAt(q)' = OpenAt(q),
         \A q \in Gateways \ {p} : DialingAt(q)' = DialingAt(q),
         \/ /\ c \notin DialingAt(p) /\ DialingAt(p)' = DialingAt(p) \cup {c}
            /\ taken[p] < SlotLimit /\ taken' = [taken EXCEPT ![p] = @ + 1]
         \/ /\ c \in DialingAt(p) /\ DialingAt(p)' = DialingAt(p) \ {c}
            /\ taken' = [taken EXCEPT ![p] = @ - 1]
  PROVE  SlotsWithin'
<1>1. /\ taken[p] = Cardinality(OpenAt(p)) + Cardinality(DialingAt(p))
      /\ taken \in [Gateways -> 0 .. SlotLimit] /\ SlotLimit \in Nat
  BY Owned, SocketAssumption DEF SlotsWithin
<1> DEFINE n == Cardinality(DialingAt(p))
           m == Cardinality(DialingAt(p)')
<1>2. n \in Nat /\ m \in Nat /\ Cardinality(OpenAt(p)) \in Nat
  BY Counted, CountedNext
<1>3. \/ m = n + 1 /\ taken[p] < SlotLimit /\ taken' = [taken EXCEPT ![p] = @ + 1]
      \/ m = n - 1 /\ taken' = [taken EXCEPT ![p] = @ - 1]
  BY Counted, FS_AddElement, FS_RemoveElement
<1> HIDE DEF n, m
<1>4. taken'[p] = Cardinality(OpenAt(p)) + m /\ taken'[p] \in 0 .. SlotLimit
  BY <1>1, <1>2, <1>3 DEF n
<1>5. taken' \in [Gateways -> 0 .. SlotLimit]
  BY <1>1, <1>3, <1>4
<1>6. ASSUME NEW q \in Gateways \ {p}
      PROVE  taken'[q] = Cardinality(OpenAt(q)') + Cardinality(DialingAt(q)')
  BY <1>1, <1>3, Owned DEF SlotsWithin
<1>7. QED
  BY <1>4, <1>5, <1>6, OwnedNext DEF SlotsWithin, m

LEMMA OpenCounts ==
  ASSUME SlotsWithin, NEW c \in Conns, NEW p \in Gateways,
         \A q \in Gateways \ {p} : /\ OpenAt(q)' = OpenAt(q)
                                   /\ DialingAt(q)' = DialingAt(q),
         c \in DialingAt(p), DialingAt(p)' = DialingAt(p) \ {c},
         <<c, p>> \notin OpenAt(p), OpenAt(p)' = OpenAt(p) \cup {<<c, p>>},
         UNCHANGED taken
  PROVE  SlotsWithin'
<1>1. Cardinality(DialingAt(p)') = Cardinality(DialingAt(p)) - 1
  BY Counted, FS_RemoveElement
<1>2. Cardinality(OpenAt(p)') = Cardinality(OpenAt(p)) + 1
  BY Counted, FS_AddElement
<1>3. \A q \in Gateways :
        taken[q] = Cardinality(OpenAt(q)) + Cardinality(DialingAt(q))
  BY Owned DEF SlotsWithin
<1> DEFINE m == Cardinality(DialingAt(p))
           n == Cardinality(OpenAt(p))
<1>4. m \in Nat /\ n \in Nat
  BY Counted
<1>5. taken'[p] = Cardinality(OpenAt(p)') + Cardinality(DialingAt(p)')
  <2>1. taken[p] = n + m /\ Cardinality(DialingAt(p)') = m - 1
        /\ Cardinality(OpenAt(p)') = n + 1
    BY <1>1, <1>2, <1>3
  <2> HIDE DEF m, n
  <2>2. QED
    BY <1>4, <2>1
<1>6. \A q \in Gateways \ {p} :
        taken'[q] = Cardinality(OpenAt(q)') + Cardinality(DialingAt(q)')
  BY <1>3
<1>7. QED
  BY <1>5, <1>6, OwnedNext DEF SlotsWithin

-----------------------------------------------------------------------------
(* Sessions of a connection that does not move may be closed by others.    *)
SessionKept(k) == session'[k] \in {session[k], Out(k), NoSession}

LEMMA NoSessionType == NoSession \in UpstreamSession
<1>1. <<>> \in Seq(TurnEvent)
  OBVIOUS
<1>2. 0 \in 0 .. MaxTurns /\ 0 \in 0 .. MaxParts
  BY SocketAssumption
<1>3. QED
  BY <1>1, <1>2 DEF NoSession, UpstreamSession

LEMMA OutFacts ==
  ASSUME SocketTypeOK, NEW k \in Keys
  PROVE  /\ Out(k) \in UpstreamSession /\ Len(Out(k).reads) <= QueueSize
         /\ ~Out(k).open /\ ~Out(k).stored /\ Out(k).asked = 0
         /\ Out(k).reads \in {<<>>, session[k].reads}
<1>1. /\ session[k] \in UpstreamSession /\ Len(session[k].reads) <= QueueSize
      /\ 0 \in 0 .. MaxTurns
  BY SocketAssumption DEF SocketTypeOK
<1>2. NoSession \in UpstreamSession /\ Len(NoSession.reads) <= QueueSize
      /\ ~NoSession.open /\ ~NoSession.stored /\ NoSession.asked = 0
      /\ NoSession.reads = <<>>
  <2>1. Len(<<>>) = 0 /\ QueueSize \in Nat
    BY SocketAssumption
  <2>2. QED
    BY <2>1, NoSessionType DEF NoSession
<1> DEFINE s == [session[k] EXCEPT !.open = FALSE, !.stored = FALSE, !.asked = 0]
<1>3. /\ s \in UpstreamSession /\ s.reads = session[k].reads
      /\ ~s.open /\ ~s.stored /\ s.asked = 0
  BY <1>1 DEF UpstreamSession
<1>4. Out(k) = NoSession \/ Out(k) = s
  BY DEF Out
<1> HIDE DEF s
<1>5. QED
  BY <1>1, <1>2, <1>3, <1>4

LEMMA KeyOf ==
  ASSUME NEW c \in Conns, NEW p \in Gateways
  PROVE  <<c, p>> \in Keys /\ <<c, p>>[1] = c /\ <<c, p>>[2] = p
BY DEF Keys

LEMMA OthersUndisturbed ==
  ASSUME SocketTypeOK, NEW c \in Conns, NEW p \in Gateways, SessionInv(c, p),
         conn'[c] = conn[c], SessionKept(<<c, p>>)
  PROVE  SessionInv(c, p)'
<1> DEFINE k == <<c, p>>
           s == session[k]
<1>1. k \in Keys
  BY KeyOf
<1>2. \/ session'[k] = s
      \/ /\ ~session'[k].open /\ ~session'[k].stored /\ session'[k].asked = 0
         /\ session'[k].reads \in {<<>>, s.reads}
  BY <1>1, OutFacts DEF SessionKept, NoSession
<1>3. /\ TurnProvider(c)' = TurnProvider(c)
      /\ \A step : ConnAt(c, step)' <=> ConnAt(c, step)
  BY DEF TurnProvider, ConnAt
<1>4. Quiet(k) => Quiet(k)'
  BY <1>2 DEF Quiet
<1>5. Answering(k, conn[c].turn) => Answering(k, conn[c].turn)'
  BY <1>2 DEF Answering
<1>6. IsOpen(k)' => IsOpen(k) /\ session'[k].stored = s.stored
  BY <1>2 DEF IsOpen
<1>7. session'[k].stored => s.stored
  BY <1>2
<1> HIDE DEF s
<1>8. QED
  BY <1>3, <1>4, <1>5, <1>6, <1>7 DEF SessionInv, s

LEMMA CloseFacts ==
  ASSUME SocketTypeOK, NEW ks \in SUBSET Keys, NEW mine \in SUBSET Keys,
         CloseSessions(ks, mine)
  PROVE  /\ session' \in [Keys -> UpstreamSession]
         /\ \A k \in Keys : /\ Len(session'[k].reads) <= QueueSize
                            /\ SessionKept(k)
                            /\ k \in mine => session'[k] = NoSession
                            /\ IsOpen(k)' <=> IsOpen(k) /\ k \notin ks \cup mine
         /\ taken' = Freed(ks \cup mine)
<1>1. session' = [k \in Keys |-> IF k \in mine THEN NoSession
                                 ELSE IF k \in ks THEN Out(k) ELSE session[k]]
  BY DEF CloseSessions
<1>2. ASSUME NEW k \in Keys
      PROVE  /\ session'[k] \in UpstreamSession
             /\ Len(session'[k].reads) <= QueueSize
             /\ SessionKept(k)
             /\ k \in mine => session'[k] = NoSession
             /\ IsOpen(k)' <=> IsOpen(k) /\ k \notin ks \cup mine
  <2>1. session[k] \in UpstreamSession /\ Len(session[k].reads) <= QueueSize
    BY DEF SocketTypeOK
  <2>2. /\ NoSession \in UpstreamSession /\ Len(NoSession.reads) <= QueueSize
        /\ ~NoSession.open
    BY NoSessionType, SocketAssumption DEF NoSession
  <2>3. session'[k] = IF k \in mine THEN NoSession
                      ELSE IF k \in ks THEN Out(k) ELSE session[k]
    BY <1>1
  <2>4. QED
    BY <2>1, <2>2, <2>3, OutFacts DEF SessionKept, IsOpen
<1>3. QED
  BY <1>1, <1>2 DEF CloseSessions

(* A connection moves, and what it leaves of its own sessions is in order. *)
LEMMA Moves ==
  ASSUME SocketInv, NEW c \in Conns, SocketTypeOK', SlotsWithin',
         \A d \in Conns \ {c} : conn'[d] = conn[d],
         \A d \in Conns \ {c}, p \in Gateways : SessionKept(<<d, p>>),
         \A p \in Gateways : SessionInv(c, p)'
  PROVE  SocketInv'
<1>1. ASSUME NEW d \in Conns \ {c}, NEW p \in Gateways
      PROVE  SessionInv(d, p)'
  BY <1>1, OthersUndisturbed DEF SocketInv
<1>2. QED
  BY <1>1 DEF SocketInv, SlotsWithin

(* Sessions are closed by a step that is of no connection.                 *)
LEMMA NobodyMoves ==
  ASSUME SocketInv, SocketTypeOK', SlotsWithin', UNCHANGED conn,
         \A k \in Keys : SessionKept(k)
  PROVE  SocketInv'
<1>1. ASSUME NEW d \in Conns, NEW p \in Gateways
      PROVE  SessionInv(d, p)'
  BY <1>1, KeyOf, OthersUndisturbed DEF SocketInv
<1>2. QED
  BY <1>1 DEF SocketInv, SlotsWithin

(* Where a connection goes to.                                             *)
LEMMA GoFacts ==
  ASSUME SocketTypeOK, NEW c \in Conns, NEW step \in ConnStep, Go(c, step)
  PROVE  /\ conn' \in [Conns ->
              [client : BOOLEAN, step : ConnStep, turn : 0 .. MaxTurns,
               pinned : Gateways \cup {"none"}, via : DOMAIN Preference]]
         /\ \A d \in Conns \ {c} : conn'[d] = conn[d]
         /\ conn'[c].step = step /\ conn'[c].turn = conn[c].turn
         /\ conn'[c].pinned = conn[c].pinned /\ conn'[c].client = conn[c].client
         /\ step \notin {"idle", "leave"} => TurnProvider(c)' = TurnProvider(c)
<1> DEFINE v == IF step \in {"idle", "leave"} THEN 1 ELSE conn[c].via
<1>1. 1 \in DOMAIN Preference
  BY SocketAssumption
<1>2. conn[c] \in [client : BOOLEAN, step : ConnStep, turn : 0 .. MaxTurns,
                   pinned : Gateways \cup {"none"}, via : DOMAIN Preference]
  BY DEF SocketTypeOK
<1>3. v \in DOMAIN Preference
  BY <1>1, <1>2
<1>4. conn' = [conn EXCEPT ![c] = [conn[c] EXCEPT !.step = step, !.via = v]]
  BY <1>2 DEF Go, SocketTypeOK
<1>5. step \notin {"idle", "leave"} => v = conn[c].via
  OBVIOUS
<1> HIDE DEF v
<1> DEFINE rec == [conn[c] EXCEPT !.step = step, !.via = v]
<1>6. /\ rec \in [client : BOOLEAN, step : ConnStep, turn : 0 .. MaxTurns,
                  pinned : Gateways \cup {"none"}, via : DOMAIN Preference]
      /\ rec.step = step /\ rec.via = v /\ rec.turn = conn[c].turn
      /\ rec.pinned = conn[c].pinned /\ rec.client = conn[c].client
  BY <1>2, <1>3
<1> HIDE DEF rec
<1>7. conn'[c] = rec /\ \A d \in Conns \ {c} : conn'[d] = conn[d]
  BY <1>4 DEF SocketTypeOK, rec
<1>8. conn' \in [Conns ->
        [client : BOOLEAN, step : ConnStep, turn : 0 .. MaxTurns,
         pinned : Gateways \cup {"none"}, via : DOMAIN Preference]]
  BY <1>4, <1>6 DEF SocketTypeOK, rec
<1>9. step \notin {"idle", "leave"} => TurnProvider(c)' = TurnProvider(c)
  BY <1>5, <1>6, <1>7 DEF TurnProvider
<1>10. QED
  BY <1>6, <1>7, <1>8, <1>9

LEMMA TurnKey ==
  ASSUME SocketTypeOK, NEW c \in Conns
  PROVE  /\ TurnProvider(c) \in Gateways
         /\ Key(c) \in Keys /\ Key(c) = <<c, TurnProvider(c)>>
<1>1. conn[c].pinned \in Gateways \cup {"none"} /\ conn[c].via \in DOMAIN Preference
  BY DEF SocketTypeOK
<1>2. TurnProvider(c) \in Gateways
  BY <1>1 DEF TurnProvider, Gateways
<1>3. QED
  BY <1>2, KeyOf DEF Key

(* Dials: only connections that dial are counted.                          *)
LEMMA DialingKept ==
  ASSUME SocketTypeOK, NEW c \in Conns,
         \A d \in Conns \ {c} : conn'[d] = conn[d],
         conn[c].step # "dial", conn'[c].step # "dial"
  PROVE  \A p \in Gateways : DialingAt(p)' = DialingAt(p)
<1>1. \A d \in Conns \ {c} : TurnProvider(d)' = TurnProvider(d)
  BY DEF TurnProvider
<1>2. QED
  BY <1>1 DEF DialingAt, ConnAt

(* The turn's session is closed, and the turn ends or opens another.       *)
LEMMA TurnClosed ==
  ASSUME SocketInv, NEW c \in Conns, NEW ks \in SUBSET Keys,
         CloseSessions(ks, {Key(c)}), conn[c].step # "dial",
         NEW step \in {"idle", "leave", "acquire"}, Go(c, step)
  PROVE  SocketInv'
<1>1. /\ SocketTypeOK /\ SlotsWithin /\ step \in ConnStep
      /\ TurnProvider(c) \in Gateways /\ Key(c) \in Keys
      /\ Key(c) = <<c, TurnProvider(c)>>
  BY TurnKey DEF SocketInv, SlotsWithin, SocketTypeOK, ConnStep
<1>2. /\ session' \in [Keys -> UpstreamSession]
      /\ \A k \in Keys : /\ Len(session'[k].reads) <= QueueSize
                         /\ SessionKept(k)
                         /\ k = Key(c) => session'[k] = NoSession
                         /\ IsOpen(k)' <=> IsOpen(k) /\ k \notin ks \cup {Key(c)}
      /\ taken' = Freed(ks \cup {Key(c)})
  <2> DEFINE mine == {Key(c)}
  <2>1. mine \in SUBSET Keys /\ CloseSessions(ks, mine)
    BY <1>1
  <2> HIDE DEF mine
  <2>2. /\ session' \in [Keys -> UpstreamSession]
        /\ \A k \in Keys : /\ Len(session'[k].reads) <= QueueSize
                           /\ SessionKept(k)
                           /\ k \in mine => session'[k] = NoSession
                           /\ IsOpen(k)' <=> IsOpen(k) /\ k \notin ks \cup mine
        /\ taken' = Freed(ks \cup mine)
    BY <1>1, <2>1, CloseFacts
  <2>3. QED
    BY <2>2 DEF mine
<1>3. SlotsWithin'
  <2>1. \A p \in Gateways : DialingAt(p)' = DialingAt(p)
    BY <1>1, GoFacts, DialingKept
  <2>2. QED
    BY <1>1, <1>2, <2>1, FreedCounts
<1>4. SocketTypeOK'
  BY <1>1, <1>2, <1>3, GoFacts DEF SocketTypeOK, SlotsWithin
<1>5. ASSUME NEW p \in Gateways
      PROVE  SessionInv(c, p)'
  <2>1. <<c, p>> \in Keys /\ SessionInv(c, p)
    BY KeyOf DEF SocketInv
  <2>2. conn'[c].step = step /\ (step = "acquire" => TurnProvider(c)' = TurnProvider(c))
    BY <1>1, GoFacts
  <2>3. CASE p = TurnProvider(c)
    <3>1. session'[<<c, p>>] = NoSession
      BY <1>1, <1>2, <2>3
    <3>2. QED
      BY <2>2, <3>1 DEF SessionInv, Quiet, IsOpen, NoSession, ConnAt
  <2>4. CASE p # TurnProvider(c)
    <3>1. Quiet(<<c, p>>) /\ (IsOpen(<<c, p>>) => session[<<c, p>>].stored)
      BY <2>1, <2>4 DEF SessionInv
    <3>2. Quiet(<<c, p>>)' /\ (IsOpen(<<c, p>>)' => session'[<<c, p>>].stored)
      BY <1>1, <1>2, <2>1, <3>1, OutFacts
         DEF SessionKept, Quiet, IsOpen, NoSession
    <3>3. QED
      BY <2>2, <2>4, <3>2 DEF SessionInv, ConnAt
  <2>5. QED
    BY <2>3, <2>4
<1>6. QED
  BY <1>1, <1>2, <1>3, <1>4, <1>5, KeyOf, GoFacts, Moves

(* Nothing is opened or closed, nor read; a slot is not asked for.         *)
LEMMA OpenKept ==
  ASSUME \A k \in Keys : IsOpen(k)' <=> IsOpen(k)
  PROVE  \A p \in Gateways : OpenAt(p)' = OpenAt(p)
BY DEF OpenAt

LEMMA SlotsUntouched ==
  ASSUME SlotsWithin, \A k \in Keys : IsOpen(k)' <=> IsOpen(k),
         \A p \in Gateways : DialingAt(p)' = DialingAt(p), UNCHANGED taken
  PROVE  SlotsWithin'
<1>1. \A p \in Gateways : OpenAt(p)' = OpenAt(p)
  BY OpenKept
<1>2. QED
  BY <1>1, Owned, OwnedNext DEF SlotsWithin

LEMMA MovesQuietly ==
  ASSUME SocketInv, NEW c \in Conns, SocketTypeOK', UNCHANGED taken,
         \A d \in Conns \ {c} : conn'[d] = conn[d],
         conn[c].step \in {"idle", "get", "acquire"},
         conn'[c].step \in {"idle", "leave", "get", "write"},
         \A d \in Conns \ {c}, p \in Gateways : session'[<<d, p>>] = session[<<d, p>>],
         \A p \in Gateways : /\ session'[<<c, p>>].open = session[<<c, p>>].open
                             /\ session'[<<c, p>>].stored = session[<<c, p>>].stored
                             /\ session'[<<c, p>>].asked = session[<<c, p>>].asked
                             /\ session'[<<c, p>>].reads = session[<<c, p>>].reads
  PROVE  SocketInv'
<1>1. SlotsWithin'
  <2>1. \A k \in Keys : IsOpen(k)' <=> IsOpen(k)
    BY DEF Keys, IsOpen
  <2>2. \A p \in Gateways : DialingAt(p)' = DialingAt(p)
    BY DialingKept DEF SocketInv
  <2>3. QED
    BY <2>1, <2>2, SlotsUntouched DEF SocketInv, SlotsWithin, SocketTypeOK
<1>2. ASSUME NEW p \in Gateways
      PROVE  SessionInv(c, p)'
  <2>1. Quiet(<<c, p>>) /\ (IsOpen(<<c, p>>) => session[<<c, p>>].stored)
    BY DEF SocketInv, SessionInv, ConnAt
  <2>2. Quiet(<<c, p>>)' /\ (IsOpen(<<c, p>>)' => session'[<<c, p>>].stored)
    BY <2>1 DEF Quiet, IsOpen
  <2>3. QED
    BY <2>2 DEF SessionInv, ConnAt
<1>3. QED
  BY <1>1, <1>2, Moves DEF SessionKept

LEMMA InvBeginTurn ==
  ASSUME SocketInv, NEW c \in Conns, BeginTurn(c)
  PROVE  SocketInv'
<1> DEFINE rec == [conn[c] EXCEPT !.step = "get", !.turn = conn[c].turn + 1]
<1>1. /\ conn[c].step = "idle" /\ conn[c].turn < MaxTurns
      /\ conn' = [conn EXCEPT ![c] = rec]
      /\ UNCHANGED <<session, taken>>
  BY DEF BeginTurn, ConnAt
<1>2. conn[c].turn + 1 \in 0 .. MaxTurns
  BY <1>1, SocketAssumption DEF SocketInv, SocketTypeOK
<1>3. /\ rec.step = "get"
      /\ rec \in [client : BOOLEAN, step : ConnStep, turn : 0 .. MaxTurns,
                  pinned : Gateways \cup {"none"}, via : DOMAIN Preference]
  BY <1>2 DEF SocketInv, SocketTypeOK, ConnStep
<1> HIDE DEF rec
<1>4. conn'[c].step = "get" /\ \A d \in Conns \ {c} : conn'[d] = conn[d]
  BY <1>1, <1>3 DEF SocketInv, SocketTypeOK
<1>5. SocketTypeOK'
  BY <1>1, <1>3 DEF SocketInv, SocketTypeOK
<1>6. QED
  BY <1>1, <1>4, <1>5, MovesQuietly

LEMMA InvTurnRefused ==
  ASSUME SocketInv, NEW c \in Conns, TurnRefused(c)
  PROVE  SocketInv'
<1>1. PICK step \in {"idle", "leave"} : Go(c, step)
  BY DEF TurnRefused
<1>2. conn[c].step = "get" /\ UNCHANGED <<session, taken>> /\ step \in ConnStep
  BY DEF TurnRefused, ConnAt, ConnStep
<1>3. SocketTypeOK'
  BY <1>1, <1>2, GoFacts DEF SocketInv, SocketTypeOK
<1>4. QED
  BY <1>1, <1>2, <1>3, GoFacts, MovesQuietly DEF SocketInv

(* A session of the connection is given other fields.                      *)
LEMMA SessionSet ==
  ASSUME SocketTypeOK, NEW k \in Keys, NEW s \in UpstreamSession,
         Len(s.reads) <= QueueSize, session' = [session EXCEPT ![k] = s]
  PROVE  /\ session' \in [Keys -> UpstreamSession]
         /\ \A j \in Keys : Len(session'[j].reads) <= QueueSize
         /\ session'[k] = s /\ \A j \in Keys \ {k} : session'[j] = session[j]
BY DEF SocketTypeOK

LEMMA TurnSessionSet ==
  ASSUME SocketTypeOK, NEW c \in Conns, NEW s \in UpstreamSession,
         Len(s.reads) <= QueueSize, session' = [session EXCEPT ![Key(c)] = s]
  PROVE  /\ session' \in [Keys -> UpstreamSession]
         /\ \A j \in Keys : Len(session'[j].reads) <= QueueSize
         /\ session'[<<c, TurnProvider(c)>>] = s
         /\ \A q \in Gateways \ {TurnProvider(c)} :
              session'[<<c, q>>] = session[<<c, q>>]
         /\ \A d \in Conns \ {c}, q \in Gateways :
              session'[<<d, q>>] = session[<<d, q>>]
<1>1. Key(c) \in Keys /\ Key(c) = <<c, TurnProvider(c)>>
  BY TurnKey
<1>2. /\ session' \in [Keys -> UpstreamSession]
      /\ \A j \in Keys : Len(session'[j].reads) <= QueueSize
      /\ session'[Key(c)] = s /\ \A j \in Keys \ {Key(c)} : session'[j] = session[j]
  BY <1>1, SessionSet
<1>3. ASSUME NEW d \in Conns, NEW q \in Gateways, d # c \/ q # TurnProvider(c)
      PROVE  session'[<<d, q>>] = session[<<d, q>>]
  <2>1. <<d, q>> \in Keys /\ <<d, q>> # <<c, TurnProvider(c)>>
    BY <1>3, KeyOf
  <2>2. QED
    BY <1>1, <1>2, <2>1
<1>4. QED
  BY <1>1, <1>2, <1>3

LEMMA InvReuse ==
  ASSUME SocketInv, NEW c \in Conns, Reuse(c)
  PROVE  SocketInv'
<1> DEFINE s == [Its(c) EXCEPT !.turns = 1, !.idle = FALSE]
<1>1. /\ conn[c].step = "get" /\ session' = [session EXCEPT ![Key(c)] = s]
      /\ Go(c, "write") /\ UNCHANGED taken /\ "write" \in ConnStep
      /\ SocketTypeOK
  BY TurnKey DEF Reuse, ConnAt, Its, SocketInv, SocketTypeOK, ConnStep
<1>2. Key(c) \in Keys /\ Key(c) = <<c, TurnProvider(c)>>
      /\ Its(c) \in UpstreamSession /\ Len(Its(c).reads) <= QueueSize
  BY <1>1, TurnKey DEF SocketTypeOK, Its
<1>3. /\ s \in UpstreamSession /\ s.open = Its(c).open /\ s.stored = Its(c).stored
      /\ s.asked = Its(c).asked /\ s.reads = Its(c).reads
  BY <1>2 DEF UpstreamSession
<1> HIDE DEF s
<1>4. /\ session' \in [Keys -> UpstreamSession]
      /\ \A j \in Keys : Len(session'[j].reads) <= QueueSize
      /\ session'[<<c, TurnProvider(c)>>] = s
      /\ \A q \in Gateways \ {TurnProvider(c)} : session'[<<c, q>>] = session[<<c, q>>]
      /\ \A d \in Conns \ {c}, q \in Gateways : session'[<<d, q>>] = session[<<d, q>>]
  BY <1>1, <1>2, <1>3, TurnSessionSet
<1>5. SocketTypeOK'
  <2>1. conn' \in [Conns ->
          [client : BOOLEAN, step : ConnStep, turn : 0 .. MaxTurns,
           pinned : Gateways \cup {"none"}, via : DOMAIN Preference]]
    BY <1>1, GoFacts
  <2>2. QED
    BY <1>1, <1>4, <2>1 DEF SocketTypeOK
<1>6. ASSUME NEW q \in Gateways
      PROVE  /\ session'[<<c, q>>].open = session[<<c, q>>].open
             /\ session'[<<c, q>>].stored = session[<<c, q>>].stored
             /\ session'[<<c, q>>].asked = session[<<c, q>>].asked
             /\ session'[<<c, q>>].reads = session[<<c, q>>].reads
  BY <1>2, <1>3, <1>4 DEF Its
<1>7. QED
  BY <1>1, <1>4, <1>5, <1>6, GoFacts, MovesQuietly

LEMMA InvMiss ==
  ASSUME SocketInv, NEW c \in Conns, Miss(c)
  PROVE  SocketInv'
<1>1. PICK step \in {"idle", "acquire"} : Go(c, step)
  BY DEF Miss
<1>2. conn[c].step # "dial" /\ CloseSessions({}, {Key(c)})
  BY DEF Miss, ConnAt
<1>3. QED
  BY <1>1, <1>2, TurnClosed

(* The slot, the dial, and what comes of it.                               *)
LEMMA InvAcquireSlot ==
  ASSUME SocketInv, NEW c \in Conns, AcquireSlot(c)
  PROVE  SocketInv'
<1> PICK p \in Gateways : p = TurnProvider(c)
  BY TurnKey DEF SocketInv
<1>1. /\ conn[c].step = "acquire" /\ UNCHANGED session
      /\ SocketTypeOK /\ SlotsWithin
  BY DEF AcquireSlot, ConnAt, SocketInv, SocketTypeOK, SlotsWithin
<1>2. CASE /\ taken[p] < SlotLimit /\ taken' = [taken EXCEPT ![p] = @ + 1]
           /\ Go(c, "dial")
  <2>1. /\ \A d \in Conns \ {c} : conn'[d] = conn[d]
        /\ conn'[c].step = "dial" /\ TurnProvider(c)' = p
        /\ conn' \in [Conns ->
             [client : BOOLEAN, step : ConnStep, turn : 0 .. MaxTurns,
              pinned : Gateways \cup {"none"}, via : DOMAIN Preference]]
    BY <1>1, <1>2, GoFacts DEF ConnStep
  <2>2. \A d \in Conns \ {c} : TurnProvider(d)' = TurnProvider(d)
    BY <2>1 DEF TurnProvider
  <2>3. c \notin DialingAt(p) /\ DialingAt(p)' = DialingAt(p) \cup {c}
    BY <1>1, <2>1, <2>2 DEF DialingAt, ConnAt
  <2>4. \A q \in Gateways \ {p} : DialingAt(q)' = DialingAt(q)
    BY <1>1, <2>1, <2>2 DEF DialingAt, ConnAt
  <2>5. \A q \in Gateways : OpenAt(q)' = OpenAt(q)
    BY <1>1 DEF OpenAt, IsOpen
  <2>6. SlotsWithin'
    BY <1>1, <1>2, <2>3, <2>4, <2>5, DialCounts
  <2>7. SocketTypeOK'
    BY <1>1, <2>1, <2>6 DEF SocketTypeOK, SlotsWithin
  <2>8. ASSUME NEW q \in Gateways
        PROVE  SessionInv(c, q)'
    <3>1. SessionInv(c, q)
      BY DEF SocketInv
    <3>2. QED
      BY <1>1, <2>1, <3>1 DEF SessionInv, ConnAt, Quiet, IsOpen
  <2>9. QED
    BY <1>1, <2>1, <2>6, <2>7, <2>8, Moves DEF SessionKept
<1>3. CASE /\ conn[c].via < Len(Preference)
           /\ conn' = [conn EXCEPT ![c].step = "get", ![c].via = @ + 1]
           /\ UNCHANGED taken
  <2> DEFINE rec == [conn[c] EXCEPT !.step = "get", !.via = conn[c].via + 1]
  <2>1. conn' = [conn EXCEPT ![c] = rec]
    BY <1>3 DEF SocketInv, SocketTypeOK
  <2>2. conn[c].via + 1 \in DOMAIN Preference
    BY <1>1, <1>3, SocketAssumption DEF SocketTypeOK
  <2>3. /\ rec.step = "get"
        /\ rec \in [client : BOOLEAN, step : ConnStep, turn : 0 .. MaxTurns,
                    pinned : Gateways \cup {"none"}, via : DOMAIN Preference]
    BY <1>1, <2>2 DEF SocketTypeOK, ConnStep
  <2> HIDE DEF rec
  <2>4. conn'[c].step = "get" /\ \A d \in Conns \ {c} : conn'[d] = conn[d]
    BY <1>1, <2>1, <2>3 DEF SocketTypeOK
  <2>5. SocketTypeOK'
    BY <1>1, <1>3, <2>1, <2>3 DEF SocketTypeOK
  <2>6. QED
    BY <1>1, <1>3, <2>4, <2>5, MovesQuietly
<1>4. CASE Go(c, "leave") /\ UNCHANGED taken
  <2>1. /\ \A d \in Conns \ {c} : conn'[d] = conn[d]
        /\ conn'[c].step = "leave"
        /\ conn' \in [Conns ->
             [client : BOOLEAN, step : ConnStep, turn : 0 .. MaxTurns,
              pinned : Gateways \cup {"none"}, via : DOMAIN Preference]]
    BY <1>1, <1>4, GoFacts DEF ConnStep
  <2>2. SocketTypeOK'
    BY <1>1, <1>4, <2>1 DEF SocketTypeOK
  <2>3. QED
    BY <1>1, <1>4, <2>1, <2>2, MovesQuietly
<1>5. QED
  BY <1>2, <1>3, <1>4 DEF AcquireSlot

LEMMA InvDial ==
  ASSUME SocketInv, NEW c \in Conns, Dial(c)
  PROVE  SocketInv'
<1> DEFINE s == [NoSession EXCEPT !.open = TRUE, !.turns = 1]
<1> PICK p \in Gateways : p = TurnProvider(c)
  BY TurnKey DEF SocketInv
<1>1. /\ conn[c].step = "dial" /\ Go(c, "put") /\ UNCHANGED taken
      /\ session' = [session EXCEPT ![Key(c)] = s]
      /\ SocketTypeOK /\ SlotsWithin /\ SessionInv(c, p)
  BY DEF Dial, ConnAt, SocketInv, SocketTypeOK, SlotsWithin
<1>2. /\ s \in UpstreamSession /\ Len(s.reads) <= QueueSize
      /\ s.open /\ ~s.stored /\ s.asked = 0 /\ s.reads = <<>>
  <2>1. NoSession \in UpstreamSession /\ Len(NoSession.reads) <= QueueSize
    BY NoSessionType, SocketAssumption DEF NoSession
  <2>2. QED
    BY <2>1 DEF NoSession, UpstreamSession
<1> HIDE DEF s
<1>3. /\ session' \in [Keys -> UpstreamSession]
      /\ \A j \in Keys : Len(session'[j].reads) <= QueueSize
      /\ session'[<<c, p>>] = s
      /\ \A q \in Gateways \ {p} : session'[<<c, q>>] = session[<<c, q>>]
      /\ \A d \in Conns \ {c}, q \in Gateways : session'[<<d, q>>] = session[<<d, q>>]
  BY <1>1, <1>2, TurnSessionSet
<1>4. /\ \A d \in Conns \ {c} : conn'[d] = conn[d]
      /\ conn'[c].step = "put" /\ TurnProvider(c)' = p
      /\ conn' \in [Conns ->
           [client : BOOLEAN, step : ConnStep, turn : 0 .. MaxTurns,
            pinned : Gateways \cup {"none"}, via : DOMAIN Preference]]
  BY <1>1, GoFacts DEF ConnStep
<1>5. \A d \in Conns \ {c} : TurnProvider(d)' = TurnProvider(d)
  BY <1>4 DEF TurnProvider
<1>6. SlotsWithin'
  <2>1. c \in DialingAt(p) /\ DialingAt(p)' = DialingAt(p) \ {c}
    BY <1>1, <1>4, <1>5 DEF DialingAt, ConnAt
  <2>2. \A q \in Gateways \ {p} : DialingAt(q)' = DialingAt(q)
    BY <1>1, <1>4, <1>5 DEF DialingAt, ConnAt
  <2>3. ~IsOpen(<<c, p>>) /\ IsOpen(<<c, p>>)'
    BY <1>1, <1>2, <1>3 DEF SessionInv, IsOpen
  <2>4. \A k \in Keys \ {<<c, p>>} : IsOpen(k)' <=> IsOpen(k)
    BY <1>3 DEF IsOpen, Keys
  <2>5. \A q \in Gateways \ {p} : OpenAt(q)' = OpenAt(q)
    BY <2>4, KeyOf DEF OpenAt
  <2>6. <<c, p>> \notin OpenAt(p) /\ OpenAt(p)' = OpenAt(p) \cup {<<c, p>>}
    BY <2>3, <2>4, KeyOf DEF OpenAt
  <2>7. QED
    BY <1>1, <2>1, <2>2, <2>5, <2>6, OpenCounts
<1>7. SocketTypeOK'
  BY <1>1, <1>3, <1>4, <1>6 DEF SocketTypeOK, SlotsWithin
<1>8. ASSUME NEW q \in Gateways
      PROVE  SessionInv(c, q)'
  <2>1. CASE q = p
    BY <1>1, <1>2, <1>3, <1>4, <2>1 DEF SessionInv, ConnAt, Quiet, IsOpen
  <2>2. CASE q # p
    <3>1. SessionInv(c, q) /\ session'[<<c, q>>] = session[<<c, q>>]
      BY <1>3, <2>2 DEF SocketInv
    <3>2. QED
      BY <1>1, <1>4, <2>2, <3>1 DEF SessionInv, ConnAt, Quiet, IsOpen
  <2>3. QED
    BY <2>1, <2>2
<1>9. \A d \in Conns \ {c}, q \in Gateways : SessionKept(<<d, q>>)
  BY <1>3 DEF SessionKept
<1>10. QED
  BY <1>4, <1>6, <1>7, <1>8, <1>9, Moves

LEMMA InvDialFails ==
  ASSUME SocketInv, NEW c \in Conns, DialFails(c)
  PROVE  SocketInv'
<1> PICK p \in Gateways : p = TurnProvider(c)
  BY TurnKey DEF SocketInv
<1>1. /\ conn[c].step = "dial" /\ Go(c, "idle") /\ UNCHANGED session
      /\ taken' = [taken EXCEPT ![p] = @ - 1] /\ SocketTypeOK /\ SlotsWithin
  BY DEF DialFails, ConnAt, SocketInv, SocketTypeOK, SlotsWithin
<1>2. /\ \A d \in Conns \ {c} : conn'[d] = conn[d]
      /\ conn'[c].step = "idle"
      /\ conn' \in [Conns ->
           [client : BOOLEAN, step : ConnStep, turn : 0 .. MaxTurns,
            pinned : Gateways \cup {"none"}, via : DOMAIN Preference]]
  BY <1>1, GoFacts DEF ConnStep
<1>3. \A d \in Conns \ {c} : TurnProvider(d)' = TurnProvider(d)
  BY <1>2 DEF TurnProvider
<1>4. SlotsWithin'
  <2>1. c \in DialingAt(p) /\ DialingAt(p)' = DialingAt(p) \ {c}
    BY <1>1, <1>2, <1>3 DEF DialingAt, ConnAt
  <2>2. \A q \in Gateways \ {p} : DialingAt(q)' = DialingAt(q)
    BY <1>1, <1>2, <1>3 DEF DialingAt, ConnAt
  <2>3. \A q \in Gateways : OpenAt(q)' = OpenAt(q)
    BY <1>1 DEF OpenAt, IsOpen
  <2>4. QED
    BY <1>1, <2>1, <2>2, <2>3, DialCounts
<1>5. SocketTypeOK'
  BY <1>1, <1>2, <1>4 DEF SocketTypeOK, SlotsWithin
<1>6. ASSUME NEW q \in Gateways
      PROVE  SessionInv(c, q)'
  <2>1. SessionInv(c, q)
    BY DEF SocketInv
  <2>2. QED
    BY <1>1, <1>2, <2>1 DEF SessionInv, ConnAt, Quiet, IsOpen
<1>7. QED
  BY <1>1, <1>2, <1>4, <1>5, <1>6, Moves DEF SessionKept

(* The session is put into the store; those in gone make room for it.      *)
LEMMA StoreFacts ==
  ASSUME SocketInv, NEW c \in Conns, ConnAt(c, "put"), NEW gone \in SUBSET Stored,
         session' = [k \in Keys |->
           IF k \in gone THEN Out(k)
           ELSE IF k = Key(c) THEN [session[k] EXCEPT !.stored = TRUE]
           ELSE session[k]],
         taken' = Freed(gone), Go(c, "write")
  PROVE  SocketInv'
<1> PICK p \in Gateways : p = TurnProvider(c)
  BY TurnKey DEF SocketInv
<1>1. /\ conn[c].step = "put" /\ SocketTypeOK /\ SlotsWithin /\ SessionInv(c, p)
      /\ Key(c) = <<c, p>> /\ <<c, p>> \in Keys /\ gone \subseteq Keys
  BY TurnKey DEF ConnAt, SocketInv, SocketTypeOK, SlotsWithin, Stored
<1>2. ~session[<<c, p>>].stored /\ <<c, p>> \notin gone
  BY <1>1 DEF SessionInv, ConnAt, Stored
<1> DEFINE s == [session[<<c, p>>] EXCEPT !.stored = TRUE]
<1>3. /\ s \in UpstreamSession /\ Len(s.reads) <= QueueSize
      /\ s.open = session[<<c, p>>].open /\ s.stored
      /\ s.asked = session[<<c, p>>].asked /\ s.reads = session[<<c, p>>].reads
  <2>1. session[<<c, p>>] \in UpstreamSession /\ Len(session[<<c, p>>].reads) <= QueueSize
    BY <1>1 DEF SocketTypeOK
  <2>2. QED
    BY <2>1 DEF UpstreamSession
<1>4. \A k \in Keys : session'[k] = IF k \in gone THEN Out(k)
                                    ELSE IF k = <<c, p>> THEN s ELSE session[k]
  BY <1>1
<1> HIDE DEF s
<1>5. ASSUME NEW k \in Keys
      PROVE  /\ session'[k] \in UpstreamSession
             /\ Len(session'[k].reads) <= QueueSize
             /\ IsOpen(k)' <=> IsOpen(k) /\ k \notin gone
             /\ k # <<c, p>> => SessionKept(k)
  <2>1. session[k] \in UpstreamSession /\ Len(session[k].reads) <= QueueSize
    BY <1>1 DEF SocketTypeOK
  <2>2. QED
    BY <1>1, <1>2, <1>3, <1>4, <2>1, OutFacts DEF IsOpen, SessionKept
<1>6. session' \in [Keys -> UpstreamSession] /\ session'[<<c, p>>] = s
  <2>1. session' = [k \in Keys |-> session'[k]]
    OBVIOUS
  <2>2. QED
    BY <1>1, <1>2, <1>4, <1>5, <2>1
<1>7. /\ \A d \in Conns \ {c} : conn'[d] = conn[d]
      /\ conn'[c].step = "write" /\ TurnProvider(c)' = p
      /\ conn' \in [Conns ->
           [client : BOOLEAN, step : ConnStep, turn : 0 .. MaxTurns,
            pinned : Gateways \cup {"none"}, via : DOMAIN Preference]]
  BY <1>1, GoFacts DEF ConnStep
<1>8. SlotsWithin'
  <2>1. \A q \in Gateways : DialingAt(q)' = DialingAt(q)
    BY <1>1, <1>7, DialingKept
  <2>2. QED
    BY <1>1, <1>5, <2>1, FreedCounts
<1>9. SocketTypeOK'
  BY <1>5, <1>6, <1>7, <1>8 DEF SocketTypeOK, SlotsWithin
<1>10. ASSUME NEW q \in Gateways
       PROVE  SessionInv(c, q)'
  <2>1. CASE q = p
    BY <1>1, <1>3, <1>6, <1>7, <2>1 DEF SessionInv, ConnAt, Quiet, IsOpen
  <2>2. CASE q # p
    <3>1. SessionInv(c, q) /\ <<c, q>> \in Keys /\ <<c, q>> # <<c, p>>
      BY <2>2, KeyOf DEF SocketInv
    <3>2. Quiet(<<c, q>>) /\ (IsOpen(<<c, q>>) => session[<<c, q>>].stored)
      BY <1>1, <2>2, <3>1 DEF SessionInv, ConnAt
    <3>3. Quiet(<<c, q>>)' /\ (IsOpen(<<c, q>>)' => session'[<<c, q>>].stored)
      BY <1>1, <1>5, <3>1, <3>2, OutFacts
         DEF SessionKept, Quiet, IsOpen, NoSession
    <3>4. QED
      BY <1>7, <3>3 DEF SessionInv, ConnAt
  <2>3. QED
    BY <2>1, <2>2
<1>11. \A d \in Conns \ {c}, q \in Gateways : SessionKept(<<d, q>>)
  <2> SUFFICES ASSUME NEW d \in Conns \ {c}, NEW q \in Gateways
               PROVE  SessionKept(<<d, q>>)
    OBVIOUS
  <2>1. <<d, q>> \in Keys /\ <<d, q>> # <<c, p>>
    BY KeyOf
  <2>2. QED
    BY <1>5, <2>1
<1>12. QED
  BY <1>7, <1>8, <1>9, <1>10, <1>11, Moves

LEMMA InvPutSession ==
  ASSUME SocketInv, NEW c \in Conns, PutSession(c)
  PROVE  SocketInv'
<1> DEFINE pruned == {k \in Keys : Prunable(k)}
           rest == Stored \ pruned
           Store(gone) ==
             /\ session' = [k \in Keys |->
                  IF k \in gone THEN Out(k)
                  ELSE IF k = Key(c) THEN [session[k] EXCEPT !.stored = TRUE]
                  ELSE session[k]]
             /\ taken' = Freed(gone)
             /\ Go(c, "write")
<1>1. /\ ConnAt(c, "put")
      /\ \/ Store(pruned)
         \/ \E k \in rest : Store(pruned \cup {k})
         \/ CloseSessions(pruned, {Key(c)}) /\ Go(c, "idle")
  BY DEF PutSession
<1>2. pruned \in SUBSET Stored /\ \A k \in rest : pruned \cup {k} \in SUBSET Stored
  BY DEF Stored, Prunable
<1>3. pruned \in SUBSET Keys /\ conn[c].step # "dial"
  BY <1>1 DEF ConnAt
<1> HIDE DEF pruned, rest
<1>4. ASSUME NEW gone \in SUBSET Stored, Store(gone)
      PROVE  SocketInv'
  BY <1>1, <1>4, StoreFacts
<1> HIDE DEF Store
<1>5. CASE CloseSessions(pruned, {Key(c)}) /\ Go(c, "idle")
  BY <1>3, <1>5, TurnClosed
<1>6. QED
  BY <1>1, <1>2, <1>4, <1>5

-----------------------------------------------------------------------------
(* The turn: its frame, what it reads, and the ways in which it fails.     *)
LEMMA InvFailTurn ==
  ASSUME SocketInv, NEW c \in Conns, conn[c].step # "dial",
         NEW step \in {"idle", "leave"}, FailTurn(c, step)
  PROVE  SocketInv'
BY TurnClosed DEF FailTurn

(* The turn's own session is written or read, and stays open.              *)
LEMMA TurnGoesOn ==
  ASSUME SocketInv, NEW c \in Conns, SocketTypeOK', UNCHANGED taken,
         \A d \in Conns \ {c} : conn'[d] = conn[d],
         conn[c].step \in {"write", "read"}, conn'[c].step \in {"read", "idle"},
         NEW s \in UpstreamSession, Len(s.reads) <= QueueSize,
         s.open = Its(c).open, s.stored = Its(c).stored,
         session' = [session EXCEPT ![Key(c)] = s],
         NEW p \in Gateways, p = TurnProvider(c), SessionInv(c, p)',
         conn'[c].step = "read" => TurnProvider(c)' = p
  PROVE  SocketInv'
<1>1. /\ SocketTypeOK /\ SlotsWithin /\ Its(c) = session[<<c, p>>]
      /\ session'[<<c, p>>] = s
      /\ \A q \in Gateways \ {p} : session'[<<c, q>>] = session[<<c, q>>]
      /\ \A d \in Conns \ {c}, q \in Gateways : session'[<<d, q>>] = session[<<d, q>>]
  BY TurnSessionSet DEF SocketInv, SocketTypeOK, SlotsWithin, Its, Key
<1>2. SlotsWithin'
  <2>1. \A k \in Keys : IsOpen(k)' <=> IsOpen(k)
    BY <1>1 DEF IsOpen, Keys
  <2>2. \A q \in Gateways : DialingAt(q)' = DialingAt(q)
    BY <1>1, DialingKept
  <2>3. QED
    BY <1>1, <2>1, <2>2, SlotsUntouched
<1>3. ASSUME NEW q \in Gateways, q # p
      PROVE  SessionInv(c, q)'
  <2>1. /\ SessionInv(c, q) /\ session'[<<c, q>>] = session[<<c, q>>]
        /\ conn'[c].step = "read" => TurnProvider(c)' = p
    BY <1>1, <1>3 DEF SocketInv
  <2>2. Quiet(<<c, q>>) /\ (IsOpen(<<c, q>>) => session[<<c, q>>].stored)
    BY <1>3, <2>1 DEF SessionInv, ConnAt
  <2>3. QED
    BY <1>3, <2>1, <2>2 DEF SessionInv, ConnAt, Quiet, IsOpen
<1>4. \A q \in Gateways : SessionInv(c, q)'
  BY <1>3
<1>5. QED
  BY <1>1, <1>2, <1>4, Moves DEF SessionKept

LEMMA InvWriteFrame ==
  ASSUME SocketInv, NEW c \in Conns, WriteFrame(c)
  PROVE  SocketInv'
<1> PICK p \in Gateways : p = TurnProvider(c)
  BY TurnKey DEF SocketInv
<1>1. /\ conn[c].step = "write" /\ SocketTypeOK /\ SessionInv(c, p)
      /\ Key(c) = <<c, p>> /\ <<c, p>> \in Keys /\ Its(c) = session[<<c, p>>]
      /\ Its(c) \in UpstreamSession /\ Len(Its(c).reads) <= QueueSize
      /\ conn[c].turn \in 0 .. MaxTurns
  BY TurnKey DEF WriteFrame, ConnAt, SocketInv, SocketTypeOK, Its
<1>2. CASE /\ Its(c).open
           /\ session' = [session EXCEPT ![Key(c)] =
                [@ EXCEPT !.asked = conn[c].turn, !.parts = 0, !.idle = FALSE]]
           /\ Go(c, "read")
           /\ UNCHANGED taken
  <2> DEFINE s == [Its(c) EXCEPT !.asked = conn[c].turn, !.parts = 0, !.idle = FALSE]
  <2>1. session' = [session EXCEPT ![Key(c)] = s]
    BY <1>1, <1>2 DEF SocketTypeOK
  <2>2. /\ s \in UpstreamSession /\ s.open = Its(c).open /\ s.stored = Its(c).stored
        /\ s.reads = Its(c).reads /\ s.asked = conn[c].turn
    <3>1. 0 \in 0 .. MaxParts
      BY SocketAssumption
    <3>2. QED
      BY <1>1, <3>1 DEF UpstreamSession
  <2> HIDE DEF s
  <2>3. /\ \A d \in Conns \ {c} : conn'[d] = conn[d]
        /\ conn'[c].step = "read" /\ TurnProvider(c)' = p
        /\ conn'[c].turn = conn[c].turn
        /\ conn' \in [Conns ->
             [client : BOOLEAN, step : ConnStep, turn : 0 .. MaxTurns,
              pinned : Gateways \cup {"none"}, via : DOMAIN Preference]]
    BY <1>1, <1>2, GoFacts DEF ConnStep
  <2>4. /\ session' \in [Keys -> UpstreamSession]
        /\ \A j \in Keys : Len(session'[j].reads) <= QueueSize
        /\ session'[<<c, p>>] = s
    BY <1>1, <2>1, <2>2, TurnSessionSet
  <2>5. SocketTypeOK'
    BY <1>1, <1>2, <2>3, <2>4 DEF SocketTypeOK
  <2>6. SessionInv(c, p)'
    <3>1. Its(c).reads = <<>> /\ Its(c).stored
      BY <1>1, <1>2 DEF SessionInv, ConnAt, Quiet, IsOpen
    <3>2. DOMAIN s.reads = {}
      BY <2>2, <3>1
    <3>3. Answering(<<c, p>>, conn[c].turn)'
      BY <2>2, <2>3, <2>4, <3>2 DEF Answering
    <3>4. QED
      BY <2>2, <2>3, <2>4, <3>1, <3>3 DEF SessionInv, ConnAt, IsOpen
  <2>7. QED
    BY <1>1, <1>2, <2>1, <2>2, <2>3, <2>5, <2>6, TurnGoesOn
<1>3. CASE CloseSessions({}, {Key(c)}) /\ Go(c, "idle")
  BY <1>1, <1>3, TurnClosed
<1>4. QED
  BY <1>2, <1>3 DEF WriteFrame

(* Of the events queued the first is read, and the others are as before.   *)
LEMMA Read ==
  ASSUME NEW reads \in Seq(TurnEvent), reads # <<>>
  PROVE  /\ Tail(reads) \in Seq(TurnEvent) /\ Len(Tail(reads)) = Len(reads) - 1
         /\ Len(reads) \in Nat \ {0} /\ Head(reads) = reads[1]
         /\ \A i \in DOMAIN Tail(reads) :
              i + 1 \in DOMAIN reads /\ Tail(reads)[i] = reads[i + 1]
OBVIOUS

LEMMA InvReadEvent ==
  ASSUME SocketInv, NEW c \in Conns, ReadEvent(c)
  PROVE  SocketInv'
<1> PICK p \in Gateways : p = TurnProvider(c)
  BY TurnKey DEF SocketInv
<1> DEFINE reads == Its(c).reads
           rest == [Its(c) EXCEPT !.reads = Tail(reads)]
<1>1. /\ conn[c].step = "read" /\ reads # <<>>
      /\ SocketTypeOK /\ SessionInv(c, p) /\ SlotsWithin
      /\ Key(c) = <<c, p>> /\ <<c, p>> \in Keys /\ Its(c) = session[<<c, p>>]
      /\ Its(c) \in UpstreamSession /\ Len(reads) <= QueueSize
      /\ reads \in Seq(TurnEvent)
  BY TurnKey DEF ReadEvent, ConnAt, SocketInv, SocketTypeOK, Its, UpstreamSession, SlotsWithin
<1>2. /\ Its(c).asked \in {0, conn[c].turn}
      /\ \A i \in DOMAIN reads :
           /\ reads[i].turn = conn[c].turn
           /\ reads[i].kind # "part" => i = Len(reads) /\ Its(c).asked = 0
      /\ IsOpen(<<c, p>>) => Its(c).stored
  BY <1>1 DEF SessionInv, Answering, ConnAt, Its
<1>3. /\ rest \in UpstreamSession /\ Len(rest.reads) <= QueueSize
      /\ rest.open = Its(c).open /\ rest.stored = Its(c).stored
      /\ rest.asked = Its(c).asked /\ rest.reads = Tail(reads)
  <2> DEFINE tail == Tail(reads)
  <2>1. tail \in Seq(TurnEvent) /\ Len(tail) = Len(reads) - 1 /\ Len(reads) \in Nat
    BY <1>1, Read
  <2>2. Len(tail) <= QueueSize /\ QueueSize \in Nat
    BY <1>1, <2>1, SocketAssumption
  <2> HIDE DEF tail
  <2>3. /\ [Its(c) EXCEPT !.reads = tail] \in UpstreamSession
        /\ [Its(c) EXCEPT !.reads = tail].reads = tail
    BY <1>1, <2>1 DEF UpstreamSession
  <2>4. QED
    BY <1>1, <2>2, <2>3 DEF UpstreamSession, tail
<1>4. CASE FailTurn(c, "leave") \/ FailTurn(c, "idle")
  BY <1>1, <1>4, InvFailTurn
<1>5. CASE /\ session' = [session EXCEPT ![Key(c)] = rest]
           /\ UNCHANGED <<conn, taken>>
  <2> HIDE DEF rest
  <2>1. /\ session' \in [Keys -> UpstreamSession]
        /\ \A j \in Keys : Len(session'[j].reads) <= QueueSize
        /\ session'[<<c, p>>] = rest
    BY <1>1, <1>3, <1>5, TurnSessionSet
  <2>2. SocketTypeOK'
    BY <1>1, <1>5, <2>1 DEF SocketTypeOK
  <2>3. TurnProvider(c)' = p
    BY <1>5 DEF TurnProvider
  <2>4. Answering(<<c, p>>, conn[c].turn)'
    <3>1. /\ rest.asked \in {0, conn[c].turn}
          /\ \A i \in DOMAIN rest.reads :
               /\ rest.reads[i].turn = conn[c].turn
               /\ rest.reads[i].kind # "part" => i = Len(rest.reads) /\ rest.asked = 0
      <4> DEFINE tail == Tail(reads)
      <4>1. /\ tail \in Seq(TurnEvent) /\ Len(tail) = Len(reads) - 1
            /\ Len(reads) \in Nat
            /\ \A i \in DOMAIN tail : i + 1 \in DOMAIN reads /\ tail[i] = reads[i + 1]
        BY <1>1, Read
      <4> HIDE DEF reads, tail
      <4>2. \A i \in DOMAIN tail :
              /\ tail[i].turn = conn[c].turn
              /\ tail[i].kind # "part" => i = Len(tail) /\ Its(c).asked = 0
        BY <1>2, <4>1
      <4>3. rest.reads = tail
        BY <1>3 DEF tail
      <4>4. QED
        BY <1>2, <1>3, <4>2, <4>3
    <3>2. QED
      BY <1>5, <2>1, <3>1 DEF Answering
  <2>5. SessionInv(c, p)'
    BY <1>1, <1>2, <1>3, <1>5, <2>1, <2>3, <2>4 DEF SessionInv, ConnAt, IsOpen
  <2>6. QED
    BY <1>1, <1>3, <1>5, <2>2, <2>3, <2>5, TurnGoesOn
<1>6. CASE /\ Head(reads).kind = "over"
           /\ session' = [session EXCEPT ![Key(c)] = [rest EXCEPT !.turns = 0]]
           /\ conn' = [conn EXCEPT ![c] =
                [@ EXCEPT !.step = "idle", !.via = 1, !.pinned = TurnProvider(c)]]
           /\ UNCHANGED taken
  <2> DEFINE s == [rest EXCEPT !.turns = 0]
             rec == [conn[c] EXCEPT !.step = "idle", !.via = 1, !.pinned = p]
  <2>1. s \in UpstreamSession /\ Len(s.reads) <= QueueSize
        /\ s.open = Its(c).open /\ s.stored = Its(c).stored /\ s.asked = Its(c).asked
        /\ s.reads = Tail(reads)
    <3> HIDE DEF rest
    <3>1. QED
      BY <1>3 DEF UpstreamSession
  <2>2. s.asked = 0 /\ s.reads = <<>>
    <3>1. 1 \in DOMAIN reads /\ reads[1].kind # "part"
      BY <1>1, <1>6, Read
    <3>2. Len(reads) = 1 /\ Its(c).asked = 0
      BY <1>2, <3>1
    <3>3. Tail(reads) \in Seq(TurnEvent) /\ Len(Tail(reads)) = 0
      BY <1>1, <3>2, Read
    <3>4. Tail(reads) = <<>>
      BY <3>3, EmptySeq
    <3>5. QED
      BY <2>1, <3>2, <3>4
  <2> HIDE DEF rest
  <2>3. /\ rec.step = "idle" /\ rec.pinned = p
        /\ rec \in [client : BOOLEAN, step : ConnStep, turn : 0 .. MaxTurns,
                    pinned : Gateways \cup {"none"}, via : DOMAIN Preference]
    <3>1. 1 \in DOMAIN Preference
      BY SocketAssumption
    <3>2. QED
      BY <1>1, <3>1 DEF SocketTypeOK, ConnStep
  <2>4. session' = [session EXCEPT ![Key(c)] = s] /\ conn' = [conn EXCEPT ![c] = rec]
    BY <1>6
  <2> HIDE DEF s, rec
  <2>5. /\ session' \in [Keys -> UpstreamSession]
        /\ \A j \in Keys : Len(session'[j].reads) <= QueueSize
        /\ session'[<<c, p>>] = s
    BY <1>1, <2>1, <2>4, TurnSessionSet
  <2>6. conn'[c] = rec /\ \A d \in Conns \ {c} : conn'[d] = conn[d]
    BY <1>1, <2>4 DEF SocketTypeOK
  <2>7. SocketTypeOK'
    BY <1>1, <1>6, <2>3, <2>4, <2>5 DEF SocketTypeOK
  <2>8. TurnProvider(c)' = p
    BY <2>3, <2>6, SocketAssumption DEF TurnProvider
  <2>9. SessionInv(c, p)'
    BY <1>1, <1>2, <2>1, <2>2, <2>3, <2>5, <2>6 DEF SessionInv, ConnAt, IsOpen, Quiet
  <2>10. QED
    BY <1>1, <1>6, <2>1, <2>3, <2>4, <2>6, <2>7, <2>9, TurnGoesOn
<1>7. QED
  BY <1>4, <1>5, <1>6 DEF ReadEvent

(* The connection ends, and its sessions with it.                          *)
LEMMA InvLeaveLoop ==
  ASSUME SocketInv, NEW c \in Conns, LeaveLoop(c)
  PROVE  SocketInv'
<1> DEFINE ks == {k \in Stored : k[1] = c}
<1>1. /\ conn[c].step \in {"leave", "idle"} /\ Go(c, "left") /\ CloseSessions(ks, {})
      /\ SocketTypeOK /\ SlotsWithin /\ ks \in SUBSET Keys
      /\ \A q \in Gateways : session[<<c, q>>].stored => <<c, q>> \in ks
  BY KeyOf DEF LeaveLoop, ConnAt, SocketInv, SocketTypeOK, SlotsWithin, Stored
<1> HIDE DEF ks
<1>2. /\ session' \in [Keys -> UpstreamSession]
      /\ \A k \in Keys : /\ Len(session'[k].reads) <= QueueSize
                         /\ SessionKept(k)
                         /\ IsOpen(k)' <=> IsOpen(k) /\ k \notin ks
      /\ taken' = Freed(ks)
  <2> DEFINE none == {}
  <2>1. none \in SUBSET Keys /\ CloseSessions(ks, none) /\ ks \cup none = ks
    BY <1>1
  <2> HIDE DEF none
  <2>2. /\ session' \in [Keys -> UpstreamSession]
        /\ \A k \in Keys : /\ Len(session'[k].reads) <= QueueSize
                           /\ SessionKept(k)
                           /\ IsOpen(k)' <=> IsOpen(k) /\ k \notin ks \cup none
        /\ taken' = Freed(ks \cup none)
    BY <1>1, <2>1, CloseFacts
  <2>3. QED
    BY <2>1, <2>2
<1>3. /\ \A d \in Conns \ {c} : conn'[d] = conn[d]
      /\ conn'[c].step = "left"
      /\ conn' \in [Conns ->
           [client : BOOLEAN, step : ConnStep, turn : 0 .. MaxTurns,
            pinned : Gateways \cup {"none"}, via : DOMAIN Preference]]
  BY <1>1, GoFacts DEF ConnStep
<1>4. SlotsWithin'
  <2>1. \A p \in Gateways : DialingAt(p)' = DialingAt(p)
    BY <1>1, <1>3, DialingKept
  <2>2. QED
    BY <1>1, <1>2, <2>1, FreedCounts
<1>5. SocketTypeOK'
  BY <1>2, <1>3, <1>4 DEF SocketTypeOK, SlotsWithin
<1>6. ASSUME NEW q \in Gateways
      PROVE  SessionInv(c, q)'
  <2>1. <<c, q>> \in Keys /\ SessionInv(c, q)
    BY KeyOf DEF SocketInv
  <2>2. Quiet(<<c, q>>) /\ (IsOpen(<<c, q>>) => session[<<c, q>>].stored)
    BY <1>1, <2>1 DEF SessionInv, ConnAt
  <2>3. ~IsOpen(<<c, q>>)'
    BY <1>1, <1>2, <2>1, <2>2
  <2>4. Quiet(<<c, q>>)'
    BY <1>1, <1>2, <2>1, <2>2, OutFacts DEF SessionKept, Quiet, NoSession
  <2>5. QED
    BY <1>3, <2>3, <2>4 DEF SessionInv, ConnAt
<1>7. QED
  BY <1>2, <1>3, <1>4, <1>5, <1>6, KeyOf, Moves

LEMMA InvClientGone ==
  ASSUME SocketInv, NEW c \in Conns, ClientGone(c)
  PROVE  SocketInv'
<1> DEFINE rec == [conn[c] EXCEPT !.client = FALSE]
<1>1. /\ conn' = [conn EXCEPT ![c] = rec] /\ UNCHANGED <<session, taken>>
      /\ SocketTypeOK /\ SlotsWithin
  BY DEF ClientGone, SocketInv, SocketTypeOK, SlotsWithin
<1>2. /\ rec.step = conn[c].step /\ rec.turn = conn[c].turn
      /\ rec.pinned = conn[c].pinned /\ rec.via = conn[c].via
      /\ rec \in [client : BOOLEAN, step : ConnStep, turn : 0 .. MaxTurns,
                  pinned : Gateways \cup {"none"}, via : DOMAIN Preference]
  BY <1>1 DEF SocketTypeOK
<1> HIDE DEF rec
<1>3. conn'[c] = rec /\ \A d \in Conns \ {c} : conn'[d] = conn[d]
  BY <1>1 DEF SocketTypeOK
<1>4. SocketTypeOK'
  BY <1>1, <1>2 DEF SocketTypeOK
<1>5. \A d \in Conns : /\ TurnProvider(d)' = TurnProvider(d)
                       /\ conn'[d].step = conn[d].step /\ conn'[d].turn = conn[d].turn
  BY <1>2, <1>3 DEF TurnProvider
<1>6. SlotsWithin'
  <2>1. \A p \in Gateways : DialingAt(p)' = DialingAt(p)
    BY <1>5 DEF DialingAt, ConnAt
  <2>2. \A k \in Keys : IsOpen(k)' <=> IsOpen(k)
    BY <1>1 DEF IsOpen
  <2>3. QED
    BY <1>1, <2>1, <2>2, SlotsUntouched
<1>7. ASSUME NEW q \in Gateways
      PROVE  SessionInv(c, q)'
  <2>1. SessionInv(c, q)
    BY DEF SocketInv
  <2>2. QED
    BY <1>1, <1>5, <2>1 DEF SessionInv, ConnAt, Quiet, IsOpen, Answering
<1>8. QED
  BY <1>1, <1>3, <1>4, <1>6, <1>7, Moves DEF SessionKept

-----------------------------------------------------------------------------
(* The upstream and the time that passes act on one session.               *)
LEMMA OneSession ==
  ASSUME SocketInv, NEW c \in Conns, NEW p \in Gateways, NEW s \in UpstreamSession,
         Len(s.reads) <= QueueSize, session' = [session EXCEPT ![<<c, p>>] = s],
         UNCHANGED conn, SlotsWithin', SessionInv(c, p)'
  PROVE  SocketInv'
<1>1. /\ session' \in [Keys -> UpstreamSession]
      /\ \A j \in Keys : Len(session'[j].reads) <= QueueSize
      /\ \A j \in Keys \ {<<c, p>>} : session'[j] = session[j]
  BY KeyOf, SessionSet DEF SocketInv
<1>2. SocketTypeOK'
  BY <1>1 DEF SocketInv, SocketTypeOK, SlotsWithin
<1>3. ASSUME NEW d \in Conns, NEW q \in Gateways, d # c \/ q # p
      PROVE  SessionInv(d, q)'
  <2>1. <<d, q>> \in Keys /\ <<d, q>> # <<c, p>>
    BY <1>3, KeyOf
  <2>2. SessionKept(<<d, q>>)
    BY <1>1, <2>1 DEF SessionKept
  <2>3. QED
    BY <2>2, OthersUndisturbed DEF SocketInv
<1>4. QED
  BY <1>2, <1>3 DEF SocketInv, SlotsWithin

LEMMA DialingSame ==
  ASSUME UNCHANGED conn
  PROVE  \A p \in Gateways : DialingAt(p)' = DialingAt(p)
BY DEF DialingAt, ConnAt, TurnProvider

(* The upstream ends a session, which gives its slot back.                 *)
LEMMA SessionEnds ==
  ASSUME SocketInv, NEW k \in Keys, session[k].open,
         session' = [session EXCEPT ![k] = [session[k] EXCEPT !.open = FALSE, !.asked = 0]],
         taken' = Freed({k}), UNCHANGED conn
  PROVE  SocketInv'
<1> DEFINE s == [session[k] EXCEPT !.open = FALSE, !.asked = 0]
<1> PICK c \in Conns, p \in Gateways : k = <<c, p>>
  BY DEF Keys
<1>1. /\ SocketTypeOK /\ SlotsWithin /\ SessionInv(c, p)
      /\ session[k] \in UpstreamSession /\ Len(session[k].reads) <= QueueSize
  BY DEF SocketInv, SocketTypeOK, SlotsWithin
<1>2. /\ s \in UpstreamSession /\ Len(s.reads) <= QueueSize
      /\ ~s.open /\ s.asked = 0 /\ s.stored = session[k].stored
      /\ s.reads = session[k].reads
  <2>1. 0 \in 0 .. MaxTurns
    BY SocketAssumption
  <2>2. QED
    BY <1>1, <2>1 DEF UpstreamSession
<1>3. session' = [session EXCEPT ![k] = s]
  OBVIOUS
<1> HIDE DEF s
<1>4. session'[k] = s /\ \A j \in Keys \ {k} : session'[j] = session[j]
  BY <1>1, <1>3 DEF SocketTypeOK
<1>5. SlotsWithin'
  <2> DEFINE ks == {k}
  <2>1. \A j \in Keys : IsOpen(j)' <=> IsOpen(j) /\ j \notin ks
    BY <1>2, <1>4 DEF IsOpen
  <2>2. ks \in SUBSET Keys /\ taken' = Freed(ks)
    OBVIOUS
  <2> HIDE DEF ks
  <2>3. QED
    BY <1>1, <2>1, <2>2, DialingSame, FreedCounts
<1>6. SessionInv(c, p)'
  <2>1. Quiet(k) => Quiet(k)'
    BY <1>2, <1>4 DEF Quiet
  <2>2. Answering(k, conn[c].turn) => Answering(k, conn[c].turn)'
    BY <1>2, <1>4 DEF Answering
  <2>3. ~IsOpen(k)' /\ session'[k].stored = session[k].stored
    BY <1>2, <1>4 DEF IsOpen
  <2>4. QED
    BY <1>1, <2>1, <2>2, <2>3 DEF SessionInv, ConnAt, TurnProvider
<1>7. QED
  BY <1>2, <1>3, <1>5, <1>6, OneSession

LEMMA InvUpstream ==
  ASSUME SocketInv, NEW k \in Keys, Upstream(k)
  PROVE  SocketInv'
<1> PICK c \in Conns, p \in Gateways : k = <<c, p>>
  BY DEF Keys
<1> PICK kind \in {"part", "over", "failed"} :
      (kind = "part" => session[k].parts < MaxParts) /\ Enqueue(k, kind)
  BY DEF Upstream
<1>1. /\ SocketTypeOK /\ SlotsWithin /\ SessionInv(c, p)
      /\ session[k] \in UpstreamSession /\ Len(session[k].reads) <= QueueSize
      /\ session[k].open /\ session[k].asked # 0 /\ UNCHANGED conn
  BY DEF SocketInv, SocketTypeOK, SlotsWithin, Upstream
<1>2. CASE ~(Len(session[k].reads) < QueueSize)
  BY <1>1, <1>2, SessionEnds DEF Enqueue
<1>3. CASE Len(session[k].reads) < QueueSize
  <2> DEFINE event == [turn |-> session[k].asked, kind |-> kind]
             reads == session[k].reads
             more == Append(reads, event)
             parts == IF kind = "part" THEN session[k].parts + 1 ELSE 0
             asked == IF kind = "part" THEN session[k].asked ELSE 0
             s == [session[k] EXCEPT !.reads = more, !.parts = parts, !.asked = asked]
  <2>1. session' = [session EXCEPT ![k] = s] /\ UNCHANGED taken
    BY <1>1, <1>3 DEF Enqueue
  <2>2. /\ event \in TurnEvent /\ reads \in Seq(TurnEvent)
        /\ parts \in 0 .. MaxParts /\ asked \in 0 .. MaxTurns
    BY <1>1, SocketAssumption DEF UpstreamSession, TurnEvent
  <2>3. /\ more \in Seq(TurnEvent) /\ Len(more) = Len(reads) + 1 /\ Len(reads) \in Nat
        /\ DOMAIN reads = 1 .. Len(reads) /\ DOMAIN more = 1 .. Len(more)
        /\ \A i \in DOMAIN reads : more[i] = reads[i]
        /\ more[Len(reads) + 1] = event
    <3> HIDE DEF event, reads
    <3>1. QED
      BY <2>2
  <2>4. Len(more) <= QueueSize
    BY <1>3, <2>3, SocketAssumption
  <2>5. /\ Answering(k, conn[c].turn) /\ ConnAt(c, "read") /\ TurnProvider(c) = p
        /\ session[k].stored
    BY <1>1 DEF SessionInv, Quiet, IsOpen, ConnAt
  <2>6. /\ asked \in {0, conn[c].turn}
        /\ \A i \in DOMAIN more : /\ more[i].turn = conn[c].turn
                                  /\ more[i].kind # "part" => i = Len(more) /\ asked = 0
    <3>1. /\ session[k].asked = conn[c].turn
          /\ \A i \in DOMAIN reads : reads[i].turn = conn[c].turn /\ reads[i].kind = "part"
      BY <1>1, <2>5 DEF Answering
    <3>2. event.turn = conn[c].turn /\ event.kind = kind /\ (kind # "part" => asked = 0)
      BY <3>1
    <3>3. asked \in {0, conn[c].turn}
      BY <3>1
    <3> HIDE DEF event, reads, more, asked
    <3>4. QED
      BY <2>3, <3>1, <3>2, <3>3
  <2> HIDE DEF event, reads, more, parts, asked
  <2>7. /\ s \in UpstreamSession /\ s.reads = more /\ s.asked = asked
        /\ s.open /\ s.stored = session[k].stored
    BY <1>1, <2>2, <2>3 DEF UpstreamSession
  <2> HIDE DEF s
  <2>8. session'[k] = s /\ \A j \in Keys \ {k} : session'[j] = session[j]
    BY <1>1, <2>1 DEF SocketTypeOK
  <2>9. SlotsWithin'
    <3>1. \A j \in Keys : IsOpen(j)' <=> IsOpen(j)
      BY <1>1, <2>7, <2>8 DEF IsOpen
    <3>2. QED
      BY <1>1, <2>1, <3>1, DialingSame, SlotsUntouched
  <2>10. Answering(k, conn[c].turn)'
    BY <1>1, <2>6, <2>7, <2>8 DEF Answering
  <2>11. SessionInv(c, p)'
    BY <1>1, <2>5, <2>7, <2>8, <2>10 DEF SessionInv, ConnAt, TurnProvider, IsOpen
  <2>12. Len(s.reads) <= QueueSize
    BY <2>4, <2>7
  <2>13. QED
    BY <1>1, <2>1, <2>7, <2>9, <2>11, <2>12, OneSession
<1>4. QED
  BY <1>2, <1>3

LEMMA InvUpstreamCloses ==
  ASSUME SocketInv, NEW k \in Keys, UpstreamCloses(k)
  PROVE  SocketInv'
<1>1. session' = [session EXCEPT ![k] = [session[k] EXCEPT !.open = FALSE, !.asked = 0]]
  BY DEF UpstreamCloses, SocketInv, SocketTypeOK
<1>2. QED
  BY <1>1, SessionEnds DEF UpstreamCloses

LEMMA InvGrowIdle ==
  ASSUME SocketInv, NEW k \in Keys, GrowIdle(k)
  PROVE  SocketInv'
<1> DEFINE s == [session[k] EXCEPT !.idle = TRUE]
<1> PICK c \in Conns, p \in Gateways : k = <<c, p>>
  BY DEF Keys
<1>1. /\ SocketTypeOK /\ SlotsWithin /\ SessionInv(c, p)
      /\ session[k] \in UpstreamSession /\ Len(session[k].reads) <= QueueSize
      /\ session' = [session EXCEPT ![k] = s] /\ UNCHANGED <<conn, taken>>
  BY DEF SocketInv, SocketTypeOK, SlotsWithin, GrowIdle
<1>2. /\ s \in UpstreamSession /\ s.open = session[k].open
      /\ s.asked = session[k].asked /\ s.stored = session[k].stored
      /\ s.reads = session[k].reads
  BY <1>1 DEF UpstreamSession
<1> HIDE DEF s
<1>3. session'[k] = s /\ \A j \in Keys \ {k} : session'[j] = session[j]
  BY <1>1 DEF SocketTypeOK
<1>4. SlotsWithin'
  <2>1. \A j \in Keys : IsOpen(j)' <=> IsOpen(j)
    BY <1>2, <1>3 DEF IsOpen
  <2>2. QED
    BY <1>1, <2>1, DialingSame, SlotsUntouched
<1>5. SessionInv(c, p)'
  <2>1. Quiet(k)' <=> Quiet(k)
    BY <1>2, <1>3 DEF Quiet
  <2>2. Answering(k, conn[c].turn)' <=> Answering(k, conn[c].turn)
    BY <1>1, <1>2, <1>3 DEF Answering
  <2>3. (IsOpen(k)' <=> IsOpen(k)) /\ session'[k].stored = session[k].stored
    BY <1>2, <1>3 DEF IsOpen
  <2>4. QED
    BY <1>1, <2>1, <2>2, <2>3 DEF SessionInv, ConnAt, TurnProvider
<1>6. QED
  BY <1>1, <1>2, <1>4, <1>5, OneSession

LEMMA InvPruneIdle ==
  ASSUME SocketInv, PruneIdle
  PROVE  SocketInv'
<1> DEFINE ks == {k \in Keys : Prunable(k)}
           none == {}
<1>1. /\ ks \in SUBSET Keys /\ none \in SUBSET Keys /\ ks \cup none = ks
      /\ CloseSessions(ks, none) /\ UNCHANGED conn /\ SocketTypeOK /\ SlotsWithin
  BY DEF PruneIdle, SocketInv, SocketTypeOK, SlotsWithin
<1> HIDE DEF ks, none
<1>2. /\ session' \in [Keys -> UpstreamSession]
      /\ \A k \in Keys : /\ Len(session'[k].reads) <= QueueSize
                         /\ SessionKept(k)
                         /\ IsOpen(k)' <=> IsOpen(k) /\ k \notin ks \cup none
      /\ taken' = Freed(ks \cup none)
  BY <1>1, CloseFacts
<1>3. SlotsWithin'
  BY <1>1, <1>2, DialingSame, FreedCounts
<1>4. SocketTypeOK'
  BY <1>1, <1>2, <1>3 DEF SocketTypeOK, SlotsWithin
<1>5. QED
  BY <1>1, <1>2, <1>3, <1>4, NobodyMoves

LEMMA SocketInvInit ==
  ASSUME SocketInit
  PROVE  SocketInv
<1>1. SocketTypeOK
  <2>1. 1 \in DOMAIN Preference /\ 0 \in 0 .. MaxTurns /\ 0 \in 0 .. SlotLimit
        /\ "idle" \in ConnStep
    BY SocketAssumption DEF ConnStep
  <2>2. NoSession \in UpstreamSession /\ Len(NoSession.reads) <= QueueSize
    BY NoSessionType, SocketAssumption DEF NoSession
  <2>3. QED
    BY <2>1, <2>2 DEF SocketInit, SocketTypeOK
<1>2. SlotsAreOwned
  <2> SUFFICES ASSUME NEW p \in Gateways
               PROVE  taken[p] = Cardinality(OpenAt(p)) + Cardinality(DialingAt(p))
    BY Owned
  <2>1. OpenAt(p) = {} /\ DialingAt(p) = {}
    BY DEF OpenAt, DialingAt, SocketInit, NoSession, IsOpen, ConnAt
  <2>2. QED
    BY <2>1, FS_EmptySet DEF SocketInit
<1>3. ASSUME NEW c \in Conns, NEW p \in Gateways
      PROVE  SessionInv(c, p)
  BY KeyOf DEF SocketInit, SessionInv, ConnAt, Quiet, IsOpen, NoSession
<1>4. QED
  BY <1>1, <1>2, <1>3 DEF SocketInv

LEMMA SocketInvStep ==
  ASSUME SocketInv, [SocketNext]_socketVars
  PROVE  SocketInv'
<1>1. ASSUME NEW c \in Conns,
             \/ ReadEnd(c) \/ Cancelled(c) \/ WriteFails(c) \/ Timeout(c)
      PROVE  SocketInv'
  <2>1. conn[c].step # "dial" /\ FailTurn(c, "leave")
    BY <1>1 DEF ReadEnd, Cancelled, WriteFails, Timeout, ConnAt
  <2>2. QED
    BY <2>1, InvFailTurn
<1>2. ASSUME NEW c \in Conns, TurnStep(c)
      PROVE  SocketInv'
  BY <1>1, <1>2, InvReuse, InvMiss, InvAcquireSlot, InvPutSession, InvWriteFrame,
     InvReadEvent, InvLeaveLoop DEF TurnStep
<1>3. CASE UNCHANGED socketVars
  <2>1. \A k \in Keys : SessionKept(k) /\ (IsOpen(k)' <=> IsOpen(k))
    BY <1>3 DEF socketVars, SessionKept, IsOpen
  <2>2. SocketTypeOK' /\ UNCHANGED <<conn, taken>> /\ SlotsWithin
    BY <1>3 DEF SocketInv, SocketTypeOK, SlotsWithin, socketVars
  <2>3. SlotsWithin'
    BY <2>1, <2>2, DialingSame, SlotsUntouched
  <2>4. QED
    BY <2>1, <2>2, <2>3, NobodyMoves
<1>4. QED
  BY <1>1, <1>2, <1>3, InvBeginTurn, InvTurnRefused, InvDial, InvDialFails,
     InvClientGone, InvUpstream, InvUpstreamCloses, InvGrowIdle, InvPruneIdle
     DEF SocketNext

LEMMA SocketInvHolds == SocketSpec => []SocketInv
<1>1. SocketInit => SocketInv
  BY SocketInvInit
<1>2. SocketInv /\ [SocketNext]_socketVars => SocketInv'
  BY SocketInvStep
<1>3. QED
  BY <1>1, <1>2, PTL DEF SocketSpec

-----------------------------------------------------------------------------
(* The slots of a provider are those of its open sessions and of the dials *)
(* under way: whoever closes a session first, its slot is released once.   *)
THEOREM SlotsAreAlwaysOwned == SocketSpec => []SlotsAreOwned
<1>1. SocketInv => SlotsAreOwned
  BY DEF SocketInv
<1>2. QED
  BY <1>1, SocketInvHolds, PTL

(* The variables keep their types; so no more slots are taken than there   *)
(* are, and no session queues more than its capacity.                      *)
THEOREM SocketTypesHold == SocketSpec => []SocketTypeOK
<1>1. SocketInv => SocketTypeOK
  BY DEF SocketInv
<1>2. QED
  BY <1>1, SocketInvHolds, PTL

(* An open session is in the store, or about to be put there by a turn of  *)
(* its connection; a connection that has ended leaves none behind.         *)
THEOREM NoSessionIsEverStranded == SocketSpec => []NoSessionIsStranded
<1>1. SocketInv => NoSessionIsStranded
  BY DEF SocketInv, SessionInv, NoSessionIsStranded
<1>2. QED
  BY <1>1, SocketInvHolds, PTL

(* What a turn reads is the answer to that turn.                           *)
THEOREM TurnsNeverMix == SocketSpec => []TurnsDoNotMix
<1>1. ASSUME SocketInv
      PROVE  TurnsDoNotMix
  <2> SUFFICES ASSUME NEW c \in Conns, ConnAt(c, "read")
               PROVE  /\ \A i \in DOMAIN Its(c).reads : Its(c).reads[i].turn = conn[c].turn
                      /\ Its(c).asked \in {0, conn[c].turn}
    BY DEF TurnsDoNotMix
  <2>1. Answering(Key(c), conn[c].turn)
    BY <1>1, TurnKey DEF SocketInv, SessionInv
  <2>2. QED
    BY <2>1 DEF Answering, Its
<1>2. QED
  BY <1>1, SocketInvHolds, PTL

(* A session that is busy is not closed with the prunable ones.            *)
Busy(k) == session[k].open /\ session[k].stored /\ session[k].turns > 0

LEMMA BusyIsNotPruned ==
  ASSUME SocketTypeOK, NEW k \in Keys, Busy(k)
  PROVE  ~Prunable(k) /\ session[k].turns # 0
BY DEF Busy, Prunable

LEMMA LeftAlone ==
  ASSUME NEW k \in Keys, Busy(k), NEW ks, NEW mine, CloseSessions(ks, mine),
         k \notin ks \cup mine
  PROVE  session'[k].stored
BY DEF CloseSessions, Busy

(* A turn that closes its session goes to another step.                    *)
LEMMA TurnLets ==
  ASSUME SocketTypeOK, NEW c \in Conns, NEW k \in Keys, Busy(k), ~session'[k].stored,
         NEW ks, k \notin ks, CloseSessions(ks, {Key(c)}),
         NEW step \in ConnStep, Go(c, step), conn[c].step # step
  PROVE  conn'[k[1]] # conn[k[1]]
<1>1. k = Key(c)
  BY LeftAlone
<1>2. k[1] = c
  BY <1>1, TurnKey DEF Key
<1>3. QED
  BY <1>2, GoFacts

(* No eviction, pruning or timer of another takes out a session that a     *)
(* turn is using: only the step of its own connection does.                *)
THEOREM BusySessionsAreAlwaysSpared == SocketSpec => BusySessionsAreSpared
<1>1. ASSUME SocketInv, [SocketNext]_socketVars, NEW k \in Keys, Busy(k),
             ~session'[k].stored
      PROVE  conn'[k[1]] # conn[k[1]]
  <2>1. SocketTypeOK /\ ~Prunable(k) /\ session[k].turns # 0
    BY <1>1, BusyIsNotPruned DEF SocketInv
  <2>2. session' # session
    BY <1>1 DEF Busy
  <2>3. ASSUME NEW c \in Conns, NEW step \in {"idle", "leave"}, FailTurn(c, step),
               conn[c].step # step
        PROVE  conn'[k[1]] # conn[k[1]]
    BY <1>1, <2>1, <2>3, TurnLets DEF FailTurn, ConnStep
  <2>4. ASSUME NEW c \in Conns, NEW s,
               session' = [session EXCEPT ![Key(c)] = s], s.stored = Its(c).stored
        PROVE  FALSE
    BY <1>1, <2>1, <2>4, TurnKey DEF Busy, Its, SocketTypeOK
  <2>5. ASSUME NEW c \in Conns, Reuse(c)
        PROVE  conn'[k[1]] # conn[k[1]]
    <3> DEFINE s == [Its(c) EXCEPT !.turns = 1, !.idle = FALSE]
    <3>1. session' = [session EXCEPT ![Key(c)] = s]
      BY <2>1, <2>5, TurnKey DEF Reuse, Its, SocketTypeOK
    <3>2. Its(c) \in UpstreamSession
      BY <2>1, TurnKey DEF Its, SocketTypeOK
    <3>3. s.stored = Its(c).stored
      BY <3>2 DEF UpstreamSession
    <3>4. QED
      BY <2>4, <3>1, <3>3
  <2>6. ASSUME NEW c \in Conns, Miss(c)
        PROVE  conn'[k[1]] # conn[k[1]]
    <3>1. PICK step \in {"idle", "acquire"} : Go(c, step)
      BY <2>6 DEF Miss
    <3>2. conn[c].step = "get" /\ CloseSessions({}, {Key(c)}) /\ step \in ConnStep
      BY <2>6 DEF Miss, ConnAt, ConnStep
    <3>3. QED
      BY <1>1, <2>1, <3>1, <3>2, TurnLets
  <2>7. ASSUME NEW c \in Conns, Dial(c)
        PROVE  conn'[k[1]] # conn[k[1]]
    <3>1. k = Key(c) \/ session'[k] = session[k]
      BY <2>7, <2>1 DEF Dial, SocketTypeOK
    <3>2. k[1] = c
      BY <1>1, <2>1, <3>1, TurnKey DEF Busy
    <3>3. conn[c].step = "dial" /\ conn'[c].step = "put"
      BY <2>1, <2>7, GoFacts DEF Dial, ConnAt, ConnStep
    <3>4. QED
      BY <3>2, <3>3
  <2>8. ASSUME NEW c \in Conns, PutSession(c)
        PROVE  conn'[k[1]] # conn[k[1]]
    <3> DEFINE pruned == {j \in Keys : Prunable(j)}
    <3>1. CASE CloseSessions(pruned, {Key(c)}) /\ Go(c, "idle")
      <4>1. conn[c].step = "put" /\ k \notin pruned
        BY <2>1, <2>8 DEF PutSession, ConnAt
      <4> HIDE DEF pruned
      <4>2. QED
        BY <1>1, <2>1, <3>1, <4>1, TurnLets DEF ConnStep
    <3>2. ASSUME NEW gone, k \notin gone,
                 session' = [j \in Keys |->
                   IF j \in gone THEN Out(j)
                   ELSE IF j = Key(c) THEN [session[j] EXCEPT !.stored = TRUE]
                   ELSE session[j]]
          PROVE  FALSE
      <4>1. session[k] \in UpstreamSession
        BY <2>1 DEF SocketTypeOK
      <4>2. [session[k] EXCEPT !.stored = TRUE].stored
        BY <4>1 DEF UpstreamSession
      <4>3. QED
        BY <1>1, <3>2, <4>2 DEF Busy
    <3>3. k \notin pruned
          /\ \A j \in Stored \ pruned : session[j].turns = 0 => k \notin pruned \cup {j}
      BY <2>1
    <3>4. QED
      BY <2>8, <3>1, <3>2, <3>3 DEF PutSession
  <2>9. ASSUME NEW c \in Conns, WriteFrame(c)
        PROVE  conn'[k[1]] # conn[k[1]]
    <3>1. CASE CloseSessions({}, {Key(c)}) /\ Go(c, "idle")
      BY <1>1, <2>1, <2>9, <3>1, TurnLets DEF ConnStep, WriteFrame, ConnAt
    <3>2. CASE session' = [session EXCEPT ![Key(c)] =
                 [@ EXCEPT !.asked = conn[c].turn, !.parts = 0, !.idle = FALSE]]
      <4> DEFINE s == [Its(c) EXCEPT !.asked = conn[c].turn, !.parts = 0, !.idle = FALSE]
      <4>1. session' = [session EXCEPT ![Key(c)] = s]
        BY <2>1, <3>2, TurnKey DEF Its, SocketTypeOK
      <4>2. Its(c) \in UpstreamSession
        BY <2>1, TurnKey DEF Its, SocketTypeOK
      <4>3. s.stored = Its(c).stored
        BY <4>2 DEF UpstreamSession
      <4>4. QED
        BY <2>4, <4>1, <4>3
    <3>3. QED
      BY <2>9, <3>1, <3>2 DEF WriteFrame
  <2>10. ASSUME NEW c \in Conns, ReadEvent(c)
         PROVE  conn'[k[1]] # conn[k[1]]
    <3> DEFINE rest == [Its(c) EXCEPT !.reads = Tail(Its(c).reads)]
               last == [rest EXCEPT !.turns = 0]
    <3>1. Its(c) \in UpstreamSession /\ conn[c].step = "read"
      BY <2>1, <2>10, TurnKey DEF Its, SocketTypeOK, ReadEvent, ConnAt
    <3>2. rest.stored = Its(c).stored /\ last.stored = Its(c).stored
      BY <3>1 DEF UpstreamSession
    <3>3. CASE session' = [session EXCEPT ![Key(c)] = rest]
      BY <2>4, <3>2, <3>3
    <3>4. CASE session' = [session EXCEPT ![Key(c)] = last]
      BY <2>4, <3>2, <3>4
    <3>5. CASE FailTurn(c, "leave") \/ FailTurn(c, "idle")
      BY <2>3, <3>1, <3>5
    <3>6. QED
      BY <2>10, <3>3, <3>4, <3>5 DEF ReadEvent
  <2>11. ASSUME NEW c \in Conns, LeaveLoop(c)
         PROVE  conn'[k[1]] # conn[k[1]]
    <3>1. k \in {j \in Stored : j[1] = c}
      BY <1>1, <2>11, LeftAlone DEF LeaveLoop
    <3>2. k[1] = c /\ conn[c].step # "left" /\ conn'[c].step = "left"
      BY <2>1, <2>11, <3>1, GoFacts DEF LeaveLoop, ConnAt, ConnStep
    <3>3. QED
      BY <3>2
  <2>12. ASSUME NEW c \in Conns,
                ReadEnd(c) \/ Cancelled(c) \/ WriteFails(c) \/ Timeout(c)
         PROVE  conn'[k[1]] # conn[k[1]]
    <3>1. conn[c].step # "leave" /\ FailTurn(c, "leave")
      BY <2>12 DEF ReadEnd, Cancelled, WriteFails, Timeout, ConnAt
    <3>2. QED
      BY <2>3, <3>1
  <2>13. ASSUME NEW j \in Keys, Upstream(j) \/ UpstreamCloses(j) \/ GrowIdle(j)
         PROVE  FALSE
    <3>1. session[j] \in UpstreamSession
      BY <2>1 DEF SocketTypeOK
    <3>2. session'[j].stored = session[j].stored
          /\ \A i \in Keys \ {j} : session'[i] = session[i]
      BY <2>1, <2>13, <3>1, ZenonT(60)
         DEF Upstream, Enqueue, UpstreamCloses, GrowIdle, SocketTypeOK, UpstreamSession
    <3>3. QED
      BY <1>1, <3>2 DEF Busy
  <2>14. CASE PruneIdle
    BY <1>1, <2>1, <2>14, LeftAlone DEF PruneIdle
  <2>15. QED
    BY <1>1, <2>2, <2>5, <2>6, <2>7, <2>8, <2>9, <2>10, <2>11, <2>12, <2>13, <2>14
       DEF SocketNext, TurnStep, BeginTurn, TurnRefused, AcquireSlot, DialFails,
           ClientGone, socketVars
<1>2. SocketInv /\ [SocketNext]_socketVars =>
        \A k \in Keys :
          /\ session[k].open /\ session[k].stored /\ session[k].turns > 0
          /\ ~session'[k].stored
          => conn'[k[1]] # conn[k[1]]
  BY <1>1 DEF Busy
<1>3. QED
  BY <1>2, SocketInvHolds, PTL DEF SocketSpec, BusySessionsAreSpared
=============================================================================
