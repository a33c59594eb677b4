---------------------------- MODULE TokenRefresh ----------------------------
(***************************************************************************)
(* Refreshing the OAuth tokens of a Codex provider.  The upstream rotates  *)
(* the refresh token with every use and refuses one that was used before.  *)
(* Requests (adapter/provider/codex/adapter.go, getAccessToken), the quota *)
(* task (service/codex_task.go) and the administrator's pages              *)
(* (handler/codex.go) of one process all may refresh; they take a lock of  *)
(* the account (refresh_lock.go) and read the provider's row again under   *)
(* it.                                                                     *)
(*                                                                         *)
(* Tokens come in pairs, numbered as the upstream issues them; the access  *)
(* token of a pair expires at some time.  The row read again is in memory  *)
(* (repository/cached), and a reload of it does not fail.                  *)
(***************************************************************************)
EXTENDS Integers, FiniteSets, FiniteSetsExt

CONSTANTS
  Callers,    \* goroutines, each a request, a task or a page at a time
  AccountKnown,  \* the provider's row has an account id from the start
  MaxPair,    \* pairs the upstream issues
  MaxFaults   \* answers that are lost, and rows that are not saved

ASSUME RefreshAssumption ==
  /\ IsFiniteSet(Callers)
  /\ AccountKnown \in BOOLEAN
  /\ {MaxPair, MaxFaults} \subseteq Nat

VARIABLES
  row,       \* the provider's row: its pair, and whether the account is known
  adapter,   \* the router's adapter: the row it was built with, and its cache
  expired,   \* pairs whose access token is no longer accepted
  latest,    \* the upstream: the pair issued last
  registry,  \* refreshLocks: the entry of each key, or 0
  entry,     \* per entry: its mutex's holder and its refcount
  call,      \* per caller: what it is doing
  lost       \* history: pairs whose successor was issued but never saved

refreshVars ==
  <<row, adapter, expired, latest, registry, entry, call, lost>>

Pairs == 0 .. MaxPair
LockKeys == {-1} \cup Pairs  \* the account's key, or that of a refresh token
Entries == 1 .. Cardinality(Callers)
Kinds == {"request", "forced", "task", "quota", "refresh"}
Steps ==
  {"idle", "enlist", "lock", "check", "send", "answer", "save", "unlock",
   "leave"}

Idle ==
  [step |-> "idle", kind |-> "request", key |-> -1, entry |-> 0, pair |-> 0,
   rejected |-> -1, tries |-> 0, late |-> FALSE]

RefreshTypeOK ==
  /\ row \in [pair : Pairs, known : BOOLEAN]
  /\ adapter \in [pair : Pairs, known : BOOLEAN, cache : Pairs]
  /\ expired \subseteq Pairs
  /\ latest \in Pairs
  /\ registry \in [LockKeys -> Entries \cup {0}]
  /\ entry \in [Entries -> [holder : SUBSET Callers, refcount : Int]]
  /\ call \in [Callers ->
       [step : Steps, kind : Kinds, key : LockKeys, entry : Entries \cup {0},
        pair : Pairs, rejected : {-1} \cup Pairs, tries : 0 .. 3,
        late : BOOLEAN]]
  /\ lost \subseteq Pairs

RefreshInit ==
  /\ row = [pair |-> 0, known |-> AccountKnown]
  /\ adapter = [pair |-> 0, known |-> AccountKnown, cache |-> 0]
  /\ expired = {}
  /\ latest = 0
  /\ registry = [k \in LockKeys |-> 0]
  /\ entry = [e \in Entries |-> [holder |-> {}, refcount |-> 0]]
  /\ call = [c \in Callers |-> Idle]
  /\ lost = {}

-----------------------------------------------------------------------------
At(c, step) == call[c].step = step
To(c, step) == call' = [call EXCEPT ![c].step = step]

(* RefreshLockKey of a row as its reader has it. *)
RefreshLockKey(r) == IF r.known THEN -1 ELSE r.pair

(* A reason to refresh: a request without an access token in its adapter   *)
(* that is still good, or whose token the upstream has just rejected; a    *)
(* task or a page that finds an expired one in the row; an order to.       *)
(* Requests read the row their adapter was built with, the others the      *)
(* row as it is.  The bound leaves a pair for everyone who has begun.      *)
Active == {c \in Callers : ~At(c, "idle")}

Begin(c, kind) ==
  /\ At(c, "idle")
  /\ latest + Cardinality(Active) < MaxPair
  /\ CASE kind = "request" -> {adapter.cache, adapter.pair} \subseteq expired
       [] kind \in {"task", "quota"} -> row.pair \in expired
       [] OTHER -> TRUE
  /\ \E rejected \in IF kind = "forced" THEN 0 .. adapter.cache ELSE {-1} :
       call' = [call EXCEPT ![c] =
         [Idle EXCEPT !.step = "enlist", !.kind = kind, !.rejected = rejected,
            !.key = RefreshLockKey(IF kind \in {"request", "forced"}
                                   THEN adapter ELSE row),
            !.late = row.known]]
  /\ UNCHANGED <<row, adapter, expired, latest, registry, entry, lost>>

(* A good token of the row the adapter was built with goes to its cache.   *)
UseBuiltWith ==
  /\ adapter.cache \in expired /\ adapter.pair \notin expired
  /\ adapter' = [adapter EXCEPT !.cache = adapter.pair]
  /\ UNCHANGED <<row, expired, latest, registry, entry, call, lost>>

-----------------------------------------------------------------------------
(* AcquireRefreshLock: the caller counts itself in before it blocks. *)
InUse == {registry[k] : k \in LockKeys} \cup {call[c].entry : c \in Callers}

Enlist(c) ==
  LET found == registry[call[c].key]
      e == IF found # 0 THEN found ELSE Min(Entries \ InUse)
  IN  /\ At(c, "enlist")
      /\ registry' = [registry EXCEPT ![call[c].key] = e]
      /\ entry' = [entry EXCEPT ![e].refcount = @ + 1]
      /\ call' = [call EXCEPT ![c].step = "lock", ![c].entry = e]
      /\ UNCHANGED <<row, adapter, expired, latest, lost>>

Lock(c) ==
  /\ At(c, "lock")
  /\ entry[call[c].entry].holder = {}
  /\ entry' = [entry EXCEPT ![call[c].entry].holder = {c}]
  /\ To(c, "check")
  /\ UNCHANGED <<row, adapter, expired, latest, registry, lost>>

Unlock(c) ==
  /\ At(c, "unlock")
  /\ entry' = [entry EXCEPT ![call[c].entry].holder = {}]
  /\ To(c, "leave")
  /\ UNCHANGED <<row, adapter, expired, latest, registry, lost>>

(* Faulty form of what follows: the entry goes whoever waits for it. *)
LeaveEvicts(c) ==
  /\ At(c, "leave")
  /\ entry' = [entry EXCEPT ![call[c].entry].refcount = @ - 1]
  /\ registry' = [registry EXCEPT ![call[c].key] = 0]
  /\ call' = [call EXCEPT ![c] = Idle]
  /\ UNCHANGED <<row, adapter, expired, latest, lost>>

Leave(c) ==
  /\ At(c, "leave")
  /\ entry' = [entry EXCEPT ![call[c].entry].refcount = @ - 1]
  /\ registry' = [registry EXCEPT ![call[c].key] =
                    IF entry[call[c].entry].refcount = 1 THEN 0 ELSE @]
  /\ call' = [call EXCEPT ![c] = Idle]
  /\ UNCHANGED <<row, adapter, expired, latest, lost>>

-----------------------------------------------------------------------------
Good(c, pair) == pair \notin expired /\ pair # call[c].rejected

(* Faulty form of what follows: the token that was read before the lock.   *)
CheckNothing(c) ==
  /\ At(c, "check")
  /\ call' = [call EXCEPT ![c].step = "send", ![c].pair = adapter.pair]
  /\ UNCHANGED <<row, adapter, expired, latest, registry, entry, lost>>

(* Under the lock: what another caller has refreshed meanwhile is taken    *)
(* over, from the row or, by a request, from its adapter's cache; only the *)
(* order to refresh goes on regardless.                                    *)
Check(c) ==
  /\ At(c, "check")
  /\ \/ /\ call[c].kind # "refresh" /\ Good(c, row.pair)
        /\ adapter' = IF call[c].kind \in {"request", "forced"}
                      THEN [adapter EXCEPT !.cache = row.pair] ELSE adapter
        /\ To(c, "unlock")
     \/ /\ call[c].kind \in {"request", "forced"}
        /\ ~Good(c, row.pair) /\ Good(c, adapter.cache)
        /\ To(c, "unlock")
        /\ UNCHANGED adapter
     \/ /\ call[c].kind # "refresh" => ~Good(c, row.pair)
        /\ call[c].kind \in {"request", "forced"} => ~Good(c, adapter.cache)
        /\ call' = [call EXCEPT ![c].step = "send", ![c].pair = row.pair]
        /\ UNCHANGED adapter
  /\ UNCHANGED <<row, expired, latest, registry, entry, lost>>

Fault == Cardinality(lost) < MaxFaults

(* RefreshAccessTokenWithRetry: a token used before is refused for good;   *)
(* when the answer is lost the same token is sent again, up to twice.      *)
Send(c) ==
  /\ At(c, "send")
  /\ \/ /\ call[c].pair = latest
        /\ latest' = latest + 1
        /\ To(c, "save")
        /\ UNCHANGED lost
     \/ /\ call[c].pair = latest /\ Fault
        /\ latest' = latest + 1
        /\ lost' = lost \cup {call[c].pair}
        /\ To(c, "answer")
     \/ /\ call[c].pair # latest
        /\ To(c, "unlock")
        /\ UNCHANGED <<latest, lost>>
  /\ UNCHANGED <<row, adapter, expired, registry, entry>>

(* Faulty form of what follows: giving up does not give up the lock. *)
AnswerLostForGood(c) ==
  /\ At(c, "answer")
  /\ \/ /\ call[c].tries < 2
        /\ call' = [call EXCEPT ![c].step = "send", ![c].tries = @ + 1]
     \/ call' = [call EXCEPT ![c] = Idle]
  /\ UNCHANGED <<row, adapter, expired, latest, registry, entry, lost>>

AnswerLost(c) ==
  /\ At(c, "answer")
  /\ \/ /\ call[c].tries < 2
        /\ call' = [call EXCEPT ![c].step = "send", ![c].tries = @ + 1]
     \/ To(c, "unlock")
  /\ UNCHANGED <<row, adapter, expired, latest, registry, entry, lost>>

(* The new pair is saved, and only then used.  The task writes the row and *)
(* leaves the adapter as it is; the pages have the adapter built again.    *)
Save(c) ==
  LET new == call[c].pair + 1
      known == row.known \/ call[c].kind \in {"request", "forced", "refresh"}
  IN  /\ At(c, "save")
      /\ row' = [pair |-> new, known |-> known]
      /\ adapter' = CASE call[c].kind \in {"request", "forced"} ->
                           [adapter EXCEPT !.cache = new]
                      [] call[c].kind \in {"quota", "refresh"} ->
                           [pair |-> new, known |-> known, cache |-> new]
                      [] OTHER -> adapter
      /\ To(c, "unlock")
      /\ UNCHANGED <<expired, latest, registry, entry, lost>>

SaveFails(c) ==
  /\ At(c, "save") /\ Fault
  /\ lost' = lost \cup {call[c].pair}
  /\ To(c, "unlock")
  /\ UNCHANGED <<row, adapter, expired, latest, registry, entry>>

Expire ==
  /\ \E pair \in 0 .. latest : pair \notin expired /\ expired' = expired \cup {pair}
  /\ UNCHANGED <<row, adapter, latest, registry, entry, call, lost>>

-----------------------------------------------------------------------------
CallStep(c) ==
  \/ Enlist(c) \/ Check(c) \/ Send(c) \/ AnswerLost(c) \/ Save(c)
  \/ Unlock(c) \/ Leave(c)

RefreshNext ==
  \/ \E c \in Callers :
       CallStep(c) \/ Lock(c) \/ SaveFails(c) \/ \E kind \in Kinds : Begin(c, kind)
  \/ UseBuiltWith \/ Expire

(* Goroutines run, a request for a token has a deadline, and a mutex is    *)
(* handed to those who wait in turn.                                       *)
RefreshFairness ==
  \A c \in Callers : WF_refreshVars(CallStep(c)) /\ SF_refreshVars(Lock(c))

RefreshSpec == RefreshInit /\ [][RefreshNext]_refreshVars
RefreshFairSpec == RefreshSpec /\ RefreshFairness

-----------------------------------------------------------------------------
Refreshing(c) == call[c].step \in {"send", "answer", "save"}

(* "All code paths that may refresh the same account concurrently must     *)
(* take the same lock" (refresh_lock.go): at most one of them refreshes at *)
(* a time, however the entries of the lock come and go.                    *)
RefreshesAreSerial ==
  \A c, d \in Callers : Refreshing(c) /\ Refreshing(d) => c = d

(* A refresh token that was exchanged is not sent again, unless the answer *)
(* was lost or could not be saved: whoever waited for the lock has read    *)
(* what its last holder saved.                                             *)
TokensAreSpentOnce ==
  \A c \in Callers :
    At(c, "send") /\ call[c].pair < latest => call[c].pair \in lost

(* The registry of locks neither grows nor loses an entry in use: a key    *)
(* has one exactly while somebody holds it or waits for it.                *)
EntriesAreCounted ==
  \A k \in LockKeys :
    LET users == {c \in Callers : call[c].key = k /\ call[c].entry # 0}
    IN  IF users = {} THEN registry[k] = 0
        ELSE /\ \A c \in users : call[c].entry = registry[k]
             /\ entry[registry[k]].refcount = Cardinality(users)

(* Nobody waits for the lock for ever. *)
CallersReturn == \A c \in Callers : ~At(c, "idle") ~> At(c, "idle")

(* The only callers that are not serialized are one that came after a      *)
(* rotation and one that holds an old key: this is "self-correcting once   *)
(* the account ID is set" (refresh_lock.go:73-75).  So callers that came   *)
(* when it was set refresh one at a time.                                  *)
SerialOnceAccountIsKnown ==
  \A c, d \in Callers :
    Refreshing(c) /\ Refreshing(d) /\ call[c].late /\ call[d].late => c = d
=============================================================================
