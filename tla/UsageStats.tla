----------------------------- MODULE UsageStats -----------------------------
(***************************************************************************)
(* The usage statistics (internal/repository/sqlite/usage_stats.go and     *)
(* internal/stats/pure.go).  Attempts that have ended are rows of          *)
(* proxy_upstream_attempts.  Every instance, each 30 seconds, aggregates   *)
(* them into rows per minute and rolls those up into rows per hour and per *)
(* day of one shared table; an administrator may have the table rebuilt;   *)
(* the clean-up deletes old rows; a query adds up rows of several          *)
(* granularities and the latest attempts.                                  *)
(*                                                                         *)
(* Time is counted in minutes.  All attempts have the same dimensions, as  *)
(* no bucket mixes two of them.  Months are rolled up from days exactly as *)
(* days are from hours and are left out.  The queries that choose a range  *)
(* and read it are one step; the rows of a batch are written one by one,   *)
(* in any order (the batch comes out of a Go map), and the instances       *)
(* interleave between any two of these steps.                              *)
(***************************************************************************)
EXTENDS Integers, Functions, FiniteSetsExt

CONSTANTS
  Workers,      \* goroutines that aggregate: one of each instance
  Width,        \* minutes in a <<minute, hour, day>>
  KeepRows,     \* minutes the clean-up keeps rows of a <<minute, hour, day>>
  KeepRaw,      \* minutes the clean-up keeps attempts
  Zone,         \* minutes the configured time zone is ahead of UTC
  First,        \* the minute the model starts in, with everything before
                \* it aggregated
  Histories,    \* sets of earlier minutes with an attempt
  Alone,        \* TRUE: no aggregation and no clean-up falls into a
                \* recalculation
  \* bounds of the instance
  MaxTime, MaxEnded,
  MaxMishaps,   \* failures and recalculations
  \* what is assumed of the load and of the machines, in minutes
  MaxLate,      \* from an attempt's end_time to its row
  MaxStall,     \* from the start of an aggregation to its last write
  MaxDelay,     \* between two aggregations that run to their end
  MaxIdle       \* between two attempts

ASSUME UsageAssumption ==
  /\ \A g \in 1 .. 3 : Width[g] \in Nat \ {0} /\ KeepRows[g] \in Nat
  /\ Width[1] = 1 /\ Width[3] % Width[2] = 0
  /\ {First, MaxTime, MaxEnded, MaxMishaps, MaxLate, MaxStall, MaxDelay,
      MaxIdle, KeepRaw} \subseteq Nat
  /\ Zone \in Int
  /\ Histories \subseteq SUBSET (0 .. (First - 1))

VARIABLES
  now,      \* the minute it is
  ended,    \* history: attempts that ended in each minute
  raw,      \* attempts in the table, by the minute of their end_time
  rows,     \* per granularity, per bucket: total_requests
  worker,   \* per worker: what it does, for which granularity, and the
            \* rows it still has to write
  behind,   \* minutes since an aggregation ran to its end
  mishaps   \* aggregations that failed, and recalculations

usageVars ==
  <<now, ended, raw, rows, worker, behind, mishaps>>

Minute == 1
Hour == 2
Day == 3
Granularities == {Minute, Hour, Day}

Times == 0 .. MaxTime

(* Counts per minute or bucket; where there are none, there is no row. *)
NoRows == <<>>
IsCounts(f) == DOMAIN f \subseteq Times /\ \A t \in DOMAIN f : f[t] > 0
CountAt(f, t) == IF t \in DOMAIN f THEN f[t] ELSE 0
Put(f, t, n) == [x \in DOMAIN f \cup {t} |-> IF x = t THEN n ELSE f[x]]
Increment(f, t) == Put(f, t, CountAt(f, t) + 1)
Without(f, t) == Restrict(f, DOMAIN f \ {t})
Between(f, from, to) == Restrict(f, {t \in DOMAIN f : from <= t /\ t < to})
Total(f, from, to) == SumFunction(Between(f, from, to))

(* The latest 2 minutes are aggregated again. *)
Overlap == 2
RawBackfillWindow == 2 * Width[Hour]

(* TruncateToGranularity: days begin in the configured zone, hours do not. *)
Truncate(t, g) == t - ((t + (IF g = Day THEN Zone ELSE 0)) % Width[g])

NoJob == [job |-> "none", g |-> 0, todo |-> NoRows, age |-> 0]

UsageTypeOK ==
  /\ now \in Times
  /\ IsCounts(ended) /\ IsCounts(raw)
  /\ \A g \in Granularities : IsCounts(rows[g])
  /\ \A w \in Workers :
       /\ worker[w].job \in {"none", "aggregate", "recalculate"}
       /\ worker[w].g \in {0} \cup Granularities
       /\ IsCounts(worker[w].todo)
       /\ worker[w].age \in 0 .. MaxStall
  /\ {behind, mishaps} \subseteq Nat

UsageInit ==
  /\ now = First
  /\ \E History \in Histories : ended = [t \in History |-> 1]
  /\ raw = ended
  /\ rows = [g \in Granularities |->
       [b \in {b \in {Truncate(t, g) : t \in DOMAIN raw} : b + Width[g] <= First} |->
          Total(raw, b, b + Width[g])]]
  /\ worker = [w \in Workers |-> NoJob]
  /\ behind = 0
  /\ mishaps = 0

-----------------------------------------------------------------------------
HourInLocation(t) == t - ((t + Zone) % Width[Hour])

Buckets(g) == DOMAIN rows[g]
Attempted == DOMAIN raw

MinuteStart ==
  IF Buckets(Minute) # {} THEN Max(Buckets(Minute)) - Overlap
  ELSE IF Attempted # {} THEN Min(Attempted)
  ELSE now - RawBackfillWindow

(* Faulty form: the roll-up includes the bucket that is still open, and so *)
(* never starts before it.                                                 *)
RollUpStartAfterLatest(g) ==
  IF Buckets(g) # {} THEN Max(Buckets(g)) + Width[g]
  ELSE IF Buckets(g - 1) # {} THEN Min(Buckets(g - 1))
  ELSE Truncate(now, g)

RollUpStart(g) ==
  IF Buckets(g) # {} THEN Max(Buckets(g))
  ELSE IF Buckets(g - 1) # {} THEN Min(Buckets(g - 1))
  ELSE Truncate(now, g)

(* RollUp of the next finer rows from a moment to the current bucket. *)
RolledUp(g, from) ==
  LET source == Between(rows[g - 1], from, Truncate(now, g))
  IN  [b \in {Truncate(t, g) : t \in DOMAIN source} |->
         Total(source, b, b + Width[g])]

-----------------------------------------------------------------------------
Idle(w) == worker[w].job = "none"
Written(w) == worker[w].todo = NoRows

Give(w, job, g, todo) ==
  /\ worker' = [worker EXCEPT ![w] =
                  [job |-> job, g |-> g, todo |-> todo, age |-> @.age]]
  /\ UNCHANGED <<now, ended, raw, behind>>

NoRecalculation == Alone => \A w \in Workers : worker[w].job # "recalculate"

(* AggregateAndRollUp begins with the minutes. *)
AggregateMinute(w) ==
  /\ Idle(w) /\ NoRecalculation
  /\ Give(w, "aggregate", Minute, Between(raw, MinuteStart, now))
  /\ UNCHANGED <<rows, mishaps>>

(* ClearAndRecalculateWithProgress: empty the table, then aggregate every  *)
(* attempt there is.                                                       *)
ClearStats(w) ==
  /\ Idle(w)
  /\ Alone => \A v \in Workers : Idle(v)
  /\ mishaps < MaxMishaps
  /\ mishaps' = mishaps + 1
  /\ rows' = [g \in Granularities |-> NoRows]
  /\ Give(w, "recalculate", 0, NoRows)

AggregateAllMinutes(w) ==
  /\ worker[w].job = "recalculate" /\ worker[w].g = 0
  /\ Give(w, "recalculate", Minute, Between(raw, 0, now))
  /\ UNCHANGED <<rows, mishaps>>

(* Faulty form: a row that exists is added to. *)
UpsertAdds(w) ==
  \E t \in DOMAIN worker[w].todo :
    /\ rows' = [rows EXCEPT ![worker[w].g] =
                  Put(@, t, CountAt(@, t) + worker[w].todo[t])]
    /\ Give(w, worker[w].job, worker[w].g, Without(worker[w].todo, t))
    /\ UNCHANGED mishaps

(* BatchUpsert writes one row after another, over the row that was there. *)
Upsert(w) ==
  \E t \in DOMAIN worker[w].todo :
    /\ rows' = [rows EXCEPT ![worker[w].g] = Put(@, t, worker[w].todo[t])]
    /\ Give(w, worker[w].job, worker[w].g, Without(worker[w].todo, t))
    /\ UNCHANGED mishaps

(* rollUp, or RollUpAllWithProgress in a recalculation. *)
RollUp(w) ==
  LET job == worker[w].job
      g == worker[w].g + 1
  IN  /\ Written(w)
      /\ worker[w].g \in {Minute, Hour}
      /\ Give(w, job, g,
              RolledUp(g, IF job = "recalculate" THEN 0 ELSE RollUpStart(g)))
      /\ UNCHANGED <<rows, mishaps>>

Finish(w) ==
  /\ Written(w)
  /\ worker[w].g = Day
  /\ worker' = [worker EXCEPT ![w] = NoJob]
  /\ behind' = 0
  /\ UNCHANGED <<now, ended, raw, rows, mishaps>>

(* A query or a write fails, or the instance dies: what the worker had not *)
(* written is gone.                                                        *)
Fail(w) ==
  /\ ~Idle(w)
  /\ mishaps < MaxMishaps
  /\ mishaps' = mishaps + 1
  /\ worker' = [worker EXCEPT ![w] = NoJob]
  /\ UNCHANGED <<now, ended, raw, rows, behind>>

-----------------------------------------------------------------------------
(* The row of an attempt says that it ended: at once, or some minutes late. *)
EndAttempt(t) ==
  /\ Total(ended, First - MaxLate, MaxTime + 1) < MaxEnded
  /\ now - MaxLate <= t /\ t <= now
  /\ ended' = Increment(ended, t)
  /\ raw' = Increment(raw, t)
  /\ UNCHANGED <<now, rows, worker, behind, mishaps>>

(* runCleanupTasks on the leader. *)
Cleanup ==
  /\ NoRecalculation
  /\ rows' = [g \in Granularities |->
                IF g = Day THEN rows[g]
                ELSE Between(rows[g], now - KeepRows[g], now + 1)]
  /\ raw' = Between(raw, now - KeepRaw, now + 1)
  /\ UNCHANGED <<now, ended, worker, behind, mishaps>>

Tick ==
  /\ now < MaxTime
  /\ \A w \in Workers : Idle(w) \/ worker[w].age < MaxStall
  /\ behind < MaxDelay
  /\ \E t \in DOMAIN ended : t >= now - MaxIdle
  /\ now' = now + 1
  /\ behind' = behind + 1
  /\ worker' = [w \in Workers |-> IF Idle(w) THEN NoJob
                                  ELSE [worker[w] EXCEPT !.age = @ + 1]]
  /\ UNCHANGED <<ended, raw, rows, mishaps>>

Aggregation(w) == AggregateMinute(w) \/ Upsert(w) \/ RollUp(w) \/ Finish(w)

UsageNext ==
  \/ \E w \in Workers :
       \/ Aggregation(w) \/ ClearStats(w) \/ AggregateAllMinutes(w) \/ Fail(w)
  \/ \E t \in Times : EndAttempt(t)
  \/ Cleanup
  \/ Tick

UsageSpec == UsageInit /\ [][UsageNext]_usageVars

(* The goroutine of every instance runs again and again. *)
Working(w) == Aggregation(w) \/ AggregateAllMinutes(w)
UsageFairSpec == UsageSpec /\ \A w \in Workers : WF_usageVars(Working(w))

-----------------------------------------------------------------------------
LatestOr(S, default) == IF S = {} THEN default ELSE Max(S)

(* Faulty form: only two minutes of attempts are read, however far the     *)
(* aggregation is behind.                                                  *)
RawBackfillStartFixed == now - 1

(* rawBackfillStart. *)
RawBackfillStart ==
  Max({now - RawBackfillWindow, LatestOr(Buckets(Minute), 0) - Overlap})

(* Query: the current bucket, from hours, minutes and attempts. *)
CurrentBucket(g) ==
  LET current == Truncate(now, g)
      hourStart == HourInLocation(now)
      realtime == Min({RawBackfillStart, now - 1})
  IN  Total(rows[Hour], Max({Truncate(now, Day), current}), hourStart)
        + Total(rows[Minute], Max({hourStart, current}), realtime)
        + Total(raw, Max({realtime, hourStart}), now + 1)

(* Rows before a moment, every granularity up to its last full bucket. *)
RowsBefore(t) ==
  Total(rows[Day], 0, Truncate(t, Day))
    + Total(rows[Hour], Truncate(t, Day), HourInLocation(t))
    + Total(rows[Minute], HourInLocation(t), t)

(* GetProviderStats: all there ever was, of one provider. *)
ProviderTotal == RowsBefore(RawBackfillStart) + Total(raw, RawBackfillStart, now + 1)

(* queryAllWithRealtime without a range. *)
SummaryTotal ==
  Total(rows[Day], 0, Truncate(now, Day))
    + Total(rows[Hour], Truncate(now, Day), HourInLocation(now))
    + Total(rows[Minute], HourInLocation(now), now - 1)
    + Total(raw, now - 1, now + 1)

-----------------------------------------------------------------------------
Truth(b, g) == Total(ended, b, b + Width[g])

(* No attempt is counted twice, however aggregations, recalculations,      *)
(* failures and clean-ups interleave: not in a row, and not in an answer   *)
(* put together from rows of three granularities and the latest attempts.  *)
NeverOvercounts ==
  /\ \A g \in Granularities : \A t \in Buckets(g) : rows[g][t] <= Truth(t, g)
  /\ \A g \in {Hour, Day} : CurrentBucket(g) <= Truth(Truncate(now, g), g)
  /\ ProviderTotal <= SumFunction(ended)

(* Between aggregations a query for the current hour shows every attempt   *)
(* that has ended in it, from the moment its row is stored, whether it is  *)
(* aggregated or not and whichever worker's batch was written last.        *)
QuietHourIsExact ==
  (mishaps = 0 /\ \A w \in Workers : Idle(w)) =>
    CurrentBucket(Hour) = Truth(Truncate(now, Hour), Hour)

(* Buckets that are over and whose rows the clean-up leaves alone. *)
Closed(g) ==
  {b \in Times : /\ Truncate(b, g) = b /\ b + Width[g] <= now
                 /\ (g = Day \/ b >= now - KeepRows[g])}

RowsAreExact ==
  \A g \in Granularities : \A b \in Closed(g) : CountAt(rows[g], b) = Truth(b, g)

AnswersAreExact ==
  /\ CurrentBucket(Day) = Truth(Truncate(now, Day), Day)
  /\ ProviderTotal = SumFunction(ended)

(* Once attempts and time stand still, the rows of every closed bucket     *)
(* that is not yet cleaned up, and the answers, come to count every        *)
(* attempt: none is left out for having been stored late, for a worker     *)
(* that failed or was overtaken, or for a clean-up.                        *)
TotalsSettle == <>[](RowsAreExact /\ AnswersAreExact)

(* The summary of everything, made of disjoint layers by its comment       *)
(* (usage_stats.go:884), counts no attempt twice.                          *)
SummaryNeverOvercounts == SummaryTotal <= SumFunction(ended)

(* "Hour rows are kept a month" (core/task.go:297): an hour row that is    *)
(* younger than that does not lose attempts.                               *)
HourRowsAreKept ==
  [][\A t \in Times :
       t >= now' - KeepRows[Hour] =>
         CountAt(rows[Hour]', t) >= CountAt(rows[Hour], t)]_usageVars
=============================================================================
