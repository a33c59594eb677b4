\* Each part of a process.  They end at their bounds, the shutdown when it is
\* done.  The statistics: two instances aggregate into one table, one mishap;
\* they start with nothing at all, or with two hours behind them.
CONSTANTS
  Policies <- AllPolicies
  MaxFailures = 24
  Configs <- SmallConfigs
  IntBits = 16
  MaxAttempts = 8
  Providers = {p1, p2}
  Sessions = {s1, s2, s3, s4}
  Limits = {0, 1, 2}
  Requests = {r1, r2, r3}
  Shutdowns = {signal}
  NotifyCap = 1
  UploadSlots = 1
  Workers = {w1, w2}
  Width <- HourOfSix
  KeepRows <- KeepLong
  KeepRaw = 20
  Zone = 6
  First = 24
  Histories = {{}, {12, 17, 22}}
  Alone = TRUE
  MaxTime = 31
  MaxEnded = 1
  MaxMishaps = 1
  MaxLate = 1
  MaxStall = 1
  MaxDelay = 1
  MaxIdle = 4
  Routes <- AllRoutes
  MaxPieces = 3
  Freeform = {1}
  Copes <- KnownToCope
SPECIFICATION ProcessSpec
CHECK_DEADLOCK FALSE
INVARIANTS
  DelaysFollowDesign CountsSessions WaitsForAnswers QueueMeansFull
  NeverOvercounts QuietHourIsExact
  StreamsAreWellFormed PiecesArrive
PROPERTIES
  LimitHolds ShutdownReturns TotalsSettle
