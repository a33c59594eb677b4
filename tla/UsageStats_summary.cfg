\* The summary in the first minute of an hour.
CONSTANTS
  Workers = {w1}
  Width <- HourOfSix
  KeepRows <- KeepLong
  KeepRaw = 20
  Zone = 6
  First = 12
  Histories = {{}}
  Alone = TRUE
  MaxTime = 19
  MaxEnded = 1
  MaxMishaps = 0
  MaxLate = 1
  MaxStall = 1
  MaxDelay = 1
  MaxIdle = 12
SPECIFICATION UsageSpec
INVARIANTS SummaryNeverOvercounts
