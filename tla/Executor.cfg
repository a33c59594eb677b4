\* One request and every kind of error; p2 converts, maps and never cools down.
\* Two connections that take turns on the two providers, of one slot each, with
\* a store for one session; a connection may end after its last turn.
SPECIFICATION ExecutorSpec
CONSTANTS
  p1 = p1  p2 = p2  ct1 = ct1  ct2 = ct2  m1 = m1  m2 = m2
  r1 = r1  r2 = r2
  Requests = {r1}
  Providers = {p1, p2}
  ClientTypes = {ct1, ct2}
  Models = {m1, m2}
  All = All
  Routes <- TwoRoutes
  Limits = {0, 1}
  AskedTypes = {ct1}
  AskedModels = {m1}
  SpokenType <- OtherType
  Candidates <- TwoModels
  NoErrorCooldown = {p2}
  SmartMapping = {p2}
  SmartRetryLimit = 1
  QuotaProviders = {p1}
  MaxRetries = 1
  ForceRetry = TRUE
  Errors <- AllErrors
  Costs = {0, 2}
  QuotaBalance = 3
  MaxAttempts = 5
  Conns = {c1, c2}
  Preference <- TwoRoutes
  SlotLimit = 1
  MaxSessions = 1
  QueueSize = 1
  MaxTurns = 2
  MaxParts = 1
INVARIANTS
  RecordsAreClosed
  SlotsAreOwned NoSessionIsStranded TurnsDoNotMix
PROPERTIES
  NoSecondAnswer RequestsEnd BusySessionsAreSpared TurnsEnd
CHECK_DEADLOCK FALSE
