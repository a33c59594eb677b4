\* A converting provider: what Match looks up is not what a failure records.
SPECIFICATION Spec
CONSTANTS
  p1 = p1  p2 = p2  ct1 = ct1  ct2 = ct2  m1 = m1  m2 = m2
  r1 = r1  r2 = r2
  Requests = {r1}
  Providers = {p1, p2}
  ClientTypes = {ct1, ct2}
  Models = {m1, m2}
  All = All
  Routes <- TwoRoutes
  Limits = {1}
  AskedTypes = {ct1}
  AskedModels = {m1}
  SpokenType <- OtherType
  Candidates <- OtherModel
  NoErrorCooldown = {}
  SmartMapping = {}
  SmartRetryLimit = 1
  QuotaProviders = {p1}
  MaxRetries = 1
  ForceRetry = FALSE
  Errors <- AllErrors
  Costs = {0, 2}
  QuotaBalance = 3
  MaxAttempts = 4
INVARIANTS CooldownsAreSeen
CHECK_DEADLOCK FALSE
