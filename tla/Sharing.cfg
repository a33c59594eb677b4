\* Two requests for one slot at each of two providers, with one quota.  A
\* session on two servers, a request of it, a rejection and a binding.  Two
\* calls that change a cached table, on two instances, one of which may crash.
SPECIFICATION SharingSpec
CONSTANTS
  p1 = p1  p2 = p2  ct1 = ct1  ct2 = ct2  m1 = m1  m2 = m2
  r1 = r1  r2 = r2
  Requests = {r1, r2}
  Providers = {p1, p2}
  ClientTypes = {ct1}
  Models = {m1}
  All = All
  Routes <- TwoRoutes
  Limits = {1}
  AskedTypes = {ct1}
  AskedModels = {m1}
  SpokenType <- SameType
  Candidates <- SameModel
  NoErrorCooldown = {}
  SmartMapping = {}
  SmartRetryLimit = 1
  QuotaProviders = {p1}
  MaxRetries = 1
  ForceRetry = FALSE
  Errors <- SharedErrors
  Costs = {0, 2}
  QuotaBalance = 3
  MaxAttempts = 4
  Servers = {1, 2}
  Visits = {v}
  Rulings = {x}
  Binding = b
  BroadcastCooldown = 1
  MaxTime = 1
  MaxLosses = 1
  Instances = {1, 2}
  Ids = {1, 2}
  Repositories = {"provider", "route", "retry_config", "routing_strategy",
                  "project", "api_token", "model_mapping"}
  Callers = {1, 2}
  FirstRows = {1}
  MaxCrashes = 1
  MaxFaults = 1
SYMMETRY Symmetric
INVARIANTS SlotsFollowAttempts OverspendBounded CooldownsAreSeen
  OwnBindingsAreSeen ChangesArrive FollowersAgree
CHECK_DEADLOCK FALSE
