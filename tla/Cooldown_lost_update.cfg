\* Two writers, no faults: an instance's own bump hides the other's change.
\* Budgets end the calls: the system may stop.
CONSTANTS
  i1 = i1
  i2 = i2
  p1 = p1
  c1 = c1
  c2 = c2
  m1 = m1
  r1 = r1
  reader = reader
  All = All
  Subscriber = Subscriber
  Providers = {p1}
  ClientTypes = {c1}
  Models = {m1}
  Reasons = {r1}
  Instances = {i1, i2}
  Readers = {reader}
  Writers = {i1, i2}
  Reloaders <- LookUpsOnly
  Crashing = {}
  MutatedKeys <- OneKey
  FailureScopes = {"model"}
  Durations = {0, 2}
  Policy <- LinearPolicy
  StoreOutcomes = {TRUE}
  BumpOutcomes = {TRUE}
  DbOutcomes = {TRUE}
  MaxNow = 0
  MaxOps = 2
SPECIFICATION Spec
CHECK_DEADLOCK FALSE
INVARIANTS
  UpToDateAgrees
