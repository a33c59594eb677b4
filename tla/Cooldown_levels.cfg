\* One instance, every level of key, every call, the clock running to expiry.
\* Budgets end the calls: the system may stop.
CONSTANTS
  i1 = i1
  i2 = i2
  p1 = p1
  c1 = c1
  c2 = c2
  m1 = m1
  r1 = r1
  reader = reader
  All = All
  Subscriber = Subscriber
  Providers = {p1}
  ClientTypes = {c1, c2}
  Models = {m1}
  Reasons = {r1}
  Instances = {i1}
  Readers = {reader}
  Writers = {i1}
  Reloaders = {}
  Crashing = {}
  MutatedKeys <- AllLevels
  FailureScopes = {"model", "key", "provider"}
  Durations = {0, 1, 3}
  Policy <- LinearPolicy
  StoreOutcomes = {TRUE}
  BumpOutcomes = {TRUE}
  DbOutcomes = {TRUE, FALSE}
  MaxNow = 3
  MaxOps = 3
SPECIFICATION Spec
CHECK_DEADLOCK FALSE
INVARIANTS
  LookupsAgree
PROPERTIES
  AnswersChangeAsAsked
