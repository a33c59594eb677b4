\* Two instances and a request; the first may die at any point, one call may
\* fail.  Two callers that refresh the tokens of a known account, with one
\* answer lost or row not saved; they end when the pairs are used up.
CONSTANTS
  Instances = {1, 2}
  Lasting = {2}
  Requests = {r1}
  Ttl = 2
  Grace = 2
  HardTimeout = 3
  MaxStall = 1
  MaxErrors = 1
  Callers = {a, b}
  AccountKnown = TRUE
  MaxPair = 3
  MaxFaults = 1
SPECIFICATION SharedSpec
CHECK_DEADLOCK FALSE
INVARIANTS
  RefreshesAreSerial TokensAreSpentOnce
PROPERTIES
  LiveRequestsAreSpared OrphansAreFailed SomeoneCleansUp CallersReturn
