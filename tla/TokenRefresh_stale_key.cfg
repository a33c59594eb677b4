\* The account becomes known with the first refresh.  Two callers.
CONSTANTS
  Callers = {a, b}
  AccountKnown = FALSE
  MaxPair = 3
  MaxFaults = 0
SPECIFICATION RefreshSpec
CHECK_DEADLOCK FALSE
INVARIANTS
  SerialOnceAccountIsKnown
