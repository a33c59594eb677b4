\* A request that waits on one server, and a binding through the other.
CONSTANTS
  Servers = {1, 2}
  Visits = {v}
  Rulings = {}
  Binding = b
  BroadcastCooldown = 1
  MaxTime = 0
  MaxLosses = 0
SPECIFICATION BindingSpec
INVARIANT BindingsAreSeen
CHECK_DEADLOCK FALSE
