\* The recovered database hands out identity values of lost rows again.
SPECIFICATION Spec
CONSTANTS
  Event = {e1, e2}
  Forwarder = {f1}
  Batch = 2
  OrdReuse = TRUE
  MaxRecoveries = 1
  MaxFaults = 0
  NoOne = NoOne
  Gone = Gone
INVARIANTS
  NoEventLost
