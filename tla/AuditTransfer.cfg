\* Two replicas transfer a record while the audit component is recovered twice.
SPECIFICATION FairSpec
CONSTANTS
  Record = {r1}
  Replica = {p1, p2}
  Batch = 1
  Capacity = 1
  MaxRecoveries = 2
  MaxFaults = 1
INVARIANTS
  DeletedIsSafe
PROPERTIES
  EventuallySafe
  PauseEnds
