\* Two replicas, a full batch followed by another, one failure at any point.
SPECIFICATION FairSpec
CONSTANTS
  Event = {e1, e2}
  Forwarder = {f1, f2}
  Batch = 1
  OrdReuse = FALSE
  MaxRecoveries = 0
  MaxFaults = 1
  NoOne = NoOne
  Gone = Gone
INVARIANTS
  CommitOrder
PROPERTIES
  EventuallySent
