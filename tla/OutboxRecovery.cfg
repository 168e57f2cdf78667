\* Two replicas, one recovery, one failed call or crash.
SPECIFICATION Spec
CONSTANTS
  Event = {e1, e2}
  Forwarder = {f1, f2}
  Batch = 2
  OrdReuse = FALSE
  MaxRecoveries = 1
  MaxFaults = 1
  NoOne = NoOne
  Gone = Gone
SYMMETRY Symmetry
INVARIANTS
  ForkSound
  NoEventLost
  NoOvertaking
PROPERTIES
  ImplementsPositionLog
