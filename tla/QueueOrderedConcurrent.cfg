\* An ordered subscription and two publishers at once.
SPECIFICATION QueueSpec
CONSTANTS
  Message = {m1, m2}
  Matching = {m1, m2}
  Worker = {w1, w2}
  StoredMax = 2
  AdvanceBatch = 2
  Ordered = TRUE
  Concurrent = TRUE
  Retention = FALSE
  FaultKinds = {}
  MaxFaults = 1
  NoOne = NoOne
  NoMessage = NoMessage
SYMMETRY Symmetry
INVARIANTS
  OneInFlight
