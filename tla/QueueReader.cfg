\* Concurrent inserts of three messages, one of another subject; leases that
\* run out, failures and the purge.
SPECIFICATION QueueSpec
CONSTANTS
  Message = {m1, m2, m3}
  Matching = {m1, m2}
  Worker = {w1, w2}
  StoredMax = 2
  AdvanceBatch = 2
  Ordered = FALSE
  Concurrent = TRUE
  Retention = TRUE
  FaultKinds = {"insert", "call", "crash"}
  MaxFaults = 1
  NoOne = NoOne
  NoMessage = NoMessage
SYMMETRY Symmetry
INVARIANTS
  NoSkip
PROPERTIES
  EndedForGood
  LateOutcomeIsIgnored
