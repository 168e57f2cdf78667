\* An ordered subscription with failures, messages published one by one.
SPECIFICATION FairSpec
CONSTANTS
  Message = {m1, m2}
  Matching = {m1, m2}
  Worker = {w1, w2}
  StoredMax = 2
  InstanceMax = 2
  AdvanceBatch = 2
  Ordered = TRUE
  Concurrent = FALSE
  Retention = FALSE
  FaultKinds = {"insert", "call", "crash"}
  StoreFaults = {"commit answer", "dead letter"}
  MaxFaults = 1
  MaxFailures = 1
  NoOne = NoOne
  NoMessage = NoMessage
INVARIANTS
  EffectOnce
  NotDroppedEarly
  FailuresBecomeDeadLetters
  OrderedEffects
PROPERTIES
  EventuallyEnded
