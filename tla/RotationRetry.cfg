\* A certificate is replaced while a call has an attempt left.
SPECIFICATION RotationSpec
CONSTANTS
  LastVersion = 2
  StubCall = {w1, w2}
  StubAttempts = 2
  CallMax = 2
  RotationGrace = 3
CHECK_DEADLOCK FALSE
INVARIANTS
  OldChannelServesItsCalls
