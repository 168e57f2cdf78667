\* An old and a new image migrate one schema; two identity keys rotate; a table of three rows
\* is listed in pages of one; two calls in the foreground and one in the background take
\* numbers; three denials happen in two minutes; a certificate is replaced while
\* two calls are made.
SPECIFICATION PartsSpec
CONSTANTS
  Runner = {"old", "new"}
  Image <- MCImage
  LockAttempts = 2
  MaxCrashes = 2
  NoRunner = "none"
  Key = {"k1", "k2"}
  FirstKeys = {"k1"}
  KeyRefresh = 2
  UnknownRefresh = 3
  KeyMaxAge = 3
  FetchMax = 1
  ListResource <- MCResource
  ListOperation = {"view", "export"}
  Sortable = {"name", "price"}
  Filterable = {"name", "price"}
  Principal = "me"
  RowOf <- MCRow
  SegmentOf <- MCSegment
  Grant <- MCGrant
  RequestOf <- MCRequest
  Limit = 1
  RecordId = {1, 2, 3}
  FirstRows <- MCFirstRows
  MaxChanges = 1
  LastInstant = 2
  Call = {"c1", "c2", "c3"}
  Foreground = {"c1", "c3"}
  Jobs <- MCJobs
  Budget <- MCBudget
  Connection = {"x1", "x2"}
  MaxAttempts = 2
  NoConnection = "none"
  Denied = {"d1", "d2", "d3"}
  DenialBudget = 1
  LastMinute = 2
  LastVersion = 2
  StubCall = {w1, w2}
  StubAttempts = 2
  CallMax = 2
  RotationGrace = 3
\* The parts come to their ends.
CHECK_DEADLOCK FALSE
INVARIANTS
  VersionIsExact
  EachRowOnce
  QueriedIsShown
  PlanAgrees
  DecidedForGood
  NoGap
  AnswerIsTrue
  DenialsCounted
  RotationIsSeamless
PROPERTIES
  WithdrawnKeyBounded
  NewKeyAccepted
