\* A request over changes, recoveries and stale answers of the authorization member;
\* callers of a dependency that may be cancelled, one of them in the background.
SPECIFICATION RequestSpec
CONSTANTS
  Request = {q1}
  WRead = 2
  WHigh = 1
  CommitWindow = 1
  TokenLife = {1, 9}
  MaxTime = 4
  MaxVersion = 2
  Caller = {c1, c2, c3}
  Background = {c3}
  OutboundLimit = 2
  MaxAttempts = 2
  Window = 3
  OpenFirst = 5
  OpenMax = 10
  TrialsToClose = 2
  BudgetMax = 2
  BudgetSuccess = 1
  BudgetFailure = 1
  BudgetThreshold = 1
  Cancellable = TRUE
  NoOne = NoOne
INVARIANTS
  BasisHonest
  LimitExact
PROPERTIES
  RevocationBounded
  ExpiryBounded
  OnlyTrialsDecide
