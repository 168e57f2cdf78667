\* A half-open trial whose caller is cancelled.
SPECIFICATION Spec
CONSTANTS
  Caller = {c1, c2, c3}
  Background = {}
  OutboundLimit = 2
  MaxAttempts = 3
  Window = 3
  OpenFirst = 5
  OpenMax = 30
  TrialsToClose = 2
  BudgetMax = 3
  BudgetSuccess = 1
  BudgetFailure = 1
  BudgetThreshold = 1
  Cancellable = TRUE
  NoOne = NoOne
SYMMETRY Symmetry
INVARIANTS
  TrialSlotIsHeld
