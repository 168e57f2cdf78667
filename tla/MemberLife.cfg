\* Two callers of a dependency that fails and recovers; deployments alone and in a shell.
SPECIFICATION MemberSpec
CONSTANTS
  Caller = {c1, c2}
  Background = {}
  OutboundLimit = 2
  MaxAttempts = 2
  Window = 3
  OpenFirst = 5
  OpenMax = 10
  TrialsToClose = 2
  BudgetMax = 2
  BudgetSuccess = 1
  BudgetFailure = 1
  BudgetThreshold = 1
  Cancellable = FALSE
  NoOne = NoOne
  Deployments <- MCDeployments
  SdkVersion = 2
  AllowReplace = FALSE
  StopDrain = 1
  StopTimeout = 2
\* A process that has exited does nothing more.
CHECK_DEADLOCK FALSE
INVARIANTS
  TrialSlotIsHeld
  ReadyIsServing
  CleanExit
PROPERTIES
  BreakerRecovers
  DrainedFirst
  StopExits
  DefinitionsReach
