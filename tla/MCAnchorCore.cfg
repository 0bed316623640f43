\* One worker, one run of two steps, two claims of each, a gas ceiling in reach.
CONSTANTS
  r1 = r1
  r2 = r2
  o1 = o1
  o2 = o2
  Steps = {1, 2}
  Runs = {r1}
  Orgs = {o1}
  RunOf <- OneRunOf
  OrgOf <- OneOrgOf
  CreatedAt <- SameSecond
  Workers = {w1}
  MaxAttempts = 2
  BatchSize = 2
  RbfAttempts = 1
  InitialBudget = 1
  MaxBudget = 2
  MaxBatches = 3
  LockMayDrop = FALSE
SPECIFICATION Spec
INVARIANTS
  ConfirmedIsOnChain
  AnchoredIsOnChain
  ServedProofVerifies
  DeadLetterEarned
  NeverOvercharged
PROPERTY PromiseKept
CHECK_DEADLOCK FALSE
