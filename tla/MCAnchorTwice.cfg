\* Is a step ever anchored twice?
CONSTANTS
  r1 = r1
  r2 = r2
  o1 = o1
  o2 = o2
  Steps = {1, 2}
  Runs = {r1}
  Orgs = {o1}
  RunOf <- OneRunOf
  OrgOf <- OneOrgOf
  CreatedAt <- SameSecond
  Workers = {w1}
  MaxAttempts = 2
  BatchSize = 2
  RbfAttempts = 1
  InitialBudget = 4
  MaxBudget = 4
  MaxBatches = 3
  LockMayDrop = FALSE
SPECIFICATION Spec
INVARIANT StepAnchoredOnce
CHECK_DEADLOCK FALSE
