\* One step, two claims of it, a second worker after a lock that drops.
CONSTANTS
  r1 = r1
  r2 = r2
  o1 = o1
  o2 = o2
  Steps = {1}
  Runs = {r1}
  Orgs = {o1}
  RunOf <- OneRunOf
  OrgOf <- OneOrgOf
  CreatedAt <- SameSecond
  Workers = {w1, w2}
  MaxAttempts = 2
  BatchSize = 2
  RbfAttempts = 1
  InitialBudget = 4
  MaxBudget = 4
  MaxBatches = 2
  LockMayDrop = TRUE
SPECIFICATION FairSpec
PROPERTY EveryStepSettles
CHECK_DEADLOCK FALSE
