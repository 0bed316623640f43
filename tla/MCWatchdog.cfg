\* Two steps of two organizations, anchored together or in turn; two disturbances.
CONSTANTS
  o1 = o1
  o2 = o2
  Orgs = {o1, o2}
  StepCount = 2
  Logged = 1
  StepOrg <- TwoStepOrgs
  BatchCount = 2
  LeafOrders <- AloneOrTogether
  StepBudget = 1
  BatchBudget = 1
  StallAge = 1
  HotAge = 0
  Editable = {2}
  MaxAge = 1
  MaxDisturbances = 2
  l1 = l1
  l2 = l2
  l3 = l3
  l4 = l4
  Leaves = {l1, l2, l3, l4}
  MaxLeaves = 4
  Columns = {"input_hash"}
  Texts = {"a", "b"}
  OperatorRoles = {"r1"}
  Persons = {"p1", "p2"}
  MaxOps = 4
SPECIFICATION WatchdogFairSpec
INVARIANTS
  AlertsAreEarned
  MismatchIsAlerted
PROPERTY ProblemsSettle
CHECK_DEADLOCK FALSE
