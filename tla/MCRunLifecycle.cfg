\* Two requests, one key and a failure; and a run of two steps in two batches,
\* of which the later step and the stored roots are edited by hand, twice.
CONSTANTS
  Runs = {r1, r2}
  Chosen = {r1}
  Keys = {k1}
  Absent = none
  Requests = {q1, q2}
  Quota = 1
  TokenBudget = 1
  MaxFailures = 1
  StepTotal = 2
  BatchTotal = 2
  None = None
  ByHand = {2}
  MaxEdits = 2
SPECIFICATION RunsAndVerifyApart
INVARIANTS
  OneRunPerKey
  StepsNumberedOnce
  RunEndsAsItSaid
  NoRunLeftBehind
  VerdictIsRight
CHECK_DEADLOCK FALSE
SYMMETRY MCSymmetryRuns
