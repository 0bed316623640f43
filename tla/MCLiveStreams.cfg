\* Two clients of a run behind one address, and two clients of the alerts.
CONSTANTS
  c1 = c1
  c2 = c2
  d1 = d1
  d2 = d2
  Readers = {c1, c2}
  Watchers = {d1, d2}
  Batch = 2
  StreamTTL = 2
  Capacity = 2
  KeepAlerts = 2
  MaxEvents = 2
  MaxPipelines = 2
  MaxAlerts = 5
  MaxTime = 3
SYMMETRY Symmetry
SPECIFICATION FeedsApart
INVARIANTS
  CompleteSawAll
  DeltasHaveNoGap
  BucketHolds
CHECK_DEADLOCK FALSE
