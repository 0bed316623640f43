\* Two threads, two endpoints, a failed request is two failed attempts.
CONSTANTS
  t1 = t1
  t2 = t2
  Threads = {t1, t2}
  Endpoints = 2
  Threshold = 3
  Retries = 2
  MaxOutages = 2
  MaxBlips = 2
SPECIFICATION FairSpec
INVARIANT DeadEndpointIsSpared
PROPERTY OutageSettles
