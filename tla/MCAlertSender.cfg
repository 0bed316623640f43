\* Two senders, two deliveries, a crash and a claim that times out too soon;
\* an alert that recurs, two recipients of digests, two intervals.
CONSTANTS
  Mails = {m1, m2}
  Senders = {s1, s2}
  MaxAttempts = 2
  MaxStops = 1
  MaxTimeouts = 1
  Alerts = {a1}
  People = {p1, p2}
  Interval = 2
  Never = Never
  MaxTime = 4
SPECIFICATION MailsApart
INVARIANTS
  DuplicatesAreRetries
  SentWasMailed
  GivenUpLate
  DigestLeavesNothingOut
PROPERTY DeliveriesSettle
CHECK_DEADLOCK FALSE
