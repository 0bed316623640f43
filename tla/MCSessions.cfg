CONSTANTS
  People = {u1}
  Tokens = {t1, t2, t3}
  Links = {k1, k2}
  Workers = {w1, w2}
  Legacy = {u1}
  MaxResets = 1
  MaxDeaths = 1
SPECIFICATION SessionsSpec
INVARIANTS
  ChainDoesNotFork
  RevokedFamilyIsDead
  ResetEndsSessions
  LinkActsOnce
CHECK_DEADLOCK FALSE
SYMMETRY MCSymmetrySessions
