\* Two registrations and a revocation, with and without a finality gate.
CONSTANTS
  Registrations = {t1, t2}
  Revocations = {x1}
  Finalities = {0, 1}
  Rewind = 1
  ReorgDepth = 1
  MaxHeight = 3
  MaxForks = 1
SPECIFICATION Spec
INVARIANTS
  NothingSkipped
  ReadModelIsChain
  IndexedIsAlerted
  AgentCurrent
CHECK_DEADLOCK FALSE
