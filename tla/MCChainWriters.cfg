\* Three tasks on one key.
CONSTANTS
  scorer = scorer
  rescorer = rescorer
  registrar = registrar
  researcher = researcher
  validator = validator
  run1 = run1
  agent1 = agent1
  h1 = h1
  h2 = h2
  Writers = {scorer, rescorer, registrar}
  WritesOf <- Writes
  Agents = {researcher, validator}
  Runs = {run1}
  Registered = {agent1}
  Hashes = {h1, h2}
  FirstHash = h1
  MaxPeaks = 1
  MaxLosses = 1
  MaxAdmin = 1
SPECIFICATION Spec
INVARIANTS
  ReportedWritesAreMined
  QueueNeverStuck
  ScoresAgree
  RevokedForGood
CHECK_DEADLOCK FALSE
