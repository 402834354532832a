\* Two calls and a query; a COMMIT may fail or the daemon crash.
CONSTANTS
  c1 = c1  c2 = c2  i1 = i1  t1 = t1  r1 = r1
  alice = alice  admin = admin
  Targets = {t1}
  Relays = {r1}
  RelayOf <- MCRelayOf
  Calls = {c1, c2}
  Keys = {}
  Intents = {i1}
  PolicyOf <- MCPolicyOf
  Resolutions <- MCResolutions
  ReplyKinds = {"Accepted"}
  MaxConcurrent = 2
  FaultKinds = {"io", "crash", "disconnect"}
  MaxFaults = 2
  MaxCliRuns = 0
  Queries = {q1}
  Principals = {alice, admin}
  OwnerOf <- MCOwnerOf
  Admins = {admin}
  ListLimit = 2
SPECIFICATION QFairSpec
INVARIANTS
  QueriesFailOnlyWhenTorn
  AnswersTellTheTruth
  ContactedIsCommitted
PROPERTIES
  EveryRequestEnds
  EveryJobSettles
CHECK_DEADLOCK FALSE
