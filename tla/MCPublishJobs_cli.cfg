\* principal init opens the database of a running daemon.
CONSTANTS
  c1 = c1  c2 = c2  k1 = k1  i1 = i1  i2 = i2
  t1 = t1  t2 = t2  t3 = t3  r1 = r1  r2 = r2
  Targets = {t1, t2, t3}
  Relays = {r1, r2}
  RelayOf <- MCRelayOf
  Calls = {c1, c2}
  Keys = {k1}
  Intents = {i1, i2}
  PolicyOf <- OneOrRequired
  Resolutions <- MixedResolution
  ReplyKinds = {"Accepted"}
  MaxConcurrent = 2
  FaultKinds = {"crash"}
  MaxFaults = 1
  MaxCliRuns = 1
SPECIFICATION Spec
SYMMETRY SymmetricCalls
INVARIANTS
  AtMostOnePublisherPerKey
  SnapshotBeforeContact
  SatisfiedIsDelivered
CHECK_DEADLOCK FALSE
