\* One daemon that crashes and restarts, statements that fail, clients that
\* disconnect.
CONSTANTS
  c1 = c1  c2 = c2  k1 = k1  i1 = i1  i2 = i2
  t1 = t1  t2 = t2  t3 = t3  r1 = r1  r2 = r2
  Targets = {t1, t2, t3}
  Relays = {r1, r2}
  RelayOf <- MCRelayOf
  Calls = {c1, c2}
  Keys = {k1}
  Intents = {i1, i2}
  PolicyOf <- QuorumAndRequired
  Resolutions <- DaemonResolutions
  ReplyKinds = {"Accepted", "Terminal"}
  MaxConcurrent = 2
  FaultKinds = {"crash", "disconnect", "io"}
  MaxFaults = 2
  MaxCliRuns = 0
SPECIFICATION Spec
SYMMETRY SymmetricCalls
INVARIANTS
  PermitsAddUp
  SettledJobsAreWhole
  NoJobLeftBehind
PROPERTIES
  ImplementsLedger
CHECK_DEADLOCK FALSE
