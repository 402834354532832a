\* Two calls with the same key and the same intent at once.
CONSTANTS
  c1 = c1  c2 = c2  k1 = k1  i1 = i1  i2 = i2
  t1 = t1  t2 = t2  t3 = t3  r1 = r1  r2 = r2
  Targets = {t1, t2, t3}
  Relays = {r1, r2}
  RelayOf <- MCRelayOf
  Calls = {c1, c2}
  Keys = {k1}
  Intents = {i1, i2}
  PolicyOf <- AnyAndAll
  Resolutions <- OneResolution
  ReplyKinds = {"Accepted"}
  MaxConcurrent = 2
  FaultKinds = {}
  MaxFaults = 0
  MaxCliRuns = 0
SPECIFICATION Spec
INVARIANT ConflictMeansDifferentIntent
CHECK_DEADLOCK FALSE
