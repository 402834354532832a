\* Opening the store after an interrupted completion.
CONSTANTS
  c1 = c1  c2 = c2  k1 = k1  i1 = i1  i2 = i2
  t1 = t1  t2 = t2  t3 = t3  r1 = r1  r2 = r2
  Targets = {t1, t2, t3}
  Relays = {r1, r2}
  RelayOf <- MCRelayOf
  Calls = {c1}
  Keys = {k1}
  Intents = {i1, i2}
  PolicyOf <- AnyAndAll
  Resolutions <- FewResolutions
  ReplyKinds = {"Accepted"}
  MaxConcurrent = 1
  FaultKinds = {"crash"}
  MaxFaults = 1
  MaxCliRuns = 0
SPECIFICATION Spec
INVARIANT ReopenedJobsAreValid
CHECK_DEADLOCK FALSE
