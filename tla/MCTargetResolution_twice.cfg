\* One relay that is asked for relay lists and is a default relay as well.
CONSTANTS
  c1 = c1  c2 = c2  u1 = u1  u2 = u2  scope = scope
  in1 = in1  in1b = in1b  in2 = in2  bad = bad
  Urls = {u1, u2}
  Scopes = {scope}
  Calls = {c1}
  Inputs = {in1, in2}
  Parse <- PlainParse
  Trim <- MCTrim
  Requests <- OnlyByAuthor
  Defaults <- OneDiscovery
  DiscoveryRelays <- OneDiscovery
  RelayLists <- OneList
  PublicPolicy = TRUE
  MaxFaults = 0
SPECIFICATION Spec
INVARIANTS
  EveryTargetReportedOnce
CHECK_DEADLOCK FALSE
