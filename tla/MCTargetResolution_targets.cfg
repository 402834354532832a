\* Two calls with requests of every policy: cache, discovery and defaults.
CONSTANTS
  c1 = c1  c2 = c2  u1 = u1  u2 = u2  scope = scope
  in1 = in1  in1b = in1b  in2 = in2  bad = bad
  Urls = {u1, u2}
  Scopes = {scope}
  Calls = {c1, c2}
  Inputs = {in1, in1b, in2, bad}
  Parse <- MCParse
  Trim <- MCTrim
  Requests <- AllRequests
  Defaults <- OneDefault
  DiscoveryRelays <- MCDiscovery
  RelayLists <- TwoLists
  PublicPolicy = TRUE
  MaxFaults = 1
SPECIFICATION FairSpec
INVARIANTS
  TargetsCheckedByThisCall
  DefaultsAreTheFallback
  TargetsAreDistinct
  RequestIsAnswered
PROPERTIES
  EveryResolutionEnds
CHECK_DEADLOCK FALSE
