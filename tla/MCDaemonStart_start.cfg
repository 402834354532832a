\* Two processes that may start at once, three starts, one incident.
CONSTANTS
  p1 = p1  p2 = p2
  Procs = {p1, p2}
  MaxStarts = 3
  MaxIncidents = 1
  Settings <- MCSettings
  Nobody = nobody
SPECIFICATION FairSpec
INVARIANTS
  TypeOK
  StoredIdentityOpens
  AnnouncedIdentityIsKept
  CleanStartsSucceed
PROPERTIES
  IdentityIsKept
  EveryStartEnds
CHECK_DEADLOCK FALSE
