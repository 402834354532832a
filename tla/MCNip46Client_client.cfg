SPECIFICATION FairSpec
CONSTANTS
  c1 = c1
  c2 = c2
  c3 = c3
  Connects <- MCConnects
  Users <- MCUsers
  Signers <- MCSigners
  Secrets <- MCSecrets
  Trim <- MCTrim
  Holders <- MCHolders
  Urls <- MCUrls
  Uses <- MCUses
  ConfigPerms <- MCConfigPerms
  Events <- MCEvents
  MaxEvents = 2
  MaxIncidents = 1
INVARIANTS
  AnswersAreGenuine
  SessionsAreProven
  AnswerIsHeard
  AskedWithinConfiguration
PROPERTIES
  ClosedStaysClosed
  EveryCallEnds
CHECK_DEADLOCK FALSE
