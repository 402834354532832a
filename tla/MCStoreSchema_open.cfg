\* Two processes open a new database or an old one; opens are interrupted.
CONSTANTS
  daemon = daemon  cli = cli
  Procs = {daemon, cli}
  SCHEMA_VERSION = 4
  OldDatabases <- MCOldDatabases
  MaxOpens = 3
  MaxCrashes = 2
SPECIFICATION FairSpec
INVARIANTS
  OpenMeansWhole
  OldDatabaseUntouched
PROPERTIES
  NewDatabaseOpens
CHECK_DEADLOCK FALSE
