\* Two inits that may use one path, a connection, two seconds.
CONSTANTS
  Inits = {i1, i2}
  Arguments <- MCArguments
  Files = {f1, f2}
  Conns = {c1}
  Requests <- MCRequests
  Enabled = TRUE
  MaxTime = 1
  MaxIncidents = 1
SPECIFICATION Spec
SYMMETRY Symmetry
INVARIANTS
  TokenFilesWork
  ReportedMeansDelivered
  AdmittedWithAuthority
PROPERTIES
  FilesAreKept
CHECK_DEADLOCK FALSE
