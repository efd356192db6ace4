\* A root that may start one process, and one too many, and write to each of two
\* streams or to one beyond its limit. The instance stops when the call has ended.
SPECIFICATION FairSpec
CONSTANTS
  None = None
  Root = root
  Child = {c1}
  MaxProcesses = 2
  MaxLog = 1
  MaxOutput = 2
INVARIANTS
  TypeOK
  NoSurvivor
  ExitIsClean
  LogsKept
  ForceIsReported
PROPERTIES
  CallEnds
CHECK_DEADLOCK FALSE
