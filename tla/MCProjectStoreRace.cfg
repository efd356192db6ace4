\* MCProjectStoreRace.cfg
SPECIFICATION Spec
CONSTANTS
  p1 = p1
  p2 = p2
  c1 = c1
  c2 = c2
  Project <- OneProject
  Client <- TwoClients
  NoClient = NoClient
  MaxDrafts = 3
  MaxJobs = 2
  MaxCrashes = 0
  MaxFailures = 0
INVARIANT ApprovedDraftImmutable
\* the bounds are spent and every call has returned
CHECK_DEADLOCK FALSE
