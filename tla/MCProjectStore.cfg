\* MCProjectStore.cfg
SPECIFICATION Spec
CONSTANTS
  p1 = p1
  p2 = p2
  c1 = c1
  c2 = c2
  Project <- TwoProjects
  Client <- TwoClients
  NoClient = NoClient
  MaxDrafts = 3
  MaxJobs = 3
  MaxCrashes = 1
  MaxFailures = 1
SYMMETRY Interchangeable
INVARIANT TypeOK
INVARIANT BriefPublished
INVARIANT PlanBound
INVARIANT OneRevision
INVARIANT StrayOnlyAfterCrash
PROPERTY BriefKept
\* the bounds are spent and every call has returned
CHECK_DEADLOCK FALSE
