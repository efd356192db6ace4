\* Two R2 requests, one runner process that crashes and restarts, a store that fails,
\* and a lease that can be renewed.
\* The instance stops when every request has ended and the clock is at its bound.
SPECIFICATION FairServiceSpec
CONSTANTS
  e1 = e1
  e2 = e2
  r1 = r1
  r2 = r2
  Request = {q1}
  Journey = {j1}
  FailureCode = {"stage_failed", "internal_error", "persistence_failed", "runner_interrupted"}
  EvidenceLevel = {0, 2, 3, 4}
  None = None
  MaxEvents = 8
  CancellationGrace = 1
  Time <- MCTime
  Execution = {e1, e2}
  Key = {e1, e2}
  Runner = {r1}
  R4Target = {}
  MaxQueued = 1
  LeaseSeconds = 2
  MaxTime = 2
  FaultsUntil = 0
  CrashesAllowed = TRUE
  StoreFaults = TRUE
  Timely = FALSE
PROPERTIES
  AllEnd
CHECK_DEADLOCK FALSE
