\* No fault at all: a cancellation commits between the last read and the end.
\* The instance stops when every request has ended and the clock is at its bound.
SPECIFICATION ServiceSpec
CONSTANTS
  e1 = e1
  e2 = e2
  r1 = r1
  r2 = r2
  Request = {q1}
  Journey = {j1}
  FailureCode = {"stage_failed", "internal_error", "persistence_failed", "runner_interrupted"}
  EvidenceLevel = {0, 2, 3, 4}
  None = None
  MaxEvents = 8
  CancellationGrace = 1
  Time <- MCTime
  Execution = {e1, e2}
  Key = {e1, e2}
  Runner = {r1}
  R4Target <- OneTarget
  MaxQueued = 1
  LeaseSeconds = 2
  MaxTime = 2
  FaultsUntil = 0
  CrashesAllowed = FALSE
  StoreFaults = FALSE
  Timely = TRUE
INVARIANTS
  InterruptedMeansRunnerLost
CHECK_DEADLOCK FALSE
