\* Two runner processes with crashes and store faults; one may be late while the
\* other takes the next execution.
\* The instance stops when every request has ended and the clock is at its bound.
SPECIFICATION ServiceSpec
CONSTANTS
  e1 = e1
  e2 = e2
  r1 = r1
  r2 = r2
  Request = {q1}
  Journey = {j1}
  FailureCode = {"stage_failed", "internal_error", "persistence_failed", "runner_interrupted"}
  EvidenceLevel = {0, 2, 3, 4}
  None = None
  MaxEvents = 8
  CancellationGrace = 1
  Time <- MCTime
  Execution = {e1, e2}
  Key = {e1, e2}
  Runner = {r1, r2}
  R4Target <- OneTarget
  MaxQueued = 1
  LeaseSeconds = 1
  MaxTime = 1
  FaultsUntil = 0
  CrashesAllowed = TRUE
  StoreFaults = TRUE
  Timely = FALSE
SYMMETRY Symmetric
INVARIANTS
  TokenJustified
  ServiceTypeOK
  SuccessIsEvidenced
  SnapshotsAscend
CHECK_DEADLOCK FALSE
