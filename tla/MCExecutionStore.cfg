\* Three requests for a queue of two, over one lease duration, with a log that
\* reaches its limit.
SPECIFICATION Spec
CONSTANTS
  Execution = {e1, e2, e3}
  Key = {k1, k2, k3}
  Request = {q1}
  Runner = {r1}
  Journey = {j1}
  FailureCode = {"stage_failed", "cancellation_timeout", "runner_interrupted"}
  EvidenceLevel = {2}
  None = None
  MaxTime = 1
  MaxQueued = 2
  MaxEvents = 5
  LeaseSeconds = 1
  CancellationGrace = 1
  Time <- MCTime
SYMMETRY Symmetric
INVARIANTS
  TypeOK
  OneActive
  QueueBounded
  OneExecutionPerKey
  FifoGenerations
  StoredStateLoads
  TerminalSlotKept
PROPERTIES
  ImplementsControl
  EvidenceKept
