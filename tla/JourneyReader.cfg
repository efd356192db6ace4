\* One job and one client that reads it at any time. The instance stops when the
\* job has its outcome.
SPECIFICATION FairSpec
CONSTANTS
  None = None
  Reader = {r1}
  MaxTime = 1
  MaxAttempts = 2
  MaxLines = 3
  Edits = {"missing", "changed"}
  Blocking = {"unknown_slicer_warning", "floating_bridge_anchor_warning", "slicer_mesh_repair"}
INVARIANTS
  ShowsOnePublication
  EvidenceReadable
  ClaimsAreBacked
PROPERTIES
  PublishedHistoryKept
  ImplementsLadder
  JobsSettle
CHECK_DEADLOCK FALSE
