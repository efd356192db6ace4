------------------------------ MODULE SlicerRun ------------------------------
(* What a run of PrusaSlicer (slicing/prusaslicer.py) leaves behind, and how the *)
(* slicing pipeline judges it by the risk policy of the benchmark.  The slicer's *)
(* output is a sequence of lines, each of one kind.                              *)
EXTENDS Naturals, Sequences

CONSTANTS Blocking,   \* the risks the policy gives "block_r4", not a warning
          MaxLines    \* bound of the slicer's output

RiskKind ==
  {"unknown_slicer_warning", "floating_bridge_anchor_warning", "low_bed_adhesion_warning",
   "slicer_mesh_repair"}

\* GoldenPartFabricationPipeline.__init__: every risk has a disposition.
ASSUME PolicyAssumption == Blocking \subseteq RiskKind /\ MaxLines \in Nat

-----------------------------------------------------------------------------
(* slice_model                                                                   *)

\* The files of its steps that are recorded in the end, and in which order.
RecordOrder ==
  <<"installation", "info_logs", "project_logs", "slice_logs", "sliced", "preflight">>

\* The first n of them.
RecordedUpTo(n) == {RecordOrder[i] : i \in 1..n}

\* A run fails before its first file, or after the logs of a command that timed out,
\* returned an error or made no valid file; the G-code is judged after the last one.
FailedRunFiles == {RecordedUpTo(n) : n \in 0..4}

AllFiles == RecordedUpTo(Len(RecordOrder))

-----------------------------------------------------------------------------
(* The gate                                                                      *)

WarningLine == {"low_bed_adhesion", "floating_bridge", "unclassified"}
LineKind == WarningLine \cup {"print_warning", "progress", "advice"}

\* parse_slicer_warnings: the lines from a heading to the next report of progress.
WarningsIn(output) ==
  {output[n] : n \in {n \in DOMAIN output :
     /\ output[n] \in WarningLine
     /\ \E h \in 1..n-1 :
          output[h] = "print_warning" /\ \A m \in h..n : output[m] # "progress"}}

RiskOf(warning) ==
  CASE warning = "low_bed_adhesion" -> "low_bed_adhesion_warning"
    [] warning = "floating_bridge"  -> "floating_bridge_anchor_warning"
    [] OTHER                        -> "unknown_slicer_warning"

\* A failed preflight blocks whatever the policy says.
EvaluateGate(output, repaired, preflight) ==
  LET risks == {RiskOf(w) : w \in WarningsIn(output)}
                 \cup IF repaired THEN {"slicer_mesh_repair"} ELSE {}
  IN [blocked |-> ~preflight \/ risks \cap Blocking # {}, advised |-> risks \ Blocking # {}]

\* All that a run which produced its G-code can amount to.
GateOutcomes ==
  {EvaluateGate(output, repaired, preflight) :
     output \in UNION {[1..n -> LineKind] : n \in 0..MaxLines},
     repaired \in BOOLEAN, preflight \in BOOLEAN}
=============================================================================
