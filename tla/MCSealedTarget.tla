--------------------------- MODULE MCSealedTarget ----------------------------
(* An instance of SealedTarget: an application of two modules, one of which     *)
(* the checkout does not have at first and one of which has the bytecode of an  *)
(* older version, one runtime file that the worker imports, the Python          *)
(* executable, one design input, one profile and one file of the slicer.        *)
EXTENDS SealedTarget

CONSTANTS worker, extra, numpy, python, manifest, spec, profile, slicer, good, bad

MCAppFile == {worker, extra}
MCRuntimeFile == {numpy}
MCAsset == {spec, profile}
MCSlicerFile == {slicer}
MCOtherFile == {python}
MCContent == {good, bad}
MCApproved == [f \in {spec, profile, slicer} |-> good]
MCLists ==
  [c \in {good, bad} |-> [f \in {worker, extra, numpy} |-> IF f = extra THEN Absent ELSE c]]
MCCached == {[f \in {worker, numpy} |-> IF f = worker THEN bad ELSE None]}
MCCheckout == {[f \in File |-> IF f = extra THEN Absent ELSE good]}
MCParts ==
  << [tree |-> TRUE, files |-> {worker, extra}],
     [tree |-> FALSE, files |-> {python}],
     [tree |-> FALSE, files |-> {spec}],
     [tree |-> FALSE, files |-> {manifest}],
     [tree |-> TRUE, files |-> {numpy}],
     [tree |-> FALSE, files |-> {profile}],
     [tree |-> TRUE, files |-> {slicer}] >>
=============================================================================
