------------------------------- MODULE MCGCode -------------------------------
(* An instance of GCode in a plane: X, which the viewer draws, and Z.           *)
EXTENDS GCode

MCLines ==
  LET at(x, z) == [a \in {"X", "Z"} |-> IF a = "X" THEN x ELSE z]
      plain(ls) == {l \in ls : l.spelled = "plain"}
  IN {[op |-> "linear", at |-> at(x, z), e |-> e, spelled |-> "plain"] :
         x \in {-1, 1, Absent}, z \in {1, Absent}, e \in {1, Absent}}
     \cup {[op |-> "linear", at |-> at(-1, Absent), e |-> Absent, spelled |-> s] :
             s \in {"padded", "other"}}
     \cup {[op |-> "arc", at |-> at(1, Absent), e |-> 1, spelled |-> "plain"]}
     \cup {[op |-> "G92", at |-> at(x, Absent), e |-> e, spelled |-> "plain"] :
             x \in {-1, 1, Absent}, e \in {0, Absent}}
     \cup plain(Mode) \cup plain(Home)
     \cup {[op |-> "nozzle", target |-> t, spelled |-> "plain"] : t \in {2, 3}}
     \cup {[op |-> "bed", target |-> 1, spelled |-> "plain"],
           [op |-> "tool", tool |-> 1, spelled |-> "padded"],
           [op |-> "stop", spelled |-> "plain"],
           [op |-> "layer", spelled |-> "plain"],
           [op |-> "z", z |-> 1, spelled |-> "plain"],
           [op |-> "height", ofProfile |-> TRUE, spelled |-> "plain"]}
\* Nothing is claimed of a program once it went astray for these reasons, so it is
\* not read on.
MCClaimed == astray \subseteq {"extrusion", "z"} \/ astray \subseteq {"padded", "z"}
\* The lines that neither reader relates to a motion come first, and of the
\* faults that the preflight finds in them a program has one.
MCHeader ==
  /\ moves > 0 => parse.height /\ parse.bed # {} /\ parse.nozzle # {} /\ parse.sawG90
  /\ (parse.bed # {} => parse.height) /\ (parse.nozzle # {} => parse.bed # {})
  /\ Cardinality({i \in 1 .. 3 : << 3 \in parse.nozzle, parse.forbidden, 1 \in parse.tools >>[i]}) <= 1
MCBounds == MCClaimed /\ MCHeader
MCVolume == [a \in {"X", "Z"} |-> 1]
MCNozzle == [low |-> 2, high |-> 2]
MCBed == [low |-> 1, high |-> 1]
MCCoordinate == -1 .. 1
=============================================================================
