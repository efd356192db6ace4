------------------------------- MODULE GCode ---------------------------------
(* One G-code program and its three readers: the preflight that decides R4      *)
(* (slicing/gcode.py), the viewer of the workbench (web/src/toolpath.ts), and   *)
(* the machine, which is nowhere in the repository but is what both speak       *)
(* about: a printer with the firmware of the profiles (marlin2).  The program   *)
(* is read line by line; as it may end after any line, what a reader says of it *)
(* is a state predicate.                                                        *)
(*                                                                              *)
(* Coordinates, filament and temperatures are integers; an inch is Inch of      *)
(* them.                                                                        *)
EXTENDS Integers, FiniteSets

CONSTANTS
  Axis,         \* X, Y, Z
  Drawn,        \* the axes whose motion the viewer draws: X, Y
  Up,           \* Z
  Coordinate, Filament, Temperature, Tool,
  Inch,
  Lines,        \* the lines of which programs are made
  Volume,       \* PrinterProfile.build_volume_mm
  NozzleRange, BedRange,
  SupportAllowed,
  Absent, None,
  MaxMoves      \* bound: how many lines of a program move the machine or its origin

\* How a line is written: as the slicer does; with a leading zero, as in G01; or
\* otherwise, as in G1X10 and M109 R240.
Spelling == {"plain", "padded", "other"}

Move ==
  [op : {"linear", "arc"}, at : [Axis -> Coordinate \cup {Absent}],
   e : Filament \cup {Absent}, spelled : Spelling]
Origin ==
  [op : {"G92"}, at : [Axis -> Coordinate \cup {Absent}], e : Filament \cup {Absent},
   spelled : Spelling]
Mode == [op : {"G20", "G21", "G90", "G91", "M82", "M83"}, spelled : Spelling]
Heat == [op : {"nozzle", "bed"}, target : Temperature, spelled : Spelling]
Change == [op : {"tool"}, tool : Tool, spelled : Spelling]
Intervention == [op : {"stop"}, spelled : Spelling]
Home == [op : {"G28"}, spelled : Spelling]
Comment ==
  [op : {"layer"}, spelled : {"plain"}]
    \cup [op : {"z"}, z : Coordinate, spelled : {"plain"}]
    \cup [op : {"type"}, support : BOOLEAN, spelled : {"plain"}]
    \cup [op : {"height"}, ofProfile : BOOLEAN, spelled : {"plain"}]
Line == UNION {Move, Origin, Mode, Heat, Change, Intervention, Home, Comment}

ASSUME AxisAssumption == Drawn \subseteq Axis /\ Up \in Axis \ Drawn
ASSUME NumberAssumption ==
  /\ Coordinate \subseteq Int /\ Filament \subseteq Int /\ Inch \in Int
  /\ Temperature \subseteq Nat /\ Tool \subseteq Nat
  /\ Absent \notin Int /\ None \notin Int
  /\ Volume \in [Axis -> Nat] /\ MaxMoves \in Nat
  /\ NozzleRange \in [low : Nat, high : Nat] /\ BedRange \in [low : Nat, high : Nat]
  /\ SupportAllowed \in BOOLEAN
ASSUME LinesAssumption == Lines \subseteq Line

VARIABLES
  moves,    \* lines so far that count against MaxMoves
  marked,   \* the viewer looked ahead: the text has layer markers
  parse,    \* the variables of GCodeSummary.parse
  view,     \* the variables of parseGCodeToolpath
  machine,
  astray    \* history: why the machine need not do what the readers took it to do

vars == <<moves, marked, parse, view, machine, astray>>

Zero == [a \in Axis |-> 0]
Given(l) == {a \in Axis : l.at[a] # Absent}

Init ==
  /\ moves = 0 /\ astray = {}
  /\ marked \in BOOLEAN
  /\ parse =
       [current |-> Zero, coordinates |-> [a \in Axis |-> {}], absolute |-> TRUE,
        sawG90 |-> FALSE, mm |-> FALSE, extrusion |-> None, nozzle |-> {}, bed |-> {},
        tools |-> {}, forbidden |-> FALSE, support |-> FALSE, layers |-> FALSE,
        height |-> FALSE]
  /\ view =
       [at |-> Zero, e |-> 0, absolute |-> TRUE, absoluteE |-> TRUE,
        layer |-> None, segment |-> None]
  /\ machine =
       [at |-> Zero, origin |-> Zero, e |-> 0, absolute |-> TRUE, absoluteE |-> TRUE,
        inch |-> FALSE, been |-> [a \in Axis |-> {0}], nozzle |-> {0}, bed |-> {0},
        tools |-> {}, stopped |-> FALSE, segment |-> None]

Moved(absolute, from, l) ==
  [a \in Axis |-> CASE a \notin Given(l) -> from[a]
                    [] a \in Given(l) /\ absolute -> l.at[a]
                    [] a \in Given(l) /\ ~absolute -> from[a] + l.at[a]]

----------------------------------------------------------------------------
(* The preflight's parser knows a command by its exact spelling, except for    *)
(* tools.                                                                      *)

Parses(l) == l.spelled = "plain" \/ (l.op = "tool" /\ l.spelled = "padded")

\* A mutant: relative coordinates are taken for positions.
ParsedMoveAsSaid(l) ==
  [parse EXCEPT
     !.current = Moved(parse.absolute, @, l),
     !.coordinates = [a \in Axis |-> @[a] \cup {l.at[b] : b \in Given(l) \cap {a}}]]

ParsedMove(l) ==
  LET to == Moved(parse.absolute, parse.current, l)
  IN [parse EXCEPT
        !.current = to,
        !.coordinates = [a \in Axis |-> @[a] \cup {to[b] : b \in Given(l) \cap {a}}]]

ParsedOrigin(l) == [parse EXCEPT !.current = Moved(TRUE, @, l)]

ParsedMode(l) ==
  [parse EXCEPT
     !.mm = l.op = "G21" \/ (@ /\ l.op # "G20"),
     !.absolute = l.op = "G90" \/ (@ /\ l.op # "G91"),
     !.sawG90 = @ \/ l.op = "G90",
     !.extrusion = CASE l.op = "M82" -> "absolute" [] l.op = "M83" -> "relative" [] OTHER -> @]

ParsedHeat(l) ==
  [parse EXCEPT !.nozzle = IF l.op = "nozzle" THEN @ \cup {l.target} ELSE @,
                !.bed = IF l.op = "bed" THEN @ \cup {l.target} ELSE @]

ParsedComment(l) ==
  [parse EXCEPT !.layers = @ \/ l.op = "layer",
                !.support = @ \/ (l.op = "type" /\ l.support),
                !.height = IF l.op = "height" THEN l.ofProfile ELSE @]

\* GCodePreflightReport.evaluate
InVolume == \A a \in Axis : \A v \in parse.coordinates[a] : 0 <= v /\ v <= Volume[a]
InRange(temperatures, range) ==
  /\ \E t \in temperatures : t > 0 /\ range.low <= t
  /\ \A t \in temperatures : t <= range.high

Passed ==
  /\ parse.layers
  /\ parse.mm
  /\ parse.sawG90
  /\ parse.extrusion # None
  /\ InVolume
  /\ InRange(parse.nozzle, NozzleRange)
  /\ InRange(parse.bed, BedRange)
  /\ parse.tools \subseteq {0}
  /\ ~parse.forbidden
  /\ SupportAllowed \/ ~parse.support
  /\ parse.height

----------------------------------------------------------------------------
(* The viewer takes the number of a command for what it is.                    *)

Views(l) == l.spelled # "other"

Segment(from, to, extruding) ==
  IF \E a \in Drawn : from[a] # to[a]
  THEN [from |-> [a \in Drawn |-> from[a]], to |-> [a \in Drawn |-> to[a]],
        extruding |-> extruding]
  ELSE None

Extrudes(absoluteE, e, l) == l.e # Absent /\ l.e > IF absoluteE THEN e ELSE 0
Extruded(absoluteE, e, l) == IF l.e = Absent THEN e ELSE IF absoluteE THEN l.e ELSE e + l.e

ViewedMove(l) ==
  LET to == Moved(view.absolute, view.at, l)
      extruding == Extrudes(view.absoluteE, view.e, l)
      segment == Segment(view.at, to, extruding)
      layer == IF segment # None /\ ~marked /\ extruding THEN to[Up] ELSE view.layer
  IN [view EXCEPT !.at = to, !.e = Extruded(view.absoluteE, @, l), !.layer = layer,
                  !.segment = IF layer = None THEN None ELSE segment]

\* Arcs are counted and left out.
ViewedArc == [view EXCEPT !.segment = None]

\* A mutant: G92 sets the axes and leaves the filament as it was.
ViewedOriginOfAxes(l) == [view EXCEPT !.at = Moved(TRUE, @, l), !.segment = None]

ViewedOrigin(l) ==
  [view EXCEPT !.at = Moved(TRUE, @, l), !.e = IF l.e = Absent THEN @ ELSE l.e,
               !.segment = None]

ViewedMode(l) ==
  [view EXCEPT
     !.absolute = l.op = "G90" \/ (@ /\ l.op # "G91"),
     !.absoluteE = l.op = "M82" \/ (@ /\ l.op # "M83"),
     !.segment = None]

ViewedComment(l) ==
  [view EXCEPT
     !.at = IF l.op = "z" THEN [@ EXCEPT ![Up] = l.z] ELSE @,
     !.layer = CASE l.op = "layer" -> view.at[Up]
                 [] l.op = "z" /\ @ # None -> l.z
                 [] OTHER -> @,
     !.segment = None]

----------------------------------------------------------------------------
(* The machine understands every spelling, counts in the units in force, keeps  *)
(* where it is when its origin moves, and takes G90 and G91 for the extruder    *)
(* too.                                                                         *)

Scaled(l) ==
  [l EXCEPT !.at = [a \in Axis |-> IF @[a] = Absent \/ ~machine.inch THEN @[a] ELSE Inch * @[a]],
            !.e = IF @ = Absent \/ ~machine.inch THEN @ ELSE Inch * @]

Reached(l) ==
  LET said == Moved(machine.absolute, [a \in Axis |-> machine.at[a] - machine.origin[a]], l)
  IN [a \in Axis |-> said[a] + machine.origin[a]]

\* An arc bulges beyond its end points.
Made(l) ==
  LET to == Reached(l)
      extruding == Extrudes(machine.absoluteE, machine.e, l)
      been == [a \in Axis |-> machine.been[a] \cup {to[a]}]
  IN {[machine EXCEPT !.at = to, !.e = Extruded(machine.absoluteE, @, l),
                      !.been = [a \in Axis |-> been[a] \cup bulge],
                      !.segment = Segment(machine.at, to, extruding)] :
        bulge \in IF l.op = "arc" THEN {{c} : c \in Coordinate} ELSE {{}}}

MadeOrigin(l) ==
  [machine EXCEPT
     !.origin = [a \in Axis |-> IF a \in Given(l) THEN machine.at[a] - l.at[a] ELSE @[a]],
     !.e = IF l.e = Absent THEN @ ELSE l.e,
     !.segment = None]

MadeMode(l) ==
  [machine EXCEPT
     !.inch = l.op = "G20" \/ (@ /\ l.op # "G21"),
     !.absolute = l.op = "G90" \/ (@ /\ l.op # "G91"),
     !.absoluteE = l.op \in {"G90", "M82"} \/ (@ /\ l.op \notin {"G91", "M83"}),
     !.segment = None]

Still == [machine EXCEPT !.segment = None]

----------------------------------------------------------------------------
Unread(l) == IF Parses(l) THEN {} ELSE {l.spelled}
Inches(l) ==
  IF machine.inch /\ (Given(l) # {} \/ l.e # Absent) THEN {"units"} ELSE {}

Moves(l) ==
  /\ moves < MaxMoves /\ l \in Move
  /\ moves' = moves + 1
  /\ parse' = IF Parses(l) THEN ParsedMove(l) ELSE parse
  /\ view' = IF Views(l) /\ l.op = "linear" THEN ViewedMove(l) ELSE ViewedArc
  /\ machine' \in Made(Scaled(l))
  /\ astray' = astray \cup Unread(l) \cup Inches(l) \cup ({"arc"} \cap {l.op})
  /\ UNCHANGED marked

MovesOrigin(l) ==
  /\ l \in Origin /\ (Given(l) # {} => moves < MaxMoves)
  /\ moves' = IF Given(l) = {} THEN moves ELSE moves + 1
  /\ parse' = IF Parses(l) THEN ParsedOrigin(l) ELSE parse
  /\ view' = IF Views(l) THEN ViewedOrigin(l) ELSE ViewedArc
  /\ machine' = MadeOrigin(Scaled(l))
  /\ astray' = astray \cup Unread(l) \cup Inches(l)
                 \cup {"origin" : a \in {b \in Given(l) : l.at[b] # machine.at[b]}}
  /\ UNCHANGED marked

Homes(l) ==
  /\ l \in Home
  /\ machine' = [Still EXCEPT !.at = Zero, !.origin = Zero]
  /\ view' = ViewedArc
  /\ astray' = IF machine.at = Zero THEN astray ELSE astray \cup {"home"}
  /\ UNCHANGED <<moves, marked, parse>>

SetsMode(l) ==
  /\ l \in Mode
  /\ parse' = IF Parses(l) THEN ParsedMode(l) ELSE parse
  /\ view' = IF Views(l) THEN ViewedMode(l) ELSE ViewedArc
  /\ machine' = MadeMode(l)
  /\ astray' = astray \cup Unread(l)
                 \cup (IF view'.absoluteE # machine'.absoluteE THEN {"extrusion"} ELSE {})
  /\ UNCHANGED <<moves, marked>>

Heats(l) ==
  /\ l \in Heat
  /\ parse' = IF Parses(l) THEN ParsedHeat(l) ELSE parse
  /\ view' = ViewedArc
  /\ machine' = [Still EXCEPT ![l.op] = @ \cup {l.target}]
  /\ astray' = astray \cup Unread(l)
  /\ UNCHANGED <<moves, marked>>

ChangesTool(l) ==
  /\ l \in Change
  /\ parse' = IF Parses(l) THEN [parse EXCEPT !.tools = @ \cup {l.tool}] ELSE parse
  /\ view' = ViewedArc
  /\ machine' = [Still EXCEPT !.tools = @ \cup {l.tool}]
  /\ astray' = astray \cup Unread(l)
  /\ UNCHANGED <<moves, marked>>

Intervenes(l) ==
  /\ l \in Intervention
  /\ parse' = [parse EXCEPT !.forbidden = @ \/ Parses(l)]
  /\ view' = ViewedArc
  /\ machine' = [Still EXCEPT !.stopped = TRUE]
  /\ astray' = astray \cup Unread(l)
  /\ UNCHANGED <<moves, marked>>

Comments(l) ==
  /\ l \in Comment /\ (l.op = "layer" => marked)
  /\ parse' = ParsedComment(l)
  /\ view' = ViewedComment(l)
  /\ machine' = Still
  /\ astray' = astray \cup ({"z"} \cap {l.op})
  /\ UNCHANGED <<moves, marked>>

Next ==
  \E l \in Lines :
    \/ Moves(l) \/ MovesOrigin(l) \/ Homes(l) \/ SetsMode(l)
    \/ Heats(l) \/ ChangesTool(l) \/ Intervenes(l) \/ Comments(l)

Spec == Init /\ [][Next]_vars

----------------------------------------------------------------------------
Point == [Axis -> Int]
Reason == {"units", "arc", "origin", "padded", "other", "home", "extrusion", "z"}

Segments == [from : [Drawn -> Int], to : [Drawn -> Int], extruding : BOOLEAN]
Parse ==
  [current : Point, coordinates : [Axis -> SUBSET Int], absolute : BOOLEAN, sawG90 : BOOLEAN,
   mm : BOOLEAN, extrusion : {None, "absolute", "relative"}, nozzle : SUBSET Nat,
   bed : SUBSET Nat, tools : SUBSET Nat, forbidden : BOOLEAN, support : BOOLEAN,
   layers : BOOLEAN, height : BOOLEAN]
View ==
  [at : Point, e : Int, absolute : BOOLEAN, absoluteE : BOOLEAN, layer : Int \cup {None},
   segment : Segments \cup {None}]
Machine ==
  [at : Point, origin : Point, e : Int, absolute : BOOLEAN, absoluteE : BOOLEAN,
   inch : BOOLEAN, been : [Axis -> SUBSET Int], nozzle : SUBSET Nat, bed : SUBSET Nat,
   tools : SUBSET Nat, stopped : BOOLEAN, segment : Segments \cup {None}]

TypeOK ==
  /\ moves \in Nat /\ marked \in BOOLEAN /\ astray \subseteq Reason
  /\ parse \in Parse /\ view \in View /\ machine \in Machine

\* A program that passes the preflight stays in the build volume and below the
\* temperatures of its profiles, uses no second tool and stops for nobody: as
\* long as it moves in millimetres and along lines, moves its origin to where it is,
\* homes before it moves, and has its commands spelled as the slicer spells them.
PassedIsHarmless ==
  Passed /\ astray \subseteq {"extrusion", "z"} =>
    /\ \A a \in Axis : \A v \in machine.been[a] : 0 <= v /\ v <= Volume[a]
    /\ \A t \in machine.nozzle : t <= NozzleRange.high
    /\ \A t \in machine.bed : t <= BedRange.high
    /\ machine.tools \subseteq {0}
    /\ ~machine.stopped

\* From its first layer on the viewer draws every motion of the machine in the
\* plane, no other, and as extrusion what is extruded; without layer markers, it
\* draws what is extruded in the layer of its height.  This needs of a program what
\* the preflight's promise needs, and that it sets the extruder's mode after G90.
ViewedIsMade ==
  astray \subseteq {"padded", "z"} =>
    /\ view.segment = IF view.layer = None THEN None ELSE machine.segment
    /\ view.segment # None /\ view.segment.extruding /\ ~marked /\ "z" \notin astray =>
         view.layer = machine.at[Up]
=============================================================================
