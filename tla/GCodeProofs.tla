----------------------------- MODULE GCodeProofs -----------------------------
(* What the preflight's verdict means on the machine, for every printer, every   *)
(* set of lines and programs of any length.                                      *)
EXTENDS GCode, TLAPS

USE AxisAssumption, NumberAssumption, LinesAssumption

\* A line that moves or sets the origin, with the numbers the machine makes of it.
Placed ==
  [op : {"linear", "arc", "G92"}, at : [Axis -> Int \cup {Absent}], e : Int \cup {Absent},
   spelled : Spelling]

LEMMA PlacedLines == Move \cup Origin \subseteq Placed
BY DEF Move, Origin, Placed

LEMMA ScaledIsPlaced ==
  ASSUME TypeOK, NEW l \in Placed
  PROVE  Scaled(l) \in Placed /\ Scaled(l).op = l.op
<1>1. machine.inch \in BOOLEAN
  BY DEF TypeOK, Machine
<1>2. \A v \in Int : Inch * v \in Int
  OBVIOUS
<1>3. [a \in Axis |-> IF l.at[a] = Absent \/ ~machine.inch THEN l.at[a] ELSE Inch * l.at[a]]
        \in [Axis -> Int \cup {Absent}]
  BY <1>2 DEF Placed
<1>4. (IF l.e = Absent \/ ~machine.inch THEN l.e ELSE Inch * l.e) \in Int \cup {Absent}
  BY <1>2 DEF Placed
<1> QED BY <1>3, <1>4 DEF Scaled, Placed

\* Without a coordinate in inches, the machine takes a line for what it says.
LEMMA ScaledIsSame ==
  ASSUME TypeOK, NEW l \in Placed, Inches(l) = {}
  PROVE  Scaled(l) = l
<1>1. \A a \in Axis : ~(l.at[a] = Absent \/ ~machine.inch) => FALSE
  BY DEF Inches, Given
<1>2. [a \in Axis |-> IF l.at[a] = Absent \/ ~machine.inch THEN l.at[a] ELSE Inch * l.at[a]]
        = l.at
  BY <1>1 DEF Placed
<1>3. (IF l.e = Absent \/ ~machine.inch THEN l.e ELSE Inch * l.e) = l.e
  BY DEF Inches
<1> QED BY <1>2, <1>3 DEF Scaled, Placed

LEMMA MovedIsPoint ==
  ASSUME NEW l \in Placed, NEW from \in Point, NEW absolute \in BOOLEAN
  PROVE  /\ Moved(absolute, from, l) \in Point
         /\ \A a \in Axis : a \notin Given(l) => Moved(absolute, from, l)[a] = from[a]
<1>1. ASSUME NEW a \in Axis
      PROVE  /\ Moved(absolute, from, l)[a] \in Int
             /\ a \notin Given(l) => Moved(absolute, from, l)[a] = from[a]
  <2>1. CASE a \notin Given(l)
    BY <2>1 DEF Moved, Point
  <2>2. CASE a \in Given(l) /\ absolute
    BY <2>2 DEF Moved, Point, Given, Placed
  <2>3. CASE a \in Given(l) /\ ~absolute
    BY <2>3 DEF Moved, Point, Given, Placed
  <2> QED BY <2>1, <2>2, <2>3
<1> QED BY <1>1 DEF Moved, Point

----------------------------------------------------------------------------
(* The records of the three readers keep their types.                          *)

LEMMA SegmentIsSegment ==
  ASSUME NEW from \in Point, NEW to \in Point, NEW extruding \in BOOLEAN
  PROVE  Segment(from, to, extruding) \in Segments \cup {None}
BY DEF Segment, Segments, Point

LEMMA ExtrudedIsInt ==
  ASSUME NEW l \in Placed, NEW e \in Int, NEW absoluteE \in BOOLEAN
  PROVE  Extruded(absoluteE, e, l) \in Int /\ Extrudes(absoluteE, e, l) \in BOOLEAN
BY DEF Extruded, Extrudes, Placed

LEMMA ParsedMoveType ==
  ASSUME TypeOK, NEW l \in Placed
  PROVE  /\ ParsedMove(l) \in Parse
         /\ ParsedMove(l).current = Moved(parse.absolute, parse.current, l)
         /\ \A a \in Axis :
              parse.coordinates[a] \cup {Moved(parse.absolute, parse.current, l)[b] : b \in Given(l) \cap {a}}
                = ParsedMove(l).coordinates[a]
         /\ \A f \in {"absolute", "nozzle", "bed", "tools", "forbidden"} : ParsedMove(l)[f] = parse[f]
<1> DEFINE to == Moved(parse.absolute, parse.current, l)
           coordinates ==
             [a \in Axis |-> parse.coordinates[a] \cup {to[b] : b \in Given(l) \cap {a}}]
<1>1. parse \in Parse
  BY DEF TypeOK
<1>2. to \in Point
  BY <1>1, MovedIsPoint DEF Parse
<1>3. coordinates \in [Axis -> SUBSET Int]
  BY <1>1, <1>2 DEF Parse, Point
<1>4. ParsedMove(l) = [parse EXCEPT !.current = to, !.coordinates = coordinates]
  BY <1>1 DEF ParsedMove, Parse
<1>5. \A a \in Axis : coordinates[a] = parse.coordinates[a] \cup {to[b] : b \in Given(l) \cap {a}}
  OBVIOUS
<1> HIDE DEF to, coordinates
<1>6. ParsedMove(l) \in Parse
  BY <1>1, <1>2, <1>3, <1>4 DEF Parse
<1>7. /\ ParsedMove(l).current = to /\ ParsedMove(l).coordinates = coordinates
      /\ ParsedMove(l).absolute = parse.absolute /\ ParsedMove(l).nozzle = parse.nozzle
      /\ ParsedMove(l).bed = parse.bed /\ ParsedMove(l).tools = parse.tools
      /\ ParsedMove(l).forbidden = parse.forbidden
  BY <1>1, <1>4 DEF Parse
<1> QED BY <1>5, <1>6, <1>7 DEF to

LEMMA ParsedTypes ==
  ASSUME TypeOK, NEW l \in Lines
  PROVE  /\ l \in Origin => ParsedOrigin(l) \in Parse
         /\ l \in Mode => ParsedMode(l) \in Parse
         /\ l \in Heat => ParsedHeat(l) \in Parse
         /\ l \in Comment => ParsedComment(l) \in Parse
         /\ l \in Change => [parse EXCEPT !.tools = @ \cup {l.tool}] \in Parse
         /\ [parse EXCEPT !.forbidden = @ \/ Parses(l)] \in Parse
<1>1. parse \in Parse
  BY DEF TypeOK
<1>2. l \in Origin => ParsedOrigin(l) \in Parse
  <2>1. l \in Origin => Moved(TRUE, parse.current, l) \in Point
    BY <1>1, MovedIsPoint, PlacedLines DEF Parse
  <2> QED BY <1>1, <2>1 DEF ParsedOrigin, Parse
<1>3. l \in Mode => ParsedMode(l) \in Parse
  <2> DEFINE extrusion ==
        CASE l.op = "M82" -> "absolute" [] l.op = "M83" -> "relative" [] OTHER -> parse.extrusion
  <2>1. extrusion \in {None, "absolute", "relative"}
    BY <1>1 DEF Parse
  <2>2. ParsedMode(l) = [parse EXCEPT !.mm = l.op = "G21" \/ (parse.mm /\ l.op # "G20"),
           !.absolute = l.op = "G90" \/ (parse.absolute /\ l.op # "G91"),
           !.sawG90 = parse.sawG90 \/ l.op = "G90", !.extrusion = extrusion]
    BY <1>1 DEF ParsedMode, Parse
  <2> HIDE DEF extrusion
  <2> QED BY <1>1, <2>1, <2>2 DEF Parse
<1>4. l \in Heat => ParsedHeat(l) \in Parse
  BY <1>1 DEF ParsedHeat, Parse, Heat
<1>5. l \in Comment => ParsedComment(l) \in Parse
  <2> SUFFICES ASSUME l \in Comment PROVE ParsedComment(l) \in Parse
    OBVIOUS
  <2> DEFINE support == parse.support \/ (l.op = "type" /\ l.support)
             height == IF l.op = "height" THEN l.ofProfile ELSE parse.height
  <2>1. l.op = "height" => l.ofProfile \in BOOLEAN
    BY DEF Comment
  <2>2. support \in BOOLEAN /\ height \in BOOLEAN
    BY <1>1, <2>1 DEF Parse
  <2>3. ParsedComment(l) = [parse EXCEPT !.layers = parse.layers \/ l.op = "layer",
                              !.support = support, !.height = height]
    BY <1>1 DEF ParsedComment, Parse
  <2> HIDE DEF support, height
  <2> QED BY <1>1, <2>2, <2>3 DEF Parse
<1>6. l \in Change => [parse EXCEPT !.tools = @ \cup {l.tool}] \in Parse
  BY <1>1 DEF Parse, Change
<1>7. [parse EXCEPT !.forbidden = @ \/ Parses(l)] \in Parse
  BY <1>1 DEF Parse, Parses
<1> QED BY <1>2, <1>3, <1>4, <1>5, <1>6, <1>7

LEMMA ViewedTypes ==
  ASSUME TypeOK, NEW l \in Lines
  PROVE  /\ ViewedArc \in View
         /\ l \in Move => ViewedMove(l) \in View
         /\ l \in Origin => ViewedOrigin(l) \in View
         /\ l \in Mode => ViewedMode(l) \in View
         /\ l \in Comment => ViewedComment(l) \in View
<1>1. view \in View /\ marked \in BOOLEAN
  BY DEF TypeOK
<1>2. ViewedArc \in View
  BY <1>1 DEF ViewedArc, View
<1>3. l \in Move => ViewedMove(l) \in View
  <2> SUFFICES ASSUME l \in Move PROVE ViewedMove(l) \in View
    OBVIOUS
  <2> DEFINE to == Moved(view.absolute, view.at, l)
             extruding == Extrudes(view.absoluteE, view.e, l)
             segment == Segment(view.at, to, extruding)
             layer == IF segment # None /\ ~marked /\ extruding THEN to[Up] ELSE view.layer
             e == Extruded(view.absoluteE, view.e, l)
  <2>1. l \in Placed
    BY PlacedLines
  <2>2. to \in Point
    BY <1>1, <2>1, MovedIsPoint DEF View
  <2>3. extruding \in BOOLEAN /\ e \in Int
    BY <1>1, <2>1, ExtrudedIsInt DEF View
  <2>4. segment \in Segments \cup {None}
    BY <1>1, <2>2, <2>3, SegmentIsSegment DEF View
  <2>5. layer \in Int \cup {None}
    BY <1>1, <2>2 DEF View, Point
  <2>6. ViewedMove(l) = [view EXCEPT !.at = to, !.e = e, !.layer = layer,
                           !.segment = IF layer = None THEN None ELSE segment]
    BY <1>1 DEF ViewedMove, View
  <2> HIDE DEF to, extruding, segment, layer, e
  <2> QED BY <1>1, <2>2, <2>3, <2>4, <2>5, <2>6 DEF View
<1>4. l \in Origin => ViewedOrigin(l) \in View
  <2>1. l \in Origin => /\ Moved(TRUE, view.at, l) \in Point
                        /\ (IF l.e = Absent THEN view.e ELSE l.e) \in Int
    BY <1>1, MovedIsPoint, PlacedLines DEF View, Placed
  <2> QED BY <1>1, <2>1 DEF ViewedOrigin, View
<1>5. l \in Mode => ViewedMode(l) \in View
  BY <1>1 DEF ViewedMode, View
<1>6. l \in Comment => ViewedComment(l) \in View
  <2> SUFFICES ASSUME l \in Comment PROVE ViewedComment(l) \in View
    OBVIOUS
  <2> DEFINE at == IF l.op = "z" THEN [view.at EXCEPT ![Up] = l.z] ELSE view.at
             layer == CASE l.op = "layer" -> view.at[Up]
                        [] l.op = "z" /\ view.layer # None -> l.z
                        [] OTHER -> view.layer
  <2>1. l.op = "z" => l.z \in Int
    BY DEF Comment
  <2>2. at \in Point
    BY <1>1, <2>1 DEF View, Point
  <2>3. layer \in Int \cup {None}
    BY <1>1, <2>1 DEF View, Point
  <2>4. ViewedComment(l) = [view EXCEPT !.at = at, !.layer = layer, !.segment = None]
    BY <1>1 DEF ViewedComment, View
  <2> HIDE DEF at, layer
  <2> QED BY <1>1, <2>2, <2>3, <2>4 DEF View
<1> QED BY <1>2, <1>3, <1>4, <1>5, <1>6

\* Where a move takes the machine, whatever the origin and the units.
LEMMA MadeMove ==
  ASSUME TypeOK, NEW l \in Placed, NEW m \in Made(l)
  PROVE  /\ m \in Machine
         /\ m.at = Reached(l) /\ Reached(l) \in Point
         /\ m.e = Extruded(machine.absoluteE, machine.e, l)
         /\ m.segment = Segment(machine.at, Reached(l), Extrudes(machine.absoluteE, machine.e, l))
         /\ l.op # "arc" => \A a \in Axis : m.been[a] = machine.been[a] \cup {Reached(l)[a]}
         /\ \A f \in {"origin", "absolute", "absoluteE", "inch", "nozzle", "bed", "tools",
                      "stopped"} : m[f] = machine[f]
<1> DEFINE to == Reached(l)
           extruding == Extrudes(machine.absoluteE, machine.e, l)
           e == Extruded(machine.absoluteE, machine.e, l)
           been == [a \in Axis |-> machine.been[a] \cup {to[a]}]
           segment == Segment(machine.at, to, extruding)
<1>1. machine \in Machine
  BY DEF TypeOK
<1>2. PICK bulge \in IF l.op = "arc" THEN {{c} : c \in Coordinate} ELSE {{}} :
        m = [machine EXCEPT !.at = to, !.e = e, !.been = [a \in Axis |-> been[a] \cup bulge],
                            !.segment = segment]
  BY <1>1 DEF Made, Machine
<1>3. bulge \in SUBSET Int /\ (l.op # "arc" => bulge = {})
  BY <1>2
<1>4. to \in Point
  <2>1. [a \in Axis |-> machine.at[a] - machine.origin[a]] \in Point
    BY <1>1 DEF Machine, Point
  <2>2. Moved(machine.absolute, [a \in Axis |-> machine.at[a] - machine.origin[a]], l) \in Point
    BY <1>1, <2>1, MovedIsPoint DEF Machine
  <2> QED BY <1>1, <2>2 DEF Reached, Machine, Point
<1>5. extruding \in BOOLEAN /\ e \in Int
  BY <1>1, ExtrudedIsInt DEF Machine
<1>6. segment \in Segments \cup {None}
  BY <1>1, <1>4, <1>5, SegmentIsSegment DEF Machine
<1> DEFINE trail == [a \in Axis |-> been[a] \cup bulge]
<1>7. trail \in [Axis -> SUBSET Int]
  BY <1>1, <1>3, <1>4 DEF Machine, Point
<1>8. l.op # "arc" => \A a \in Axis : trail[a] = machine.been[a] \cup {to[a]}
  BY <1>3
<1>9. m = [machine EXCEPT !.at = to, !.e = e, !.been = trail, !.segment = segment]
  BY <1>2
<1> HIDE DEF to, extruding, e, been, segment, trail
<1>10. m \in Machine
  BY <1>1, <1>4, <1>5, <1>6, <1>7, <1>9 DEF Machine
<1>11. /\ m.at = to /\ m.e = e /\ m.segment = segment /\ m.been = trail
       /\ m.origin = machine.origin /\ m.absolute = machine.absolute
       /\ m.absoluteE = machine.absoluteE /\ m.inch = machine.inch
       /\ m.nozzle = machine.nozzle /\ m.bed = machine.bed /\ m.tools = machine.tools
       /\ m.stopped = machine.stopped
  BY <1>1, <1>9 DEF Machine
<1> QED BY <1>4, <1>8, <1>10, <1>11 DEF to, extruding, e, segment

LEMMA MachineTypes ==
  ASSUME TypeOK, NEW l \in Lines
  PROVE  /\ Still \in Machine
         /\ l \in Origin => MadeOrigin(Scaled(l)) \in Machine
         /\ l \in Mode => MadeMode(l) \in Machine
         /\ [Still EXCEPT !.at = Zero, !.origin = Zero] \in Machine
         /\ l \in Heat => [Still EXCEPT ![l.op] = @ \cup {l.target}] \in Machine
         /\ l \in Change => [Still EXCEPT !.tools = @ \cup {l.tool}] \in Machine
         /\ [Still EXCEPT !.stopped = TRUE] \in Machine
<1>1. machine \in Machine
  BY DEF TypeOK
<1>2. Still \in Machine
  BY <1>1 DEF Still, Machine
<1>3. l \in Origin => MadeOrigin(Scaled(l)) \in Machine
  <2> SUFFICES ASSUME l \in Origin PROVE MadeOrigin(Scaled(l)) \in Machine
    OBVIOUS
  <2> DEFINE k == Scaled(l)
             origin == [a \in Axis |-> IF a \in Given(k) THEN machine.at[a] - k.at[a]
                                       ELSE machine.origin[a]]
             e == IF k.e = Absent THEN machine.e ELSE k.e
  <2>1. k \in Placed
    BY PlacedLines, ScaledIsPlaced
  <2> HIDE DEF k
  <2>2. origin \in Point /\ e \in Int
    BY <1>1, <2>1 DEF Machine, Point, Placed, Given
  <2>3. MadeOrigin(k) = [machine EXCEPT !.origin = origin, !.e = e, !.segment = None]
    BY <1>1 DEF MadeOrigin, Machine
  <2> HIDE DEF origin, e
  <2>4. MadeOrigin(k) \in Machine
    BY <1>1, <2>2, <2>3 DEF Machine
  <2> QED BY <2>4 DEF k
<1>4. l \in Mode => MadeMode(l) \in Machine
  BY <1>1 DEF MadeMode, Machine
<1>5. [Still EXCEPT !.at = Zero, !.origin = Zero] \in Machine
  <2>1. Zero \in Point
    BY DEF Zero, Point
  <2> QED BY <1>2, <2>1 DEF Machine
<1>6. l \in Heat => [Still EXCEPT ![l.op] = @ \cup {l.target}] \in Machine
  <2>1. ASSUME l \in Heat, l.op = "nozzle" PROVE [Still EXCEPT !.nozzle = @ \cup {l.target}] \in Machine
    BY <1>2, <2>1 DEF Machine, Heat
  <2>2. ASSUME l \in Heat, l.op = "bed" PROVE [Still EXCEPT !.bed = @ \cup {l.target}] \in Machine
    BY <1>2, <2>2 DEF Machine, Heat
  <2>3. l \in Heat => l.op \in {"nozzle", "bed"}
    BY DEF Heat
  <2> QED BY <2>1, <2>2, <2>3
<1>7. l \in Change => [Still EXCEPT !.tools = @ \cup {l.tool}] \in Machine
  BY <1>2 DEF Machine, Change
<1>8. [Still EXCEPT !.stopped = TRUE] \in Machine
  BY <1>2 DEF Machine
<1> QED BY <1>2, <1>3, <1>4, <1>5, <1>6, <1>7, <1>8

----------------------------------------------------------------------------
(* Every reader keeps a state that it could have, whatever the program.         *)

LEMMA TypeInit == Init => TypeOK
<1> SUFFICES ASSUME Init PROVE TypeOK
  OBVIOUS
<1>1. Zero \in Point /\ [a \in Axis |-> {}] \in [Axis -> SUBSET Int]
      /\ [a \in Axis |-> {0}] \in [Axis -> SUBSET Int]
  BY DEF Zero, Point
<1>2. parse \in Parse
  BY <1>1 DEF Init, Parse
<1>3. view \in View
  BY <1>1 DEF Init, View
<1>4. machine \in Machine
  BY <1>1 DEF Init, Machine
<1> QED BY <1>2, <1>3, <1>4 DEF Init, TypeOK

LEMMA ReasonsAreReasons ==
  ASSUME NEW l \in Lines
  PROVE  Unread(l) \subseteq Reason
BY DEF Unread, Parses, Reason, Line, Move, Origin, Mode, Heat, Change, Intervention, Home,
       Comment, Spelling

LEMMA TypeStep == TypeOK /\ [Next]_vars => TypeOK'
<1> SUFFICES ASSUME TypeOK, [Next]_vars PROVE TypeOK'
  OBVIOUS
<1>1. CASE UNCHANGED vars
  BY <1>1 DEF vars, TypeOK
<1>2. ASSUME NEW l \in Lines, Moves(l) \/ MovesOrigin(l) \/ Homes(l) \/ SetsMode(l)
             \/ Heats(l) \/ ChangesTool(l) \/ Intervenes(l) \/ Comments(l)
      PROVE  TypeOK'
  <2>1. moves' \in Nat /\ marked' \in BOOLEAN
    BY <1>2 DEF TypeOK, Moves, MovesOrigin, Homes, SetsMode, Heats, ChangesTool, Intervenes,
         Comments
  <2>2. astray' \subseteq Reason
    <3>1. Inches(l) \subseteq Reason
      BY DEF Inches, Reason
    <3>2. astray \subseteq Reason /\ Unread(l) \subseteq Reason
      BY ReasonsAreReasons DEF TypeOK
    <3> QED BY <1>2, <3>1, <3>2
         DEF Moves, MovesOrigin, Homes, SetsMode, Heats, ChangesTool, Intervenes, Comments, Reason
  <2>3. parse' \in Parse
    <3>1. l \in Move => ParsedMove(l) \in Parse
      BY PlacedLines, ParsedMoveType
    <3> QED BY <1>2, <3>1, ParsedTypes
         DEF Moves, MovesOrigin, Homes, SetsMode, Heats, ChangesTool, Intervenes, Comments, TypeOK
  <2>4. view' \in View
    BY <1>2, ViewedTypes
       DEF Moves, MovesOrigin, Homes, SetsMode, Heats, ChangesTool, Intervenes, Comments
  <2>5. machine' \in Machine
    <3>1. l \in Move => \A m \in Made(Scaled(l)) : m \in Machine
      BY PlacedLines, ScaledIsPlaced, MadeMove
    <3> QED BY <1>2, <3>1, MachineTypes
         DEF Moves, MovesOrigin, Homes, SetsMode, Heats, ChangesTool, Intervenes, Comments
  <2> QED BY <2>1, <2>2, <2>3, <2>4, <2>5 DEF TypeOK
<1> QED BY <1>1, <1>2 DEF Next

\* The readers never leave the states they can be in.
THEOREM TypeCorrect == Spec => []TypeOK
BY TypeInit, TypeStep, PTL DEF Spec

----------------------------------------------------------------------------
(* The preflight follows the machine as long as nothing leads it astray.        *)

Claimed == astray \subseteq {"extrusion", "z"}

Together ==
  /\ machine.origin = Zero
  /\ machine.at = parse.current
  /\ machine.absolute = parse.absolute
Recorded ==
  /\ \A a \in Axis : /\ machine.been[a] \subseteq parse.coordinates[a] \cup {0}
                      /\ machine.at[a] \in machine.been[a]
  /\ machine.nozzle \subseteq parse.nozzle \cup {0}
  /\ machine.bed \subseteq parse.bed \cup {0}
  /\ machine.tools \subseteq parse.tools
  /\ machine.stopped => parse.forbidden
Followed == Claimed => Together /\ Recorded

LEMMA FollowedIsHarmless == TypeOK /\ Followed => PassedIsHarmless
<1> SUFFICES ASSUME TypeOK, Recorded, Passed
             PROVE  /\ \A a \in Axis : \A v \in machine.been[a] : 0 <= v /\ v <= Volume[a]
                    /\ \A t \in machine.nozzle : t <= NozzleRange.high
                    /\ \A t \in machine.bed : t <= BedRange.high
                    /\ machine.tools \subseteq {0}
                    /\ ~machine.stopped
  BY DEF Followed, Claimed, PassedIsHarmless
<1>1. \A a \in Axis : \A v \in machine.been[a] : 0 <= v /\ v <= Volume[a]
  BY DEF Recorded, Passed, InVolume
<1>2. \A t \in machine.nozzle : t <= NozzleRange.high
  BY DEF Recorded, Passed, InRange
<1>3. \A t \in machine.bed : t <= BedRange.high
  BY DEF Recorded, Passed, InRange
<1>4. machine.tools \subseteq {0} /\ ~machine.stopped
  BY DEF Recorded, Passed
<1> QED BY <1>1, <1>2, <1>3, <1>4

LEMMA FollowedInit == Init => Followed
BY DEF Init, Followed, Together, Recorded, Zero

\* A line that leaves the claim standing left no reason behind.
LEMMA ClaimKept ==
  ASSUME TypeOK, Next, Claimed'
  PROVE  Claimed
BY DEF Next, Moves, MovesOrigin, Homes, SetsMode, Heats, ChangesTool, Intervenes, Comments, Claimed

LEMMA ReadByPreflight ==
  ASSUME NEW l \in Lines, Unread(l) \subseteq {"extrusion", "z"}
  PROVE  Parses(l)
BY DEF Unread, Parses, Line, Move, Origin, Mode, Heat, Change, Intervention, Home, Comment,
       Spelling

\* Where the machine stands at its program's position, a line takes it where the
\* line says.
LEMMA ReachedIsMoved ==
  ASSUME TypeOK, NEW l \in Placed, machine.origin = Zero
  PROVE  Reached(l) = Moved(machine.absolute, machine.at, l)
<1>1. machine.at \in Point /\ machine.absolute \in BOOLEAN
  BY DEF TypeOK, Machine
<1>2. [a \in Axis |-> machine.at[a] - machine.origin[a]] = machine.at
  BY <1>1 DEF Zero, Point
<1>3. Moved(machine.absolute, machine.at, l) \in Point
  BY <1>1, MovedIsPoint
<1> QED BY <1>2, <1>3 DEF Reached, Zero, Point

LEMMA FollowedMoves ==
  ASSUME TypeOK, Followed, NEW l \in Lines, Moves(l), Claimed'
  PROVE  Together' /\ Recorded'
<1>1. Claimed /\ Unread(l) \subseteq {"extrusion", "z"} /\ Inches(l) = {} /\ l.op # "arc"
  BY DEF Moves, Claimed, Inches
<1>2. Together /\ Recorded /\ Parses(l)
  BY <1>1, ReadByPreflight DEF Followed
<1>3. l \in Placed /\ Scaled(l) = l
  BY <1>1, PlacedLines, ScaledIsSame DEF Moves
<1>4. machine' \in Made(l) /\ parse' = ParsedMove(l)
  BY <1>2, <1>3 DEF Moves
<1> DEFINE to == Moved(parse.absolute, parse.current, l)
<1>5. to = Reached(l) /\ to \in Point
  <2>1. parse.current \in Point /\ parse.absolute \in BOOLEAN
    BY DEF TypeOK, Parse
  <2> QED BY <1>2, <1>3, <2>1, ReachedIsMoved, MovedIsPoint DEF Together
<1>6. /\ machine'.at = to
      /\ \A a \in Axis : machine'.been[a] = machine.been[a] \cup {to[a]}
      /\ machine'.origin = machine.origin /\ machine'.absolute = machine.absolute
      /\ machine'.nozzle = machine.nozzle /\ machine'.bed = machine.bed
      /\ machine'.tools = machine.tools /\ machine'.stopped = machine.stopped
  BY <1>1, <1>3, <1>4, <1>5, MadeMove
<1>7. /\ parse'.current = to
      /\ \A a \in Axis : parse'.coordinates[a]
            = parse.coordinates[a] \cup {to[b] : b \in Given(l) \cap {a}}
      /\ parse'.absolute = parse.absolute /\ parse'.nozzle = parse.nozzle
      /\ parse'.bed = parse.bed /\ parse'.tools = parse.tools
      /\ parse'.forbidden = parse.forbidden
  BY <1>3, <1>4, ParsedMoveType
<1>8. ASSUME NEW a \in Axis PROVE /\ machine'.been[a] \subseteq parse'.coordinates[a] \cup {0}
                                 /\ machine'.at[a] \in machine'.been[a]
  <2>1. CASE a \in Given(l)
    BY <2>1, <1>2, <1>6, <1>7 DEF Recorded
  <2>2. CASE a \notin Given(l)
    <3>1. to[a] = machine.at[a]
      BY <2>2, <1>2, <1>3, MovedIsPoint DEF Together, TypeOK, Parse
    <3> QED BY <3>1, <1>2, <1>6, <1>7 DEF Recorded
  <2> QED BY <2>1, <2>2
<1> QED BY <1>2, <1>6, <1>7, <1>8 DEF Together, Recorded

LEMMA FollowedOrigin ==
  ASSUME TypeOK, Followed, NEW l \in Lines, MovesOrigin(l), Claimed'
  PROVE  Together' /\ Recorded'
<1>1. Claimed /\ Unread(l) \subseteq {"extrusion", "z"} /\ Inches(l) = {}
      /\ {b \in Given(l) : l.at[b] # machine.at[b]} = {}
  BY DEF MovesOrigin, Claimed, Inches
<1>2. Together /\ Recorded /\ Parses(l) /\ machine \in Machine /\ parse \in Parse
  BY <1>1, ReadByPreflight DEF Followed, TypeOK
<1>3. l \in Placed /\ Scaled(l) = l
  BY <1>1, PlacedLines, ScaledIsSame DEF MovesOrigin
<1>4. machine' = MadeOrigin(l) /\ parse' = ParsedOrigin(l)
  BY <1>2, <1>3 DEF MovesOrigin
<1> DEFINE to == Moved(TRUE, parse.current, l)
           origin == [a \in Axis |-> IF a \in Given(l) THEN machine.at[a] - l.at[a]
                                     ELSE machine.origin[a]]
           e == IF l.e = Absent THEN machine.e ELSE l.e
<1>5. to = parse.current
  <2>1. to \in Point /\ parse.current \in Point
    BY <1>2, <1>3, MovedIsPoint DEF Parse
  <2>2. ASSUME NEW a \in Axis PROVE to[a] = parse.current[a]
    <3>1. CASE a \notin Given(l)
      <4>1. \A b \in Axis : b \notin Given(l) => to[b] = parse.current[b]
        BY <1>2, <1>3, MovedIsPoint DEF Parse
      <4> QED BY <4>1, <3>1
    <3>2. CASE a \in Given(l)
      <4>1. to[a] = l.at[a]
        BY <3>2 DEF Moved
      <4> HIDE DEF to
      <4> QED BY <4>1, <3>2, <1>1, <1>2 DEF Together
    <3> QED BY <3>1, <3>2
  <2> HIDE DEF to
  <2> QED BY <2>1, <2>2 DEF Point
<1>6. origin = Zero
  BY <1>1, <1>2, <1>3 DEF Together, Zero, Machine, Point
<1>7. machine' = [machine EXCEPT !.origin = origin, !.e = e, !.segment = None]
  BY <1>2, <1>4 DEF MadeOrigin, Machine
<1>8. parse' = [parse EXCEPT !.current = to]
  BY <1>2, <1>4 DEF ParsedOrigin, Parse
<1> HIDE DEF to, origin, e
<1>9. /\ machine'.origin = origin /\ machine'.at = machine.at /\ machine'.been = machine.been
      /\ machine'.absolute = machine.absolute
      /\ machine'.nozzle = machine.nozzle /\ machine'.bed = machine.bed
      /\ machine'.tools = machine.tools /\ machine'.stopped = machine.stopped
  BY <1>2, <1>7 DEF Machine
<1>10. /\ parse'.current = to /\ parse'.coordinates = parse.coordinates
       /\ parse'.absolute = parse.absolute
       /\ parse'.nozzle = parse.nozzle /\ parse'.bed = parse.bed
       /\ parse'.tools = parse.tools /\ parse'.forbidden = parse.forbidden
  BY <1>2, <1>8 DEF Parse
<1> QED BY <1>2, <1>5, <1>6, <1>9, <1>10 DEF Together, Recorded

\* The other lines change a few fields of each record.
LEMMA FollowedRest ==
  ASSUME TypeOK, Followed, NEW l \in Lines, Claimed',
         Homes(l) \/ SetsMode(l) \/ Heats(l) \/ ChangesTool(l) \/ Intervenes(l) \/ Comments(l)
  PROVE  Together' /\ Recorded'
<1>1. Claimed
  BY DEF Homes, SetsMode, Heats, ChangesTool, Intervenes, Comments, Claimed
<1>2. Together /\ Recorded /\ machine \in Machine /\ parse \in Parse
  BY <1>1 DEF Followed, TypeOK
<1>3. Still \in Machine
      /\ \A f \in {"at", "origin", "absolute", "been", "nozzle", "bed", "tools", "stopped"} :
           Still[f] = machine[f]
  BY <1>2 DEF Still, Machine
<1>4. CASE Homes(l)
  <2>1. machine.at = Zero
    BY <1>4 DEF Homes, Claimed
  <2>2. /\ machine'.origin = Zero /\ machine'.at = Zero /\ machine'.been = machine.been
        /\ machine'.absolute = machine.absolute
        /\ machine'.nozzle = machine.nozzle /\ machine'.bed = machine.bed
        /\ machine'.tools = machine.tools /\ machine'.stopped = machine.stopped
    BY <1>2, <1>3, <1>4 DEF Homes, Machine
  <2> QED BY <1>2, <1>4, <2>1, <2>2 DEF Homes, Together, Recorded
<1>5. CASE SetsMode(l)
  <2>1. Unread(l) \subseteq {"extrusion", "z"}
    BY <1>5 DEF SetsMode, Claimed
  <2>2. parse' = ParsedMode(l) /\ machine' = MadeMode(l)
    BY <1>5, <2>1, ReadByPreflight DEF SetsMode
  <2>3. /\ machine'.origin = machine.origin /\ machine'.at = machine.at
        /\ machine'.been = machine.been
        /\ machine'.absolute = (l.op = "G90" \/ (machine.absolute /\ l.op # "G91"))
        /\ machine'.nozzle = machine.nozzle /\ machine'.bed = machine.bed
        /\ machine'.tools = machine.tools /\ machine'.stopped = machine.stopped
    BY <1>2, <2>2 DEF MadeMode, Machine
  <2>4. /\ parse'.current = parse.current /\ parse'.coordinates = parse.coordinates
        /\ parse'.absolute = (l.op = "G90" \/ (parse.absolute /\ l.op # "G91"))
        /\ parse'.nozzle = parse.nozzle /\ parse'.bed = parse.bed
        /\ parse'.tools = parse.tools /\ parse'.forbidden = parse.forbidden
    BY <1>2, <2>2 DEF ParsedMode, Parse
  <2> QED BY <1>2, <2>3, <2>4 DEF Together, Recorded
<1>6. CASE Heats(l)
  <2>1. Unread(l) \subseteq {"extrusion", "z"} /\ l.op \in {"nozzle", "bed"}
    BY <1>6 DEF Heats, Claimed, Heat
  <2>2. parse' = ParsedHeat(l) /\ machine' = [Still EXCEPT ![l.op] = @ \cup {l.target}]
    BY <1>6, <2>1, ReadByPreflight DEF Heats
  <2>3. /\ machine'.origin = machine.origin /\ machine'.at = machine.at
        /\ machine'.been = machine.been /\ machine'.absolute = machine.absolute
        /\ machine'.nozzle = IF l.op = "nozzle" THEN machine.nozzle \cup {l.target} ELSE machine.nozzle
        /\ machine'.bed = IF l.op = "bed" THEN machine.bed \cup {l.target} ELSE machine.bed
        /\ machine'.tools = machine.tools /\ machine'.stopped = machine.stopped
    BY <1>3, <2>1, <2>2 DEF Machine
  <2>4. /\ parse'.current = parse.current /\ parse'.coordinates = parse.coordinates
        /\ parse'.absolute = parse.absolute
        /\ parse'.nozzle = IF l.op = "nozzle" THEN parse.nozzle \cup {l.target} ELSE parse.nozzle
        /\ parse'.bed = IF l.op = "bed" THEN parse.bed \cup {l.target} ELSE parse.bed
        /\ parse'.tools = parse.tools /\ parse'.forbidden = parse.forbidden
    BY <1>2, <2>2 DEF ParsedHeat, Parse
  <2> QED BY <1>2, <2>3, <2>4 DEF Together, Recorded
<1>7. CASE ChangesTool(l)
  <2>1. Unread(l) \subseteq {"extrusion", "z"}
    BY <1>7 DEF ChangesTool, Claimed
  <2>2. parse' = [parse EXCEPT !.tools = @ \cup {l.tool}]
        /\ machine' = [Still EXCEPT !.tools = @ \cup {l.tool}]
    BY <1>7, <2>1, ReadByPreflight DEF ChangesTool
  <2>3. /\ machine'.origin = machine.origin /\ machine'.at = machine.at
        /\ machine'.been = machine.been /\ machine'.absolute = machine.absolute
        /\ machine'.nozzle = machine.nozzle /\ machine'.bed = machine.bed
        /\ machine'.tools = machine.tools \cup {l.tool} /\ machine'.stopped = machine.stopped
    BY <1>3, <2>2 DEF Machine
  <2>4. /\ parse'.current = parse.current /\ parse'.coordinates = parse.coordinates
        /\ parse'.absolute = parse.absolute
        /\ parse'.nozzle = parse.nozzle /\ parse'.bed = parse.bed
        /\ parse'.tools = parse.tools \cup {l.tool} /\ parse'.forbidden = parse.forbidden
    BY <1>2, <2>2 DEF Parse
  <2> QED BY <1>2, <2>3, <2>4 DEF Together, Recorded
<1>8. CASE Intervenes(l)
  <2>1. Unread(l) \subseteq {"extrusion", "z"}
    BY <1>8 DEF Intervenes, Claimed
  <2>2. Parses(l)
    BY <2>1, ReadByPreflight
  <2>3. /\ machine'.origin = machine.origin /\ machine'.at = machine.at
        /\ machine'.been = machine.been /\ machine'.absolute = machine.absolute
        /\ machine'.nozzle = machine.nozzle /\ machine'.bed = machine.bed
        /\ machine'.tools = machine.tools
    BY <1>3, <1>8 DEF Intervenes, Machine
  <2>4. /\ parse'.current = parse.current /\ parse'.coordinates = parse.coordinates
        /\ parse'.absolute = parse.absolute
        /\ parse'.nozzle = parse.nozzle /\ parse'.bed = parse.bed
        /\ parse'.tools = parse.tools /\ parse'.forbidden
    BY <1>2, <1>8, <2>2 DEF Intervenes, Parse
  <2> QED BY <1>2, <2>3, <2>4 DEF Together, Recorded
<1>9. CASE Comments(l)
  <2>1. machine' = Still /\ parse' = ParsedComment(l)
    BY <1>9 DEF Comments
  <2>2. /\ parse'.current = parse.current /\ parse'.coordinates = parse.coordinates
        /\ parse'.absolute = parse.absolute
        /\ parse'.nozzle = parse.nozzle /\ parse'.bed = parse.bed
        /\ parse'.tools = parse.tools /\ parse'.forbidden = parse.forbidden
    BY <1>2, <2>1 DEF ParsedComment, Parse
  <2> QED BY <1>2, <1>3, <2>1, <2>2 DEF Together, Recorded
<1> QED BY <1>4, <1>5, <1>6, <1>7, <1>8, <1>9

LEMMA FollowedStep == TypeOK /\ Followed /\ [Next]_vars => Followed'
<1> SUFFICES ASSUME TypeOK, Followed, [Next]_vars, Claimed' PROVE Together' /\ Recorded'
  BY DEF Followed
<1>1. CASE UNCHANGED vars
  BY <1>1 DEF vars, Followed, Claimed, Together, Recorded
<1>2. CASE Next
  BY <1>2, FollowedMoves, FollowedOrigin, FollowedRest DEF Next
<1> QED BY <1>1, <1>2

\* PassedIsHarmless holds of every program: in the build volume, below the
\* temperatures, with one tool and without a stop.
THEOREM PassedProgramsAreHarmless == Spec => []PassedIsHarmless
<1>1. Spec => []Followed
  BY TypeCorrect, FollowedInit, FollowedStep, PTL DEF Spec
<1> QED BY <1>1, TypeCorrect, FollowedIsHarmless, PTL

----------------------------------------------------------------------------
(* The viewer follows the machine, too, under other conditions: it reads the    *)
(* padded spellings, but leaves the extruder alone when it reads G90 and G91,   *)
(* and believes the heights of comments.                                        *)

Shown == astray \subseteq {"padded", "z"}

SameState ==
  /\ machine.origin = Zero
  /\ \A a \in Axis \ {Up} : view.at[a] = machine.at[a]
  /\ "z" \notin astray => view.at[Up] = machine.at[Up]
  /\ view.e = machine.e
  /\ view.absolute = machine.absolute
  /\ view.absoluteE = machine.absoluteE
Viewed == Shown => SameState /\ ViewedIsMade

LEMMA ReadByViewer ==
  ASSUME NEW l \in Lines, Unread(l) \subseteq {"padded", "z"}
  PROVE  Views(l)
BY DEF Unread, Views, Parses, Line, Move, Origin, Mode, Heat, Change, Intervention, Home, Comment,
       Spelling

LEMMA ViewedInit == Init => Viewed
BY DEF Init, Viewed, SameState, ViewedIsMade, Zero

\* Equal points except for the height move to points equal except for the height.
LEMMA MovedAlike ==
  ASSUME NEW l \in Placed, NEW from \in Point, NEW to \in Point, NEW absolute \in BOOLEAN,
         NEW a \in Axis, from[a] = to[a]
  PROVE  Moved(absolute, from, l)[a] = Moved(absolute, to, l)[a]
BY DEF Moved

LEMMA ViewedMoves ==
  ASSUME TypeOK, Viewed, NEW l \in Lines, Moves(l), Shown'
  PROVE  SameState' /\ ViewedIsMade'
<1>1. Shown /\ Unread(l) \subseteq {"padded", "z"} /\ Inches(l) = {} /\ l.op # "arc"
      /\ ("z" \in astray' <=> "z" \in astray)
  BY DEF Moves, Shown, Inches, Unread, Spelling, Move
<1>2. SameState /\ ViewedIsMade /\ Views(l) /\ machine \in Machine /\ view \in View
  BY <1>1, ReadByViewer DEF Viewed, TypeOK
<1>3. l \in Placed /\ Scaled(l) = l /\ l.op = "linear"
  BY <1>1, PlacedLines, ScaledIsSame DEF Moves, Move
<1> DEFINE to == Moved(view.absolute, view.at, l)
           made == Moved(machine.absolute, machine.at, l)
           extruding == Extrudes(view.absoluteE, view.e, l)
           e == Extruded(view.absoluteE, view.e, l)
           segment == Segment(view.at, to, extruding)
           layer == IF segment # None /\ ~marked /\ extruding THEN to[Up] ELSE view.layer
<1>4. machine' \in Made(l) /\ view' = ViewedMove(l) /\ marked' = marked
  BY <1>2, <1>3 DEF Moves
<1>5. /\ machine'.at = made /\ machine'.origin = machine.origin
      /\ machine'.absolute = machine.absolute /\ machine'.absoluteE = machine.absoluteE
      /\ machine'.e = e /\ machine'.segment = Segment(machine.at, made, extruding)
  BY <1>2, <1>3, <1>4, MadeMove, ReachedIsMoved DEF SameState
<1>6. /\ view'.at = to /\ view'.e = e /\ view'.layer = layer
      /\ view'.segment = (IF layer = None THEN None ELSE segment)
      /\ view'.absolute = view.absolute /\ view'.absoluteE = view.absoluteE
  <2>1. ViewedMove(l) = [view EXCEPT !.at = to, !.e = e, !.layer = layer,
                           !.segment = IF layer = None THEN None ELSE segment]
    BY <1>2 DEF ViewedMove, View
  <2> HIDE DEF to, extruding, segment, layer, e
  <2> QED BY <1>2, <1>4, <2>1 DEF View
<1>7. \A a \in Axis : view.at[a] = machine.at[a] => to[a] = made[a]
  BY <1>2, <1>3, MovedAlike DEF SameState, View, Machine
<1>8. segment = Segment(machine.at, made, extruding)
  <2>1. \A a \in Drawn : view.at[a] = machine.at[a] /\ to[a] = made[a]
    BY <1>2, <1>7 DEF SameState
  <2> HIDE DEF to, made, extruding
  <2> QED BY <2>1 DEF Segment
<1>9. segment # None => segment.extruding = extruding
  BY DEF Segment
<1> HIDE DEF to, made, extruding, segment, e
<1>10. SameState'
  BY <1>1, <1>2, <1>5, <1>6, <1>7 DEF SameState
<1>11. view'.segment = IF view'.layer = None THEN None ELSE machine'.segment
  BY <1>5, <1>6, <1>8
<1>12. ASSUME view'.segment # None, view'.segment.extruding, ~marked', "z" \notin astray'
       PROVE  view'.layer = machine'.at[Up]
  <2>1. segment # None /\ extruding
    BY <1>6, <1>9, <1>12
  <2> QED BY <1>1, <1>2, <1>4, <1>5, <1>6, <1>7, <1>12, <2>1 DEF SameState
<1> QED BY <1>10, <1>11, <1>12 DEF ViewedIsMade

LEMMA ViewedOrigins ==
  ASSUME TypeOK, Viewed, NEW l \in Lines, MovesOrigin(l), Shown'
  PROVE  SameState' /\ ViewedIsMade'
<1>1. Shown /\ Unread(l) \subseteq {"padded", "z"} /\ Inches(l) = {}
      /\ {b \in Given(l) : l.at[b] # machine.at[b]} = {}
  BY DEF MovesOrigin, Shown, Inches
<1>2. "z" \in astray' <=> "z" \in astray
  BY <1>1 DEF MovesOrigin, Unread, Parses, Origin, Spelling
<1>3. SameState /\ Views(l) /\ machine \in Machine /\ view \in View
  BY <1>1, ReadByViewer DEF Viewed, TypeOK
<1>4. l \in Placed /\ Scaled(l) = l
  BY <1>1, PlacedLines, ScaledIsSame DEF MovesOrigin
<1>5. machine' = MadeOrigin(l) /\ view' = ViewedOrigin(l)
  BY <1>3, <1>4 DEF MovesOrigin
<1> DEFINE to == Moved(TRUE, view.at, l)
           origin == [a \in Axis |-> IF a \in Given(l) THEN machine.at[a] - l.at[a]
                                     ELSE machine.origin[a]]
           e == IF l.e = Absent THEN machine.e ELSE l.e
<1>6. ASSUME NEW a \in Axis, view.at[a] = machine.at[a] PROVE to[a] = machine.at[a]
  <2>1. CASE a \notin Given(l)
    BY <1>6, <2>1 DEF Moved
  <2>2. CASE a \in Given(l)
    <3>1. to[a] = l.at[a]
      BY <2>2 DEF Moved
    <3> HIDE DEF to
    <3> QED BY <3>1, <2>2, <1>1
  <2> QED BY <2>1, <2>2
<1>7. origin = Zero
  BY <1>1, <1>3, <1>4 DEF SameState, Zero, Machine, Point
<1>8. machine' = [machine EXCEPT !.origin = origin, !.e = e, !.segment = None]
  BY <1>3, <1>5 DEF MadeOrigin, Machine
<1>9. view' = [view EXCEPT !.at = to, !.e = e, !.segment = None]
  BY <1>3, <1>5 DEF ViewedOrigin, View, SameState
<1> HIDE DEF to, origin, e
<1>10. /\ machine'.origin = origin /\ machine'.at = machine.at /\ machine'.e = e
       /\ machine'.absolute = machine.absolute /\ machine'.absoluteE = machine.absoluteE
       /\ machine'.segment = None
  BY <1>3, <1>8 DEF Machine
<1>11. /\ view'.at = to /\ view'.e = e /\ view'.absolute = view.absolute
       /\ view'.absoluteE = view.absoluteE /\ view'.segment = None
  BY <1>3, <1>9 DEF View
<1>12. SameState'
  BY <1>2, <1>3, <1>6, <1>7, <1>10, <1>11 DEF SameState
<1> QED BY <1>10, <1>11, <1>12 DEF ViewedIsMade

\* The other lines draw nothing.
LEMMA ViewedRest ==
  ASSUME TypeOK, Viewed, NEW l \in Lines, Shown',
         Homes(l) \/ SetsMode(l) \/ Heats(l) \/ ChangesTool(l) \/ Intervenes(l) \/ Comments(l)
  PROVE  SameState' /\ ViewedIsMade'
<1>1. Shown
  BY DEF Homes, SetsMode, Heats, ChangesTool, Intervenes, Comments, Shown
<1>2. SameState /\ machine \in Machine /\ view \in View
  BY <1>1 DEF Viewed, TypeOK
<1>3. Still \in Machine /\ Still.segment = None
      /\ \A f \in {"at", "origin", "e", "absolute", "absoluteE"} : Still[f] = machine[f]
  BY <1>2 DEF Still, Machine
<1>4. ViewedArc.segment = None
      /\ \A f \in {"at", "e", "absolute", "absoluteE"} : ViewedArc[f] = view[f]
  BY <1>2 DEF ViewedArc, View
<1>5. CASE Homes(l)
  <2>1. machine.at = Zero /\ astray' = astray
    BY <1>5 DEF Homes, Shown
  <2>2. /\ machine'.origin = Zero /\ machine'.at = Zero /\ machine'.e = machine.e
        /\ machine'.absolute = machine.absolute /\ machine'.absoluteE = machine.absoluteE
        /\ machine'.segment = None
    BY <1>3, <1>5 DEF Homes, Machine
  <2>3. view' = ViewedArc
    BY <1>5 DEF Homes
  <2> QED BY <1>2, <1>4, <2>1, <2>2, <2>3 DEF SameState, ViewedIsMade
<1>6. CASE SetsMode(l)
  <2>1. Unread(l) \subseteq {"padded", "z"} /\ view'.absoluteE = machine'.absoluteE
    BY <1>6 DEF SetsMode, Shown
  <2>2. view' = ViewedMode(l) /\ machine' = MadeMode(l)
    BY <1>6, <2>1, ReadByViewer DEF SetsMode
  <2>3. "z" \in astray' <=> "z" \in astray
    BY <1>6, <2>1 DEF SetsMode, Unread, Parses, Mode, Spelling
  <2>4. /\ machine'.origin = machine.origin /\ machine'.at = machine.at /\ machine'.e = machine.e
        /\ machine'.absolute = (l.op = "G90" \/ (machine.absolute /\ l.op # "G91"))
        /\ machine'.segment = None
    BY <1>2, <2>2 DEF MadeMode, Machine
  <2>5. /\ view'.at = view.at /\ view'.e = view.e
        /\ view'.absolute = (l.op = "G90" \/ (view.absolute /\ l.op # "G91"))
        /\ view'.segment = None
    BY <1>2, <2>2 DEF ViewedMode, View
  <2> QED BY <1>2, <2>1, <2>3, <2>4, <2>5 DEF SameState, ViewedIsMade
<1>7. CASE Heats(l) \/ ChangesTool(l) \/ Intervenes(l)
  <2>1. view' = ViewedArc
    BY <1>7 DEF Heats, ChangesTool, Intervenes
  <2>2. "z" \in astray' <=> "z" \in astray
    BY <1>7 DEF Heats, ChangesTool, Intervenes, Unread, Parses, Heat, Change, Intervention, Spelling
  <2>3. /\ machine'.origin = machine.origin /\ machine'.at = machine.at /\ machine'.e = machine.e
        /\ machine'.absolute = machine.absolute /\ machine'.absoluteE = machine.absoluteE
        /\ machine'.segment = None
    <3>1. CASE Heats(l)
      <4>1. l.op \in {"nozzle", "bed"} /\ machine' = [Still EXCEPT ![l.op] = @ \cup {l.target}]
        BY <3>1 DEF Heats, Heat
      <4> QED BY <1>3, <4>1 DEF Machine
    <3>2. CASE ChangesTool(l)
      BY <1>3, <3>2 DEF ChangesTool, Machine
    <3>3. CASE Intervenes(l)
      BY <1>3, <3>3 DEF Intervenes, Machine
    <3> QED BY <1>7, <3>1, <3>2, <3>3
  <2> QED BY <1>2, <1>4, <2>1, <2>2, <2>3 DEF SameState, ViewedIsMade
<1>8. CASE Comments(l)
  <2>1. machine' = Still /\ view' = ViewedComment(l)
    BY <1>8 DEF Comments
  <2>2. astray \subseteq astray' /\ (l.op = "z" => "z" \in astray')
    BY <1>8 DEF Comments
  <2> DEFINE at == IF l.op = "z" THEN [view.at EXCEPT ![Up] = l.z] ELSE view.at
             layer == CASE l.op = "layer" -> view.at[Up]
                        [] l.op = "z" /\ view.layer # None -> l.z
                        [] OTHER -> view.layer
  <2>3. ViewedComment(l) = [view EXCEPT !.at = at, !.layer = layer, !.segment = None]
    BY <1>2 DEF ViewedComment, View
  <2>4. \A a \in Axis \ {Up} : at[a] = view.at[a]
    BY <1>2 DEF View, Point
  <2>5. l.op # "z" => at = view.at
    OBVIOUS
  <2> HIDE DEF at, layer
  <2>6. /\ view'.at = at /\ view'.e = view.e /\ view'.absolute = view.absolute
        /\ view'.absoluteE = view.absoluteE /\ view'.segment = None
    BY <1>2, <2>1, <2>3 DEF View
  <2> QED BY <1>2, <1>3, <2>1, <2>2, <2>4, <2>5, <2>6 DEF SameState, ViewedIsMade
<1> QED BY <1>5, <1>6, <1>7, <1>8

LEMMA ViewedStep == TypeOK /\ Viewed /\ [Next]_vars => Viewed'
<1> SUFFICES ASSUME TypeOK, Viewed, [Next]_vars, Shown' PROVE SameState' /\ ViewedIsMade'
  BY DEF Viewed
<1>1. CASE UNCHANGED vars
  BY <1>1 DEF vars, Viewed, Shown, SameState, ViewedIsMade
<1>2. CASE Next
  BY <1>2, ViewedMoves, ViewedOrigins, ViewedRest DEF Next
<1> QED BY <1>1, <1>2

\* ViewedIsMade holds of every program: the viewer draws the machine's motions from
\* the first layer on, and no others.
THEOREM ViewerDrawsTheMachine == Spec => []ViewedIsMade
<1>1. Spec => []Viewed
  BY TypeCorrect, ViewedInit, ViewedStep, PTL DEF Spec
<1>2. Viewed => ViewedIsMade
  BY DEF Viewed, Shown, ViewedIsMade
<1> QED BY <1>1, <1>2, PTL
=============================================================================
