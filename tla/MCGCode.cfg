CONSTANTS
  Absent = Absent None = None
  Axis = {"X", "Z"} Drawn = {"X"} Up = "Z"
  Coordinate <- MCCoordinate Filament = {0, 1} Temperature = {0, 1, 2, 3} Tool = {0, 1}
  Inch = 3
  Lines <- MCLines
  Volume <- MCVolume NozzleRange <- MCNozzle BedRange <- MCBed
  SupportAllowed = FALSE
  MaxMoves = 2
SPECIFICATION Spec
CONSTRAINT MCBounds
CHECK_DEADLOCK FALSE
INVARIANTS PassedIsHarmless ViewedIsMade
