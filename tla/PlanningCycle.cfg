\* Every context of a garage with two positions, planned by either backend.
CONSTANTS
  ParkingSize = 2
  HighThreshold = 30
  DarkThreshold = 100
  Temperatures <- MCTemperatures
  LuxLevels <- MCLuxLevels
  None = None
  Malformed = Malformed
  TooLarge = TooLarge
  Plates = {p1}
SPECIFICATION CycleSpec
\* A cycle ends.
CHECK_DEADLOCK FALSE
INVARIANTS PlanIsApplicable CycleSettles SolvableUnlessStuck NoDetours SolvableIsReachable
