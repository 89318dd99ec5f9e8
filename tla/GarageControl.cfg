\* A garage with two positions, a vehicle comes to a closed gate only.
CONSTANTS
  ParkingSize = 2
  HighThreshold = 30
  DarkThreshold = 100
  Temperatures <- MCTemperatures
  LuxLevels <- MCLuxLevels
  None = None
  Malformed = Malformed
  TooLarge = TooLarge
  Plates = {p1}
  Inputs <- MCInputs
  Faulty = FALSE
  Spaced = TRUE
SPECIFICATION Spec
INVARIANT AlwaysSettled
PROPERTY GatesCloseAgain
