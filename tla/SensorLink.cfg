\* Readings and vehicle events in any order, parking messages in order, all
\* lost and duplicated.
CONSTANTS
  ParkingSize = 2
  HighThreshold = 30
  DarkThreshold = 100
  Temperatures <- MCTemperatures
  LuxLevels <- MCLuxLevels
  Plates = {p1}
  None = None
  Malformed = Malformed
  TooLarge = TooLarge
  NoNumber = NoNumber
  Inputs <- MCInputs
  Delivery <- MCDelivery
  MaxSent <- MCMaxSent
SPECIFICATION Spec
INVARIANTS CounterIsNewestUsable ReadingMatchesCounter ParkingFollowsLog
PROPERTY AppliedAtMostOnce
