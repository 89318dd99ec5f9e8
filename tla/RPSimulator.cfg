\* Two commands beside two rounds of the sensor loop.
CONSTANTS
  ParkingSize = 2
  HighThreshold = 30
  DarkThreshold = 100
  Temperatures <- MCTemperatures
  LuxLevels <- MCLuxLevels
  Plates = {p1}
  None = None
  Malformed = Malformed
  TooLarge = TooLarge
  NoNumber = NoNumber
  Console = console
  Sensors = sensors
  MaxCommands = 2
  MaxRounds = 2
\* Commands and rounds are bounded, and the console may have stopped all.
CHECK_DEADLOCK FALSE
SPECIFICATION LSpec
INVARIANT QuietRoundIsShown
PROPERTIES ImplementsSensorLink
