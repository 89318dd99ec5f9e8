\* The worker alone (no camera requests), with publish calls that fail.
CONSTANTS
  ParkingSize = 1
  HighThreshold = 30
  DarkThreshold = 100
  Temperatures <- MCTemperatures
  LuxLevels <- MCLuxLevels
  Plates = {p1}
  None = None
  Malformed = Malformed
  TooLarge = TooLarge
  NoNumber = NoNumber
  NonObject = NonObject
  EmptyFile = EmptyFile
  Worker = worker
  HttpThreads = {}
  Inputs <- MCEveryInput
  Transport = "simulation"
  Backend = "rule"
  PublishFaults = {"lost"}
  OsFaults = {}
  MaxSent = 2
  MaxQueue = 1
  MaxRequests = 0
\* Messages and requests may stop coming: their number is bounded.
CHECK_DEADLOCK FALSE
SPECIFICATION HSpec
INVARIANTS TypeOK ContextMatchesCommands SettledWhenIdle
PROPERTIES FullGarageStaysShut ImplementsGarageControl
