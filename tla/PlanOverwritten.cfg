\* Two threads write problem.pddl.
CONSTANTS
  ParkingSize = 1
  HighThreshold = 30
  DarkThreshold = 100
  Temperatures <- MCTemperatures
  LuxLevels <- MCLuxLevels
  Plates = {p1}
  None = None
  Malformed = Malformed
  TooLarge = TooLarge
  NoNumber = NoNumber
  NonObject = NonObject
  EmptyFile = EmptyFile
  Worker = worker
  HttpThreads = {h1}
  Inputs <- Readings
  Transport = "hardware"
  Backend = "rule"
  PublishFaults = {}
  OsFaults = {}
  MaxSent = 1
  MaxQueue = 1
  MaxRequests = 1
\* Messages and requests may stop coming: their number is bounded.
CHECK_DEADLOCK FALSE
SPECIFICATION SafetySpec
INVARIANTS SettledWhenIdle
