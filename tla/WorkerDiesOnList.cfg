\* The simulation transport hands on a payload that is no object.
CONSTANTS
  ParkingSize = 1
  HighThreshold = 30
  DarkThreshold = 100
  Temperatures <- MCTemperatures
  LuxLevels <- MCLuxLevels
  Plates = {p1}
  None = None
  Malformed = Malformed
  TooLarge = TooLarge
  NoNumber = NoNumber
  NonObject = NonObject
  EmptyFile = EmptyFile
  Worker = worker
  HttpThreads = {}
  Inputs <- NonObjects
  Transport = "simulation"
  Backend = "rule"
  PublishFaults = {}
  OsFaults = {}
  MaxSent = 1
  MaxQueue = 1
  MaxRequests = 0
\* Messages and requests may stop coming: their number is bounded.
CHECK_DEADLOCK FALSE
SPECIFICATION SafetySpec
INVARIANTS WorkerSurvives
