\* The worker and one HTTP thread, scheduled fairly; files may fail the HTTP thread.
CONSTANTS
  ParkingSize = 1
  HighThreshold = 30
  DarkThreshold = 100
  Temperatures <- MCTemperatures
  LuxLevels <- MCLuxLevels
  Plates = {p1}
  None = None
  Malformed = Malformed
  TooLarge = TooLarge
  NoNumber = NoNumber
  NonObject = NonObject
  EmptyFile = EmptyFile
  Worker = worker
  HttpThreads = {h1}
  Inputs <- MCOccupiedAndMalformed
  Transport = "hardware"
  Backend = "fd"
  PublishFaults = {"lost", "delivered"}
  OsFaults = {h1}
  MaxSent = 2
  MaxQueue = 2
  MaxRequests = 1
\* Messages and requests may stop coming: their number is bounded.
CHECK_DEADLOCK FALSE
SPECIFICATION Spec
INVARIANTS NoMessageSkipped
PROPERTIES EveryMessageCounts RequestsAreAnswered
