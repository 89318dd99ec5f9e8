\* The worker and two HTTP threads: reservations that wait for the manager at the same
\* time, and cycles that overlap or do not.
CONSTANTS
  ParkingSize = 1
  HighThreshold = 30
  DarkThreshold = 100
  Temperatures <- MCTemperatures
  LuxLevels <- MCLuxLevels
  Plates = {p1}
  None = None
  Malformed = Malformed
  TooLarge = TooLarge
  NoNumber = NoNumber
  NonObject = NonObject
  EmptyFile = EmptyFile
  Worker = worker
  HttpThreads = {h1, h2}
  Inputs <- MCOccupied
  Transport = "simulation"
  Backend = "rule"
  PublishFaults = {}
  OsFaults = {}
  MaxSent = 1
  MaxQueue = 1
  MaxRequests = 2
\* Messages and requests may stop coming: their number is bounded.
CHECK_DEADLOCK FALSE
SYMMETRY HttpSymmetry
SPECIFICATION QSpec
INVARIANTS CameraHeldWhileUsed ReservationsUnique LostOnlyToLaterReservation QuietCycleIsOneStep QuietCycleSettles
PROPERTIES QuietGateStaysShut
