\* Every list of at most five readings, of which voting sees the last four.
CONSTANTS
  Letters = {"A", "B"}
  Digits = {"1", "2"}
  MinPlateLength = 4
  ConfidenceThreshold = 25
  RequiredConfirmations = 2
  RequiredRepeats = 2
  MaxObservations = 4
  OcrReadings <- MCOcrReadings
  CountdownTime = 1
  CaptureTime = 1
  InitAttempts = 2
  Images = 3
  MaxReadings = 5
SPECIFICATION Spec
INVARIANTS CameraReleased NewestFrameIsRead PlateIsUnbeaten MajorityWins
PROPERTY CapturesEnd
