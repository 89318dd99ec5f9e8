------------------------------ MODULE CameraSensor ------------------------------
(***************************************************************************)
(* software_sensor/camera_sensor.py, the part of CameraService's "read"    *)
(* step that lasts: load OpenCV and the OCR reader, open the camera, count *)
(* down, take a frame, read it, vote.  CameraService lets one request at a *)
(* time in; its captures follow each other.  It never shows a preview.     *)
(*                                                                         *)
(* A frame is its number among the frames of this capture; 0 is none.  A   *)
(* pass of a loop that waits for the camera takes one unit of its time.    *)
(***************************************************************************)
EXTENDS PlateVoting

CONSTANTS
  OcrReadings,      \* what OCR may find in an image: records [plate, confidence]
  CountdownTime,    \* the passes that fit into countdown_seconds
  CaptureTime,      \* ... into max(0.5, capture_timeout_seconds)
  InitAttempts,     \* how many ways to construct PaddleOCR are tried
  Images,           \* how many variants of a frame are read
  MaxReadings       \* bound: usable readings in all of them

(* _normalize_license_plate keeps letters and digits; OCR reports its      *)
(* confidence as a probability, and where it reports none it counts as 1.  *)
ASSUME OcrAssumption ==
  OcrReadings \subseteq [plate : Seq(Letters \cup Digits), confidence : 0 .. 100]

ASSUME CameraAssumption ==
  /\ {CountdownTime, MaxReadings} \subseteq Nat
  /\ {CaptureTime, InitAttempts, Images} \subseteq Nat \ {0}

VARIABLES
  pc,               \* what the capture does next; "idle" before and after it
  reader_cached,    \* whether CameraSensor._reader is set
  attempts,         \* constructor calls still to try
  cameras,          \* open VideoCaptures: of this capture, of one that failed
  time_left,        \* in the loop that pc is in
  frames,           \* frames got from the camera so far
  last_frame,       \* the last one of the countdown
  captured_frame,   \* the one after it, if there is one
  frame,            \* the one that is read
  images_left,      \* variants of it still to be read
  candidates,       \* the usable readings
  outcome           \* of the last capture: "plate" is that of its candidates

vars == <<pc, reader_cached, attempts, cameras, time_left, frames, last_frame,
          captured_frame, frame, images_left, candidates, outcome>>

readerVars  == <<reader_cached, attempts>>
frameVars   == <<time_left, frames, last_frame, captured_frame, frame>>
ocrVars     == <<images_left, candidates>>

Init ==
  /\ pc = "idle" /\ reader_cached = FALSE
  /\ attempts = 0 /\ time_left = 0
  /\ frames = 0 /\ last_frame = 0 /\ captured_frame = 0 /\ frame = 0
  /\ images_left = 0 /\ candidates = <<>>
  /\ cameras = {} /\ outcome = "none"

Begin ==
  /\ pc = "idle"
  /\ frames' = 0 /\ last_frame' = 0 /\ captured_frame' = 0 /\ frame' = 0
  /\ candidates' = <<>> /\ outcome' = "none"
  /\ pc' = "load"
  /\ UNCHANGED <<reader_cached, attempts, cameras, time_left, images_left>>

End(result) == pc' = "idle" /\ outcome' = result

(* Mutant: the camera is released only behind a recognized plate. *)
FailUnreleased ==
  /\ End("error")
  /\ UNCHANGED <<readerVars, frameVars, ocrVars, cameras>>

(* CameraSensorError; behind the try, its finally releases the camera. *)
Fail ==
  /\ End("error") /\ cameras' = cameras \ {"current"}
  /\ UNCHANGED <<readerVars, frameVars, ocrVars>>

(* Anything else before the try: a camera already open is not released.    *)
Escape ==
  /\ End("exception")
  /\ cameras' = IF "current" \in cameras THEN {"stray"} ELSE cameras
  /\ UNCHANGED <<readerVars, frameVars, ocrVars>>

(* The exception has been answered and dropped, and with its traceback the *)
(* last reference to that camera: CPython destroys the object.  The lock   *)
(* of CameraService was given back before.                                 *)
DropException ==
  /\ "stray" \in cameras
  /\ cameras' = cameras \ {"stray"}
  /\ UNCHANGED <<pc, readerVars, frameVars, ocrVars, outcome>>

--------------------------------------------------------------------------------
Load ==
  /\ pc = "load"
  /\ \/ Fail            \* OpenCV or PaddleOCR is not installed
     \/ /\ pc' = IF reader_cached THEN "open" ELSE "construct"
        /\ attempts' = IF reader_cached THEN 0 ELSE InitAttempts
        /\ UNCHANGED <<reader_cached, cameras, frameVars, ocrVars, outcome>>

(* TypeError and ValueError mean that this PaddleOCR wants other options. *)
Construct ==
  /\ pc = "construct"
  /\ \/ /\ pc' = "open" /\ reader_cached' = TRUE /\ attempts' = 0
        /\ UNCHANGED <<cameras, frameVars, ocrVars, outcome>>
     \/ /\ attempts > 1
        /\ attempts' = attempts - 1
        /\ UNCHANGED <<pc, reader_cached, cameras, frameVars, ocrVars, outcome>>
     \/ attempts = 1 /\ Fail
     \/ Escape

OpenCamera ==
  /\ pc = "open"
  /\ \/ /\ cameras' = cameras \cup {"current"} /\ pc' = "configure"
        /\ UNCHANGED <<readerVars, frameVars, ocrVars, outcome>>
     \/ Fail            \* not opened: nothing to release
     \/ Escape

ConfigureCamera ==
  /\ pc = "configure"
  /\ \/ /\ pc' = "countdown" /\ time_left' = CountdownTime
        /\ UNCHANGED <<readerVars, frames, last_frame, captured_frame, frame, ocrVars,
                       cameras, outcome>>
     \/ Escape

(* camera.read() in a pass of either loop: a frame, or success is False.   *)
GotFrame == frames' = frames + 1
NoFrame  == UNCHANGED frames

(* What the camera raises becomes a CameraSensorError. *)
RunCountdown ==
  /\ pc = "countdown" /\ time_left > 0
  /\ \/ /\ \/ GotFrame /\ last_frame' = frames + 1
           \/ NoFrame /\ UNCHANGED last_frame
        /\ time_left' = time_left - 1
        /\ UNCHANGED <<pc, readerVars, captured_frame, frame, ocrVars, cameras, outcome>>
     \/ Fail

(* Mutant: without a frame the countdown starts again. *)
CountdownOverWithFrame ==
  /\ pc = "countdown" /\ time_left = 0
  /\ pc' = IF last_frame = 0 THEN pc ELSE "capture"
  /\ time_left' = IF last_frame = 0 THEN CountdownTime ELSE CaptureTime
  /\ UNCHANGED <<readerVars, frames, last_frame, captured_frame, frame, ocrVars, cameras,
                 outcome>>

CountdownOver ==
  /\ pc = "countdown" /\ time_left = 0
  /\ \/ last_frame = 0 /\ Fail
     \/ /\ last_frame # 0
        /\ pc' = "capture" /\ time_left' = CaptureTime
        /\ UNCHANGED <<readerVars, frames, last_frame, captured_frame, frame, ocrVars,
                       cameras, outcome>>

(* Returns the first frame, or None after the time limit. *)
CaptureNextAvailableFrame ==
  /\ pc = "capture"
  /\ \/ /\ \/ time_left > 0 /\ GotFrame /\ captured_frame' = frames + 1
           \/ time_left = 0 /\ NoFrame /\ UNCHANGED captured_frame
        /\ pc' = "choose" /\ time_left' = 0
        /\ UNCHANGED <<readerVars, last_frame, frame, ocrVars, cameras, outcome>>
     \/ /\ time_left > 0 /\ NoFrame /\ time_left' = time_left - 1
        /\ UNCHANGED <<pc, readerVars, last_frame, captured_frame, frame, ocrVars, cameras,
                       outcome>>
     \/ time_left > 0 /\ Fail

(* Mutant: the other way round. *)
ChooseCountdownFrame ==
  /\ pc = "choose" /\ pc' = "preprocess"
  /\ frame' = IF last_frame # 0 THEN last_frame ELSE captured_frame
  /\ UNCHANGED <<readerVars, time_left, frames, last_frame, captured_frame, ocrVars,
                 cameras, outcome>>

ChooseFrame ==
  /\ pc = "choose" /\ pc' = "preprocess"
  /\ frame' = IF captured_frame # 0 THEN captured_frame ELSE last_frame
  /\ UNCHANGED <<readerVars, time_left, frames, last_frame, captured_frame, ocrVars,
                 cameras, outcome>>

(* All variants are there before the first is read. *)
PreprocessFrames ==
  /\ pc = "preprocess"
  /\ \/ /\ pc' = "ocr" /\ images_left' = Images
        /\ UNCHANGED <<readerVars, frameVars, candidates, cameras, outcome>>
     \/ Fail

(* OCR over one variant raises, or finds any number of texts, of which the *)
(* usable ones count.                                                      *)
ReadImage ==
  /\ pc = "ocr" /\ images_left > 0
  /\ \/ /\ \E pairs \in SeqOf({r \in OcrReadings : Usable(r)},
                             MaxReadings - Len(candidates)) :
             candidates' = candidates \o pairs
        /\ images_left' = images_left - 1
        /\ UNCHANGED <<pc, readerVars, frameVars, cameras, outcome>>
     \/ Fail

Recognize ==
  /\ pc = "ocr" /\ images_left = 0
  /\ End(IF BestObservedPlate(candidates) = NoPlate THEN "error" ELSE "plate")
  /\ cameras' = cameras \ {"current"}
  /\ UNCHANGED <<readerVars, frameVars, ocrVars>>

CaptureStep ==
  \/ Load \/ Construct \/ OpenCamera \/ ConfigureCamera \/ RunCountdown \/ CountdownOver
  \/ CaptureNextAvailableFrame \/ ChooseFrame \/ PreprocessFrames \/ ReadImage \/ Recognize

Next == Begin \/ CaptureStep \/ DropException

(* Nothing a capture calls blocks for ever, and failed requests are        *)
(* answered.  Nothing makes requests come.                                 *)
Spec == Init /\ [][Next]_vars /\ WF_vars(CaptureStep) /\ WF_vars(DropException)

--------------------------------------------------------------------------------
(* A capture that is over holds no camera: CameraService lets the next one *)
(* in at once.  (That of one whose configuration raised may be open still, *)
(* until the answer is sent.)                                              *)
CameraReleased == pc = "idle" => "current" \notin cameras

(* The frame that is read, and that a plate comes from, is the newest the  *)
(* camera delivered: one of the countdown only if no later one came before *)
(* the time limit.                                                         *)
NewestFrameIsRead ==
  pc \in {"preprocess", "ocr"} \/ outcome = "plate" => frame = frames /\ frames > 0

(* No reading of the same length and shape as the plate of a capture is    *)
(* ahead of it in number and confidence.                                   *)
PlateIsUnbeaten == outcome = "plate" => ChosenIsUnbeaten(candidates)

(* _confirmed_license_plate, which nothing calls at present, would not     *)
(* miss a plate that most readings agree on.                               *)
MajorityWins == outcome = "plate" => MajorityIsConfirmed(candidates)

(* Every capture ends, whatever the camera delivers (CameraService answers *)
(* 409 until then), and no camera stays open.                              *)
CapturesEnd ==
  /\ pc # "idle" ~> pc = "idle"
  /\ \A c \in {"current", "stray"} : c \in cameras ~> c \notin cameras

================================================================================
