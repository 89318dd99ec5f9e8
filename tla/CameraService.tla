------------------------------ MODULE CameraService ------------------------------
(***************************************************************************)
(* services/camera_service.py: an HTTP request for "enter" or "exit" takes *)
(* the camera, reads a plate and makes a numbered vehicle event of it.     *)
(* Every request runs in an HTTP thread of its own; pc says where each     *)
(* thread of the backend stands.  The lock is not waited for, and is given *)
(* back on every way out of capture, before the event is processed.        *)
(***************************************************************************)
EXTENDS ContextManager, FiniteSets

CONSTANTS
  HttpThreads,      \* the threads of the dashboard's HTTP server
  Worker,           \* the thread "smart-garage-events"
  MaxRequests       \* bound: camera requests altogether

ASSUME ThreadAssumption == Worker \notin HttpThreads /\ None \notin HttpThreads \cup {Worker}

ASSUME RequestAssumption == MaxRequests \in Nat

VARIABLES
  pc,                     \* what each thread does next
  event,                  \* the event each thread has in hand, or None
  capture_lock,           \* the thread that holds _capture_lock, or None
  published_sequences,    \* CameraService._published_sequences
  wanted,                 \* the topic of each thread's direction, or None
  reply,                  \* the last answer of each thread, None before it
  requests                \* how many requests have come

cameraVars == <<capture_lock, published_sequences, wanted, requests>>

Threads == HttpThreads \cup {Worker}

(* The answers: 409 twice, 422/503/500 of the camera, 503, 200, 500. *)
Replies ==
  {None, "busy", "full", "camera_error", "not_processed", "processed", "server_error"}

Capturing == {"check", "read", "recheck", "reserve"}

CameraInit ==
  /\ pc = [t \in Threads |-> "idle"]
  /\ event = [t \in Threads |-> None]
  /\ capture_lock = None
  /\ published_sequences = [topic \in EventTopics |-> 0]
  /\ wanted = [t \in Threads |-> None]
  /\ reply = [t \in Threads |-> None]
  /\ requests = 0

Goto(t, place) == pc' = [pc EXCEPT ![t] = place]

(* Only an HTTP thread has somebody to answer. *)
Answer(t, answer) ==
  reply' = IF t \in HttpThreads THEN [reply EXCEPT ![t] = answer] ELSE reply

--------------------------------------------------------------------------------
RequestArrives(t) ==
  /\ pc[t] = "idle" /\ requests < MaxRequests
  /\ requests' = requests + 1

TakeCamera(t, topic) ==
  /\ RequestArrives(t)
  /\ capture_lock = None
  /\ capture_lock' = t
  /\ wanted' = [wanted EXCEPT ![t] = topic]
  /\ reply' = [reply EXCEPT ![t] = None]
  /\ Goto(t, "check")
  /\ UNCHANGED <<managerVars, event, published_sequences>>

CameraBusy(t) ==
  /\ RequestArrives(t)
  /\ capture_lock # None
  /\ Answer(t, "busy")
  /\ UNCHANGED <<managerVars, pc, event, capture_lock, published_sequences, wanted>>

(* Mutant: no finally around the capture. *)
AbandonCaptureLocked(t, answer) ==
  /\ Goto(t, "idle")
  /\ Answer(t, answer)
  /\ event' = [event EXCEPT ![t] = None]
  /\ wanted' = [wanted EXCEPT ![t] = None]
  /\ UNCHANGED <<managerVars, capture_lock, published_sequences, requests>>

(* The way out of capture() by an exception. *)
AbandonCapture(t, answer) ==
  /\ Goto(t, "idle")
  /\ Answer(t, answer)
  /\ event' = [event EXCEPT ![t] = None]
  /\ capture_lock' = None
  /\ wanted' = [wanted EXCEPT ![t] = None]
  /\ UNCHANGED <<managerVars, published_sequences, requests>>

(* garage_full_provider, asked for an entry before and after the camera. *)
TurnAway(t) == wanted[t] = "vehicle_entry" /\ GarageIsFull(context)

CheckFull(t) ==
  \/ /\ pc[t] \in {"check", "recheck"} /\ TurnAway(t)
     /\ AbandonCapture(t, "full")
  \/ /\ pc[t] \in {"check", "recheck"} /\ ~TurnAway(t)
     /\ Goto(t, IF pc[t] = "check" THEN "read" ELSE "reserve")
     /\ UNCHANGED <<managerVars, cameraVars, event, reply>>

ReadPlate(t) ==
  /\ pc[t] = "read"
  /\ \E plate \in Plates :
       event' = [event EXCEPT ![t] = Event(wanted[t], NoNumber, [license_plate |-> plate])]
  /\ Goto(t, "recheck")
  /\ UNCHANGED <<managerVars, cameraVars, reply>>

CameraFails(t) ==
  /\ pc[t] = "read"
  /\ AbandonCapture(t, "camera_error")

(* Mutant: the camera trusts the manager alone. *)
NextSequenceOffered(topic) == NextSequenceNumber(topic)

NextSequence(topic) ==
  LET offered == NextSequenceNumber(topic)
      own     == published_sequences[topic] + 1
  IN  IF offered >= own THEN offered ELSE own

(* _next_sequence, the event, and the release of the camera: nobody else   *)
(* writes published_sequences, and a request meeting the lock here gets    *)
(* the answer it would have got a moment before.                           *)
ReserveSequence(t) ==
  /\ pc[t] = "reserve"
  /\ event' = [event EXCEPT ![t].number = NextSequence(wanted[t])]
  /\ published_sequences' =
       [published_sequences EXCEPT ![wanted[t]] = NextSequence(wanted[t])]
  /\ capture_lock' = None
  /\ wanted' = [wanted EXCEPT ![t] = None]
  /\ Goto(t, "handle")
  /\ UNCHANGED <<managerVars, reply, requests>>

CaptureStep(t) ==
  CheckFull(t) \/ ReadPlate(t) \/ CameraFails(t) \/ ReserveSequence(t)

RequestStep(t) == CameraBusy(t) \/ \E topic \in EventTopics : TakeCamera(t, topic)

--------------------------------------------------------------------------------
(* The camera is held by a thread that is using it, and by no other: no    *)
(* way out of capture leaks the lock.                                      *)
CameraHeldWhileUsed ==
  \A t \in Threads : pc[t] \in Capturing <=> capture_lock = t

(* No two camera events of one direction ever share a sequence number,     *)
(* although a reserved number reaches the manager only later.              *)
ReservationsUnique ==
  \A t, u \in HttpThreads :
    t # u /\ pc[t] = "handle" /\ pc[u] = "handle" /\ event[t].topic = event[u].topic
      => event[t].number # event[u].number

================================================================================
