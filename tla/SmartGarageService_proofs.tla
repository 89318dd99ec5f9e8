----------------------- MODULE SmartGarageService_proofs -----------------------
(***************************************************************************)
(* The backend's theorems, for any number of HTTP threads: its types; what *)
(* threads that use the camera may rely on; and that the event worker      *)
(* alone implements GarageControl, for a garage of any size, any inputs    *)
(* and either planner backend.                                             *)
(***************************************************************************)
EXTENDS GarageRefinement, QuietCycles, Planner_proofs, SequenceTheorems, TLAPS

--------------------------------------------------------------------------------
(* Type correctness. *)

LEMMA ThreadFacts == Worker \in Threads /\ HttpThreads \subseteq Threads
  BY DEF Threads

LEMMA NoProblemType == NoProblem \in Problems
  BY InitialContextType, GenerateType DEF NoProblem

(* The two assignments of apply_action_effect. *)
LEMMA EffectType ==
  ASSUME NEW c \in Contexts
  PROVE  /\ \A a \in Actuators, v \in BOOLEAN : SetActuator(c, a, v) \in Contexts
         /\ \A g \in Gates : ClearWaiting(c, g) \in Contexts
  BY DEF Contexts, SetActuator, ClearWaiting

LEMMA InitType == Init => TypeOK
<1> SUFFICES ASSUME Init PROVE TypeOK
  OBVIOUS
<1> USE DEF Init, ManagerInit, CameraInit
<1>1. ManagerTypeOK
  BY InitialContextType DEF ManagerTypeOK
<1>2. ThreadTypeOK
  BY DEF ThreadTypeOK, Places, Replies
<1>3. CameraTypeOK
  BY DEF CameraTypeOK, Capturing
<1>4. LinkTypeOK
  BY DEF LinkTypeOK
<1>5. SharedTypeOK
  BY DEF SharedTypeOK
<1>6. ExecutionTypeOK
  BY NoProblemType DEF ExecutionTypeOK
<1> QED  BY <1>1, <1>2, <1>3, <1>4, <1>5, <1>6 DEF TypeOK

--------------------------------------------------------------------------------
(* Type correctness of each action. *)

LEMMA ArriveType ==
  ASSUME TypeOK, NEW i \in Inputs, Arrive(i) PROVE TypeOK'
<1> USE DEF TypeOK, Arrive, vars, managerVars, cameraVars, sharedVars, executionVars
<1>1. i.topic \in Topics /\ sent[i.topic] \in Nat
  BY ServiceAssumption DEF LinkTypeOK
<1>2. Event(i.topic, sent[i.topic] + 1, i.payload) \in Messages
  BY <1>1, ServiceAssumption DEF Event, Messages
<1>3. LinkTypeOK'
  BY <1>1, <1>2 DEF LinkTypeOK
<1>4. ManagerTypeOK' /\ ThreadTypeOK' /\ CameraTypeOK'
  BY DEF ManagerTypeOK, ThreadTypeOK, CameraTypeOK
<1>5. SharedTypeOK' /\ ExecutionTypeOK'
  BY DEF SharedTypeOK, ExecutionTypeOK
<1> QED  BY <1>3, <1>4, <1>5

LEMMA GetEventType ==
  ASSUME TypeOK, GetEvent PROVE TypeOK'
<1> USE DEF TypeOK, GetEvent, Goto, managerVars, cameraVars, sharedVars, executionVars
<1>1. Head(queue) \in Messages /\ Tail(queue) \in Seq(Messages)
  BY DEF LinkTypeOK
<1>2. LinkTypeOK'
  BY <1>1 DEF LinkTypeOK
<1>3. ThreadTypeOK'
  BY <1>1, ThreadFacts DEF ThreadTypeOK, Places
<1>4. CameraTypeOK'
  BY ThreadFacts DEF CameraTypeOK, Capturing, ThreadTypeOK
<1>5. ManagerTypeOK' /\ SharedTypeOK' /\ ExecutionTypeOK'
  BY ThreadFacts DEF ManagerTypeOK, SharedTypeOK, ExecutionTypeOK, ThreadTypeOK
<1> QED  BY <1>2, <1>3, <1>4, <1>5

(* The camera's actions; each leaves the service's own variables alone. *)
LEMMA CameraStepType ==
  ASSUME TypeOK, NEW t \in HttpThreads, RequestStep(t) \/ CaptureStep(t),
         UNCHANGED <<linkVars, sharedVars, executionVars>>
  PROVE  TypeOK'
<1> t \in Threads
  BY ThreadFacts
<1> USE DEF TypeOK, managerVars, cameraVars, linkVars, sharedVars, executionVars
<1>1. LinkTypeOK' /\ SharedTypeOK'
  BY DEF LinkTypeOK, SharedTypeOK
<1>2. ASSUME NEW topic \in EventTopics, TakeCamera(t, topic) PROVE TypeOK'
  <2> USE <1>2 DEF TakeCamera, RequestArrives, Goto
  <2>1. ManagerTypeOK' /\ ExecutionTypeOK'
    BY DEF ManagerTypeOK, ExecutionTypeOK, ThreadTypeOK
  <2>2. ThreadTypeOK'
    BY DEF ThreadTypeOK, Places, Capturing, Replies
  <2>3. CameraTypeOK'
    BY DEF CameraTypeOK, Capturing, ThreadTypeOK
  <2> QED  BY <1>1, <2>1, <2>2, <2>3
<1>3. CASE CameraBusy(t)
  <2> USE <1>3 DEF CameraBusy, RequestArrives, Answer
  <2>1. ManagerTypeOK' /\ ExecutionTypeOK'
    BY DEF ManagerTypeOK, ExecutionTypeOK
  <2>2. ThreadTypeOK' /\ CameraTypeOK'
    BY DEF ThreadTypeOK, Replies, CameraTypeOK
  <2> QED  BY <1>1, <2>1, <2>2
<1>4. ASSUME NEW answer \in Replies, AbandonCapture(t, answer) PROVE TypeOK'
  <2> USE <1>4 DEF AbandonCapture, Answer, Goto
  <2>1. ManagerTypeOK' /\ ExecutionTypeOK'
    BY DEF ManagerTypeOK, ExecutionTypeOK, ThreadTypeOK
  <2>2. ThreadTypeOK' /\ CameraTypeOK'
    BY DEF ThreadTypeOK, Places, CameraTypeOK, Capturing
  <2> QED  BY <1>1, <2>1, <2>2
<1>5. CASE CheckFull(t)
  <2>1. CASE AbandonCapture(t, "full")
    BY <1>4, <2>1 DEF Replies
  <2>2. CASE ~AbandonCapture(t, "full")
    <3> USE <1>5, <2>2 DEF CheckFull, Goto
    <3>1. ManagerTypeOK' /\ ExecutionTypeOK'
      BY DEF ManagerTypeOK, ExecutionTypeOK, ThreadTypeOK
    <3>2. ThreadTypeOK' /\ CameraTypeOK'
      BY DEF ThreadTypeOK, Places, CameraTypeOK, Capturing
    <3> QED  BY <1>1, <3>1, <3>2
  <2> QED  BY <2>1, <2>2
<1>6. CASE ReadPlate(t)
  <2> USE <1>6 DEF ReadPlate, Goto
  <2>1. PICK plate \in Plates :
          event' = [event EXCEPT ![t] = Event(wanted[t], NoNumber, [license_plate |-> plate])]
    OBVIOUS
  <2>2. Event(wanted[t], NoNumber, [license_plate |-> plate])
          \in [topic : {wanted[t]}, number : {NoNumber}, payload : VehiclePayloads]
    BY DEF Event, VehiclePayloads
  <2>3. ManagerTypeOK' /\ ExecutionTypeOK'
    BY DEF ManagerTypeOK, ExecutionTypeOK, ThreadTypeOK
  <2>4. ThreadTypeOK'
    <3>1. pc' \in [Threads -> Places] /\ reply' \in [Threads -> Replies]
      BY DEF ThreadTypeOK, Places, Capturing
    <3>2. \A u \in Threads : pc'[u] = "handle" => u # t /\ pc[u] = "handle"
      BY DEF ThreadTypeOK
    <3>3. \A u \in Threads \ {t} : event'[u] = event[u]
      BY <2>1 DEF ThreadTypeOK
    <3>4. DOMAIN event' = Threads
      BY <2>1 DEF ThreadTypeOK
    <3> QED  BY <3>1, <3>2, <3>3, <3>4 DEF ThreadTypeOK
  <2>5. CameraTypeOK'
    BY <2>1, <2>2 DEF CameraTypeOK, Capturing, ThreadTypeOK
  <2> QED  BY <1>1, <2>3, <2>4, <2>5
<1>7. CASE CameraFails(t)
  BY <1>4, <1>7 DEF CameraFails, Replies
<1>8. CASE ReserveSequence(t)
  <2> USE <1>8 DEF ReserveSequence, Goto
  <2>1. wanted[t] \in EventTopics /\ wanted[t] \in Topics
    BY DEF CameraTypeOK, Capturing, Topics
  <2>2. NextSequence(wanted[t]) \in Nat
    BY <2>1 DEF NextSequence, NextSequenceNumber, ManagerTypeOK, CameraTypeOK
  <2>3. event'[t] \in Messages
    BY <2>1, <2>2 DEF ThreadTypeOK, CameraTypeOK, Messages, EventTopics
  <2>4. ManagerTypeOK' /\ ExecutionTypeOK'
    BY DEF ManagerTypeOK, ExecutionTypeOK, ThreadTypeOK
  <2>5. ThreadTypeOK'
    BY <2>3 DEF ThreadTypeOK, Places
  <2>6. CameraTypeOK'
    BY <2>1, <2>2 DEF CameraTypeOK, Capturing, ThreadTypeOK
  <2> QED  BY <1>1, <2>4, <2>5, <2>6
<1> QED  BY <1>2, <1>3, <1>5, <1>6, <1>7, <1>8 DEF RequestStep, CaptureStep

(* The actions of process_event, in the worker or in an HTTP thread. *)

LEMMA LeaveType ==
  ASSUME TypeOK, NEW t \in Threads, pc[t] \notin Capturing,
         NEW answer \in Replies, Leave(t, answer), UNCHANGED cameraVars
  PROVE  ThreadTypeOK' /\ CameraTypeOK' /\ ExecutionTypeOK'
<1> USE DEF TypeOK, Leave, Goto, Answer, cameraVars
<1>1. ThreadTypeOK'
  BY DEF ThreadTypeOK, Places
<1>2. CameraTypeOK'
  BY DEF CameraTypeOK, ThreadTypeOK, Capturing
<1>3. ExecutionTypeOK'
  BY NoProblemType DEF ExecutionTypeOK, ThreadTypeOK
<1> QED  BY <1>1, <1>2, <1>3

(* A step that only moves a thread on, to a place that is neither a        *)
(* camera's nor one where an event or a command must be in hand.           *)
LEMMA MoveType ==
  ASSUME TypeOK, NEW t \in Threads,
         NEW place \in Places \ (Capturing \cup {"handle", "apply", "clear"}),
         Goto(t, place), UNCHANGED <<cameraVars, event, reply>>
  PROVE  /\ ThreadTypeOK' /\ CameraTypeOK'
         /\ \A u \in Threads : pc'[u] \in {"apply", "clear"} => u # t /\ pc'[u] = pc[u]
<1> USE DEF TypeOK, Goto, cameraVars
<1>1. ThreadTypeOK'
  BY DEF ThreadTypeOK
<1>2. CameraTypeOK'
  BY DEF CameraTypeOK, ThreadTypeOK, Capturing
<1>3. \A u \in Threads : pc'[u] \in {"apply", "clear"} => u # t /\ pc'[u] = pc[u]
  BY DEF ThreadTypeOK
<1> QED  BY <1>1, <1>2, <1>3

LEMMA ProcessStepType ==
  ASSUME TypeOK, NEW t \in Threads, ProcessStep(t) PROVE TypeOK'
<1> USE DEF TypeOK, managerVars, linkVars, sharedVars, executionVars
<1>0. /\ {"not_processed", "processed", "server_error"} \subseteq Replies
      /\ {"handle", "truncate", "write", "run", "execute"} \cap Capturing = {}
  BY DEF Replies, Capturing
<1>p. /\ {"read_init", "read_goal", "truncate", "write", "run", "execute", "dead"}
           \subseteq Places \ (Capturing \cup {"handle", "apply", "clear"})
  BY DEF Places, Capturing
<1>1. CASE AcceptedEvent(t)
  <2> USE <1>1 DEF AcceptedEvent, AcceptEvent
  <2>1. /\ event[t] \in Messages /\ event[t].topic \in Topics /\ event[t].number \in Nat
        /\ event[t].topic = "parking" => event[t].payload \in ParkingPayloads \cup {Malformed}
    BY DEF ThreadTypeOK, Messages, Raises
  <2>2. ManagerTypeOK'
    BY <2>1, UpdateType DEF Accepts, ManagerTypeOK
  <2>3. ThreadTypeOK' /\ CameraTypeOK' /\ ExecutionTypeOK'
    BY <1>p, MoveType DEF ExecutionTypeOK
  <2>4. LinkTypeOK' /\ SharedTypeOK'
    BY DEF LinkTypeOK, SharedTypeOK
  <2> QED  BY <2>2, <2>3, <2>4
<1>2. CASE RejectedEvent(t)
  <2> USE <1>2 DEF RejectedEvent, RejectEvent
  <2>1. ThreadTypeOK' /\ CameraTypeOK' /\ ExecutionTypeOK'
    BY <1>0, LeaveType
  <2>2. ManagerTypeOK' /\ LinkTypeOK' /\ SharedTypeOK'
    BY DEF ManagerTypeOK, LinkTypeOK, SharedTypeOK
  <2> QED  BY <2>1, <2>2
<1>3. CASE Escapes(t)
  <2> USE <1>3 DEF Escapes
  <2>1. ThreadTypeOK' /\ CameraTypeOK' /\ ExecutionTypeOK'
    <3>1. CASE t = Worker
      BY <1>p, <3>1, MoveType DEF ExecutionTypeOK
    <3>2. CASE t # Worker
      BY <1>0, <3>2, LeaveType
    <3> QED  BY <3>1, <3>2
  <2>2. ManagerTypeOK' /\ LinkTypeOK' /\ SharedTypeOK'
    BY DEF ManagerTypeOK, LinkTypeOK, SharedTypeOK
  <2> QED  BY <2>1, <2>2
<1>4. CASE ReadInit(t) \/ ReadGoal(t)
  <2>1. ThreadTypeOK' /\ CameraTypeOK'
        /\ \A u \in Threads : pc'[u] \in {"apply", "clear"} => u # t /\ pc'[u] = pc[u]
    BY <1>4, <1>p, MoveType DEF ReadInit, ReadGoal
  <2>2. problem' \in [Threads -> Problems]
    <3>1. InitPredicates(context) \in InitSections /\ GoalPredicates(context) \in GoalSections
      BY GenerateType DEF ManagerTypeOK
    <3> QED  BY <1>4, <3>1 DEF ReadInit, ReadGoal, ExecutionTypeOK, Problems
  <2>3. ExecutionTypeOK'
    BY <1>4, <2>1, <2>2 DEF ReadInit, ReadGoal, ExecutionTypeOK
  <2>4. ManagerTypeOK' /\ LinkTypeOK' /\ SharedTypeOK'
    BY <1>4 DEF ReadInit, ReadGoal, ManagerTypeOK, LinkTypeOK, SharedTypeOK
  <2> QED  BY <2>1, <2>3, <2>4
<1>5. CASE TruncateFile(t) \/ WriteFile(t)
  <2> USE <1>5 DEF TruncateFile, WriteFile
  <2>1. ThreadTypeOK' /\ CameraTypeOK' /\ ExecutionTypeOK'
    BY <1>p, MoveType DEF ExecutionTypeOK
  <2>2. ManagerTypeOK' /\ LinkTypeOK'
    BY DEF ManagerTypeOK, LinkTypeOK
  <2>3. SharedTypeOK'
    BY DEF SharedTypeOK, ExecutionTypeOK
  <2> QED  BY <2>1, <2>2, <2>3
<1>6. CASE RunPlanner(t)
  <2>1. ThreadTypeOK' /\ CameraTypeOK'
        /\ \A u \in Threads : pc'[u] \in {"apply", "clear"} => u # t /\ pc'[u] = pc[u]
    BY <1>6, <1>p, MoveType DEF RunPlanner
  <2>2. problem' \in [Threads -> Problems] /\ todo' \in [Threads -> SUBSET Actuators]
    <3>1. CASE problem_file = EmptyFile
      BY <1>6, <3>1 DEF RunPlanner, ExecutionTypeOK
    <3>2. CASE problem_file # EmptyFile
      <4>1. problem_file \in Problems /\ Switched(problem_file) \in SUBSET Actuators
        BY <3>2 DEF SharedTypeOK, Switched
      <4> QED  BY <1>6, <3>2, <4>1 DEF RunPlanner, ExecutionTypeOK
    <3> QED  BY <3>1, <3>2
  <2>3. ExecutionTypeOK'
    BY <1>6, <2>1, <2>2 DEF RunPlanner, ExecutionTypeOK
  <2>4. ManagerTypeOK' /\ LinkTypeOK' /\ SharedTypeOK'
    BY <1>6 DEF RunPlanner, ManagerTypeOK, LinkTypeOK, SharedTypeOK
  <2> QED  BY <2>1, <2>3, <2>4
<1>7. CASE RunFails(t)
  <2>1. Leave(t, "not_processed") /\ last_error' = "planner" /\ pc[t] = "run"
    BY <1>7 DEF RunFails, FailWith
  <2>2. ThreadTypeOK' /\ CameraTypeOK' /\ ExecutionTypeOK'
    BY <1>7, <1>0, <2>1, LeaveType DEF RunFails
  <2>3. ManagerTypeOK' /\ LinkTypeOK' /\ SharedTypeOK'
    BY <1>7, <2>1 DEF RunFails, ManagerTypeOK, LinkTypeOK, SharedTypeOK
  <2> QED  BY <2>2, <2>3
<1>8. ASSUME NEW a \in Actuators, PublishCommand(t, a) PROVE TypeOK'
  <2> USE <1>8 DEF PublishCommand, Goto, cameraVars
  <2>1. Target(t, a) \in BOOLEAN
    BY DEF Target, ExecutionTypeOK, Problems, GoalSections
  <2>2. ThreadTypeOK'
    BY DEF ThreadTypeOK, Places
  <2>3. CameraTypeOK'
    BY DEF CameraTypeOK, ThreadTypeOK, Capturing
  <2>4. ExecutionTypeOK'
    BY DEF ExecutionTypeOK, ThreadTypeOK
  <2>5. ManagerTypeOK' /\ LinkTypeOK' /\ SharedTypeOK'
    BY <2>1 DEF ManagerTypeOK, LinkTypeOK, SharedTypeOK
  <2> QED  BY <2>2, <2>3, <2>4, <2>5
<1>9. ASSUME NEW a \in Actuators, PublishFails(t, a) PROVE TypeOK'
  <2>1. Leave(t, "not_processed") /\ last_error' = "publish" /\ pc[t] = "execute"
    BY <1>9 DEF PublishFails, FailWith
  <2>2. ThreadTypeOK' /\ CameraTypeOK' /\ ExecutionTypeOK'
    BY <1>9, <1>0, <2>1, LeaveType DEF PublishFails
  <2>3. Target(t, a) \in BOOLEAN
    BY DEF Target, ExecutionTypeOK, Problems, GoalSections
  <2>4. ManagerTypeOK' /\ LinkTypeOK' /\ SharedTypeOK'
    BY <1>9, <2>1, <2>3 DEF PublishFails, ManagerTypeOK, LinkTypeOK, SharedTypeOK
  <2> QED  BY <2>2, <2>4
<1>10. CASE ApplyEffect(t)
  <2> USE <1>10 DEF ApplyEffect, Goto, cameraVars
  <2>1. current[t] \in Actuators /\ Target(t, current[t]) \in BOOLEAN
    BY DEF Target, ExecutionTypeOK, Problems, GoalSections
  <2>2. ManagerTypeOK'
    BY <2>1, EffectType DEF ManagerTypeOK
  <2>3. ThreadTypeOK'
    BY DEF ThreadTypeOK, Places
  <2>4. CameraTypeOK'
    BY DEF CameraTypeOK, ThreadTypeOK, Capturing
  <2>5. ExecutionTypeOK'
    BY <2>1 DEF ExecutionTypeOK, ThreadTypeOK, ClearsWaiting
  <2>6. LinkTypeOK' /\ SharedTypeOK'
    BY DEF LinkTypeOK, SharedTypeOK
  <2> QED  BY <2>2, <2>3, <2>4, <2>5, <2>6
<1>11. CASE ClearFlag(t)
  <2>1. current[t] \in Gates
    BY <1>11 DEF ClearFlag, ExecutionTypeOK
  <2>2. ManagerTypeOK'
    BY <1>11, <2>1, EffectType DEF ClearFlag, ManagerTypeOK
  <2>3. ThreadTypeOK' /\ CameraTypeOK'
        /\ \A u \in Threads : pc'[u] \in {"apply", "clear"} => u # t /\ pc'[u] = pc[u]
    BY <1>11, <1>p, MoveType DEF ClearFlag
  <2>4. ExecutionTypeOK'
    BY <1>11, <2>3 DEF ClearFlag, ExecutionTypeOK
  <2>5. LinkTypeOK' /\ SharedTypeOK'
    BY <1>11 DEF ClearFlag, LinkTypeOK, SharedTypeOK
  <2> QED  BY <2>2, <2>3, <2>4, <2>5
<1>12. CASE Finish(t)
  <2>1. ThreadTypeOK' /\ CameraTypeOK' /\ ExecutionTypeOK'
    BY <1>12, <1>0, LeaveType DEF Finish
  <2>2. ManagerTypeOK' /\ LinkTypeOK' /\ SharedTypeOK'
    BY <1>12 DEF Finish, ManagerTypeOK, LinkTypeOK, SharedTypeOK
  <2> QED  BY <2>1, <2>2
<1> QED  BY <1>1, <1>2, <1>3, <1>4, <1>5, <1>6, <1>7, <1>8, <1>9, <1>10, <1>11, <1>12
            DEF ProcessStep

LEMMA NextType == TypeOK /\ [Next]_vars => TypeOK'
<1> SUFFICES ASSUME TypeOK, [Next]_vars PROVE TypeOK'
  OBVIOUS
<1>1. ASSUME NEW i \in Inputs, Arrive(i) PROVE TypeOK'
  BY <1>1, ArriveType
<1>2. ASSUME NEW t \in HttpThreads, Request(t) \/ Capture(t) PROVE TypeOK'
  BY <1>2, CameraStepType DEF Request, Capture
<1>3. ASSUME NEW t \in HttpThreads, ProcessStep(t) PROVE TypeOK'
  BY <1>3, ProcessStepType, ThreadFacts
<1>4. CASE WorkerStep
  BY <1>4, GetEventType, ProcessStepType, ThreadFacts DEF WorkerStep
<1>5. CASE UNCHANGED vars
  BY <1>5 DEF vars, managerVars, cameraVars, linkVars, sharedVars, executionVars, TypeOK,
              ManagerTypeOK, ThreadTypeOK, CameraTypeOK, LinkTypeOK, SharedTypeOK,
              ExecutionTypeOK
<1> QED  BY <1>1, <1>2, <1>3, <1>4, <1>5 DEF Next, HttpStep

(* Whatever the threads do to each other, no variable of the backend ever  *)
(* leaves its type: in particular no thread executes a plan for an         *)
(* actuator there is not, or handles an event without a number.            *)
THEOREM ServiceTypeCorrect == SafetySpec => []TypeOK
  BY InitType, NextType, PTL DEF SafetySpec

--------------------------------------------------------------------------------
(* The worker alone: nobody else plans or publishes, and a publish that    *)
(* raises has not been heard by the broker.                                *)
WorkerAlone == HttpThreads = {} /\ "delivered" \notin PublishFaults

(* The context is right about the broker, but for the command in hand.     *)
RecordInv ==
  /\ \A a \in Actuators :
       \/ context.on[a] = published[a]
       \/ pc[Worker] = "apply" /\ current[Worker] = a
  /\ pc[Worker] = "apply" => published[current[Worker]] = Target(Worker, current[Worker])

(* Nothing changes the context between reading it and the first command.   *)
ReadInv ==
  /\ pc[Worker] \in {"read_goal", "truncate", "write", "run"} =>
       problem[Worker].init = InitPredicates(context)
  /\ pc[Worker] \in {"truncate", "write", "run"} =>
       problem[Worker].goal = GoalPredicates(context)
  /\ pc[Worker] = "run" => problem_file = problem[Worker]

(* The goals stay what the context wants, and what is not to be switched   *)
(* any more is as they say.                                                *)
ExecuteInv ==
  pc[Worker] \in {"execute", "apply", "clear"} =>
    /\ Wanted(problem[Worker].goal, context)
    /\ \A a \in Actuators \ todo[Worker] :
         \/ context.on[a] = Target(Worker, a)
         \/ pc[Worker] = "apply" /\ current[Worker] = a

RestInv ==
  pc[Worker] \in {"idle", "handle"} /\ last_error = None => Settled(context)

WorkerInv == TypeOK /\ RecordInv /\ ReadInv /\ ExecuteInv /\ RestInv

LEMMA InitWorker == Init => WorkerInv
<1> SUFFICES ASSUME Init PROVE WorkerInv
  OBVIOUS
<1>1. pc[Worker] = "idle" /\ context = InitialContext
  BY ThreadFacts DEF Init, ManagerInit, CameraInit
<1>2. Settled(context)
  BY <1>1 DEF Settled, InitialContext, TemperatureIsHigh, LuxIsDark, Actuators, Gates
<1>3. RecordInv
  BY <1>1 DEF Init, RecordInv, InitialContext
<1>4. ReadInv /\ ExecuteInv
  BY <1>1 DEF ReadInv, ExecuteInv
<1>5. RestInv
  BY <1>2 DEF RestInv
<1> QED  BY <1>3, <1>4, <1>5, InitType DEF WorkerInv

(* What the two recording assignments leave alone. *)
LEMMA RecordFacts ==
  ASSUME NEW c \in Contexts, NEW goal
  PROVE  /\ \A a \in Actuators, v \in BOOLEAN :
              /\ SetActuator(c, a, v).on = [c.on EXCEPT ![a] = v]
              /\ Wanted(goal, c) => Wanted(goal, SetActuator(c, a, v))
         /\ \A g \in Gates :
              /\ ClearWaiting(c, g).on = c.on
              /\ Wanted(goal, c) => Wanted(goal, ClearWaiting(c, g))
<1>1. ASSUME NEW a \in Actuators, NEW v \in BOOLEAN
      PROVE  /\ SetActuator(c, a, v).on = [c.on EXCEPT ![a] = v]
             /\ Wanted(goal, c) => Wanted(goal, SetActuator(c, a, v))
  BY DEF Contexts, SetActuator, Wanted, TemperatureIsHigh, LuxIsDark, GarageIsFull
<1>2. ASSUME NEW g \in Gates
      PROVE  /\ ClearWaiting(c, g).on = c.on
             /\ Wanted(goal, c) => Wanted(goal, ClearWaiting(c, g))
  BY DEF Contexts, ClearWaiting, Wanted, TemperatureIsHigh, LuxIsDark, GarageIsFull, Gates
<1> QED  BY <1>1, <1>2

(* A step that leaves the worker's plan, the context and the broker alone. *)
LEMMA WorkerWaits ==
  ASSUME WorkerInv, TypeOK',
         UNCHANGED <<context, published, problem_file, last_error, problem, todo, current>>,
         \/ pc'[Worker] = pc[Worker]
         \/ pc[Worker] = "idle" /\ pc'[Worker] = "handle"
         \/ pc'[Worker] = "dead" /\ pc[Worker] # "apply"
         \/ pc[Worker] = "truncate" /\ pc'[Worker] = "write"
  PROVE  WorkerInv'
<1> USE DEF WorkerInv
<1>1. RecordInv'
  BY DEF RecordInv, Target
<1>2. ReadInv'
  BY DEF ReadInv
<1>3. ExecuteInv'
  BY DEF ExecuteInv, Target
<1>4. RestInv'
  BY DEF RestInv
<1> QED  BY <1>1, <1>2, <1>3, <1>4

(* The way out of process_event: nothing is pending, and unless something  *)
(* failed nothing is left to do.                                           *)
LEMMA WorkerLeaves ==
  ASSUME WorkerInv, TypeOK', UNCHANGED <<context, published>>,
         pc[Worker] # "apply", pc'[Worker] = "idle",
         last_error' = None => Settled(context)
  PROVE  WorkerInv'
<1>1. RecordInv' /\ ReadInv' /\ ExecuteInv'
  BY DEF WorkerInv, RecordInv, ReadInv, ExecuteInv
<1>2. RestInv'
  <2>1. Settled(context') <=> Settled(context)
    BY DEF Settled
  <2> QED  BY <2>1 DEF RestInv
<1> QED  BY <1>1, <1>2 DEF WorkerInv

LEMMA WorkerProcesses ==
  ASSUME WorkerAlone, WorkerInv, TypeOK', ProcessStep(Worker)
  PROVE  WorkerInv'
<1> DEFINE W == Worker
<1>0. /\ W \in Threads /\ pc \in [Threads -> Places] /\ context \in Contexts
      /\ published \in [Actuators -> BOOLEAN] /\ context.on \in [Actuators -> BOOLEAN]
      /\ problem \in [Threads -> Problems] /\ todo \in [Threads -> SUBSET Actuators]
      /\ current \in [Threads -> Actuators \cup {None}]
      /\ RecordInv /\ ReadInv /\ ExecuteInv /\ RestInv
  BY ThreadFacts DEF WorkerInv, TypeOK, ManagerTypeOK, ThreadTypeOK, SharedTypeOK, ExecutionTypeOK,
                     Contexts
<1> USE <1>0 DEF Goto
<1>p. ASSUME NEW p, pc' = [pc EXCEPT ![W] = p] PROVE pc'[W] = p
  BY <1>p
<1>1. CASE AcceptedEvent(W)
  <2>1. /\ pc[W] = "handle" /\ pc'[W] = "read_init"
        /\ UNCHANGED published /\ context'.on = context.on
    BY <1>1, UpdateKeepsActuators DEF AcceptedEvent, AcceptEvent, Accepts, sharedVars
  <2>2. RecordInv'
    BY <2>1 DEF RecordInv
  <2>3. ReadInv' /\ ExecuteInv' /\ RestInv'
    BY <2>1 DEF ReadInv, ExecuteInv, RestInv
  <2> QED  BY <2>2, <2>3 DEF WorkerInv
<1>2. CASE RejectedEvent(W)
  <2>1. /\ pc[W] = "handle" /\ pc'[W] = "idle" /\ UNCHANGED <<context, published, last_error>>
    BY <1>2 DEF RejectedEvent, RejectEvent, Leave, sharedVars, managerVars
  <2> QED  BY <2>1, WorkerLeaves DEF RestInv
<1>3. CASE Escapes(W)
  <2>1. /\ pc[W] # "apply" /\ pc'[W] = "dead"
        /\ UNCHANGED <<context, published, problem_file, last_error, problem, todo, current>>
    BY <1>3 DEF Escapes, managerVars, sharedVars, executionVars
  <2> QED  BY <2>1, WorkerWaits
<1>4. CASE ReadInit(W)
  <2>1. /\ pc[W] = "read_init" /\ pc'[W] = "read_goal"
        /\ UNCHANGED <<context, published>>
        /\ problem'[W].init = InitPredicates(context)
    BY <1>4 DEF ReadInit, managerVars, sharedVars, Problems
  <2>2. InitPredicates(context') = InitPredicates(context)
    BY <2>1
  <2> QED  BY <2>1, <2>2 DEF WorkerInv, RecordInv, ReadInv, ExecuteInv, RestInv
<1>5. CASE ReadGoal(W)
  <2>1. /\ pc[W] = "read_goal" /\ pc'[W] = "truncate"
        /\ UNCHANGED <<context, published>>
        /\ problem'[W].init = problem[W].init
        /\ problem'[W].goal = GoalPredicates(context)
    BY <1>5 DEF ReadGoal, managerVars, sharedVars, Problems
  <2>2. InitPredicates(context') = InitPredicates(context)
        /\ GoalPredicates(context') = GoalPredicates(context)
    BY <2>1
  <2> QED  BY <2>1, <2>2 DEF WorkerInv, RecordInv, ReadInv, ExecuteInv, RestInv
<1>6. CASE TruncateFile(W) \/ WriteFile(W)
  <2>1. /\ UNCHANGED <<context, published, problem>>
        /\ \/ pc[W] = "truncate" /\ pc'[W] = "write"
           \/ pc[W] = "write" /\ pc'[W] = "run" /\ problem_file' = problem[W]
    BY <1>6 DEF TruncateFile, WriteFile, managerVars, executionVars
  <2>2. InitPredicates(context') = InitPredicates(context)
        /\ GoalPredicates(context') = GoalPredicates(context)
    BY <2>1
  <2> QED  BY <2>1, <2>2 DEF WorkerInv, RecordInv, ReadInv, ExecuteInv, RestInv
<1>7. CASE RunFails(W)
  <2>1. /\ pc[W] = "run" /\ pc'[W] = "idle" /\ UNCHANGED <<context, published>>
        /\ last_error' = "planner"
    BY <1>7 DEF RunFails, FailWith, Leave, managerVars
  <2> QED  BY <2>1, WorkerLeaves, ValueAssumption
<1>8. CASE RunPlanner(W)
  <2>1. /\ pc[W] = "run" /\ pc'[W] = "execute" /\ UNCHANGED <<context, published>>
        /\ problem_file = problem[W] /\ problem_file # EmptyFile
        /\ problem'[W] = problem[W] /\ todo'[W] = Switched(problem[W])
    BY <1>8, ValueAssumption DEF RunPlanner, managerVars, sharedVars, ReadInv
  <2>2. /\ problem[W].init.on = context.on
        /\ problem[W].goal = GoalPredicates(context)
    BY <2>1 DEF ReadInv, InitPredicates
  <2>3. Wanted(problem[W].goal, context) /\ Wanted(problem'[W].goal, context')
    BY <2>1, <2>2, GoalsAreWanted
  <2>4. \A a \in Actuators \ todo'[W] : context'.on[a] = problem'[W].goal[a]
    BY <2>1, <2>2 DEF Switched
  <2> QED  BY <2>1, <2>3, <2>4 DEF WorkerInv, RecordInv, ReadInv, ExecuteInv, RestInv, Target
<1>9. ASSUME NEW a \in Actuators, PublishCommand(W, a) PROVE WorkerInv'
  <2>1. /\ pc[W] = "execute" /\ pc'[W] = "apply" /\ current'[W] = a /\ UNCHANGED <<context, problem>>
        /\ published' = [published EXCEPT ![a] = Target(W, a)] /\ todo'[W] = todo[W] \ {a}
    BY <1>9 DEF PublishCommand, managerVars
  <2>2. \A b \in Actuators : context.on[b] = published[b]
    BY <2>1 DEF RecordInv
  <2>3. RecordInv'
    BY <2>1, <2>2 DEF RecordInv, Target
  <2>4. Wanted(problem'[W].goal, context')
    BY <2>1 DEF ExecuteInv
  <2>5. ExecuteInv'
    BY <2>1, <2>4 DEF ExecuteInv, Target
  <2> QED  BY <2>1, <2>3, <2>5 DEF WorkerInv, ReadInv, RestInv
<1>10. ASSUME NEW a \in Actuators, PublishFails(W, a) PROVE WorkerInv'
  <2>1. /\ pc[W] = "execute" /\ pc'[W] = "idle" /\ UNCHANGED <<context, published>>
        /\ last_error' = "publish"
    BY <1>10 DEF PublishFails, FailWith, Leave, managerVars, WorkerAlone
  <2> QED  BY <2>1, WorkerLeaves, ValueAssumption
<1>11. CASE ApplyEffect(W)
  <2> DEFINE a == current[W]
             v == Target(W, a)
  <2>0. a \in Actuators /\ v \in BOOLEAN
    BY <1>11 DEF ApplyEffect, WorkerInv, TypeOK, ExecutionTypeOK, Target, Problems, GoalSections
  <2>1. /\ pc[W] = "apply" /\ pc'[W] \in {"execute", "clear"}
        /\ UNCHANGED <<published, problem, todo>>
        /\ context' = SetActuator(context, a, v)
    BY <1>11 DEF ApplyEffect, sharedVars
  <2>2. context'.on = [context.on EXCEPT ![a] = v]
    BY <2>0, <2>1, RecordFacts
  <2>3. Wanted(problem'[W].goal, context')
    <3>1. Wanted(problem[W].goal, context)
      BY <2>1 DEF ExecuteInv
    <3> QED  BY <2>0, <2>1, <3>1, RecordFacts
  <2>4. RecordInv'
    BY <2>0, <2>1, <2>2 DEF RecordInv
  <2>5. ExecuteInv'
    BY <2>0, <2>1, <2>2, <2>3 DEF ExecuteInv, Target
  <2> QED  BY <2>1, <2>4, <2>5 DEF WorkerInv, ReadInv, RestInv
<1>12. CASE ClearFlag(W)
  <2>0. current[W] \in Gates
    BY <1>12 DEF ClearFlag, WorkerInv, TypeOK, ExecutionTypeOK
  <2>1. /\ pc[W] = "clear" /\ pc'[W] = "execute" /\ UNCHANGED <<published, problem, todo>>
        /\ context' = ClearWaiting(context, current[W])
    BY <1>12 DEF ClearFlag, sharedVars
  <2>2. context'.on = context.on
    BY <2>0, <2>1, RecordFacts
  <2>3. Wanted(problem'[W].goal, context')
    <3>1. Wanted(problem[W].goal, context)
      BY <2>1 DEF ExecuteInv
    <3> QED  BY <2>0, <2>1, <3>1, RecordFacts
  <2>4. RecordInv' /\ ExecuteInv'
    BY <2>1, <2>2, <2>3 DEF RecordInv, ExecuteInv, Target
  <2> QED  BY <2>1, <2>4 DEF WorkerInv, ReadInv, RestInv
<1>13. CASE Finish(W)
  <2>1. /\ pc[W] = "execute" /\ pc'[W] = "idle" /\ todo[W] = {} /\ UNCHANGED <<context, published>>
    BY <1>13 DEF Finish, Leave, managerVars
  <2>2. \A a \in Actuators : context.on[a] = problem[W].goal[a]
    BY <2>1 DEF ExecuteInv, Target
  <2>3. Settled(context)
    BY <2>1, <2>2 DEF ExecuteInv, Wanted, Settled, Actuators, Gates
  <2> QED  BY <2>1, <2>3, WorkerLeaves
<1> QED  BY <1>1, <1>2, <1>3, <1>4, <1>5, <1>6, <1>7, <1>8, <1>9, <1>10, <1>11, <1>12, <1>13
            DEF ProcessStep

LEMMA NextWorker == WorkerAlone /\ WorkerInv /\ [Next]_vars => WorkerInv'
<1> SUFFICES ASSUME WorkerAlone, WorkerInv, [Next]_vars PROVE WorkerInv'
  OBVIOUS
<1>0. TypeOK' /\ pc \in [Threads -> Places]
  BY NextType DEF WorkerInv, TypeOK, ThreadTypeOK
<1>1. CASE GetEvent
  BY <1>0, <1>1, ThreadFacts, WorkerWaits
     DEF GetEvent, Goto, managerVars, sharedVars, executionVars
<1>2. ASSUME NEW i \in Inputs, Arrive(i) PROVE WorkerInv'
  BY <1>0, <1>2, WorkerWaits DEF Arrive, managerVars, sharedVars, executionVars
<1>3. CASE UNCHANGED vars
  BY <1>0, <1>3, WorkerWaits DEF vars, managerVars, sharedVars, executionVars
<1>4. CASE ProcessStep(Worker)
  BY <1>0, <1>4, WorkerProcesses
<1> QED  BY <1>1, <1>2, <1>3, <1>4 DEF Next, WorkerStep, WorkerAlone

(* For any garage, any readings and either backend: the worker alone       *)
(* records every command it has published, and no other.                   *)
THEOREM WorkerRecordsCommands ==
  ASSUME WorkerAlone PROVE SafetySpec => []ContextMatchesCommands
<1>1. WorkerInv => ContextMatchesCommands
  BY ThreadFacts DEF WorkerInv, RecordInv, ContextMatchesCommands
<1>2. WorkerInv /\ [Next]_vars => WorkerInv'
  BY NextWorker
<1> QED  BY <1>1, <1>2, InitWorker, PTL DEF SafetySpec

(* ... leaves nothing undone when it waits for the next event, unless the  *)
(* last one failed, ...                                                    *)
THEOREM WorkerSettles ==
  ASSUME WorkerAlone PROVE SafetySpec => []SettledWhenIdle
<1>1. WorkerInv => SettledWhenIdle
  BY ThreadFacts DEF WorkerInv, RestInv, SettledWhenIdle
<1>2. WorkerInv /\ [Next]_vars => WorkerInv'
  BY NextWorker
<1> QED  BY <1>1, <1>2, InitWorker, PTL DEF SafetySpec

(* ... and never opens the entrance of a full garage.                      *)
THEOREM WorkerKeepsFullGarageShut ==
  ASSUME WorkerAlone PROVE SafetySpec => FullGarageStaysShut
<1> DEFINE Shut == ~published["entrance_gate"] /\ published'["entrance_gate"]
                     => ~GarageIsFull(context)
<1>1. WorkerInv /\ [Next]_vars => Shut
  <2> SUFFICES ASSUME WorkerInv, Next, published'["entrance_gate"] # published["entrance_gate"],
                      published'["entrance_gate"]
               PROVE  ~GarageIsFull(context)
    BY DEF vars, sharedVars
  <2>0. published' # published
    OBVIOUS
  <2>p. ProcessStep(Worker)
    BY <2>0 DEF Next, WorkerStep, WorkerAlone, Arrive, GetEvent, sharedVars
  <2>1. PICK a \in Actuators : PublishCommand(Worker, a)
    <3>1. ~(AcceptedEvent(Worker) \/ RejectedEvent(Worker) \/ Escapes(Worker)
              \/ ReadInit(Worker) \/ ReadGoal(Worker) \/ RunPlanner(Worker))
      BY <2>0 DEF AcceptedEvent, RejectedEvent, Escapes, ReadInit, ReadGoal, RunPlanner, sharedVars
    <3>2. ~(TruncateFile(Worker) \/ WriteFile(Worker) \/ RunFails(Worker) \/ Finish(Worker))
      BY <2>0 DEF TruncateFile, WriteFile, RunFails, Finish
    <3>3. ~(ApplyEffect(Worker) \/ ClearFlag(Worker))
      BY <2>0 DEF ApplyEffect, ClearFlag, sharedVars
    <3>4. \A a \in Actuators : ~PublishFails(Worker, a)
      BY <2>0 DEF PublishFails, WorkerAlone
    <3> QED  BY <2>p, <3>1, <3>2, <3>3, <3>4 DEF ProcessStep
  <2>2. a = "entrance_gate" /\ pc[Worker] = "execute" /\ problem[Worker].goal["entrance_gate"]
    <3>1. pc[Worker] = "execute" /\ published' = [published EXCEPT ![a] = Target(Worker, a)]
      BY <2>1 DEF PublishCommand
    <3>2. published \in [Actuators -> BOOLEAN] /\ "entrance_gate" \in Actuators
      BY DEF WorkerInv, TypeOK, SharedTypeOK, Actuators, Gates
    <3>3. a = "entrance_gate"
      BY <3>1, <3>2
    <3> QED  BY <3>1, <3>2, <3>3 DEF Target
  <2> QED  BY <2>2 DEF WorkerInv, ExecuteInv, Wanted
<1>2. WorkerInv /\ [Next]_vars => WorkerInv'
  BY NextWorker
<1> QED  BY <1>1, <1>2, InitWorker, PTL DEF SafetySpec, FullGarageStaysShut

--------------------------------------------------------------------------------
(* What the HTTP threads may rely on, however many there are: the camera   *)
(* is never shared and never leaked, and no two of them hold events of one *)
(* direction with the same number.                                         *)

(* A number in hand has been reserved; it need not be the last one.        *)
NumbersReserved ==
  \A t \in HttpThreads :
    pc[t] = "handle" =>
      /\ event[t].topic \in EventTopics
      /\ event[t].number <= published_sequences[event[t].topic]

CameraInv == TypeOK /\ CameraHeldWhileUsed /\ NumbersReserved /\ ReservationsUnique

(* No thread touches the camera, or what another has in hand.              *)
KeepsCamera(t) ==
  /\ UNCHANGED <<capture_lock, published_sequences>>
  /\ \A u \in Threads \ {t} : pc'[u] = pc[u] /\ event'[u] = event[u]

LEMMA ProcessKeepsCamera ==
  ASSUME TypeOK, NEW t \in Threads, ProcessStep(t)
  PROVE  /\ KeepsCamera(t)
         /\ pc[t] \notin Capturing /\ pc'[t] \notin Capturing \cup {"handle"}
<1>0. pc \in [Threads -> Places] /\ DOMAIN event = Threads
  BY DEF TypeOK, ThreadTypeOK
<1> USE <1>0 DEF Goto, Leave, FailWith, KeepsCamera, Capturing, cameraVars
<1>1. CASE AcceptedEvent(t) \/ RejectedEvent(t) \/ Escapes(t)
  BY <1>1 DEF AcceptedEvent, RejectedEvent, Escapes
<1>2. CASE ReadInit(t) \/ ReadGoal(t) \/ TruncateFile(t) \/ WriteFile(t)
  BY <1>2 DEF ReadInit, ReadGoal, TruncateFile, WriteFile
<1>3. CASE RunPlanner(t) \/ RunFails(t)
  BY <1>3 DEF RunPlanner, RunFails
<1>4. CASE \E a \in Actuators : PublishCommand(t, a) \/ PublishFails(t, a)
  BY <1>4 DEF PublishCommand, PublishFails
<1>5. CASE ApplyEffect(t) \/ ClearFlag(t) \/ Finish(t)
  BY <1>5 DEF ApplyEffect, ClearFlag, Finish
<1> QED  BY <1>1, <1>2, <1>3, <1>4, <1>5 DEF ProcessStep

(* Such a step, taken by a thread that captures neither before nor after   *)
(* it, preserves the invariant; so do the steps of the link.               *)
LEMMA KeepingCamera ==
  ASSUME CameraInv, TypeOK', NEW t \in Threads, KeepsCamera(t),
         pc[t] \notin Capturing, pc'[t] \notin Capturing,
         t \in HttpThreads => pc'[t] # "handle"
  PROVE  CameraInv'
<1> USE DEF CameraInv, KeepsCamera
<1>1. CameraHeldWhileUsed'
  BY DEF CameraHeldWhileUsed
<1>2. \A u \in HttpThreads : pc'[u] = "handle" => u # t /\ pc[u] = "handle" /\ event'[u] = event[u]
  BY ThreadFacts
<1>3. NumbersReserved' /\ ReservationsUnique'
  BY <1>2 DEF NumbersReserved, ReservationsUnique
<1> QED  BY <1>1, <1>3

LEMMA CameraInit_Inv == Init => CameraInv
<1> SUFFICES ASSUME Init PROVE CameraInv
  OBVIOUS
<1>1. CameraHeldWhileUsed
  BY ThreadAssumption DEF Init, CameraInit, CameraHeldWhileUsed, Capturing, Threads
<1>2. NumbersReserved /\ ReservationsUnique
  BY ThreadFacts DEF Init, CameraInit, NumbersReserved, ReservationsUnique
<1> QED  BY <1>1, <1>2, InitType DEF CameraInv

LEMMA CameraStep_Inv ==
  ASSUME CameraInv, TypeOK', NEW t \in HttpThreads, RequestStep(t) \/ CaptureStep(t)
  PROVE  CameraInv'
<1> t \in Threads /\ t # None
  BY ThreadFacts, ThreadAssumption
<1>t. /\ pc \in [Threads -> Places] /\ DOMAIN event = Threads
      /\ published_sequences \in [EventTopics -> Nat]
      /\ pc[t] \in Capturing => wanted[t] \in EventTopics
  BY DEF CameraInv, TypeOK, ThreadTypeOK, CameraTypeOK
<1> USE <1>t DEF Goto, managerVars, cameraVars
<1>h. ASSUME \A u \in HttpThreads : pc'[u] = "handle" => u # t /\ pc[u] = "handle",
             \A u \in Threads \ {t} : event'[u] = event[u],
             UNCHANGED published_sequences
      PROVE  NumbersReserved' /\ ReservationsUnique'
  BY <1>h, ThreadFacts DEF CameraInv, NumbersReserved, ReservationsUnique
<1>1. ASSUME NEW topic \in EventTopics, TakeCamera(t, topic) PROVE CameraInv'
  <2> USE <1>1 DEF TakeCamera, RequestArrives
  <2>1. CameraHeldWhileUsed'
    BY ThreadAssumption, ThreadFacts DEF CameraInv, CameraHeldWhileUsed, Capturing, Threads
  <2>2. NumbersReserved' /\ ReservationsUnique'
    BY <1>h, ThreadFacts
  <2> QED  BY <2>1, <2>2 DEF CameraInv
<1>2. CASE CameraBusy(t)
  BY <1>2 DEF CameraBusy, CameraInv, CameraHeldWhileUsed, NumbersReserved, ReservationsUnique
<1>3. ASSUME NEW answer, AbandonCapture(t, answer), pc[t] \in Capturing PROVE CameraInv'
  <2> USE <1>3 DEF AbandonCapture
  <2>1. CameraHeldWhileUsed'
    BY ThreadAssumption, ThreadFacts DEF CameraInv, CameraHeldWhileUsed, Capturing, Threads
  <2>2. NumbersReserved' /\ ReservationsUnique'
    BY <1>h, ThreadFacts
  <2> QED  BY <2>1, <2>2 DEF CameraInv
<1>4. ASSUME NEW place \in Capturing, Goto(t, place), pc[t] \in Capturing,
             \A u \in Threads \ {t} : event'[u] = event[u],
             UNCHANGED <<capture_lock, published_sequences>>
      PROVE  CameraInv'
  <2>1. CameraHeldWhileUsed'
    BY <1>4 DEF CameraInv, CameraHeldWhileUsed
  <2>2. NumbersReserved' /\ ReservationsUnique'
    BY <1>4, <1>h, ThreadFacts DEF Capturing
  <2> QED  BY <2>1, <2>2 DEF CameraInv
<1>5. CASE CheckFull(t)
  <2>1. pc[t] \in Capturing
    BY <1>5 DEF CheckFull, Capturing
  <2>2. CASE AbandonCapture(t, "full")
    BY <1>3, <2>1, <2>2
  <2>3. CASE ~AbandonCapture(t, "full")
    <3> DEFINE place == IF pc[t] = "check" THEN "read" ELSE "reserve"
    <3>1. place \in Capturing /\ Goto(t, place) /\ UNCHANGED <<capture_lock, published_sequences, event>>
      BY <1>5, <2>3 DEF CheckFull, Capturing
    <3> QED  BY <1>4, <2>1, <3>1
  <2> QED  BY <2>2, <2>3
<1>6. CASE ReadPlate(t)
  <2>1. Goto(t, "recheck") /\ "recheck" \in Capturing /\ pc[t] \in Capturing
    BY <1>6 DEF ReadPlate, Capturing
  <2>2. UNCHANGED <<capture_lock, published_sequences>>
        /\ \A u \in Threads \ {t} : event'[u] = event[u]
    BY <1>6 DEF ReadPlate
  <2> QED  BY <1>4, <2>1, <2>2
<1>7. CASE CameraFails(t)
  BY <1>3, <1>7 DEF CameraFails, Capturing
<1>8. CASE ReserveSequence(t)
  <2> USE <1>8 DEF ReserveSequence
  <2> DEFINE topic == wanted[t]
             next  == NextSequence(topic)
  <2>1. topic \in EventTopics /\ next \in Nat /\ next > published_sequences[topic]
    BY DEF Capturing, NextSequence, NextSequenceNumber, CameraInv, TypeOK, ManagerTypeOK,
           EventTopics, Topics
  <2>2. event[t].topic = topic /\ event'[t].topic = topic /\ event'[t].number = next
    BY DEF CameraInv, TypeOK, CameraTypeOK
  <2>3. CameraHeldWhileUsed'
    BY ThreadAssumption, ThreadFacts DEF CameraInv, CameraHeldWhileUsed, Capturing, Threads
  <2>4. \A u \in HttpThreads \ {t} :
          pc'[u] = "handle" => pc[u] = "handle" /\ event'[u] = event[u]
    BY ThreadFacts
  <2>5. \A u \in HttpThreads \ {t} :
          pc[u] = "handle" /\ event[u].topic = topic => event[u].number \in Nat /\ event[u].number < next
    BY <2>1, ThreadFacts DEF CameraInv, NumbersReserved, TypeOK, ThreadTypeOK, Messages
  <2>6. NumbersReserved'
    <3> SUFFICES ASSUME NEW u \in HttpThreads, pc'[u] = "handle"
                 PROVE  /\ event'[u].topic \in EventTopics
                        /\ event'[u].number <= published_sequences'[event'[u].topic]
      BY DEF NumbersReserved
    <3>1. CASE u = t
      BY <2>1, <2>2, <3>1
    <3>2. CASE u # t
      <4>1. event'[u] = event[u] /\ event[u].topic \in EventTopics
            /\ event[u].number <= published_sequences[event[u].topic]
        BY <2>4, <3>2 DEF CameraInv, NumbersReserved
      <4>2. CASE event[u].topic = topic
        BY <2>1, <2>4, <2>5, <3>2, <4>1, <4>2
      <4>3. CASE event[u].topic # topic
        BY <4>1, <4>3
      <4> QED  BY <4>2, <4>3
    <3> QED  BY <3>1, <3>2
  <2>7. ReservationsUnique'
    BY <2>2, <2>4, <2>5 DEF CameraInv, ReservationsUnique
  <2> QED  BY <2>3, <2>6, <2>7 DEF CameraInv
<1> QED  BY <1>1, <1>2, <1>5, <1>6, <1>7, <1>8 DEF RequestStep, CaptureStep

LEMMA Next_Inv == CameraInv /\ [Next]_vars => CameraInv'
<1> SUFFICES ASSUME CameraInv, [Next]_vars PROVE CameraInv'
  OBVIOUS
<1>0. TypeOK' /\ pc \in [Threads -> Places] /\ DOMAIN event = Threads
  BY NextType DEF CameraInv, TypeOK, ThreadTypeOK
<1>1. ASSUME NEW i \in Inputs, Arrive(i) PROVE CameraInv'
  BY <1>0, <1>1 DEF Arrive, cameraVars, CameraInv, CameraHeldWhileUsed, NumbersReserved,
                    ReservationsUnique
<1>2. ASSUME NEW t \in HttpThreads, Request(t) \/ Capture(t) PROVE CameraInv'
  BY <1>0, <1>2, CameraStep_Inv DEF Request, Capture
<1>3. ASSUME NEW t \in Threads, ProcessStep(t) PROVE CameraInv'
  BY <1>0, <1>3, ProcessKeepsCamera, KeepingCamera DEF CameraInv
<1>4. CASE GetEvent
  <2>1. KeepsCamera(Worker) /\ pc[Worker] \notin Capturing /\ pc'[Worker] \notin Capturing
    BY <1>0, <1>4, ThreadFacts DEF GetEvent, Goto, cameraVars, KeepsCamera, Capturing
  <2> QED  BY <1>0, <2>1, ThreadFacts, ThreadAssumption, KeepingCamera
<1>5. CASE UNCHANGED vars
  BY <1>0, <1>5 DEF vars, cameraVars, CameraInv, CameraHeldWhileUsed, NumbersReserved,
                    ReservationsUnique
<1> QED  BY <1>1, <1>2, <1>3, <1>4, <1>5, ThreadFacts DEF Next, HttpStep, WorkerStep

(* For any number of HTTP threads the camera lock is held exactly by the   *)
(* thread that is between the acquire and the finally of capture.          *)
THEOREM CameraNeverLeaked == SafetySpec => []CameraHeldWhileUsed
<1>1. CameraInv => CameraHeldWhileUsed
  BY DEF CameraInv
<1> QED  BY <1>1, CameraInit_Inv, Next_Inv, PTL DEF SafetySpec

(* For any number of HTTP threads and requests, two camera events of one   *)
(* direction that wait for the manager have different sequence numbers:    *)
(* _next_sequence never gives out what it has given out before.            *)
THEOREM ReservationsNeverShared == SafetySpec => []ReservationsUnique
<1>1. CameraInv => ReservationsUnique
  BY DEF CameraInv
<1> QED  BY <1>1, CameraInit_Inv, Next_Inv, PTL DEF SafetySpec

--------------------------------------------------------------------------------
(* Which camera events the manager may refuse.  If vehicles are reported   *)
(* by the camera alone, no event on their topics comes out of the queue,   *)
(* the manager never gets ahead of the reservations, and a number in hand  *)
(* is not the one handled last.                                            *)
OnlyCameraReports == \A i \in Inputs : i.topic \notin EventTopics

QueueInv ==
  /\ queue \in Seq({e \in Messages : e.topic \notin EventTopics})
  /\ pc[Worker] = "handle" => event[Worker].topic \notin EventTopics

NumbersInv ==
  /\ \A topic \in EventTopics : msg_sequences[topic] <= published_sequences[topic]
  /\ \A t \in HttpThreads :
       pc[t] = "handle" =>
         /\ event[t].number # msg_sequences[event[t].topic]
         /\ event[t].payload \in VehiclePayloads

LossInv == OnlyCameraReports => QueueInv /\ NumbersInv

(* A step that handles no camera event and reserves no number.             *)
LEMMA NumbersKept ==
  ASSUME NumbersInv, UNCHANGED published_sequences,
         \A topic \in EventTopics : msg_sequences'[topic] = msg_sequences[topic],
         NumbersReserved,
         \A t \in HttpThreads : pc'[t] = "handle" => pc[t] = "handle" /\ event'[t] = event[t]
  PROVE  NumbersInv'
  BY DEF NumbersInv, NumbersReserved

LEMMA LossInit == Init => LossInv
<1> SUFFICES ASSUME Init PROVE QueueInv /\ NumbersInv
  BY DEF LossInv
<1> QED  BY ThreadFacts DEF Init, ManagerInit, CameraInit, QueueInv, NumbersInv, EventTopics, Topics

LEMMA CaptureLoss ==
  ASSUME CameraInv, TypeOK', LossInv, OnlyCameraReports, NEW t \in HttpThreads,
         Request(t) \/ Capture(t)
  PROVE  QueueInv' /\ NumbersInv'
<1>0. /\ t \in Threads /\ t # Worker
      /\ pc \in [Threads -> Places] /\ DOMAIN event = Threads
      /\ published_sequences \in [EventTopics -> Nat] /\ msg_sequences \in [Topics -> Nat]
      /\ QueueInv /\ NumbersInv /\ NumbersReserved
  BY ThreadFacts, ThreadAssumption
     DEF CameraInv, TypeOK, ManagerTypeOK, ThreadTypeOK, CameraTypeOK, LossInv
<1> USE <1>0
<1>1. /\ UNCHANGED <<queue, msg_sequences>>
      /\ \A u \in Threads \ {t} : pc'[u] = pc[u] /\ event'[u] = event[u]
  <2>1. CASE Request(t)
    BY <2>1 DEF Request, RequestStep, TakeCamera, CameraBusy, RequestArrives, managerVars,
                linkVars, Goto
  <2>2. CASE Capture(t)
    BY <2>2 DEF Capture, CaptureStep, CheckFull, ReadPlate, CameraFails, ReserveSequence,
                AbandonCapture, managerVars, linkVars, Goto
  <2> QED  BY <2>1, <2>2
<1>2. QueueInv'
  BY <1>1, ThreadFacts DEF QueueInv
<1>3. CASE ReserveSequence(t)
  <2> DEFINE topic == wanted[t]
             next  == NextSequence(topic)
  <2>1. /\ topic \in EventTopics /\ topic \in Topics
        /\ next \in Nat /\ next > published_sequences[topic] /\ next > msg_sequences[topic]
    BY <1>3 DEF ReserveSequence, Capturing, NextSequence, NextSequenceNumber, CameraInv, TypeOK,
                CameraTypeOK, EventTopics, Topics
  <2>2. /\ published_sequences' = [published_sequences EXCEPT ![topic] = next]
        /\ event'[t].topic = topic /\ event'[t].number = next
        /\ event'[t].payload \in VehiclePayloads
    BY <1>3 DEF ReserveSequence, CameraInv, TypeOK, CameraTypeOK
  <2>3. \A u \in EventTopics : msg_sequences'[u] <= published_sequences'[u]
    BY <1>1, <2>1, <2>2 DEF NumbersInv, EventTopics, Topics
  <2>4. ASSUME NEW u \in HttpThreads, pc'[u] = "handle"
        PROVE  /\ event'[u].number # msg_sequences'[event'[u].topic]
               /\ event'[u].payload \in VehiclePayloads
    <3>1. CASE u = t
      BY <1>1, <2>1, <2>2, <3>1
    <3>2. CASE u # t
      BY <1>1, <2>4, <3>2, ThreadFacts DEF NumbersInv
    <3> QED  BY <3>1, <3>2
  <2> QED  BY <1>2, <2>3, <2>4 DEF NumbersInv
<1>4. CASE ~ReserveSequence(t)
  <2>1. UNCHANGED published_sequences
    BY <1>4 DEF Request, RequestStep, TakeCamera, CameraBusy, RequestArrives, Capture, CaptureStep,
                CheckFull, ReadPlate, CameraFails, AbandonCapture, cameraVars
  <2>2. pc'[t] = "handle" => pc[t] = "handle" /\ event'[t] = event[t]
    BY <1>4 DEF Request, RequestStep, TakeCamera, CameraBusy, RequestArrives, Capture, CaptureStep,
                CheckFull, ReadPlate, CameraFails, AbandonCapture, Goto
  <2> QED  BY <1>1, <1>2, <2>1, <2>2, ThreadFacts, NumbersKept
<1> QED  BY <1>3, <1>4

LEMMA ProcessLoss ==
  ASSUME CameraInv, TypeOK', LossInv, OnlyCameraReports, NEW t \in Threads, ProcessStep(t)
  PROVE  QueueInv' /\ NumbersInv'
<1>0. /\ pc \in [Threads -> Places] /\ msg_sequences \in [Topics -> Nat]
      /\ QueueInv /\ NumbersInv /\ NumbersReserved /\ ReservationsUnique
      /\ pc[t] = "handle" => event[t] \in Messages
  BY DEF CameraInv, TypeOK, ManagerTypeOK, ThreadTypeOK, LossInv
<1>1. /\ UNCHANGED published_sequences
      /\ \A u \in Threads \ {t} : pc'[u] = pc[u] /\ event'[u] = event[u]
      /\ pc'[t] # "handle"
  BY ProcessKeepsCamera DEF CameraInv, KeepsCamera
<1>2. UNCHANGED queue
  BY DEF ProcessStep, AcceptedEvent, RejectedEvent, Escapes, ReadInit, ReadGoal, TruncateFile,
         WriteFile, RunPlanner, RunFails, PublishCommand, PublishFails, ApplyEffect, ClearFlag,
         Finish, linkVars
<1>3. QueueInv'
  BY <1>0, <1>1, <1>2, ThreadFacts DEF QueueInv
<1>4. \A u \in HttpThreads : pc'[u] = "handle" =>
        u # t /\ pc[u] = "handle" /\ event'[u] = event[u]
  BY <1>1, ThreadFacts
<1>5. CASE AcceptedEvent(t)
  <2> DEFINE topic == event[t].topic
  <2>1. /\ pc[t] = "handle" /\ topic \in Topics /\ event[t].number \in Nat
        /\ msg_sequences' = [msg_sequences EXCEPT ![topic] = event[t].number]
    BY <1>0, <1>5 DEF AcceptedEvent, AcceptEvent, Accepts, Messages
  <2>2. CASE topic \notin EventTopics
    <3>1. \A u \in EventTopics : msg_sequences'[u] = msg_sequences[u]
      BY <1>0, <2>1, <2>2 DEF EventTopics, Topics
    <3> QED  BY <1>0, <1>1, <1>3, <1>4, <3>1, NumbersKept
  <2>3. CASE topic \in EventTopics
    <3>1. t \in HttpThreads
      BY <1>0, <2>1, <2>3 DEF QueueInv, Threads
    <3>2. \A u \in EventTopics : msg_sequences'[u] <= published_sequences'[u]
      BY <1>0, <1>1, <2>1, <2>3, <3>1 DEF NumbersInv, NumbersReserved, EventTopics, Topics
    <3>3. ASSUME NEW u \in HttpThreads, pc'[u] = "handle"
          PROVE  /\ event'[u].number # msg_sequences'[event'[u].topic]
                 /\ event'[u].payload \in VehiclePayloads
      <4>1. /\ u # t /\ pc[u] = "handle" /\ event'[u] = event[u]
            /\ event[u].topic \in EventTopics
        BY <1>0, <1>4, <3>3 DEF NumbersReserved
      <4>2. CASE event[u].topic = topic
        BY <1>0, <2>1, <2>3, <3>1, <4>1, <4>2 DEF NumbersInv, ReservationsUnique
      <4>3. CASE event[u].topic # topic
        BY <1>0, <2>1, <4>1, <4>3 DEF NumbersInv, EventTopics, Topics
      <4> QED  BY <4>2, <4>3
    <3> QED  BY <1>3, <3>2, <3>3 DEF NumbersInv
  <2> QED  BY <2>2, <2>3
<1>6. CASE ~AcceptedEvent(t)
  <2>1. UNCHANGED msg_sequences
    BY <1>6 DEF ProcessStep, RejectedEvent, RejectEvent, Escapes, ReadInit, ReadGoal, TruncateFile,
                WriteFile, RunPlanner, RunFails, PublishCommand, PublishFails, ApplyEffect,
                ClearFlag, Finish, managerVars
  <2> QED  BY <1>0, <1>1, <1>3, <1>4, <2>1, NumbersKept
<1> QED  BY <1>5, <1>6

LEMMA QueueLoss ==
  ASSUME CameraInv, TypeOK', LossInv, OnlyCameraReports,
         GetEvent \/ \E i \in Inputs : Arrive(i)
  PROVE  QueueInv' /\ NumbersInv'
<1>0. /\ pc \in [Threads -> Places] /\ DOMAIN event = Threads
      /\ QueueInv /\ NumbersInv /\ NumbersReserved
  BY DEF CameraInv, TypeOK, ThreadTypeOK, LossInv
<1> DEFINE Quiet == {e \in Messages : e.topic \notin EventTopics}
<1>1. CASE GetEvent
  <2>1. Head(queue) \in Quiet /\ Tail(queue) \in Seq(Quiet)
    BY <1>0, <1>1 DEF GetEvent, QueueInv
  <2>2. QueueInv'
    BY <1>0, <1>1, <2>1, ThreadFacts DEF GetEvent, Goto, QueueInv
  <2>3. \A u \in HttpThreads : pc'[u] = pc[u] /\ event'[u] = event[u]
    BY <1>0, <1>1, ThreadFacts, ThreadAssumption DEF GetEvent, Goto
  <2> QED  BY <1>0, <1>1, <2>2, <2>3, NumbersKept DEF GetEvent, managerVars, cameraVars
<1>2. ASSUME NEW i \in Inputs, Arrive(i) PROVE QueueInv' /\ NumbersInv'
  <2> DEFINE e == Event(i.topic, sent[i.topic] + 1, i.payload)
  <2>1. i.topic \in Topics /\ sent[i.topic] \in Nat
    BY ServiceAssumption DEF CameraInv, TypeOK, LinkTypeOK
  <2>2. e \in Messages
    BY <2>1, ServiceAssumption DEF Event, Messages
  <2>3. e \in Quiet
    BY <2>2 DEF OnlyCameraReports, Event
  <2>4. queue' \in Seq(Quiet)
    BY <1>0, <1>2, <2>3 DEF Arrive, QueueInv
  <2>5. UNCHANGED <<pc, event, msg_sequences, published_sequences>>
    BY <1>2 DEF Arrive, managerVars, cameraVars
  <2> QED  BY <1>0, <2>4, <2>5, NumbersKept DEF QueueInv
<1> QED  BY <1>1, <1>2

LEMMA NextLoss == CameraInv /\ CameraInv' /\ LossInv /\ [Next]_vars => LossInv'
<1> SUFFICES ASSUME CameraInv, CameraInv', LossInv, [Next]_vars, OnlyCameraReports
             PROVE  QueueInv' /\ NumbersInv'
  BY DEF LossInv, OnlyCameraReports
<1>0. TypeOK'
  BY DEF CameraInv
<1>1. CASE GetEvent \/ \E i \in Inputs : Arrive(i)
  BY <1>0, <1>1, QueueLoss
<1>2. ASSUME NEW t \in HttpThreads, Request(t) \/ Capture(t) PROVE QueueInv' /\ NumbersInv'
  BY <1>0, <1>2, CaptureLoss
<1>3. ASSUME NEW t \in Threads, ProcessStep(t) PROVE QueueInv' /\ NumbersInv'
  BY <1>0, <1>3, ProcessLoss
<1>4. CASE UNCHANGED vars
  BY <1>4 DEF vars, managerVars, cameraVars, linkVars, LossInv, QueueInv, NumbersInv
<1> QED  BY <1>1, <1>2, <1>3, <1>4, ThreadFacts DEF Next, HttpStep, WorkerStep

(* If only the camera reports vehicles, the manager refuses no camera      *)
(* event but one that a later reservation of its direction has overtaken:  *)
(* neither a duplicate number nor an older one is ever handed out.         *)
THEOREM LossesHaveALaterReservation == SafetySpec => []LostOnlyToLaterReservation
<1>1. CameraInv /\ LossInv => LostOnlyToLaterReservation
  <2> SUFFICES ASSUME CameraInv, NumbersInv, NEW t \in HttpThreads,
                      pc[t] = "handle", ~Accepts(event[t])
               PROVE  event[t].number < published_sequences[event[t].topic]
    BY DEF LossInv, OnlyCameraReports, LostOnlyToLaterReservation
  <2> DEFINE topic  == event[t].topic
             number == event[t].number
  <2>1. /\ topic \in EventTopics /\ number \in Nat
        /\ number <= published_sequences[topic] /\ event[t].payload \in VehiclePayloads
        /\ msg_sequences[topic] \in Nat /\ published_sequences[topic] \in Nat
    BY ThreadFacts DEF CameraInv, NumbersReserved, NumbersInv, TypeOK, ManagerTypeOK,
                       ThreadTypeOK, CameraTypeOK, Messages, EventTopics, Topics
  <2>2. ValidPayload(topic, event[t].payload)
    BY <2>1, ValueAssumption DEF ValidPayload, VehiclePayloads
  <2>3. number # NoNumber /\ topic \in Topics
    BY <2>1, NumberAssumption DEF Topics
  <2>4. number <= msg_sequences[topic]
    BY <2>1, <2>2, <2>3 DEF Accepts
  <2> QED  BY <2>1, <2>4 DEF NumbersInv
<1> QED  BY <1>1, CameraInit_Inv, Next_Inv, LossInit, NextLoss, PTL DEF SafetySpec

--------------------------------------------------------------------------------
(* No message is skipped.  What waits is one line -- the event in hand,    *)
(* then the queue -- that grows at its end and is served at its head.      *)

(* The messages of one topic in a line p, of which c have been counted and *)
(* s sent: they are exactly the missing ones, in order, and all usable.    *)
InLine(p, c, s, topic) ==
  /\ c \in Nat /\ s \in Nat /\ c <= s
  /\ {p[k].number : k \in {j \in DOMAIN p : p[j].topic = topic}} = c + 1 .. s
  /\ \A j, k \in DOMAIN p :
       j < k /\ p[j].topic = topic /\ p[k].topic = topic => p[j].number < p[k].number
  /\ \A j \in DOMAIN p :
       p[j].topic = topic => p[j].payload # NonObject /\ ValidPayload(topic, p[j].payload)

LineInv ==
  \A topic \in Topics :
    OwnNumbers(topic) /\ AllUsable(topic) =>
      InLine(Pending, msg_sequences[topic], sent[topic], topic)

(* The next number of the topic joins the line ...                         *)
LEMMA LineGrows ==
  ASSUME NEW p \in Seq(Messages), NEW c, NEW s, NEW topic, InLine(p, c, s, topic),
         NEW e \in Messages, e.topic = topic, e.number = s + 1,
         e.payload # NonObject, ValidPayload(topic, e.payload)
  PROVE  InLine(Append(p, e), c, s + 1, topic)
<1> DEFINE q == Append(p, e)
           n == Len(p)
           of(r) == {j \in DOMAIN r : r[j].topic = topic}
<1>1. /\ n \in Nat /\ DOMAIN p = 1 .. n /\ DOMAIN q = 1 .. n + 1
      /\ \A j \in 1 .. n : q[j] = p[j]
      /\ q[n + 1] = e
  BY AppendProperties, LenProperties
<1>2. c \in Nat /\ s \in Nat /\ c <= s /\ {p[k].number : k \in of(p)} = c + 1 .. s
  BY DEF InLine
<1>3. of(q) = of(p) \cup {n + 1}
  BY <1>1
<1>4. \A k \in of(p) : q[k] = p[k] /\ k < n + 1
  BY <1>1
<1>5. {q[k].number : k \in of(q)} = {p[k].number : k \in of(p)} \cup {s + 1}
  <2>1. {q[k].number : k \in of(q)} = {q[k].number : k \in of(p)} \cup {q[n + 1].number}
    BY <1>3
  <2>2. {q[k].number : k \in of(p)} = {p[k].number : k \in of(p)}
    BY <1>4
  <2> QED  BY <1>1, <2>1, <2>2
<1>6. {q[k].number : k \in of(q)} = c + 1 .. s + 1
  <2>1. (c + 1 .. s) \cup {s + 1} = c + 1 .. s + 1
    BY <1>2
  <2> HIDE DEF of, q
  <2> QED  BY <1>2, <1>5, <2>1
<1>7. \A k \in of(p) : p[k].number < s + 1
  <2> TAKE k \in of(p)
  <2>1. p[k].number \in c + 1 .. s
    BY <1>2
  <2> QED  BY <1>2, <2>1
<1>8. \A j, k \in DOMAIN q :
        j < k /\ q[j].topic = topic /\ q[k].topic = topic => q[j].number < q[k].number
  <2> SUFFICES ASSUME NEW j \in of(q), NEW k \in of(q), j < k
               PROVE  q[j].number < q[k].number
    OBVIOUS
  <2>1. j \in of(p) /\ q[j] = p[j]
    BY <1>1
  <2>2. CASE k = n + 1
    BY <1>1, <1>7, <2>1, <2>2
  <2>3. CASE k \in of(p)
    BY <1>4, <2>1, <2>3 DEF InLine
  <2> QED  BY <1>3, <2>2, <2>3
<1>9. \A j \in DOMAIN q :
        q[j].topic = topic => q[j].payload # NonObject /\ ValidPayload(topic, q[j].payload)
  <2> SUFFICES ASSUME NEW j \in of(q)
               PROVE  q[j].payload # NonObject /\ ValidPayload(topic, q[j].payload)
    OBVIOUS
  <2> QED  BY <1>1, <1>3, <1>4 DEF InLine
<1> HIDE DEF q
<1>10. InLine(q, c, s + 1, topic)
  BY <1>2, <1>6, <1>8, <1>9 DEF InLine
<1> QED  BY <1>10 DEF q

(* ... and what has another topic does not concern it.                     *)
LEMMA LineKeepsGrowing ==
  ASSUME NEW p \in Seq(Messages), NEW c, NEW s, NEW topic, InLine(p, c, s, topic),
         NEW e \in Messages, e.topic # topic
  PROVE  InLine(Append(p, e), c, s, topic)
<1> DEFINE q == Append(p, e)
           n == Len(p)
           of(r) == {j \in DOMAIN r : r[j].topic = topic}
<1>1. /\ n \in Nat /\ DOMAIN p = 1 .. n /\ DOMAIN q = 1 .. n + 1
      /\ \A j \in 1 .. n : q[j] = p[j]
      /\ q[n + 1] = e
  BY AppendProperties, LenProperties
<1>2. of(q) = of(p) /\ \A k \in of(p) : q[k] = p[k]
  BY <1>1
<1>3. {q[k].number : k \in of(q)} = {p[k].number : k \in of(p)}
  BY <1>2
<1> HIDE DEF q
<1>4. \A j, k \in DOMAIN q :
        j < k /\ q[j].topic = topic /\ q[k].topic = topic => q[j].number < q[k].number
  <2> SUFFICES ASSUME NEW j \in of(q), NEW k \in of(q), j < k
               PROVE  q[j].number < q[k].number
    OBVIOUS
  <2> QED  BY <1>2 DEF InLine
<1>5. \A j \in DOMAIN q :
        q[j].topic = topic => q[j].payload # NonObject /\ ValidPayload(topic, q[j].payload)
  <2> SUFFICES ASSUME NEW j \in of(q)
               PROVE  q[j].payload # NonObject /\ ValidPayload(topic, q[j].payload)
    OBVIOUS
  <2> QED  BY <1>2 DEF InLine
<1>6. InLine(q, c, s, topic)
  BY <1>3, <1>4, <1>5 DEF InLine
<1> QED  BY <1>6 DEF q

(* At the head of the line stands the next number.                         *)
LEMMA LineIsServed ==
  ASSUME NEW p \in Seq(Messages), p # <<>>, NEW c, NEW s, NEW topic, InLine(p, c, s, topic),
         Head(p).topic = topic
  PROVE  /\ Head(p).number = c + 1
         /\ Head(p).payload # NonObject /\ ValidPayload(topic, Head(p).payload)
         /\ InLine(Tail(p), c + 1, s, topic)
<1> DEFINE q == Tail(p)
           n == Len(p)
           of(r) == {j \in DOMAIN r : r[j].topic = topic}
<1>1. /\ n \in Nat \ {0} /\ DOMAIN p = 1 .. n /\ DOMAIN q = 1 .. n - 1
      /\ \A j \in 1 .. n - 1 : q[j] = p[j + 1]
      /\ Head(p) = p[1]
  BY HeadTailProperties, LenProperties, EmptySeq
<1>2. c \in Nat /\ s \in Nat /\ c <= s /\ {p[k].number : k \in of(p)} = c + 1 .. s
  BY DEF InLine
<1>3. 1 \in of(p)
  BY <1>1
<1>4. \A k \in of(p) : k # 1 => p[k].number > p[1].number
  <2> SUFFICES ASSUME NEW k \in of(p), k # 1 PROVE p[k].number > p[1].number
    OBVIOUS
  <2>1. p[k].number \in c + 1 .. s /\ p[1].number \in c + 1 .. s
    BY <1>2, <1>3
  <2>2. 1 < k
    BY <1>1
  <2>3. p[1].number < p[k].number
    BY <1>3, <2>2 DEF InLine
  <2> QED  BY <1>2, <2>1, <2>3
<1>5. p[1].number = c + 1
  <2>1. p[1].number \in c + 1 .. s
    BY <1>2, <1>3
  <2>2. PICK k \in of(p) : p[k].number = c + 1
    <3>1. c + 1 \in {p[k].number : k \in of(p)}
      <4>1. c + 1 \in c + 1 .. s
        BY <1>2, <2>1
      <4> QED  BY <1>2, <4>1
    <3> QED  BY <3>1
  <2> QED  BY <1>2, <1>4, <2>1, <2>2
<1>6. \A k \in of(q) : k + 1 \in of(p) /\ q[k] = p[k + 1] /\ k + 1 # 1
  BY <1>1
<1>7. \A k \in of(p) : k # 1 => k - 1 \in of(q) /\ q[k - 1] = p[k]
  BY <1>1
<1>8. {q[k].number : k \in of(q)} = c + 2 .. s
  <2>1. ASSUME NEW k \in of(q) PROVE q[k].number \in c + 2 .. s
    <3>1. p[k + 1].number \in c + 1 .. s /\ p[k + 1].number > c + 1
      BY <1>2, <1>4, <1>5, <1>6
    <3> QED  BY <1>2, <1>6, <3>1
  <2>2. ASSUME NEW m \in c + 2 .. s PROVE \E k \in of(q) : q[k].number = m
    <3>1. m \in {p[k].number : k \in of(p)} /\ m # c + 1
      <4>1. m \in c + 1 .. s /\ m # c + 1
        BY <1>2
      <4> QED  BY <1>2, <4>1
    <3>2. PICK k \in of(p) : p[k].number = m
      BY <3>1
    <3>3. k # 1
      BY <1>5, <3>1, <3>2
    <3> QED  BY <1>7, <3>2, <3>3
  <2> QED  BY <2>1, <2>2
<1>9. \A j, k \in DOMAIN q :
        j < k /\ q[j].topic = topic /\ q[k].topic = topic => q[j].number < q[k].number
  <2> SUFFICES ASSUME NEW j \in of(q), NEW k \in of(q), j < k
               PROVE  q[j].number < q[k].number
    OBVIOUS
  <2>1. j + 1 \in of(p) /\ k + 1 \in of(p) /\ j + 1 < k + 1
    BY <1>1, <1>6
  <2> QED  BY <1>6, <2>1 DEF InLine
<1>10. \A j \in DOMAIN q :
        q[j].topic = topic => q[j].payload # NonObject /\ ValidPayload(topic, q[j].payload)
  <2> SUFFICES ASSUME NEW j \in of(q)
               PROVE  q[j].payload # NonObject /\ ValidPayload(topic, q[j].payload)
    OBVIOUS
  <2> QED  BY <1>6 DEF InLine
<1>11. c + 1 \in Nat /\ c + 1 <= s /\ (c + 1) + 1 = c + 2
  <2>1. p[1].number \in c + 1 .. s
    BY <1>2, <1>3
  <2> QED  BY <1>2, <2>1
<1>12. p[1].payload # NonObject /\ ValidPayload(topic, p[1].payload)
  BY <1>3 DEF InLine
<1> HIDE DEF q
<1>13. InLine(q, c + 1, s, topic)
  BY <1>2, <1>8, <1>9, <1>10, <1>11 DEF InLine
<1> QED  BY <1>1, <1>5, <1>12, <1>13 DEF q

LEMMA LineKeepsBeingServed ==
  ASSUME NEW p \in Seq(Messages), p # <<>>, NEW c, NEW s, NEW topic, InLine(p, c, s, topic),
         Head(p).topic # topic
  PROVE  InLine(Tail(p), c, s, topic)
<1> DEFINE q == Tail(p)
           n == Len(p)
           of(r) == {j \in DOMAIN r : r[j].topic = topic}
<1>1. /\ n \in Nat \ {0} /\ DOMAIN p = 1 .. n /\ DOMAIN q = 1 .. n - 1
      /\ \A j \in 1 .. n - 1 : q[j] = p[j + 1]
      /\ Head(p) = p[1]
  BY HeadTailProperties, LenProperties, EmptySeq
<1>2. \A k \in of(q) : k + 1 \in of(p) /\ q[k] = p[k + 1]
  BY <1>1
<1>3. \A k \in of(p) : k - 1 \in of(q) /\ q[k - 1] = p[k]
  BY <1>1
<1>4. {q[k].number : k \in of(q)} = {p[k].number : k \in of(p)}
  <2>1. ASSUME NEW k \in of(q) PROVE \E l \in of(p) : p[l].number = q[k].number
    BY <1>2
  <2>2. ASSUME NEW k \in of(p) PROVE \E l \in of(q) : q[l].number = p[k].number
    BY <1>3
  <2> HIDE DEF of, q
  <2> QED  BY <2>1, <2>2
<1>5. \A j, k \in DOMAIN q :
        j < k /\ q[j].topic = topic /\ q[k].topic = topic => q[j].number < q[k].number
  <2> SUFFICES ASSUME NEW j \in of(q), NEW k \in of(q), j < k
               PROVE  q[j].number < q[k].number
    OBVIOUS
  <2>1. j + 1 \in of(p) /\ k + 1 \in of(p) /\ j + 1 < k + 1
    BY <1>1, <1>2
  <2> QED  BY <1>2, <2>1 DEF InLine
<1>6. \A j \in DOMAIN q :
        q[j].topic = topic => q[j].payload # NonObject /\ ValidPayload(topic, q[j].payload)
  <2> SUFFICES ASSUME NEW j \in of(q)
               PROVE  q[j].payload # NonObject /\ ValidPayload(topic, q[j].payload)
    OBVIOUS
  <2> QED  BY <1>2 DEF InLine
<1> HIDE DEF q
<1>7. InLine(q, c, s, topic)
  BY <1>4, <1>5, <1>6 DEF InLine
<1> QED  BY <1>7 DEF q

LEMMA PendingType == TypeOK => InHand \in Seq(Messages) /\ Pending \in Seq(Messages)
<1> SUFFICES ASSUME TypeOK PROVE InHand \in Seq(Messages) /\ Pending \in Seq(Messages)
  OBVIOUS
<1>1. InHand \in Seq(Messages)
  BY ThreadFacts DEF InHand, TypeOK, ThreadTypeOK
<1> QED  BY <1>1, ConcatProperties DEF Pending, TypeOK, LinkTypeOK

(* With nothing in hand the line is the queue; the event in hand is its    *)
(* head.                                                                   *)
LEMMA EmptyHanded == TypeOK /\ pc[Worker] # "handle" => Pending = queue
  BY ConcatEmptySeq DEF Pending, InHand, TypeOK, LinkTypeOK

LEMMA HeadInHand ==
  ASSUME TypeOK, pc[Worker] = "handle"
  PROVE  Pending # <<>> /\ Head(Pending) = event[Worker] /\ Tail(Pending) = queue
<1> DEFINE hand == <<event[Worker]>>
<1>1. /\ hand \in Seq(Messages) /\ Len(hand) = 1 /\ hand[1] = event[Worker]
      /\ queue \in Seq(Messages) /\ Len(queue) \in Nat
  BY ThreadFacts DEF TypeOK, ThreadTypeOK, LinkTypeOK
<1>2. Pending = hand \o queue
  BY DEF Pending, InHand
<1> HIDE DEF hand
<1>3. /\ Pending \in Seq(Messages) /\ Len(Pending) = 1 + Len(queue)
      /\ \A i \in 1 .. 1 + Len(queue) :
           Pending[i] = IF i <= 1 THEN hand[i] ELSE queue[i - 1]
  BY <1>1, <1>2, ConcatProperties
<1>4. Pending # <<>> /\ Head(Pending) = event[Worker]
  BY <1>1, <1>3
<1>5. /\ Tail(Pending) \in Seq(Messages) /\ Len(Tail(Pending)) = Len(queue)
      /\ \A i \in 1 .. Len(queue) : Tail(Pending)[i] = Pending[i + 1]
  BY <1>1, <1>3, <1>4, HeadTailProperties
<1>6. \A i \in 1 .. Len(queue) : Tail(Pending)[i] = queue[i]
  <2> TAKE i \in 1 .. Len(queue)
  <2>1. i \in Nat /\ i + 1 \in 1 .. 1 + Len(queue) /\ ~(i + 1 <= 1) /\ (i + 1) - 1 = i
    BY <1>1
  <2>2. Pending[i + 1] = queue[(i + 1) - 1]
    BY <1>3, <2>1
  <2> QED  BY <1>5, <2>1, <2>2
<1> QED  BY <1>1, <1>4, <1>5, <1>6, SeqEqual

LEMMA LineInit == Init => LineInv
<1> SUFFICES ASSUME Init, NEW topic \in Topics
             PROVE  InLine(Pending, msg_sequences[topic], sent[topic], topic)
  BY DEF LineInv
<1>1. Pending = <<>>
  BY InitType, EmptyHanded, ThreadFacts DEF Init, CameraInit
<1>2. msg_sequences[topic] = 0 /\ sent[topic] = 0
  BY DEF Init, ManagerInit
<1> QED  BY <1>1, <1>2 DEF InLine

(* What the HTTP threads and the worker's later steps leave alone.         *)
LEMMA LineRests ==
  ASSUME LineInv, UNCHANGED <<Pending, sent>>,
         \A topic \in Topics : OwnNumbers(topic) => msg_sequences'[topic] = msg_sequences[topic]
  PROVE  LineInv'
  BY DEF LineInv, OwnNumbers, AllUsable

LEMMA ArriveLine ==
  ASSUME TypeOK, LineInv, NEW i \in Inputs, Arrive(i)
  PROVE  LineInv'
<1> DEFINE e == Event(i.topic, sent[i.topic] + 1, i.payload)
<1>1. /\ i.topic \in Topics /\ sent \in [Topics -> Nat] /\ e \in Messages
      /\ queue \in Seq(Messages) /\ InHand \in Seq(Messages) /\ Pending \in Seq(Messages)
  BY PendingType, ServiceAssumption DEF TypeOK, LinkTypeOK, Event, Messages
<1>2. /\ UNCHANGED <<pc, event, msg_sequences, InHand>>
      /\ sent' = [sent EXCEPT ![i.topic] = @ + 1]
  BY DEF Arrive, managerVars, InHand
<1> SUFFICES ASSUME NEW topic \in Topics, OwnNumbers(topic), AllUsable(topic)
             PROVE  InLine(Pending', msg_sequences[topic], sent'[topic], topic)
  BY <1>2 DEF LineInv, OwnNumbers, AllUsable
<1>3. InLine(Pending, msg_sequences[topic], sent[topic], topic)
  BY DEF LineInv
<1>4. CASE i.payload = NonObject /\ Transport = "hardware"
  <2>1. Pending' = Pending
    BY <1>2, <1>4 DEF Arrive, Pending
  <2>2. i.topic # topic
    BY <1>4 DEF AllUsable
  <2> QED  BY <1>1, <1>2, <1>3, <2>1, <2>2
<1>5. CASE ~(i.payload = NonObject /\ Transport = "hardware")
  <2>1. queue' = Append(queue, e)
    BY <1>5 DEF Arrive
  <2>2. Pending' = Append(Pending, e)
    <3> HIDE DEF e
    <3>1. Pending' = InHand \o (queue \o <<e>>)
      BY <1>1, <1>2, <2>1, AppendIsConcat DEF Pending
    <3>2. <<e>> \in Seq(Messages)
      BY <1>1
    <3>3. InHand \o (queue \o <<e>>) = Pending \o <<e>>
      BY <1>1, <3>2, ConcatAssociative DEF Pending
    <3> QED  BY <1>1, <3>1, <3>3, AppendIsConcat
  <2>3. e.topic = i.topic /\ e.number = sent[i.topic] + 1 /\ e.payload = i.payload
    BY DEF Event
  <2> HIDE DEF e
  <2>4. CASE i.topic = topic
    <3>1. e.payload # NonObject /\ ValidPayload(topic, e.payload)
      BY <2>3, <2>4 DEF AllUsable
    <3>2. sent'[topic] = sent[topic] + 1
      BY <1>1, <1>2, <2>4
    <3> QED  BY <1>1, <1>3, <2>2, <2>3, <2>4, <3>1, <3>2, LineGrows
  <2>5. CASE i.topic # topic
    BY <1>1, <1>2, <1>3, <2>2, <2>3, <2>5, LineKeepsGrowing
  <2> QED  BY <2>4, <2>5
<1> QED  BY <1>4, <1>5

LEMMA GetEventLine ==
  ASSUME TypeOK, TypeOK', LineInv, GetEvent
  PROVE  LineInv'
<1>1. /\ pc[Worker] = "idle" /\ pc'[Worker] = "handle" /\ event'[Worker] = Head(queue)
      /\ queue # <<>> /\ queue' = Tail(queue) /\ queue \in Seq(Messages)
      /\ UNCHANGED <<sent, msg_sequences>>
  BY ThreadFacts DEF GetEvent, Goto, managerVars, TypeOK, ThreadTypeOK, LinkTypeOK
<1>2. Pending = queue
  BY <1>1, EmptyHanded
<1>3. Pending' = <<Head(queue)>> \o Tail(queue)
  BY <1>1 DEF Pending, InHand
<1>4. <<Head(queue)>> \o Tail(queue) = queue
  <2>1. /\ Head(queue) \in Messages /\ Tail(queue) \in Seq(Messages)
        /\ Len(queue) \in Nat \ {0} /\ Len(Tail(queue)) = Len(queue) - 1
        /\ \A i \in 1 .. Len(Tail(queue)) : Tail(queue)[i] = queue[i + 1]
        /\ Head(queue) = queue[1]
    BY <1>1, HeadTailProperties, LenProperties, EmptySeq
  <2> DEFINE one == <<Head(queue)>>
  <2>2. one \in Seq(Messages) /\ Len(one) = 1 /\ one[1] = queue[1]
    BY <2>1
  <2> HIDE DEF one
  <2>3. /\ one \o Tail(queue) \in Seq(Messages) /\ Len(one \o Tail(queue)) = Len(queue)
        /\ \A i \in 1 .. Len(queue) :
             (one \o Tail(queue))[i] = IF i <= 1 THEN one[i] ELSE Tail(queue)[i - 1]
    <3>1. /\ one \o Tail(queue) \in Seq(Messages)
          /\ Len(one \o Tail(queue)) = Len(one) + Len(Tail(queue))
          /\ \A i \in 1 .. Len(one) + Len(Tail(queue)) :
               (one \o Tail(queue))[i] =
                 IF i <= Len(one) THEN one[i] ELSE Tail(queue)[i - Len(one)]
      BY <2>1, <2>2, ConcatProperties
    <3>2. Len(one) + Len(Tail(queue)) = Len(queue)
      BY <2>1, <2>2
    <3> QED  BY <2>2, <3>1, <3>2
  <2>4. \A i \in 1 .. Len(queue) : (one \o Tail(queue))[i] = queue[i]
    BY <2>1, <2>2, <2>3
  <2>5. one \o Tail(queue) = queue
    BY <1>1, <2>3, <2>4, SeqEqual
  <2> QED  BY <2>5 DEF one
<1> QED  BY <1>1, <1>2, <1>3, <1>4, LineRests

(* The manager: the event in hand is taken by its topic's line as the next *)
(* one, which the manager accepts.                                         *)
LEMMA HandleLine ==
  ASSUME TypeOK, TypeOK', LineInv, pc[Worker] = "handle",
         AcceptedEvent(Worker) \/ RejectedEvent(Worker) \/ Escapes(Worker)
  PROVE  LineInv'
<1> DEFINE e == event[Worker]
<1>1. /\ Pending \in Seq(Messages) /\ Pending # <<>> /\ Head(Pending) = e /\ Tail(Pending) = queue
      /\ e \in Messages /\ e.topic \in Topics /\ e.number \in Nat
      /\ pc \in [Threads -> Places] /\ msg_sequences \in [Topics -> Nat]
  BY PendingType, HeadInHand, ThreadFacts DEF TypeOK, ThreadTypeOK, ManagerTypeOK, Messages
<1>2. UNCHANGED <<queue, sent>> /\ pc'[Worker] # "handle"
  BY <1>1, ThreadFacts DEF AcceptedEvent, RejectedEvent, Escapes, Leave, Goto, linkVars
<1>3. Pending' = Tail(Pending)
  <2>1. InHand' = <<>> /\ queue' \in Seq(Messages)
    BY <1>2 DEF InHand, TypeOK, LinkTypeOK
  <2> QED  BY <1>1, <1>2, <2>1, ConcatEmptySeq DEF Pending
<1> SUFFICES ASSUME NEW topic \in Topics, OwnNumbers(topic), AllUsable(topic)
             PROVE  InLine(Pending', msg_sequences'[topic], sent'[topic], topic)
  BY DEF LineInv, OwnNumbers, AllUsable
<1>4. InLine(Pending, msg_sequences[topic], sent[topic], topic)
  BY DEF LineInv
<1>5. CASE e.topic = topic
  <2>1. /\ e.number = msg_sequences[topic] + 1
        /\ e.payload # NonObject /\ ValidPayload(topic, e.payload)
        /\ InLine(Tail(Pending), msg_sequences[topic] + 1, sent[topic], topic)
    BY <1>1, <1>4, <1>5, LineIsServed
  <2>2. Accepts(e)
    BY <1>1, <1>5, <2>1, NumberAssumption DEF Accepts
  <2>3. AcceptedEvent(Worker)
    BY <2>1, <2>2 DEF RejectedEvent, RejectEvent, Escapes, Raises, Overflows, ValidPayload
  <2>4. msg_sequences'[topic] = msg_sequences[topic] + 1
    BY <1>1, <1>5, <2>1, <2>3 DEF AcceptedEvent, AcceptEvent
  <2> QED  BY <1>2, <1>3, <2>1, <2>4
<1>6. CASE e.topic # topic
  <2>1. msg_sequences'[topic] = msg_sequences[topic]
    BY <1>1, <1>6 DEF AcceptedEvent, AcceptEvent, RejectedEvent, RejectEvent, Escapes, managerVars
  <2> QED  BY <1>1, <1>2, <1>3, <1>4, <1>6, <2>1, LineKeepsBeingServed
<1> QED  BY <1>5, <1>6

LEMMA NextLine == CameraInv /\ TypeOK' /\ LineInv /\ [Next]_vars => LineInv'
<1> SUFFICES ASSUME CameraInv, TypeOK', LineInv, [Next]_vars PROVE LineInv'
  OBVIOUS
<1>0. TypeOK /\ NumbersReserved /\ pc \in [Threads -> Places] /\ msg_sequences \in [Topics -> Nat]
  BY DEF CameraInv, TypeOK, ThreadTypeOK, ManagerTypeOK
<1>1. ASSUME NEW i \in Inputs, Arrive(i) PROVE LineInv'
  BY <1>0, <1>1, ArriveLine
<1>2. CASE GetEvent
  BY <1>0, <1>2, GetEventLine
<1>3. ASSUME NEW t \in HttpThreads, Request(t) \/ Capture(t) PROVE LineInv'
  <2>1. /\ t \in Threads /\ t # Worker /\ UNCHANGED <<queue, sent, msg_sequences>>
        /\ pc'[Worker] = pc[Worker] /\ event'[Worker] = event[Worker]
    <3>0. t \in Threads /\ t # Worker /\ DOMAIN event = Threads
      BY <1>0, ThreadFacts, ThreadAssumption DEF TypeOK, ThreadTypeOK
    <3>1. CASE Request(t)
      BY <1>0, <3>0, <3>1, ThreadFacts
         DEF Request, RequestStep, TakeCamera, CameraBusy, RequestArrives, managerVars, linkVars, Goto
    <3>2. CASE Capture(t)
      BY <1>0, <3>0, <3>2, ThreadFacts
         DEF Capture, CaptureStep, CheckFull, ReadPlate, CameraFails, ReserveSequence,
             AbandonCapture, managerVars, linkVars, Goto
    <3> QED  BY <1>3, <3>0, <3>1, <3>2
  <2> QED  BY <2>1, LineRests DEF Pending, InHand
<1>4. ASSUME NEW t \in Threads, ProcessStep(t) PROVE LineInv'
  <2>1. UNCHANGED <<queue, sent>>
    BY <1>4 DEF ProcessStep, AcceptedEvent, RejectedEvent, Escapes, ReadInit, ReadGoal,
                TruncateFile, WriteFile, RunPlanner, RunFails, PublishCommand, PublishFails,
                ApplyEffect, ClearFlag, Finish, linkVars
  <2>2. KeepsCamera(t) /\ pc'[t] # "handle"
    BY <1>0, <1>4, ProcessKeepsCamera
  <2>3. ~AcceptedEvent(t) => UNCHANGED msg_sequences
    BY <1>4 DEF ProcessStep, RejectedEvent, RejectEvent, Escapes, ReadInit, ReadGoal, TruncateFile,
                WriteFile, RunPlanner, RunFails, PublishCommand, PublishFails, ApplyEffect,
                ClearFlag, Finish, managerVars
  <2>4. CASE t = Worker /\ pc[Worker] = "handle"
    <3>1. AcceptedEvent(Worker) \/ RejectedEvent(Worker) \/ Escapes(Worker)
      BY <1>4, <2>4 DEF ProcessStep, ReadInit, ReadGoal, TruncateFile, WriteFile, RunPlanner,
                        RunFails, PublishCommand, PublishFails, ApplyEffect, ClearFlag, Finish
    <3> QED  BY <1>0, <2>4, <3>1, HandleLine
  <2>5. CASE t = Worker /\ pc[Worker] # "handle"
    <3>1. UNCHANGED <<Pending, msg_sequences>>
      BY <1>0, <2>1, <2>2, <2>3, <2>5, EmptyHanded DEF AcceptedEvent, Pending, InHand
    <3> QED  BY <2>1, <3>1, LineRests
  <2>6. CASE t # Worker
    <3>1. t \in HttpThreads /\ UNCHANGED Pending
      BY <2>1, <2>2, <2>6, ThreadFacts DEF KeepsCamera, Pending, InHand, Threads
    <3>2. ASSUME NEW topic \in Topics, OwnNumbers(topic)
          PROVE  msg_sequences'[topic] = msg_sequences[topic]
      <4>1. topic \notin EventTopics
        BY <3>1, <3>2 DEF OwnNumbers
      <4>2. AcceptedEvent(t) =>
              /\ event[t].topic \in EventTopics
              /\ msg_sequences' = [msg_sequences EXCEPT ![event[t].topic] = event[t].number]
        BY <1>0, <3>1 DEF AcceptedEvent, AcceptEvent, NumbersReserved
      <4> QED  BY <1>0, <2>3, <4>1, <4>2
    <3> QED  BY <2>1, <3>1, <3>2, LineRests
  <2> QED  BY <2>4, <2>5, <2>6
<1>5. CASE UNCHANGED vars
  BY <1>5, LineRests DEF vars, managerVars, cameraVars, linkVars, Pending, InHand
<1> QED  BY <1>1, <1>2, <1>3, <1>4, <1>5, ThreadFacts DEF Next, HttpStep, WorkerStep

(* With any number of HTTP threads, whatever plans and files do to the     *)
(* cycles: as long as the messages of a topic are usable and nobody else   *)
(* numbers them, the ones the manager has not counted are exactly those    *)
(* that still wait for the worker -- none is lost between the callback     *)
(* and the manager, handled twice, overtaken, or refused for its number.   *)
THEOREM NothingIsSkipped == SafetySpec => []NoMessageSkipped
<1>1. LineInv => NoMessageSkipped
  BY DEF LineInv, InLine, NoMessageSkipped, Waiting
<1>2. CameraInv => TypeOK
  BY DEF CameraInv
<1> QED  BY <1>1, <1>2, CameraInit_Inv, Next_Inv, LineInit, NextLine, PTL DEF SafetySpec

--------------------------------------------------------------------------------
(* The refinement. *)

(* GarageControl's operators are those of the service.                     *)
LEMMA SameModel ==
  ASSUME NEW c, NEW topic, NEW payload, NEW done, NEW goal
  PROVE  /\ Abstract!InitialContext = InitialContext
         /\ Abstract!ValidPayload(topic, payload) <=> ValidPayload(topic, payload)
         /\ Abstract!Update(c, topic, payload) = Update(c, topic, payload)
         /\ Abstract!Execute(c, done, goal) = Execute(c, done, goal)
         /\ Abstract!Generate(c) = Generate(c)
         /\ Abstract!GoalPredicates(c) = GoalPredicates(c)
         /\ Abstract!EventTopics = EventTopics
<1>1. Abstract!InitialContext = InitialContext
  BY DEF Abstract!InitialContext, InitialContext, Abstract!Positions, Positions, Abstract!Actuators,
         Actuators, Abstract!Gates, Gates
<1>2. Abstract!ValidPayload(topic, payload) <=> ValidPayload(topic, payload)
  BY DEF Abstract!ValidPayload, ValidPayload, Abstract!EventTopics, EventTopics
<1>3. Abstract!Update(c, topic, payload) = Update(c, topic, payload)
  BY DEF Abstract!Update, Update, Abstract!UpdateTemperature, UpdateTemperature, Abstract!UpdateLight,
         UpdateLight, Abstract!UpdateParking, UpdateParking, Abstract!UpdateVehicleEntry,
         UpdateVehicleEntry, Abstract!UpdateVehicleLeave, UpdateVehicleLeave
<1>4. Abstract!Execute(c, done, goal) = Execute(c, done, goal)
  BY DEF Abstract!Execute, Execute, Abstract!Actuators, Actuators, Abstract!Gates, Gates
<1>5. Abstract!GoalPredicates(c) = GoalPredicates(c)
  BY DEF Abstract!GoalPredicates, GoalPredicates, Abstract!Actuators, Actuators, Abstract!Gates, Gates,
         Abstract!TemperatureIsHigh, TemperatureIsHigh, Abstract!LuxIsDark, LuxIsDark,
         Abstract!GarageIsFull, GarageIsFull, Abstract!Positions, Positions
<1>6. Abstract!InitPredicates(c) = InitPredicates(c)
  BY DEF Abstract!InitPredicates, InitPredicates,
         Abstract!TemperatureIsHigh, TemperatureIsHigh, Abstract!LuxIsDark, LuxIsDark,
         Abstract!GarageIsFull, GarageIsFull, Abstract!Positions, Positions
<1>7. Abstract!Generate(c) = Generate(c)
  BY <1>5, <1>6 DEF Abstract!Generate, Generate
<1> QED  BY <1>1, <1>2, <1>3, <1>4, <1>5, <1>7 DEF Abstract!EventTopics, EventTopics

--------------------------------------------------------------------------------
(* What process_event has in hand, compared with the garage as it was      *)
(* before: Taken is the context once the message was accepted, Plan and    *)
(* Goal are what is generated from it.                                     *)
W == Worker

FromInputs(e) == \E i \in Inputs : i.topic = e.topic /\ i.payload = e.payload

Taken == Update(garage, event[W].topic, event[W].payload)
Plan  == Switched(Generate(Taken))
Goal  == GoalPredicates(Taken)
Done  == Plan \ todo[W]

OriginInv ==
  /\ queue \in Seq({e \in Messages : FromInputs(e)})
  /\ pc[W] # "idle" => FromInputs(event[W])

TakenInv ==
  /\ pc[W] \in {"idle", "handle"} => garage = context
  /\ pc[W] \in Reading \cup Executing =>
       /\ Taken \in Contexts /\ ValidPayload(event[W].topic, event[W].payload)
       /\ event[W].payload # NonObject
  /\ pc[W] \in Reading => context = Taken

(* The context holds the part of the plan that has been carried out, but   *)
(* for the action in hand.                                                 *)
ProgressInv ==
  pc[W] \in Executing =>
    /\ problem[W] = Generate(Taken) /\ todo[W] \subseteq Plan
    /\ pc[W] = "execute" => context = Execute(Taken, Done, Goal)
    /\ pc[W] = "apply" =>
         current[W] \in Done /\ context = Execute(Taken, Done \ {current[W]}, Goal)
    /\ pc[W] = "clear" =>
         /\ current[W] \in Done /\ ClearsWaiting(current[W], Goal[current[W]])
         /\ context = SetActuator(Execute(Taken, Done \ {current[W]}, Goal),
                                  current[W], Goal[current[W]])

HistoryInv == OriginInv /\ TakenInv /\ ProgressInv

(* A step of the worker that only moves on within its reading. *)
LEMMA HistoryReads ==
  ASSUME WorkerInv, HistoryInv, UNCHANGED <<context, event, queue, garage>>,
         \/ pc[W] = "idle" /\ pc'[W] = "idle"
         \/ pc'[W] = "dead" /\ pc[W] # "idle"
         \/ pc[W] \in Reading /\ pc'[W] \in Reading
  PROVE  HistoryInv'
<1>1. OriginInv'
  BY DEF HistoryInv, OriginInv, FromInputs, Messages, Reading
<1>2. TakenInv'
  BY DEF HistoryInv, TakenInv, Taken, Reading, Executing
<1>3. ProgressInv'
  BY DEF ProgressInv, Reading, Executing
<1> QED  BY <1>1, <1>2, <1>3 DEF HistoryInv

(* Where process_event returns after carrying out done of the plan.        *)
LEMMA AbstractAccept ==
  ASSUME NEW done \in SUBSET Plan, FromInputs(event[W]),
         ValidPayload(event[W].topic, event[W].payload), event[W].payload # NonObject,
         done = Plan \/ PublishFaults # {} \/ Backend = "fd",
         garage' = Execute(Taken, done, Goal)
  PROVE  Abstract!Next
<1>1. PICK i \in {j \in Inputs : j.payload # NonObject} :
        i.topic = event[W].topic /\ i.payload = event[W].payload
  BY DEF FromInputs
<1>2. /\ Abstract!Update(garage, i.topic, i.payload) = Taken
      /\ Abstract!ValidPayload(i.topic, i.payload)
      /\ Abstract!Generate(Taken) = Generate(Taken)
      /\ Abstract!GoalPredicates(Taken) = Goal
      /\ Abstract!Execute(Taken, done, Goal) = Execute(Taken, done, Goal)
  BY <1>1, SameModel DEF Taken, Goal
<1>3. Abstract!Switched(Abstract!Generate(Taken)) = Plan
  BY <1>2 DEF Abstract!Switched, Switched, Plan, Abstract!Actuators, Actuators, Abstract!Gates, Gates
<1>4. done \in Abstract!Executed(Taken)
  BY <1>3 DEF Abstract!Executed
<1>5. Abstract!Accept(i)
  BY <1>2, <1>4 DEF Abstract!Accept
<1>6. Abstract!Sense(i) \/ Abstract!Vehicle(i)
  BY <1>5 DEF Abstract!Sense, Abstract!Vehicle
<1> QED  BY <1>6 DEF Abstract!Next

(* process_event returns: the garage is what the context is.               *)
LEMMA HistoryRests ==
  ASSUME HistoryInv, UNCHANGED queue, pc'[W] = "idle", garage' = context'
  PROVE  HistoryInv'
  BY DEF HistoryInv, OriginInv, TakenInv, ProgressInv, Reading, Executing, FromInputs, Messages

LEMMA HistoryProcesses ==
  ASSUME WorkerAlone, WorkerInv, TypeOK', HistoryInv, ProcessStep(W),
         garage' = IF pc'[W] = "idle" THEN context' ELSE garage
  PROVE  HistoryInv' /\ (Abstract!Next \/ UNCHANGED garage)
<1>0. /\ W \in Threads /\ pc \in [Threads -> Places] /\ context \in Contexts
      /\ event[W] = event[Worker] /\ DOMAIN event = Threads
      /\ problem \in [Threads -> Problems] /\ todo \in [Threads -> SUBSET Actuators]
      /\ current \in [Threads -> Actuators \cup {None}]
      /\ OriginInv /\ TakenInv /\ ProgressInv /\ RecordInv /\ ReadInv
  BY ThreadFacts DEF WorkerInv, TypeOK, ManagerTypeOK, ThreadTypeOK, ExecutionTypeOK, HistoryInv, W
<1> USE <1>0 DEF Goto
<1>e. pc[W] \in Executing =>
        /\ Taken \in Contexts /\ Goal \in GoalSections /\ Plan \subseteq Actuators
        /\ Done \subseteq Plan /\ FromInputs(event[W])
        /\ ValidPayload(event[W].topic, event[W].payload) /\ event[W].payload # NonObject
        /\ problem[W].goal = Goal
  BY GenerateType DEF TakenInv, ProgressInv, OriginInv, Goal, Plan, Done, Switched, Generate, Executing
<1>o. UNCHANGED <<queue, event>> /\ pc[W] # "idle" => OriginInv'
  BY DEF OriginInv, FromInputs, Messages
<1>1. CASE AcceptedEvent(W)
  <2>1. /\ pc[W] = "handle" /\ pc'[W] = "read_init" /\ UNCHANGED <<queue, event, garage>>
        /\ garage = context /\ event[W].payload # NonObject
        /\ ValidPayload(event[W].topic, event[W].payload)
        /\ context' = Update(context, event[W].topic, event[W].payload)
    BY <1>1 DEF AcceptedEvent, AcceptEvent, Accepts, Raises, linkVars, TakenInv
  <2>2. context' = Taken /\ Taken' = Taken
    BY <2>1 DEF Taken
  <2>3. Taken' \in Contexts
    BY <2>2 DEF TypeOK, ManagerTypeOK
  <2>4. TakenInv' /\ ProgressInv'
    BY <2>1, <2>2, <2>3 DEF TakenInv, ProgressInv, Reading, Executing
  <2> QED  BY <1>o, <2>1, <2>4 DEF HistoryInv
<1>2. CASE RejectedEvent(W)
  <2>1. /\ pc[W] = "handle" /\ pc'[W] = "idle" /\ UNCHANGED <<queue, context>>
    BY <1>2 DEF RejectedEvent, RejectEvent, Leave, linkVars, managerVars
  <2>2. garage' = context' /\ garage = context
    BY <2>1 DEF TakenInv
  <2> QED  BY <2>1, <2>2, HistoryRests
<1>3. CASE Escapes(W)
  <2>1. /\ pc[W] # "idle" /\ pc'[W] = "dead" /\ UNCHANGED <<context, event, queue, garage>>
    BY <1>3 DEF Escapes, managerVars, linkVars, W
  <2> QED  BY <2>1, HistoryReads
<1>4. CASE ReadInit(W) \/ ReadGoal(W) \/ TruncateFile(W) \/ WriteFile(W)
  <2>1. /\ pc[W] \in Reading /\ pc'[W] \in Reading \ {"idle"}
        /\ UNCHANGED <<context, event, queue>>
    BY <1>4 DEF ReadInit, ReadGoal, TruncateFile, WriteFile, managerVars, linkVars, Reading
  <2>2. UNCHANGED garage
    BY <2>1 DEF Reading
  <2> QED  BY <2>1, <2>2, HistoryReads
<1>5. CASE RunFails(W)
  <2>1. /\ pc[W] = "run" /\ pc'[W] = "idle" /\ UNCHANGED <<queue, context>>
        /\ Backend = "fd"
    BY <1>5 DEF RunFails, FailWith, Leave, linkVars, managerVars, BackendFails
  <2>2. /\ Taken \in Contexts /\ context = Taken /\ FromInputs(event[W])
        /\ ValidPayload(event[W].topic, event[W].payload) /\ event[W].payload # NonObject
    BY <2>1 DEF TakenInv, Reading, OriginInv
  <2>3. garage' = Execute(Taken, {}, Goal)
    BY <2>1, <2>2, ExecuteNothing, GenerateType DEF Goal
  <2> QED  BY <2>1, <2>2, <2>3, AbstractAccept, HistoryRests
<1>6. CASE RunPlanner(W)
  <2>1. /\ pc[W] = "run" /\ pc'[W] = "execute" /\ UNCHANGED <<context, queue, event, garage>>
        /\ problem'[W] = problem[W] /\ todo'[W] = Switched(problem[W])
    BY <1>6, ValueAssumption DEF RunPlanner, managerVars, linkVars, ReadInv, W
  <2>2. Taken \in Contexts /\ context = Taken
        /\ ValidPayload(event[W].topic, event[W].payload) /\ event[W].payload # NonObject
    BY <2>1 DEF TakenInv, Reading
  <2>3. problem[W] = Generate(Taken)
    <3>1. problem[W].init = InitPredicates(Taken) /\ problem[W].goal = GoalPredicates(Taken)
      BY <2>1, <2>2 DEF ReadInv, W
    <3> QED  BY <3>1 DEF Generate, Problems
  <2>4. Taken' = Taken /\ Plan' = Plan /\ Goal' = Goal
    BY <2>1 DEF Taken, Plan, Goal
  <2>5. Done' = {} /\ todo'[W] = Plan'
    BY <2>1, <2>3, <2>4 DEF Done, Plan
  <2>6. context' = Execute(Taken', Done', Goal')
    BY <2>1, <2>2, <2>4, <2>5, ExecuteNothing, GenerateType DEF Goal
  <2>7. ProgressInv'
    BY <2>1, <2>3, <2>4, <2>5, <2>6 DEF ProgressInv
  <2>8. TakenInv'
    BY <2>1, <2>2, <2>4 DEF TakenInv, Reading
  <2> QED  BY <1>o, <2>1, <2>7, <2>8 DEF HistoryInv
<1>7. ASSUME NEW a \in Actuators, PublishCommand(W, a)
      PROVE  HistoryInv' /\ UNCHANGED garage
  <2>1. /\ pc[W] = "execute" /\ pc'[W] = "apply" /\ current'[W] = a /\ a \in todo[W]
        /\ UNCHANGED <<context, queue, event, garage, problem>>
        /\ todo'[W] = todo[W] \ {a}
    BY <1>7 DEF PublishCommand, MayComeNext, managerVars, linkVars
  <2>2. Taken' = Taken /\ Plan' = Plan /\ Goal' = Goal
    BY <2>1 DEF Taken, Plan, Goal
  <2>3. a \in Done' /\ Done' \ {a} = Done /\ todo'[W] \subseteq Plan'
    BY <2>1, <2>2 DEF Done, ProgressInv, Executing
  <2>4. ProgressInv'
    BY <2>1, <2>2, <2>3 DEF ProgressInv, Executing
  <2>5. TakenInv'
    BY <2>1, <2>2 DEF TakenInv, Reading, Executing
  <2> QED  BY <1>o, <2>1, <2>4, <2>5 DEF HistoryInv
<1>8. ASSUME NEW a \in Actuators, PublishFails(W, a)
      PROVE  HistoryInv' /\ (Abstract!Next \/ UNCHANGED garage)
  <2>1. /\ pc[W] = "execute" /\ pc'[W] = "idle" /\ UNCHANGED <<queue, context>>
        /\ PublishFaults # {}
    BY <1>8 DEF PublishFails, FailWith, Leave, linkVars, managerVars
  <2>2. garage' = Execute(Taken, Done, Goal)
    BY <2>1 DEF ProgressInv, Executing
  <2> QED  BY <1>e, <2>1, <2>2, AbstractAccept, HistoryRests DEF Executing
<1>9. CASE ApplyEffect(W)
  <2> DEFINE a == current[W]
             done == Done \ {a}
  <2>1. /\ pc[W] = "apply" /\ UNCHANGED <<queue, event, problem, todo, garage>>
        /\ context' = SetActuator(context, a, Goal[a])
        /\ IF ClearsWaiting(a, Goal[a])
           THEN pc'[W] = "clear" /\ current'[W] = a
           ELSE pc'[W] = "execute"
    BY <1>9, <1>e DEF ApplyEffect, Target, linkVars, Executing
  <2>2. /\ a \in Done /\ done \in SUBSET Actuators /\ a \in Actuators /\ done \cup {a} = Done
        /\ context = Execute(Taken, done, Goal) /\ Taken \in Contexts /\ Goal \in GoalSections
    BY <1>e, <2>1 DEF ProgressInv, Executing
  <2>3. Taken' = Taken /\ Plan' = Plan /\ Goal' = Goal /\ Done' = Done
    BY <2>1 DEF Taken, Plan, Goal, Done
  <2>4. ClearsWaiting(a, Goal[a]) \/ context' = Execute(Taken, Done, Goal)
    <3> HIDE DEF a, done
    <3> DEFINE d == SetActuator(Execute(Taken, done, Goal), a, Goal[a])
    <3>1. Execute(Taken, done \cup {a}, Goal)
            = IF ClearsWaiting(a, Goal[a]) THEN ClearWaiting(d, a) ELSE d
      BY <2>2, ExecuteOneMore
    <3> QED  BY <2>1, <2>2, <3>1
  <2>5. ProgressInv'
    <3>1. problem[W] = Generate(Taken) /\ todo[W] \subseteq Plan
      BY <2>1 DEF ProgressInv, Executing
    <3>2. CASE ClearsWaiting(a, Goal[a])
      BY <2>1, <2>2, <2>3, <3>1, <3>2 DEF ProgressInv
    <3>3. CASE ~ClearsWaiting(a, Goal[a])
      BY <2>1, <2>3, <2>4, <3>1, <3>3 DEF ProgressInv
    <3> QED  BY <3>2, <3>3
  <2>6. TakenInv'
    BY <2>1, <2>3 DEF TakenInv, Reading, Executing
  <2> QED  BY <1>o, <2>1, <2>5, <2>6 DEF HistoryInv
<1>10. CASE ClearFlag(W)
  <2> DEFINE a == current[W]
             done == Done \ {a}
  <2>1. /\ pc[W] = "clear" /\ pc'[W] = "execute"
        /\ UNCHANGED <<queue, event, problem, todo, garage>>
        /\ context' = ClearWaiting(context, a)
    BY <1>10 DEF ClearFlag, linkVars
  <2>2. /\ a \in Done /\ done \in SUBSET Actuators /\ a \in Actuators /\ done \cup {a} = Done
        /\ ClearsWaiting(a, Goal[a]) /\ Taken \in Contexts /\ Goal \in GoalSections
        /\ context = SetActuator(Execute(Taken, done, Goal), a, Goal[a])
    BY <1>e, <2>1 DEF ProgressInv, Executing
  <2>3. Taken' = Taken /\ Plan' = Plan /\ Goal' = Goal /\ Done' = Done
    BY <2>1 DEF Taken, Plan, Goal, Done
  <2>4. context' = Execute(Taken, Done, Goal)
    <3> HIDE DEF a, done
    <3> DEFINE d == SetActuator(Execute(Taken, done, Goal), a, Goal[a])
    <3>1. Execute(Taken, done \cup {a}, Goal)
            = IF ClearsWaiting(a, Goal[a]) THEN ClearWaiting(d, a) ELSE d
      BY <2>2, ExecuteOneMore
    <3> QED  BY <2>1, <2>2, <3>1
  <2>5. ProgressInv'
    BY <2>1, <2>3, <2>4 DEF ProgressInv, Executing
  <2>6. TakenInv'
    BY <2>1, <2>3 DEF TakenInv, Reading, Executing
  <2> QED  BY <1>o, <2>1, <2>5, <2>6 DEF HistoryInv
<1>11. CASE Finish(W)
  <2>1. /\ pc[W] = "execute" /\ pc'[W] = "idle" /\ todo[W] = {} /\ UNCHANGED <<queue, context>>
    BY <1>11 DEF Finish, Leave, linkVars, managerVars
  <2>2. Done = Plan /\ garage' = Execute(Taken, Plan, Goal)
    BY <2>1 DEF Done, ProgressInv, Executing
  <2> QED  BY <1>e, <2>1, <2>2, AbstractAccept, HistoryRests DEF Executing
<1> QED  BY <1>1, <1>2, <1>3, <1>4, <1>5, <1>6, <1>7, <1>8, <1>9, <1>10, <1>11 DEF ProcessStep

LEMMA HistoryNext ==
  ASSUME WorkerAlone, WorkerInv, HistoryInv, [HNext]_<<vars, garage>>
  PROVE  HistoryInv' /\ (Abstract!Next \/ UNCHANGED garage)
<1>0. TypeOK' /\ W \in Threads /\ pc \in [Threads -> Places] /\ DOMAIN event = Threads
  BY NextType, ThreadFacts DEF WorkerInv, TypeOK, ThreadTypeOK, HNext, vars, W
<1>1. CASE GetEvent /\ HNext
  <2>1. /\ pc[W] = "idle" /\ queue # <<>> /\ pc'[W] = "handle" /\ UNCHANGED context
        /\ event'[W] = Head(queue) /\ queue' = Tail(queue)
    BY <1>0, <1>1 DEF GetEvent, Goto, managerVars, W
  <2>2. garage' = garage /\ garage = context
    BY <1>1, <2>1 DEF HNext, HistoryInv, TakenInv, W
  <2>3. OriginInv'
    BY <2>1 DEF HistoryInv, OriginInv, FromInputs, Messages
  <2>4. TakenInv' /\ ProgressInv'
    BY <2>1, <2>2 DEF TakenInv, ProgressInv, Reading, Executing
  <2> QED  BY <2>2, <2>3, <2>4 DEF HistoryInv
<1>2. ASSUME NEW i \in Inputs, Arrive(i), HNext PROVE HistoryInv' /\ UNCHANGED garage
  <2>1. UNCHANGED <<pc, context, event, problem, todo, current>>
    BY <1>2 DEF Arrive, managerVars, executionVars
  <2>2. UNCHANGED garage
    BY <1>2, <2>1 DEF HNext, HistoryInv, TakenInv, W
  <2>3. OriginInv'
    <3>1. Event(i.topic, sent[i.topic] + 1, i.payload) \in {e \in Messages : FromInputs(e)}
      <4>1. i.topic \in Topics /\ sent[i.topic] \in Nat
        BY ServiceAssumption DEF WorkerInv, TypeOK, LinkTypeOK
      <4> QED  BY <4>1, ServiceAssumption DEF Event, Messages, FromInputs
    <3>2. queue' \in Seq({e \in Messages : FromInputs(e)})
      BY <1>2, <3>1 DEF Arrive, HistoryInv, OriginInv
    <3> QED  BY <2>1, <3>2 DEF HistoryInv, OriginInv, FromInputs, Messages
  <2>4. TakenInv' /\ ProgressInv'
    BY <2>1, <2>2 DEF HistoryInv, TakenInv, ProgressInv, Taken, Plan, Goal, Done
  <2> QED  BY <2>2, <2>3, <2>4 DEF HistoryInv
<1>3. CASE UNCHANGED <<vars, garage>>
  <2>1. UNCHANGED <<pc, context, event, queue, problem, todo, current, garage>>
    BY <1>3 DEF vars, managerVars, linkVars, executionVars
  <2>2. OriginInv'
    BY <2>1 DEF HistoryInv, OriginInv, FromInputs, Messages
  <2>3. TakenInv' /\ ProgressInv'
    BY <2>1 DEF HistoryInv, TakenInv, ProgressInv, Taken, Plan, Goal, Done
  <2> QED  BY <2>1, <2>2, <2>3 DEF HistoryInv
<1>4. CASE ProcessStep(W) /\ HNext
  BY <1>0, <1>4, HistoryProcesses DEF HNext, W
<1> QED  BY <1>1, <1>2, <1>3, <1>4 DEF HNext, Next, WorkerStep, WorkerAlone, W

(* Between two messages the garage changes as GarageControl says, for a    *)
(* garage of any size, any messages, either backend, and whether or not    *)
(* publish fails: whatever happens inside process_event, what the worker   *)
(* leaves behind is the accepted message and a part of its plan, all of it *)
(* unless the planner or publish raised.                                   *)
THEOREM WorkerImplementsControl ==
  ASSUME WorkerAlone PROVE HSpec => ImplementsGarageControl
<1>1. HInit => WorkerInv /\ HistoryInv /\ Abstract!Init
  <2> SUFFICES ASSUME HInit PROVE WorkerInv /\ HistoryInv /\ Abstract!Init
    OBVIOUS
  <2>1. /\ pc[W] = "idle" /\ queue = <<>> /\ garage = context /\ context = InitialContext
    BY ThreadFacts DEF HInit, Init, CameraInit, ManagerInit, W
  <2>2. HistoryInv
    BY <2>1 DEF HistoryInv, OriginInv, TakenInv, ProgressInv, Reading, Executing
  <2>3. Abstract!Init
    BY <2>1, SameModel DEF Abstract!Init
  <2> QED  BY <2>2, <2>3, InitWorker DEF HInit
<1>2. WorkerInv /\ [HNext]_<<vars, garage>> => WorkerInv'
  BY NextWorker DEF HNext, vars
<1>3. WorkerInv /\ HistoryInv /\ [HNext]_<<vars, garage>>
        => HistoryInv' /\ [Abstract!Next]_garage
  BY HistoryNext
<1> QED  BY <1>1, <1>2, <1>3, PTL DEF HSpec, ImplementsGarageControl, Abstract!SafetySpec

--------------------------------------------------------------------------------
(* Quiet cycles.  What the thread of one has read is read from its origin; *)
(* after that the context is its origin with the actions carried out, but  *)
(* for the one in hand, and the actuators have their commands.             *)
QuietRead(t) ==
  /\ pc[t] \in Reading => context = origin
  /\ pc[t] \in Reading \ {"read_init"} => problem[t].init = InitPredicates(origin)
  /\ pc[t] \in {"truncate", "write", "run"} => problem[t].goal = GoalPredicates(origin)
  /\ pc[t] = "run" => problem_file = problem[t]

QuietProgress(t) ==
  pc[t] \in Executing =>
    /\ problem[t] = Generate(origin) /\ todo[t] \subseteq Switched(Generate(origin))
    /\ \A a \in CarriedOut(t) : published[a] = GoalPredicates(origin)[a]
    /\ pc[t] = "execute" => context = Execute(origin, CarriedOut(t), GoalPredicates(origin))
    /\ pc[t] = "apply" =>
         /\ current[t] \in CarriedOut(t)
         /\ context = Execute(origin, CarriedOut(t) \ {current[t]}, GoalPredicates(origin))
    /\ pc[t] = "clear" =>
         LET a == current[t]
             v == GoalPredicates(origin)[a]
         IN  /\ a \in CarriedOut(t) /\ ClearsWaiting(a, v)
             /\ context = SetActuator(Execute(origin, CarriedOut(t) \ {a}, GoalPredicates(origin)),
                                      a, v)

Quiet(t) == origin \in Contexts /\ QuietRead(t) /\ QuietProgress(t)

QuietInv == TypeOK /\ \A t \in alone : Running = {t} /\ Quiet(t)

(* Nothing Quiet(t) looks at has changed. *)
LEMMA QuietKept ==
  ASSUME NEW t, Quiet(t), UNCHANGED <<context, origin, published, problem_file>>,
         pc'[t] = pc[t], problem'[t] = problem[t], todo'[t] = todo[t], current'[t] = current[t]
  PROVE  Quiet(t)'
<1>1. CarriedOut(t)' = CarriedOut(t)
  BY DEF CarriedOut
<1>2. QuietRead(t)'
  BY DEF Quiet, QuietRead
<1>3. QuietProgress(t)'
  BY <1>1 DEF Quiet, QuietProgress
<1> QED  BY <1>2, <1>3 DEF Quiet

(* The camera, the queue, and a handler that refuses its event, write      *)
(* nothing a cycle of another thread uses; all else happens in a cycle.    *)
LEMMA OthersAreQuiet ==
  ASSUME TypeOK, [Next]_vars, NEW t \in Threads, Running = {t}, Running' = {t}, ~ProcessStep(t)
  PROVE  /\ UNCHANGED <<context, published, problem_file>>
         /\ pc'[t] = pc[t] /\ problem'[t] = problem[t]
         /\ todo'[t] = todo[t] /\ current'[t] = current[t]
<1>0. /\ pc \in [Threads -> Places] /\ Worker \in Threads /\ HttpThreads \subseteq Threads
      /\ problem \in [Threads -> Problems] /\ todo \in [Threads -> SUBSET Actuators]
      /\ current \in [Threads -> Actuators \cup {None}]
      /\ pc[t] \in Reading \cup Executing
  BY ThreadFacts DEF TypeOK, ThreadTypeOK, ExecutionTypeOK, Running
<1> USE <1>0 DEF Goto
<1>1. ASSUME NEW i \in Inputs, Arrive(i) PROVE UNCHANGED <<managerVars, pc, sharedVars, executionVars>>
  BY <1>1 DEF Arrive
<1>2. ASSUME NEW u \in HttpThreads, Request(u) \/ Capture(u)
      PROVE  UNCHANGED <<managerVars, sharedVars, executionVars>> /\ pc'[t] = pc[t]
  <2>1. u # t => pc'[t] = pc[t]
    BY <1>2 DEF Request, RequestStep, TakeCamera, CameraBusy, RequestArrives, Capture, CaptureStep,
                CheckFull, ReadPlate, CameraFails, ReserveSequence, AbandonCapture
  <2>2. pc[u] \in {"idle"} \cup Capturing \/ pc' = pc
    BY <1>2 DEF Request, RequestStep, TakeCamera, CameraBusy, RequestArrives, Capture, CaptureStep,
                CheckFull, ReadPlate, CameraFails, ReserveSequence, Capturing
  <2>3. UNCHANGED <<managerVars, sharedVars, executionVars>>
    BY <1>2 DEF Request, RequestStep, TakeCamera, CameraBusy, Capture, CaptureStep,
                CheckFull, ReadPlate, CameraFails, ReserveSequence, AbandonCapture
  <2> QED  BY <2>1, <2>2, <2>3 DEF Capturing, Reading, Executing
<1>3. CASE GetEvent
  BY <1>3 DEF GetEvent, Reading, Executing, managerVars, sharedVars, executionVars
<1>4. ASSUME NEW u \in Threads, u # t, ProcessStep(u)
      PROVE  /\ UNCHANGED <<context, published, problem_file>>
             /\ pc'[t] = pc[t] /\ problem'[t] = problem[t]
             /\ todo'[t] = todo[t] /\ current'[t] = current[t]
  <2>0. pc[u] \notin Reading \cup Executing /\ pc'[u] \notin Reading \cup Executing
    BY <1>4 DEF Running
  <2> USE <2>0 DEF Reading, Executing
  <2>1. ~AcceptedEvent(u)
    BY DEF AcceptedEvent
  <2>2. ~(ReadInit(u) \/ ReadGoal(u) \/ TruncateFile(u) \/ WriteFile(u) \/ RunPlanner(u)
            \/ RunFails(u))
    BY DEF ReadInit, ReadGoal, TruncateFile, WriteFile, RunPlanner, RunFails
  <2>3. ~(ApplyEffect(u) \/ ClearFlag(u) \/ Finish(u))
    BY DEF ApplyEffect, ClearFlag, Finish
  <2>4. \A a \in Actuators : ~(PublishCommand(u, a) \/ PublishFails(u, a))
    BY DEF PublishCommand, PublishFails
  <2>5. RejectedEvent(u) \/ Escapes(u)
    BY <1>4, <2>1, <2>2, <2>3, <2>4 DEF ProcessStep
  <2> QED  BY <1>4, <2>5 DEF RejectedEvent, RejectEvent, Escapes, Leave, managerVars, sharedVars,
                             executionVars
<1>5. CASE UNCHANGED vars
  BY <1>5 DEF vars, managerVars, sharedVars, executionVars
<1> QED
  BY <1>1, <1>2, <1>3, <1>4, <1>5
     DEF Next, HttpStep, WorkerStep, managerVars, sharedVars, executionVars

(* A cycle starts where no other runs: what it finds is its origin.        *)
LEMMA QuietStarts ==
  ASSUME TypeOK, TypeOK', [Next]_vars, NEW t \in Threads, Running = {}, Running' = {t},
         origin' = context'
  PROVE  Quiet(t)'
<1>0. /\ pc \in [Threads -> Places] /\ Worker \in Threads /\ HttpThreads \subseteq Threads
      /\ pc[t] \notin Reading \cup Executing /\ pc'[t] \in Reading \cup Executing
      /\ context' \in Contexts
  BY ThreadFacts DEF TypeOK, ThreadTypeOK, ManagerTypeOK, Running
<1> USE <1>0 DEF Goto, Reading, Executing
<1>1. \A i \in Inputs : ~Arrive(i)
  BY DEF Arrive
<1>2. \A u \in HttpThreads : ~Request(u) /\ ~Capture(u)
  BY DEF Request, RequestStep, TakeCamera, CameraBusy, RequestArrives, Capture, CaptureStep,
         CheckFull, ReadPlate, CameraFails, ReserveSequence, AbandonCapture
<1>3. ~GetEvent /\ pc' # pc
  BY DEF GetEvent
<1>4. PICK u \in Threads : ProcessStep(u)
  BY <1>1, <1>2, <1>3 DEF Next, HttpStep, WorkerStep, vars
<1>5. u = t
  BY <1>4 DEF ProcessStep, AcceptedEvent, RejectedEvent, Escapes, ReadInit, ReadGoal, TruncateFile,
              WriteFile, RunPlanner, RunFails, PublishCommand, PublishFails, ApplyEffect, ClearFlag,
              Finish, FailWith, Leave
<1>6. pc'[t] = "read_init"
  BY <1>4, <1>5 DEF ProcessStep, AcceptedEvent, RejectedEvent, Escapes, ReadInit, ReadGoal,
              TruncateFile, WriteFile, RunPlanner, RunFails, PublishCommand, PublishFails,
              ApplyEffect, ClearFlag, Finish, FailWith, Leave
<1> QED  BY <1>6 DEF Quiet, QuietRead, QuietProgress

(* The quiet cycle's own steps. *)
LEMMA QuietProcesses ==
  ASSUME TypeOK, NEW t \in Threads, Running = {t}, Running' = {t}, Quiet(t), ProcessStep(t),
         UNCHANGED origin
  PROVE  Quiet(t)'
<1> DEFINE Goals == GoalPredicates(origin)
           Steps == Switched(Generate(origin))
<1>0. /\ pc \in [Threads -> Places] /\ published \in [Actuators -> BOOLEAN]
      /\ problem \in [Threads -> Problems] /\ todo \in [Threads -> SUBSET Actuators]
      /\ current \in [Threads -> Actuators \cup {None}] /\ problem_file \in Problems \cup {EmptyFile}
      /\ pc[t] \in Reading \cup Executing /\ pc'[t] \in Reading \cup Executing
      /\ origin \in Contexts /\ QuietRead(t) /\ QuietProgress(t)
      /\ Goals \in GoalSections /\ InitPredicates(origin) \in InitSections
      /\ Steps \subseteq Actuators /\ CarriedOut(t) \subseteq Steps
  BY GenerateType DEF TypeOK, ThreadTypeOK, SharedTypeOK, ExecutionTypeOK, Running, Quiet, Switched,
                      CarriedOut
<1> USE <1>0 DEF Goto, Reading, Executing
<1>1. ~(AcceptedEvent(t) \/ RejectedEvent(t) \/ Escapes(t))
  BY DEF AcceptedEvent, RejectedEvent, Escapes, Leave
<1>2. ~(RunFails(t) \/ Finish(t) \/ \E a \in Actuators : PublishFails(t, a))
  BY DEF RunFails, Finish, PublishFails, FailWith, Leave
<1>3. CASE ReadInit(t)
  <2>1. /\ pc[t] = "read_init" /\ pc'[t] = "read_goal" /\ UNCHANGED context
        /\ problem'[t].init = InitPredicates(context)
    BY <1>3 DEF ReadInit, managerVars, Problems
  <2> QED  BY <2>1 DEF Quiet, QuietRead, QuietProgress
<1>4. CASE ReadGoal(t)
  <2>1. /\ pc[t] = "read_goal" /\ pc'[t] = "truncate" /\ UNCHANGED context
        /\ problem'[t].init = problem[t].init /\ problem'[t].goal = GoalPredicates(context)
    BY <1>4 DEF ReadGoal, managerVars, Problems
  <2> QED  BY <2>1 DEF Quiet, QuietRead, QuietProgress
<1>5. CASE TruncateFile(t) \/ WriteFile(t)
  BY <1>5 DEF TruncateFile, WriteFile, managerVars, executionVars, Quiet, QuietRead, QuietProgress
<1>6. CASE RunPlanner(t)
  <2>1. /\ pc[t] = "run" /\ pc'[t] = "execute" /\ UNCHANGED <<context, published>>
        /\ problem_file = problem[t] /\ problem_file # EmptyFile
        /\ problem'[t] = problem[t] /\ todo'[t] = Switched(problem[t])
    BY <1>6, ValueAssumption DEF RunPlanner, managerVars, sharedVars, QuietRead
  <2>2. problem[t] = Generate(origin)
    <3>1. problem[t].init = InitPredicates(origin) /\ problem[t].goal = Goals
      BY <2>1 DEF QuietRead
    <3> QED  BY <3>1 DEF Generate, Problems
  <2>3. CarriedOut(t)' = {} /\ context = origin
    BY <2>1, <2>2 DEF CarriedOut, QuietRead
  <2>4. context' = Execute(origin, {}, Goals)
    BY <2>1, <2>3, ExecuteNothing
  <2> QED  BY <2>1, <2>2, <2>3, <2>4 DEF Quiet, QuietRead, QuietProgress
<1>7. ASSUME NEW a \in Actuators, PublishCommand(t, a) PROVE Quiet(t)'
  <2>1. /\ pc[t] = "execute" /\ pc'[t] = "apply" /\ current'[t] = a /\ a \in todo[t]
        /\ UNCHANGED <<context, problem>> /\ todo'[t] = todo[t] \ {a}
        /\ published' = [published EXCEPT ![a] = problem[t].goal[a]]
    BY <1>7 DEF PublishCommand, MayComeNext, managerVars, Target
  <2>2. problem[t].goal = Goals /\ todo[t] \subseteq Steps
    BY <2>1 DEF QuietProgress, Generate
  <2>3. /\ a \in CarriedOut(t)' /\ CarriedOut(t)' \ {a} = CarriedOut(t)
        /\ CarriedOut(t)' = CarriedOut(t) \cup {a}
    BY <2>1, <2>2 DEF CarriedOut
  <2>4. \A b \in CarriedOut(t)' : published'[b] = Goals[b]
    BY <2>1, <2>2, <2>3 DEF QuietProgress
  <2> QED  BY <2>1, <2>3, <2>4 DEF Quiet, QuietRead, QuietProgress
<1>8. CASE ApplyEffect(t)
  <2> DEFINE a    == current[t]
             done == CarriedOut(t) \ {a}
  <2>1. /\ pc[t] = "apply" /\ UNCHANGED <<problem, todo, published>>
        /\ context' = SetActuator(context, a, problem[t].goal[a])
        /\ IF ClearsWaiting(a, problem[t].goal[a])
           THEN pc'[t] = "clear" /\ current'[t] = a
           ELSE pc'[t] = "execute"
    BY <1>8 DEF ApplyEffect, Target, sharedVars
  <2>2. /\ a \in CarriedOut(t) /\ done \in SUBSET Actuators /\ a \in Actuators
        /\ done \cup {a} = CarriedOut(t) /\ problem[t].goal = Goals
        /\ context = Execute(origin, done, Goals)
    BY <2>1 DEF QuietProgress, Generate
  <2>3. CarriedOut(t)' = CarriedOut(t)
    BY <2>1 DEF CarriedOut
  <2>4. ClearsWaiting(a, Goals[a]) \/ context' = Execute(origin, CarriedOut(t), Goals)
    <3> HIDE DEF a, done, Goals
    <3> DEFINE d == SetActuator(Execute(origin, done, Goals), a, Goals[a])
    <3>1. Execute(origin, done \cup {a}, Goals)
            = IF ClearsWaiting(a, Goals[a]) THEN ClearWaiting(d, a) ELSE d
      BY <2>2, ExecuteOneMore
    <3> QED  BY <2>1, <2>2, <3>1
  <2>5. QuietProgress(t)'
    <3>1. /\ problem'[t] = Generate(origin) /\ todo'[t] \subseteq Steps
          /\ \A b \in CarriedOut(t)' : published'[b] = Goals[b]
      BY <2>1, <2>3 DEF QuietProgress
    <3>2. CASE ClearsWaiting(a, Goals[a])
      BY <2>1, <2>2, <2>3, <3>1, <3>2 DEF QuietProgress
    <3>3. CASE ~ClearsWaiting(a, Goals[a])
      BY <2>1, <2>2, <2>3, <2>4, <3>1, <3>3 DEF QuietProgress
    <3> QED  BY <3>2, <3>3
  <2> QED  BY <2>1, <2>5 DEF Quiet, QuietRead
<1>9. CASE ClearFlag(t)
  <2> DEFINE a    == current[t]
             done == CarriedOut(t) \ {a}
  <2>1. /\ pc[t] = "clear" /\ pc'[t] = "execute" /\ UNCHANGED <<problem, todo, published>>
        /\ context' = ClearWaiting(context, a)
    BY <1>9 DEF ClearFlag, sharedVars
  <2>2. /\ a \in CarriedOut(t) /\ done \in SUBSET Actuators /\ a \in Actuators
        /\ done \cup {a} = CarriedOut(t) /\ ClearsWaiting(a, Goals[a])
        /\ context = SetActuator(Execute(origin, done, Goals), a, Goals[a])
    BY <2>1 DEF QuietProgress
  <2>3. CarriedOut(t)' = CarriedOut(t)
    BY <2>1 DEF CarriedOut
  <2>4. context' = Execute(origin, CarriedOut(t), Goals)
    <3> HIDE DEF a, done, Goals
    <3> DEFINE d == SetActuator(Execute(origin, done, Goals), a, Goals[a])
    <3>1. Execute(origin, done \cup {a}, Goals)
            = IF ClearsWaiting(a, Goals[a]) THEN ClearWaiting(d, a) ELSE d
      BY <2>2, ExecuteOneMore
    <3> QED  BY <2>1, <2>2, <3>1
  <2>5. QuietProgress(t)'
    BY <2>1, <2>3, <2>4 DEF QuietProgress
  <2> QED  BY <2>1, <2>5 DEF Quiet, QuietRead
<1> QED  BY <1>1, <1>2, <1>3, <1>4, <1>5, <1>6, <1>7, <1>8, <1>9 DEF ProcessStep

LEMMA QuietNext == QuietInv /\ [QNext]_<<vars, alone, origin>> => QuietInv'
<1> SUFFICES ASSUME QuietInv, [QNext]_<<vars, alone, origin>> PROVE QuietInv'
  OBVIOUS
<1>0. TypeOK /\ TypeOK' /\ [Next]_vars
  BY NextType DEF QuietInv, QNext, vars
<1>1. CASE QNext
  <2> SUFFICES ASSUME NEW t \in alone' PROVE Running' = {t} /\ Quiet(t)'
    BY <1>0 DEF QuietInv
  <2>1. t \in Threads /\ Running' = {t} /\ (Running = {} \/ t \in alone)
    BY <1>1 DEF QNext
  <2>2. CASE Running = {}
    BY <1>0, <1>1, <2>1, <2>2, QuietStarts DEF QNext
  <2>3. CASE Running # {}
    <3>1. Running = {t} /\ Quiet(t) /\ UNCHANGED origin
      BY <1>1, <2>1, <2>3 DEF QuietInv, QNext
    <3>2. CASE ProcessStep(t)
      BY <1>0, <2>1, <3>1, <3>2, QuietProcesses
    <3>3. CASE ~ProcessStep(t)
      BY <1>0, <2>1, <3>1, <3>3, OthersAreQuiet, QuietKept
    <3> QED  BY <2>1, <3>2, <3>3
  <2> QED  BY <2>2, <2>3
<1>2. CASE UNCHANGED <<vars, alone, origin>>
  <2>1. UNCHANGED <<pc, context, published, problem_file, problem, todo, current, alone, origin>>
    BY <1>2 DEF vars, managerVars, sharedVars, executionVars
  <2>2. Running' = Running
    BY <2>1 DEF Running
  <2> QED  BY <1>0, <2>1, <2>2, QuietKept DEF QuietInv
<1> QED  BY <1>1, <1>2

LEMMA QuietInit == QInit => QuietInv
  BY InitType DEF QInit, QuietInv

(* What the actions carried out have made of the garage. *)
LEMMA QuietFacts ==
  ASSUME QuietInv, NEW t \in alone, pc[t] = "execute"
  PROVE  /\ origin \in Contexts /\ problem[t].goal = GoalPredicates(origin)
         /\ context = Execute(origin, CarriedOut(t), GoalPredicates(origin))
         /\ context.positions_occupied = origin.positions_occupied
         /\ \A a \in CarriedOut(t) :
              context.on[a] = GoalPredicates(origin)[a] /\ published[a] = GoalPredicates(origin)[a]
<1>1. /\ origin \in Contexts /\ GoalPredicates(origin) \in GoalSections
      /\ CarriedOut(t) \in SUBSET Actuators
      /\ context = Execute(origin, CarriedOut(t), GoalPredicates(origin))
      /\ problem[t] = Generate(origin)
      /\ \A a \in CarriedOut(t) : published[a] = GoalPredicates(origin)[a]
  BY GenerateType DEF QuietInv, Quiet, QuietProgress, Executing, CarriedOut, Switched
<1>2. /\ context.positions_occupied = origin.positions_occupied
      /\ \A a \in CarriedOut(t) : context.on[a] = GoalPredicates(origin)[a]
  <2> DEFINE goal == GoalPredicates(origin)
             done == CarriedOut(t)
  <2>0. /\ goal \in GoalSections /\ done \in SUBSET Actuators /\ origin \in Contexts
        /\ context = Execute(origin, done, goal)
    BY <1>1
  <2> HIDE DEF goal, done
  <2> DEFINE e == Execute(origin, done, goal)
  <2>1. /\ e \in Contexts
        /\ e.temperature = origin.temperature /\ e.lux = origin.lux
        /\ e.positions_occupied = origin.positions_occupied
        /\ e.current_vehicles = origin.current_vehicles
        /\ e.on = [a \in Actuators |-> IF a \in done THEN goal[a] ELSE origin.on[a]]
        /\ e.waiting = [g \in Gates |-> origin.waiting[g] /\ ~(g \in done /\ goal[g])]
    BY <2>0, ExecuteFields
  <2> HIDE DEF e
  <2>2. \A a \in done : context.on[a] = goal[a]
    BY <2>0, <2>1 DEF e
  <2> QED  BY <2>0, <2>1, <2>2 DEF e, goal, done
<1> QED  BY <1>1, <1>2 DEF Generate

(* Beside any number of camera requests, for any garage, inputs, faults    *)
(* and either backend: a cycle that meets no other one is atomic, and its  *)
(* commands are recorded, ...                                              *)
THEOREM QuietCyclesAreSteps == QSpec => []QuietCycleIsOneStep
<1>1. QuietInv => QuietCycleIsOneStep
  BY QuietFacts DEF QuietCycleIsOneStep
<1> QED  BY <1>1, QuietInit, QuietNext, PTL DEF QSpec

(* ... leaves nothing undone, ...                                          *)
THEOREM QuietCyclesSettle == QSpec => []QuietCycleSettles
<1>1. QuietInv => QuietCycleSettles
  <2> SUFFICES ASSUME QuietInv, NEW t \in alone, pc[t] = "execute", todo[t] = {}
               PROVE  Settled(context)
    BY DEF QuietCycleSettles
  <2>1. CarriedOut(t) = Switched(Generate(origin))
    BY DEF CarriedOut
  <2> QED  BY <2>1, QuietFacts, WholePlanSettles
<1> QED  BY <1>1, QuietInit, QuietNext, PTL DEF QSpec

(* ... and lets nobody open the entrance of a full garage.                 *)
THEOREM QuietCyclesKeepTheGateShut == QSpec => QuietGateStaysShut
<1> DEFINE Shut == alone # {} /\ ~published["entrance_gate"] /\ published'["entrance_gate"]
                     => ~GarageIsFull(context)
<1>1. QuietInv /\ [QNext]_<<vars, alone, origin>> => Shut
  <2> SUFFICES ASSUME QuietInv, Next, NEW t \in alone,
                      published'["entrance_gate"] # published["entrance_gate"],
                      published'["entrance_gate"]
               PROVE  ~GarageIsFull(context)
    BY DEF QNext, vars, sharedVars
  <2>0. published' # published /\ published \in [Actuators -> BOOLEAN] /\ t \in Threads
    BY DEF QuietInv, TypeOK, SharedTypeOK, Running
  <2>1. PICK u \in Threads : ProcessStep(u)
    <3>1. ~GetEvent /\ \A i \in Inputs : ~Arrive(i)
      BY <2>0 DEF GetEvent, Arrive, sharedVars
    <3>2. \A u \in HttpThreads : ~Request(u) /\ ~Capture(u)
      BY <2>0 DEF Request, Capture, sharedVars
    <3> QED  BY <3>1, <3>2, ThreadFacts DEF Next, HttpStep, WorkerStep
  <2>2. PICK a \in Actuators : PublishCommand(u, a) \/ PublishFails(u, a)
    <3>1. ~(AcceptedEvent(u) \/ RejectedEvent(u) \/ Escapes(u)
              \/ ReadInit(u) \/ ReadGoal(u) \/ RunPlanner(u))
      BY <2>0 DEF AcceptedEvent, RejectedEvent, Escapes, ReadInit, ReadGoal, RunPlanner, sharedVars
    <3>2. ~(TruncateFile(u) \/ WriteFile(u) \/ RunFails(u) \/ Finish(u))
      BY <2>0 DEF TruncateFile, WriteFile, RunFails, Finish
    <3>3. ~(ApplyEffect(u) \/ ClearFlag(u))
      BY <2>0 DEF ApplyEffect, ClearFlag, sharedVars
    <3> QED  BY <2>1, <3>1, <3>2, <3>3 DEF ProcessStep
  <2>3. pc[u] = "execute" /\ published' = [published EXCEPT ![a] = Target(u, a)]
    BY <2>0, <2>2 DEF PublishCommand, PublishFails
  <2>4. u = t
    BY <2>3 DEF QuietInv, Running, Executing
  <2>5. a = "entrance_gate" /\ problem[t].goal["entrance_gate"]
    <3>1. "entrance_gate" \in Actuators
      BY DEF Actuators, Gates
    <3>2. a = "entrance_gate"
      BY <2>0, <2>3, <3>1
    <3> QED  BY <2>0, <2>3, <2>4, <3>1, <3>2 DEF Target
  <2>6. /\ GoalPredicates(origin)["entrance_gate"]
        /\ context.positions_occupied = origin.positions_occupied
    BY <2>3, <2>4, <2>5, QuietFacts
  <2>7. ~GarageIsFull(origin)
    BY <2>6 DEF GoalPredicates, Actuators, Gates
  <2> QED  BY <2>6, <2>7 DEF GarageIsFull
<1> QED  BY <1>1, QuietInit, QuietNext, PTL DEF QSpec, QuietGateStaysShut

================================================================================
