--------------------------- MODULE SmartGarageService ---------------------------
(***************************************************************************)
(* services/backend_service.py: the event worker and the HTTP threads of   *)
(* the camera API all run process_event -- handler, planner, executor --   *)
(* on one context, one problem file and one message client.  Only the      *)
(* handler takes the manager's lock; everything after it is unlocked, so   *)
(* each read or write of shared state is a step of its own.                *)
(*                                                                         *)
(* Each of _init_predicates and _goal_predicates is one step, although the *)
(* code reads the context field by field: with one thread nothing can come *)
(* between, and with several the coarser steps only lose interleavings of  *)
(* behaviours that the violation runs exhibit anyway.                      *)
(***************************************************************************)
EXTENDS CameraService, Executor, Sequences

CONSTANTS
  Inputs,           \* what arrives over MQTT: records [topic, payload]
  NonObject,        \* a JSON payload that is no object
  Backend,          \* "rule" or "fd"
  Transport,        \* "hardware" (MQTTClient) or "simulation"
  PublishFaults,    \* how publish may raise: "lost", "delivered"
  OsFaults,         \* the threads whose file or subprocess may raise OSError
  EmptyFile,        \* problem.pddl between its truncation and its writing
  MaxSent,          \* bound: messages arriving per topic
  MaxQueue          \* bound: messages waiting when another arrives

ASSUME ServiceAssumption ==
  /\ \A i \in Inputs :
       /\ i.topic \in Topics
       /\ i.topic = "parking" => i.payload \in ParkingPayloads \cup {Malformed, NonObject}
  /\ Backend \in Backends
  /\ Transport \in {"hardware", "simulation"}
  /\ PublishFaults \subseteq {"lost", "delivered"} /\ OsFaults \subseteq Threads
  /\ MaxSent \in Nat /\ MaxQueue \in Nat
  /\ None \notin Actuators

VARIABLES
  queue,            \* MQTTEventDispatcher's queue
  sent,             \* the last number used on each topic by its publisher
  published,        \* the last command published to each actuator
  problem_file,     \* the content of problem.pddl
  last_error,       \* SmartGarageService.last_error
  problem,          \* the problem each thread generates, then executes
  todo,             \* the switches of its plan each thread has not published
  current           \* the one it has published and not yet recorded, or None

executionVars == <<problem, todo, current>>
sharedVars    == <<published, problem_file, last_error>>
linkVars      == <<queue, sent>>
vars == <<managerVars, cameraVars, pc, event, reply, linkVars, sharedVars, executionVars>>

NoProblem == Generate(InitialContext)

Init ==
  /\ ManagerInit
  /\ CameraInit
  /\ queue = <<>>
  /\ sent = [topic \in Topics |-> 0]
  /\ published = [a \in Actuators |-> FALSE]
  /\ problem_file = EmptyFile
  /\ last_error = None
  /\ problem = [t \in Threads |-> NoProblem]
  /\ todo = [t \in Threads |-> {}]
  /\ current = [t \in Threads |-> None]

--------------------------------------------------------------------------------
(* The message client's callback: push_event.  MQTTClient hands on only    *)
(* JSON objects, SimulationMQTTClient whatever it parsed.                  *)

Arrive(i) ==
  /\ sent[i.topic] < MaxSent /\ Len(queue) < MaxQueue
  /\ sent' = [sent EXCEPT ![i.topic] = @ + 1]
  /\ queue' = IF i.payload = NonObject /\ Transport = "hardware"
              THEN queue
              ELSE Append(queue, Event(i.topic, sent[i.topic] + 1, i.payload))
  /\ UNCHANGED <<managerVars, cameraVars, pc, event, reply, sharedVars, executionVars>>

(* Mutant: a stack instead of a queue. *)
GetEventNewestFirst ==
  /\ pc[Worker] = "idle" /\ queue # <<>>
  /\ event' = [event EXCEPT ![Worker] = queue[Len(queue)]]
  /\ queue' = SubSeq(queue, 1, Len(queue) - 1)
  /\ Goto(Worker, "handle")
  /\ UNCHANGED <<managerVars, cameraVars, reply, sent, sharedVars, executionVars>>

GetEvent ==
  /\ pc[Worker] = "idle" /\ queue # <<>>
  /\ event' = [event EXCEPT ![Worker] = Head(queue)]
  /\ queue' = Tail(queue)
  /\ Goto(Worker, "handle")
  /\ UNCHANGED <<managerVars, cameraVars, reply, sent, sharedVars, executionVars>>

Capture(t) ==
  /\ t \in HttpThreads
  /\ CaptureStep(t)
  /\ UNCHANGED <<linkVars, sharedVars, executionVars>>

Request(t) ==
  /\ RequestStep(t)
  /\ UNCHANGED <<linkVars, sharedVars, executionVars>>

--------------------------------------------------------------------------------
(* process_event.  It is over: the worker looks for its next event, an     *)
(* HTTP thread answers.                                                    *)
Leave(t, answer) ==
  /\ Goto(t, "idle")
  /\ Answer(t, answer)
  /\ event' = [event EXCEPT ![t] = None]
  /\ problem' = [problem EXCEPT ![t] = NoProblem]
  /\ todo' = [todo EXCEPT ![t] = {}]
  /\ current' = [current EXCEPT ![t] = None]

(* Mutants: the error is not recorded; the thread does not survive it. *)
FailWithUnrecorded(t, error) ==
  /\ UNCHANGED last_error
  /\ Leave(t, "not_processed")

FailWithUncaught(t, error) ==
  /\ last_error' = error
  /\ Goto(t, "dead")
  /\ UNCHANGED <<reply, event, executionVars>>

(* An exception that process_event catches. *)
FailWith(t, error) ==
  /\ last_error' = error
  /\ Leave(t, "not_processed")

(* event_handler raises: payload.get is no method of what is no dict, and  *)
(* float() has its limit.                                                  *)
Raises(e) == e.payload = NonObject \/ Overflows(e)

AcceptedEvent(t) ==
  /\ pc[t] = "handle" /\ ~Raises(event[t])
  /\ AcceptEvent(event[t])
  /\ Goto(t, "read_init")
  /\ UNCHANGED <<cameraVars, event, reply, linkVars, sharedVars, executionVars>>

RejectedEvent(t) ==
  /\ pc[t] = "handle" /\ ~Raises(event[t])
  /\ RejectEvent(event[t])
  /\ Leave(t, "not_processed")
  /\ UNCHANGED <<cameraVars, linkVars, sharedVars>>

(* What process_event does not catch: what event_handler raises, and an    *)
(* OSError (but FileNotFoundError) of write_text, which may have emptied   *)
(* the file, or of starting Fast Downward.  Nobody catches it in the       *)
(* worker; do_POST answers 500.                                            *)
Escapes(t) ==
  /\ \/ pc[t] = "handle" /\ Raises(event[t])
     \/ pc[t] \in {"truncate", "write"} /\ t \in OsFaults
     \/ pc[t] = "run" /\ t \in OsFaults /\ Backend = "fd"
  /\ IF t = Worker
     THEN Goto(t, "dead") /\ UNCHANGED <<event, reply, executionVars>>
     ELSE Leave(t, "server_error")
  /\ UNCHANGED <<managerVars, cameraVars, linkVars, sharedVars>>

ReadInit(t) ==
  /\ pc[t] = "read_init"
  /\ problem' = [problem EXCEPT ![t].init = InitPredicates(context)]
  /\ Goto(t, "read_goal")
  /\ UNCHANGED <<managerVars, cameraVars, event, reply, linkVars, sharedVars, todo, current>>

ReadGoal(t) ==
  /\ pc[t] = "read_goal"
  /\ problem' = [problem EXCEPT ![t].goal = GoalPredicates(context)]
  /\ Goto(t, "truncate")
  /\ UNCHANGED <<managerVars, cameraVars, event, reply, linkVars, sharedVars, todo, current>>

(* write_text opens the file, which empties it, and then writes. *)
TruncateFile(t) ==
  /\ pc[t] = "truncate"
  /\ problem_file' = EmptyFile
  /\ Goto(t, "write")
  /\ UNCHANGED <<managerVars, cameraVars, event, reply, linkVars, published, last_error,
                 executionVars>>

WriteFile(t) ==
  /\ pc[t] = "write"
  /\ problem_file' = problem[t]
  /\ Goto(t, "run")
  /\ UNCHANGED <<managerVars, cameraVars, event, reply, linkVars, published, last_error,
                 executionVars>>

(* An empty file is a plan without actions for the rules, and no PDDL for  *)
(* Fast Downward; which may be missing (FileNotFoundError is caught).      *)
RunFails(t) ==
  /\ pc[t] = "run"
  /\ \/ problem_file = EmptyFile /\ Backend = "fd"
     \/ problem_file # EmptyFile /\ BackendFails(Backend, problem_file)
     \/ t \in OsFaults /\ Backend = "fd"
  /\ FailWith(t, "planner")
  /\ UNCHANGED <<managerVars, cameraVars, linkVars, published, problem_file>>

RunPlanner(t) ==
  /\ pc[t] = "run"
  /\ IF problem_file = EmptyFile
     THEN /\ Backend = "rule"
          /\ UNCHANGED <<problem, todo>>
     ELSE /\ ~BackendFails(Backend, problem_file)
          /\ problem' = [problem EXCEPT ![t] = problem_file]
          /\ todo' = [todo EXCEPT ![t] = Switched(problem_file)]
  /\ Goto(t, "execute")
  /\ UNCHANGED <<managerVars, cameraVars, event, reply, linkVars, sharedVars, current>>

Target(t, a) == problem[t].goal[a]

PublishCommand(t, a) ==
  /\ pc[t] = "execute" /\ MayComeNext(Backend, a, todo[t])
  /\ published' = [published EXCEPT ![a] = Target(t, a)]
  /\ todo' = [todo EXCEPT ![t] = @ \ {a}]
  /\ current' = [current EXCEPT ![t] = a]
  /\ Goto(t, "apply")
  /\ UNCHANGED <<managerVars, cameraVars, event, reply, linkVars, problem_file, last_error,
                 problem>>

(* Mutant: the effect is recorded although publish raised. *)
PublishFailsRecorded(t, a) ==
  /\ pc[t] = "execute" /\ MayComeNext(Backend, a, todo[t])
  /\ "lost" \in PublishFaults
  /\ context' = ApplyActionEffect(context, a, Target(t, a))
  /\ FailWith(t, "publish")
  /\ UNCHANGED <<msg_sequences, cameraVars, linkVars, published, problem_file>>

(* publish raises RuntimeError: the broker never gets the command, or it   *)
(* does and only the acknowledgement is missing.                           *)
PublishFails(t, a) ==
  /\ pc[t] = "execute" /\ MayComeNext(Backend, a, todo[t])
  /\ \/ "lost" \in PublishFaults /\ UNCHANGED published
     \/ /\ "delivered" \in PublishFaults
        /\ published' = [published EXCEPT ![a] = Target(t, a)]
  /\ FailWith(t, "publish")
  /\ UNCHANGED <<managerVars, cameraVars, linkVars, problem_file>>

ApplyEffect(t) ==
  LET a == current[t] IN
  /\ pc[t] = "apply"
  /\ context' = SetActuator(context, a, Target(t, a))
  /\ IF ClearsWaiting(a, Target(t, a))
     THEN Goto(t, "clear") /\ UNCHANGED current
     ELSE Goto(t, "execute") /\ current' = [current EXCEPT ![t] = None]
  /\ UNCHANGED <<msg_sequences, cameraVars, event, reply, linkVars, sharedVars, problem, todo>>

ClearFlag(t) ==
  /\ pc[t] = "clear"
  /\ context' = ClearWaiting(context, current[t])
  /\ current' = [current EXCEPT ![t] = None]
  /\ Goto(t, "execute")
  /\ UNCHANGED <<msg_sequences, cameraVars, event, reply, linkVars, sharedVars, problem, todo>>

Finish(t) ==
  /\ pc[t] = "execute" /\ todo[t] = {}
  /\ last_error' = None
  /\ Leave(t, "processed")
  /\ UNCHANGED <<managerVars, cameraVars, linkVars, published, problem_file>>

ProcessStep(t) ==
  \/ AcceptedEvent(t) \/ RejectedEvent(t) \/ Escapes(t)
  \/ ReadInit(t) \/ ReadGoal(t) \/ TruncateFile(t) \/ WriteFile(t)
  \/ RunPlanner(t) \/ RunFails(t)
  \/ \E a \in Actuators : PublishCommand(t, a) \/ PublishFails(t, a)
  \/ ApplyEffect(t) \/ ClearFlag(t) \/ Finish(t)

WorkerStep == GetEvent \/ ProcessStep(Worker)

HttpStep(t) == Capture(t) \/ ProcessStep(t)

Next ==
  \/ \E i \in Inputs : Arrive(i)
  \/ \E t \in HttpThreads : Request(t) \/ HttpStep(t)
  \/ WorkerStep

SafetySpec == Init /\ [][Next]_vars

(* Every thread that can run does run: the operating system schedules it,  *)
(* the camera and publish calls have timeouts, a plan is short.  Nothing   *)
(* makes messages or requests come.                                        *)
Spec ==
  /\ SafetySpec
  /\ WF_vars(WorkerStep)
  /\ \A t \in HttpThreads : WF_vars(HttpStep(t))

--------------------------------------------------------------------------------
Places ==
  {"idle", "handle", "read_init", "read_goal", "truncate", "write", "run",
   "execute", "apply", "clear", "dead"} \cup Capturing

VehiclePayloads == [license_plate : Plates]

ASSUME ValueAssumption ==
  /\ {Malformed, TooLarge} \cap VehiclePayloads = {}
  /\ EmptyFile \notin Problems
  /\ None \notin {"planner", "publish"}

(* The events that reach event_handler. *)
Messages ==
  {e \in [topic   : Topics,
          number  : Nat,
          payload : VehiclePayloads \cup {i.payload : i \in Inputs}] :
     e.topic = "parking" => e.payload \in ParkingPayloads \cup {Malformed, NonObject}}

ThreadTypeOK ==
  /\ pc \in [Threads -> Places]
  /\ reply \in [Threads -> Replies]
  /\ \A t \in Threads : pc[t] = "handle" => event[t] \in Messages
  /\ DOMAIN event = Threads

CameraTypeOK ==
  /\ capture_lock \in HttpThreads \cup {None}
  /\ published_sequences \in [EventTopics -> Nat]
  /\ wanted \in [Threads -> EventTopics \cup {None}]
  /\ requests \in Nat
  /\ \A t \in Threads :
       /\ pc[t] \in Capturing => t \in HttpThreads /\ wanted[t] \in EventTopics
       /\ pc[t] \in {"recheck", "reserve"} =>
            event[t] \in [topic : {wanted[t]}, number : {NoNumber}, payload : VehiclePayloads]

LinkTypeOK ==
  /\ queue \in Seq(Messages)
  /\ sent \in [Topics -> Nat]

SharedTypeOK ==
  /\ published \in [Actuators -> BOOLEAN]
  /\ problem_file \in Problems \cup {EmptyFile}
  /\ last_error \in {None, "planner", "publish"}

ExecutionTypeOK ==
  /\ problem \in [Threads -> Problems]
  /\ todo \in [Threads -> SUBSET Actuators]
  /\ current \in [Threads -> Actuators \cup {None}]
  /\ \A t \in Threads :
       /\ pc[t] = "apply" => current[t] \in Actuators
       /\ pc[t] = "clear" => current[t] \in Gates

TypeOK ==
  /\ ManagerTypeOK /\ ThreadTypeOK /\ CameraTypeOK
  /\ LinkTypeOK /\ SharedTypeOK /\ ExecutionTypeOK

(* The optimistic context is right about the last command published to     *)
(* every actuator, except for the one command a thread is about to record  *)
(* (implementation.md, 3.4 and 7.2).                                       *)
ContextMatchesCommands ==
  \A a \in Actuators :
    context.on[a] # published[a] => \E t \in Threads : pc[t] = "apply" /\ current[t] = a

(* "A full garage never opens the entrance gate" (implementation.md, 6).   *)
FullGarageStaysShut ==
  [][~published["entrance_gate"] /\ published'["entrance_gate"]
       => ~GarageIsFull(context)]_vars

(* Whenever all threads are back and the last cycle did not fail, nothing  *)
(* is left to do: fan and light follow their readings, and a gate that can *)
(* open for a waiting vehicle is open.                                     *)
SettledWhenIdle ==
  (\A t \in Threads : pc[t] = "idle") /\ last_error = None => Settled(context)

(* If only the camera reports vehicles, its events are lost only to one    *)
(* another: what the manager rejects had a newer reservation beside it.    *)
LostOnlyToLaterReservation ==
  (\A i \in Inputs : i.topic \notin EventTopics) =>
    \A t \in HttpThreads :
      pc[t] = "handle" /\ ~Accepts(event[t]) =>
        event[t].number < published_sequences[event[t].topic]

(* Between the queue and the manager no message is lost, repeated or       *)
(* overtaken, and none is refused for its number: those not yet applied    *)
(* are exactly the ones that wait.  (Vehicles share their numbers with the *)
(* camera; a payload that is refused does not consume its number.)         *)
InHand  == IF pc[Worker] = "handle" THEN <<event[Worker]>> ELSE <<>>
Pending == InHand \o queue

Waiting(topic) == {Pending[k].number : k \in {j \in DOMAIN Pending : Pending[j].topic = topic}}

OwnNumbers(topic) == topic \in EventTopics => HttpThreads = {}

AllUsable(topic) ==
  \A i \in Inputs :
    i.topic = topic => i.payload # NonObject /\ ValidPayload(topic, i.payload)

NoMessageSkipped ==
  \A topic \in Topics :
    OwnNumbers(topic) /\ AllUsable(topic) =>
      Waiting(topic) = msg_sequences[topic] + 1 .. sent[topic]

(* Every usable message that arrives is applied, unless a newer one on its *)
(* topic is: the queue cannot hold it for ever.                            *)
EveryMessageCounts ==
  \A topic \in {i.topic : i \in {j \in Inputs : AllUsable(j.topic)}} : \A n \in 1 .. MaxSent :
    sent[topic] >= n ~> msg_sequences[topic] >= n

(* Every camera request is answered and the camera becomes free again.     *)
RequestsAreAnswered ==
  \A t \in HttpThreads :
    /\ pc[t] # "idle" ~> pc[t] = "idle"
    /\ capture_lock = t ~> capture_lock # t

(* Nothing that arrives terminates the worker (implementation.md, 6).      *)
WorkerSurvives == pc[Worker] # "dead"

================================================================================
