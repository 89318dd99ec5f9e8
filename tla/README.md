# Formal model of the Smart Garage backend

TLA+ modules, TLC runs and TLAPS proofs for the Smart Garage: a backend that
reads sensor and camera messages, plans with PDDL and commands a fan, a light
and two gates over MQTT.

## 1. Inventory

| Part | Code | State | Operations | Talks to |
|---|---|---|---|---|
| Context manager | `context/` | `context`, `msg_sequences` | `event_handler`, `next_sequence_number`, `snapshot`, under an RLock | called by the worker and the HTTP threads |
| Planner | `planner/` | `problem.pddl` | `generate`, `run` (rules or Fast Downward), `parse_plan_output` | reads the context without the lock |
| Executor | `executor/` | the actuator fields and waiting flags of the context | `execute`: publish, then `apply_action_effect` | message client |
| Event processing | `services/backend_service.py`, `mqtt/eventDispatcher.py` | queue, `last_error`, histories | `_process_events`, `process_event`, `capture_vehicle`, `start`, `stop` | all of the above |
| Camera service | `services/camera_service.py` | `_capture_lock`, `_published_sequences` | `capture`, `_next_sequence` | camera, context manager |
| Hardware MQTT client | `mqtt/client.py` | `_connected`, `_loop_started` | `connect`, `publish`, `subscribe`, `disconnect` | paho's network thread calls `push_event`, and reconnects |
| Simulation MQTT client | `mqtt/simulation_client.py` | socket, response queue, callbacks | `connect`, `_request`, `_read_messages`, `_dispatch` | simulation broker |
| Simulation broker | `simulator/broker.py` | subscriptions | a handler thread per connection | clients |
| Raspberry Pi simulator | `RP_Simulator.py` | readings, per-topic counters | sensor loop, console | message client |
| Camera sensor | `software_sensor/camera_sensor.py` | camera device, cached OCR reader | load, open, configure, countdown, capture, OCR, vote | called by the camera service |
| Dashboard | `dashboard/` | none | `/api/state`, `/api/camera/*`, one thread per request | event processing |
| Start and shutdown | `main.py` | `_stop_event`, the worker's thread | starts dashboard, connection and worker, waits for Ctrl+C, stops | all |

What makes each correct, and what is hard about it:

* **Context manager.** A reading is that of the newest usable message; no
  message is applied twice; an invalid one changes nothing. Hard: QoS 1
  delivers again, and three parking positions share one counter.
* **Planner.** Plans obey the domain and reach the goal from *every* context,
  and both backends agree. Hard: the rules never look at the preconditions.
* **Executor and event processing.** The recorded actuator state is that of
  the last commands; a full garage keeps its entrance shut; once idle, the
  actuators follow the context; no message stops the worker. Hard: the context
  lock covers only the handler. Planning, the problem file, publishing and
  recording are shared by the worker and any number of HTTP threads, and
  publishing may raise in the middle of a plan, with or without effect.
* **Camera service.** The camera is never leaked or shared; reserved sequence
  numbers are unique and still new when used. Hard: a number is reserved before
  the manager has seen it, and the lock is given back before that.
* **Camera sensor.** Every capture ends and gives the device back; the frame
  read is the newest; the plate is the one that most and surest readings agree
  on. Hard: nearly every call may raise, one of them outside the `try`, and
  four weights are traded against each other.
* **Clients, broker, simulator.** Answers match requests; numbers of one topic
  are unique and increase. Hard: time limits on answers, threads without a
  common lock.
* **Start and shutdown.** Ctrl+C ends the process and closes the connection,
  whatever has been started by then and whatever the worker does. Hard: Ctrl+C
  strikes between any two steps, the flags that `stop` goes by follow the facts
  one step later, and backend, broker and sensors restart without one another.

`PROJECT.json` lists each hazard at its line, with the properties that cover it.

## 2. Modules

```
GarageModel ── ContextManager ── SensorLink
     │               └────────── CameraService ──┐
     └── Planner ── Executor ── PlanningCycle    ├── SmartGarageService ── QuietCycles
                       ├─────────────────────────┘          │
                       └── GarageControl <─────── GarageRefinement
                                         implements

ContextManager ── RPSimulator ── SimulatorLink ────────> SensorLink
       (the two publishing threads)         implements

SimulationTransport (what SmartGarageService takes for "publish" and "arrive"
                     in simulation mode)

PlateVoting ── CameraSensor (what CameraService takes for "read")

Lifecycle (main.py around SmartGarageService: of events only their numbers)
```

| Module | Code | State and actions |
|---|---|---|
| `GarageModel` | `context/context.py`, the handlers of `context/manager.py`, the readers of `problem_generator.py` | no state: `Contexts`, `ValidPayload`, `Update` |
| `ContextManager` | `context/manager.py` | `context`, `msg_sequences`; `AcceptEvent` is `event_handler` returning True, `RejectEvent` returning False or raising |
| `SensorLink` | the manager behind an MQTT link | adds what was `sent` and `delivered`; `Send`, `Deliver`, `DeliverUnnumbered` |
| `Planner` | `problem_generator.py`, `domain.pddl`, `rule_backend.py`, `fast_downward.py` | no state: `Generate`, `Precondition`, `Effect`, `Switched`, `Solvable` |
| `Executor` | `executor/executor.py` | no state: `ApplyActionEffect`, and `Execute`, any part of a plan at once |
| `PlanningCycle` | one `Planner.plan` and `Executor.execute` | starts in every context; `Explore` is a step of Fast Downward's search, from `node`, by any action `domain.pddl` allows; `Step` executes one action beside the state the domain predicts |
| `GarageControl` | what `process_event` promises | abstract: one variable, one step per accepted message |
| `GarageRefinement` | the worker as an implementation of `GarageControl` | adds the history variable `garage`: the context when the worker last had nothing in hand |
| `QuietCycles` | cycles of `process_event` that overlap or do not | adds history to `SmartGarageService`: `alone`, the thread whose cycle has met no other so far, and `origin`, the context as its message left it |
| `CameraService` | `services/camera_service.py` | `capture_lock`, `published_sequences`, per thread `pc`, `event`, `wanted`, `reply` |
| `SmartGarageService` | `services/backend_service.py`, the queue, the failing `publish` | adds `queue`, `problem_file`, `published`, `last_error`, per thread `problem`, `todo`, `current` |
| `SimulationTransport` | `mqtt/simulation_client.py`, `simulator/broker.py` | `request_lock`, `responses`, `callbacks`, `connected`, the lines under way in both directions, the broker's subscriptions; `Call` … `TakeAnswer` / `TimeOut` are `_request`, `ReadLine` the reader thread, `Handle` and `Reply` the broker |
| `RPSimulator` | `RP_Simulator.py` | `readings`, `sequences`, per thread `pc`, `round` (its snapshot), `number`; `Command`, `SetBoth` are the console, `Tick` the loop, `Collect`, `TakeNumber`, `Publish` the shared way out, `PublishFails` and `PublishTimesOut` a `publish` that raises, without and with its message delivered |
| `SimulatorLink` | the simulator as an implementation of `SensorLink` | adds the history variables `log` (what was numbered) and `arrived` (what was published); taking a number is the link's `Send`, publishing its `Deliver` |
| `PlateVoting` | the voting of `software_sensor/camera_sensor.py` | no state: `BestObservedPlate`, and `ConfirmedLicensePlate`, which has no caller at present |
| `CameraSensor` | `read_license_plate` of the same file | `cameras` (the open devices), `reader_cached`, `frames` (how many so far), `last_frame`, `captured_frame` and the `frame` chosen of these, `candidates`; one action per stage, each with its ways to fail |
| `Lifecycle` | `main.py`, `start`, `stop` and the worker's loop of `backend_service.py`, `connect`, `subscribe`, `disconnect` of both clients, `start` and `stop` of `dashboard/server.py` | `main` (what the main thread does next), `worker`, `client` (its flags), `link`, `subscribed`, `events`, `newest`; `Interrupt` is Ctrl+C, `Restart`, `BrokerLost`, `Reconnect`, `PublisherRestarts` the others' fates |

How to read `SmartGarageService`: `pc[t]` is where thread `t` stands in
`process_event` (`handle`, `read_init`, `read_goal`, `truncate`, `write`, `run`,
`execute`, `apply`, `clear`), in `capture` (`check`, `read`, `recheck`,
`reserve`), or `idle`. `published[a]` is history: the last command the broker
got for actuator `a`. The event handler is one step because it holds the lock.
Each of `_init_predicates` and `_goal_predicates` is one step although the code
reads field by field; truncating and writing the problem file are two; publishing
a command, setting the actuator field and clearing the waiting flag are three.

Abstractions: readings are integers on both sides of a threshold, a plate is a
model value, a payload with a missing or ill-typed field is `Malformed`, one whose
temperature or lux is an integer that no float holds `TooLarge`, a JSON value that
is no object `NonObject`. The handler refuses the first and raises on the other two
(`Raises`), as long as the sequence number is new in the case of `TooLarge`. A plan is a set of switches, each actuator at
most once, and `MayComeNext` says in which order it is executed. For the rules
that is their text. For Fast Downward, which returns a sequence of actions, it is
`NoDetours`: no search can meet an action that is not one of the switches; and
that `Solvable` says when there is a plan is `SolvableIsReachable`.
`enter_time` and the texts of PDDL are left out. When one thread's shorter
problem text overwrites a longer one, the tail of the longer may stay in the
file; the model lets the last writer win.

In `SimulationTransport` requests and answers carry numbers that the wire does
not have: they say which request an answer is really for. `sent`, `late`,
`published` and `since` are history. A broker handles the requests of one
connection in order; what it sends is one line at a time, although two handler
threads write to one socket without a lock (lines are short). The model ends
with the connection: neither the code's client nor the model connects again.

In `PlateVoting` a plate is a sequence of characters and a confidence a number
of hundredths, so scores are exact. The lists of the code that are selections of
the observations are sets of their positions. In `CameraSensor` a frame is its
number; each pass of a loop that waits for the camera takes one unit of its
time. All variants of the chosen frame are made before the first is read
(`PreprocessFrames`), and an image may give any number of readings. `cameras` has at most the device of this capture and a stray one: that of
a capture whose configuration raised, which nobody releases and CPython frees
when the exception has been answered.

In `Lifecycle` `struck` is history: what the main thread was about to do when
Ctrl+C struck. Of the queue only the messages of one topic are kept, as number
and life of their publisher; `Handle` is what the manager does with the number.
The worker's processing of an event has no time limit, and `join` waits two
seconds: both outcomes are always possible.

Operators commented "Mutant" are wrong variants of the definition after them:
with one in place of the original, TLC finds the property violated that
`PROJECT.json` names beside it.

## 3. Runs

Passing runs:

| Run | Question | Bounds |
|---|---|---|
| `sensor_link` | are readings the newest whatever the link does, and does one counter serve all parking positions? | 2 temperature, 1 light and 1 vehicle message in any order, 3 parking messages with first deliveries in order; duplicates and losses; 2 positions, payloads for -1..2 |
| `planning` | are plans applicable and complete, when is there none, and can a plan be more than the set of switches? | every context with 2 positions, readings None, below and at the threshold, both backends, every sequence of actions the domain allows |
| `garage_control` | do the abstract promises hold and do gates close? | every input, 2 positions |
| `service_worker` | does the worker keep them, statement by statement, and implement `GarageControl`? | no HTTP threads, every input and two that end the worker, 2 messages per topic, lost publishes, the rules (which check no precondition) |
| `service_cameras` | do camera and reservations stay consistent, what may a camera event be lost to, and what is left of the worker's promises beside HTTP threads? | 2 HTTP threads (symmetric), 2 requests and one message, so that three cycles overlap or follow each other |
| `service_live` | is every message and request dealt with, and none skipped? | 1 HTTP thread, 1 request, 2 parking messages and 2 of light that are malformed, both publish faults, Fast Downward; files and Fast Downward may raise OSError in the HTTP thread |
| `simulation_transport` | does each request get its own answer and end, and is every message handed on? | 2 threads, 3 requests, 1 topic, 2 messages of others; the broker may stop and the client disconnect at any time, any answer may be late |
| `rp_simulator` | do the simulator's two unlocked threads leave the backend with wrong readings, and are they a link? | 2 commands, 2 rounds of the loop, 2 positions, 2 temperatures; every publish may raise, with its message delivered or not |
| `camera_sensor` | does every capture end, release its camera and choose well? | every list of at most 5 readings (`MaxReadings`) out of 6, of which voting sees the last 4, spread over 3 images in any way; 2 constructor attempts, loops of 1 pass, any number of captures |
| `lifecycle` | does Ctrl+C always end the process cleanly, and who notices what is lost? | 2 topics, 2 lives of backend and publisher, 3 messages a life, Ctrl+C up to twice a life, both modes |

Two messages of a topic are enough to have an old and a new one; two requests
with two threads have one waiting for the manager while the other is in the
camera, and with the worker's message there are three cycles, of which the last
may be quiet after two that were not. Two rounds of the simulator's loop and two
commands let either thread be overtaken and have a round after that. One parking
position makes the garage full or not full; what depends on several positions is in `sensor_link`, `planning` and `garage_control`, which
have two. The worker takes messages one at a time, so one queued message is
enough for its safety properties; `service_live` has two. The readings of
`camera_sensor` are two plates one character apart, one that is compatible with
only the second, one of another length, one too short and one too unsure; five
readings are the first list in which a majority has a minority of two to face,
one reading more than voting remembers. Three images are enough for one with several
readings and one with none between two others. Two lives are a restart, and two topics
a start that fails between subscriptions. The bounds `MaxSent`, `MaxQueue`,
`MaxRequests`, `MaxNumber`, `MaxInterrupts` and `MaxLives` stop arrivals,
interrupts and restarts and nothing else; `MaxReadings` bounds what OCR finds. `CHECK_DEADLOCK
FALSE` is said where a cycle is over, or where all messages and requests may
have been dealt with and none has to come.

Violation runs, each a disagreement of the code with its documentation:

| Run | Document | What happens |
|---|---|---|
| `plan_overwritten` | description.md:237 | a thread plans from the other's, or from an empty, problem file |
| `worker_dies_on_list` | implementation.md:173 | a JSON list ends the worker in simulation mode |

A payload whose temperature or lux is too large for `float()` ends the worker in
both modes: `WorkerDiesOnList.cfg` with `Transport = "hardware"` and
`Inputs <- TooLargeReadings` shows it. `service_worker` has such payloads among its
inputs, and its properties hold up to and after the end of the worker.

`ContextMatchesCommands`, `SettledWhenIdle` and `FullGarageStaysShut` hold for
the worker alone (`service_worker`, and proved for all constants) and fail with
one HTTP thread beside it: the event handler's lock is not held while planning
and executing. Two of these failures have no run of their own. They are seen
with `PlanOverwritten.cfg` and another property:

* `PROPERTY FullGarageStaysShut`, `Inputs <- Parkings`: the garage fills up
  between the planning and the publishing of an open command
  (implementation.md:177, "a full garage never opens the entrance gate").
* `INVARIANT ContextMatchesCommands`, `MaxSent = 2`: two threads publish on and
  off to one actuator and record in the other order, so that description.md:194
  ("updates actuator state optimistically after a command is accepted") does
  not say which command the context stands for.

What remains of them beside HTTP threads is in `QuietCycles`: a cycle that meets no
other one keeps what they promise of a single cycle, from its accepted message to
the end of its plan. It may be any thread's, others may be in the camera or have
their events refused meanwhile, and the cycles before it may have overlapped and
left a wrong problem file or a command unrecorded. So an actuator that an overlap
left wrong in the context's eyes is put right by the next quiet cycle.

`NoMessageSkipped` says what the queue is for: between the callback and the manager
nothing of a topic is lost, repeated or overtaken, whatever cycles do meanwhile.
It holds for topics whose payloads are all usable (the counter does not move for
the others) and that nobody else numbers: vehicle topics are shared with the
camera. A worker that has died leaves its messages waiting: that none waits for
ever is `EveryMessageCounts`.

`LostOnlyToLaterReservation` holds, and says what does get lost: the camera is
free again before its event reaches the manager, so of two requests for one
direction the second may be handled first, and the first is then rejected as
old although its plate was read (implementation.md:174, "each valid event
produces the expected context change"). It assumes that nothing but the camera
numbers vehicle events; a vehicle sensor on the same topic may take the number.

`AnswersLagByTimeouts` says what a late answer does to the simulation client:
after one of them every request of the connection is given the answer of an
older one, and `subscribe` can fail on a "published". `OwnAnswer` and
`NothingMissed` therefore only speak of connections without a late answer.

`planning` shows where README.md:103 ("the equivalent local hardware-debugging
rules") does not hold: for a vehicle waiting at the open entrance of a full
garage the rules close the gate and Fast Downward has no plan, because
`close-entrance-gate` requires that nobody waits; nothing at all is commanded
then, the fan included.

`QuietRoundIsShown` is about rounds that do not meet one of the other thread.
Without that condition it fails: a round that took its snapshot before a command
and its numbers after it puts the old readings back until the next round. And
of two threads that have taken numbers the later may send first, so "in order"
in `sensor_link` (the assumption of `ParkingFollowsLog`) holds for a publisher
with one thread, not for the simulator while both of its threads publish.
`ImplementsSensorLink` is therefore stated with `Delivery` "any" for every topic.

`GatesCloseAgain` needs `Spaced`: with `Spaced = FALSE` TLC shows a gate that
never closes, because a vehicle arriving at an open gate sets the waiting flag
and, with no open command to be planned, nothing clears it. (implementation.md:185
says that after an open command "a later state-change event can then plan gate
closure".)

`CleanShutdown` and `InterruptEndsProcess` name the moments in which the code
does not keep "Shut down MQTT cleanly on Ctrl+C" (implementation.md:103), each
one step long: between `client.connect` and `_connected = True`, and between
`loop_start` and `_loop_started = True` (`disconnect` goes by the flags);
between the creation of the worker's thread and its start (`join` raises and
`disconnect` is skipped); a second Ctrl+C inside the `finally`; and between the
binding of the dashboard's socket and `serve_forever` (`shutdown` waits for ever).
Everywhere else they hold, after a start that failed half-way too. `LossIsNoticed`
holds for the simulation only: `MQTTClient.is_connected` ("whether this wrapper
has an active broker connection", mqtt/client.py:29) never falls by itself, and
after paho has reconnected to a broker that lost the session nothing subscribes
again. `stop` publishes nothing: that "shutdown leaves fan and light off"
(implementation.md:178) is left to the Raspberry Pi, whose code is not here, and
a backend that restarts takes every actuator for off.

`NewestFrameIsRead` compares the frame that line 90 chooses with all that the camera
delivered: one of the countdown is read only when no later one came. With `countdown_seconds` of 0 (`CountdownTime = 0`) there is no frame of
the countdown and every capture fails before its frame is taken.
`PlateIsUnbeaten` compares plates of equal length and shape; across lengths the
score lets a longer plate win against a surer one.

**Fairness.** `SmartGarageService!Spec` is weakly fair to the worker and to each
HTTP thread: the operating system runs them, and nothing they call blocks for
ever (the camera has a deadline, a simulated publish a timeout, the camera lock
is not waited for). Of Fast Downward this is assumed: `fast_downward.py` gives it no
time limit, and `RequestsAreAnswered` and `EveryMessageCounts` hold only as far as
each of its runs ends, as it does on problems of this size. With the rules
the question does not arise. Messages and requests need not come.
`SimulationTransport!Spec` is weakly fair to each thread inside `_request`, which has
a 5 s limit, and to nothing else: the broker need not answer. That a thread gets the lock at all rests on the bounded number of
requests; Python's lock promises no turn. `CameraSensor!Spec` is
weakly fair to the steps of a capture, which are bounded loops over calls that
return, and to the end of a failed request. `Lifecycle!Spec` is weakly fair to
the main thread and to the simulation's reader, and not to the worker: there the
question is what becomes of Ctrl+C when a plan run does not end. In `GarageControl` some
sensor message always comes, because sensors report periodically; which, and
whether a vehicle comes, is free.

## 4. Proofs

| Theorem | States, for all constants |
|---|---|
| `SensorLink_proofs!LinkTypeCorrect` | `Spec => []TypeOK` |
| `SensorLink_proofs!ReadingsAreCurrent` | `Spec => []ReadingMatchesCounter` |
| `SensorLink_proofs!NewestIsKept` | `Spec => []CounterIsNewestUsable` |
| `SensorLink_proofs!NothingAppliedTwice` | `Spec => AppliedAtMostOnce` |
| `SensorLink_proofs!PositionsAreCurrent` | `Spec => []ParkingFollowsLog` |
| `SmartGarageService_proofs!ServiceTypeCorrect` | `SafetySpec => []TypeOK` |
| `SmartGarageService_proofs!WorkerRecordsCommands` | `SafetySpec => []ContextMatchesCommands`, if `WorkerAlone` |
| `SmartGarageService_proofs!WorkerSettles` | `SafetySpec => []SettledWhenIdle`, if `WorkerAlone` |
| `SmartGarageService_proofs!WorkerKeepsFullGarageShut` | `SafetySpec => FullGarageStaysShut`, if `WorkerAlone` |
| `SmartGarageService_proofs!CameraNeverLeaked` | `SafetySpec => []CameraHeldWhileUsed` |
| `SmartGarageService_proofs!ReservationsNeverShared` | `SafetySpec => []ReservationsUnique` |
| `SmartGarageService_proofs!LossesHaveALaterReservation` | `SafetySpec => []LostOnlyToLaterReservation` |
| `SmartGarageService_proofs!WorkerImplementsControl` | `HSpec => ImplementsGarageControl`, if `WorkerAlone` |
| `SmartGarageService_proofs!QuietCyclesAreSteps` | `QSpec => []QuietCycleIsOneStep` |
| `SmartGarageService_proofs!QuietCyclesSettle` | `QSpec => []QuietCycleSettles` |
| `SmartGarageService_proofs!QuietCyclesKeepTheGateShut` | `QSpec => QuietGateStaysShut` |
| `SmartGarageService_proofs!NothingIsSkipped` | `SafetySpec => []NoMessageSkipped` |
| `PlanningCycle_proofs!ControlSettles` | `Spec => []AlwaysSettled` of `GarageControl`, if not `Faulty` |
| `PlanningCycle_proofs!PlansAreApplicable` | `CycleSpec => []PlanIsApplicable` |
| `PlanningCycle_proofs!CyclesSettle` | `CycleSpec => []CycleSettles` |
| `PlanningCycle_proofs!StuckIsTheOnlyFailure` | `CycleSpec => []SolvableUnlessStuck` |
| `PlanningCycle_proofs!PlansAreSets` | `CycleSpec => []NoDetours` |
| `PlanningCycle_proofs!SolvableDecides` | `CycleSpec => []SolvableIsReachable` |
| `SimulationTransport_proofs!LockNeverLeaked` | `Spec => []LockHeldByRequest` |
| `SimulationTransport_proofs!AnswersLag` | `Spec => []AnswersLagByTimeouts` |
| `SimulationTransport_proofs!AnswersAreOwn` | `Spec => []OwnAnswer` |
| `SimulationTransport_proofs!NoMessageMissed` | `Spec => []NothingMissed` |
| `RPSimulator_proofs!QuietRoundsAreShown` | `Spec => []QuietRoundIsShown` |
| `RPSimulator_proofs!SimulatorImplementsLink` | `LSpec => ImplementsSensorLink` |
| `RPSimulator_proofs!NewestPublishedIsShown` | `LSpec => []NewestIsShown` |
| `CameraSensor_proofs!CameraIsReleased` | `Spec => []CameraReleased` |
| `CameraSensor_proofs!FrameIsNewest` | `Spec => []NewestFrameIsRead` |
| `CameraSensor_proofs!NoPlateBeatsTheChosen` | `Spec => []PlateIsUnbeaten` |
| `CameraSensor_proofs!MajorityIsHeard` | `Spec => []MajorityWins` |
| `Lifecycle_proofs!TypeCorrect` | `Spec => []TypeOK` |
| `Lifecycle_proofs!ShutsDownCleanly` | `Spec => []CleanShutdown` |
| `Lifecycle_proofs!StopsAfterOneEvent` | `Spec => []OneEventAfterStop` |
| `Lifecycle_proofs!RestartIsForgiven` | `Spec => []RefusedUntilFormer` |

`WorkerAlone` is `HttpThreads = {}` and no publish that raises although the
command was delivered; without either the properties fail (section 3).
`ControlSettles` is about the abstract garage in which neither planner nor publish
fails (`~Faulty`); with failures it may stop half-way through a plan.
All other theorems rest on the named assumptions about the constants alone:
sizes are naturals, readings integers or None, and the marks `None`, `Malformed`,
`TooLarge`, `NonObject` and "done" are no value of what they mark the absence of
(`NoneAssumption`, `MalformedAssumption`, `ValueAssumption`, `SimulatorAssumption`); `OcrAssumption`
says what is a reading of OCR. TLC evaluates each of them.

`Planner_proofs` has the lemmas about the operators that the others share: a
valid payload keeps a context a context, the handler of one reading changes no
other reading, a parking message writes its own position, no message switches an
actuator, a generated problem is well-formed.

`CounterIsNewestUsable`, `ReadingMatchesCounter` and `AppliedAtMostOnce` are not
inductive: the counter must also be known to be the number of a message that was sent and delivered,
and no delivered usable message may be newer. `LinkInv` in `SensorLink_proofs`
is that strengthening. The parking positions share a counter, so a message about
one could make the manager refuse a message about another. `ParkingInv` says why
none is lost while first deliveries are in order: what is delivered has no gap
(`InOrder`), so a message that is accepted jumps over unusable ones only
(`JumpIsEmpty`), and `ShowsLast` follows each position from message to message.

`ServiceTypeCorrect` is inductive with the parts of `TypeOK` that tie a thread's
place to what it has in hand: a capturing thread is an HTTP thread with a
direction, a handled event is a well-formed message, a recorded command is of an
actuator. It has a lemma per action and assumes only the named assumptions on
the constants.

The camera's two theorems build on `TypeOK`. `ReservationsUnique` is not
inductive: a number in hand must also be known to have been reserved
(`NumbersReserved`), and `_next_sequence` gives out only larger ones. Every step
of `process_event` leaves the camera alone (`ProcessKeepsCamera`), which reduces
the proof to the camera's own actions. The proof needs that `None` is no thread.
`LostOnlyToLaterReservation` adds that the manager's counter never passes the
camera's (`NumbersInv`) and that the queue holds no vehicle event (`QueueInv`).

`WorkerInv` follows the worker through one event: until the first command the
problem is that of the present context and the file has it (`ReadInv`); from
then on the goals stay what the context wants, and what is not to be switched
any more is as they say (`ExecuteInv`); context and broker differ in the command
in hand at most (`RecordInv`). Back at the queue nothing is left (`RestInv`).

The refinement adds `HistoryInv`. With `Taken` for the abstract context right
after the message, the concrete one is `Taken` while planning, and afterwards
`Execute(Taken, Done, Goal)` with `Done` the part of the plan carried out, but for
the action in hand. `ExecuteOneMore` is the lemma it turns on: recording one
more command after a part of a plan is executing that part and the command.
Where `process_event` returns, in full (`Finish`), with a part (`PublishFails`)
or with nothing (`RunFails`), `AbstractAccept` gives the abstract step; every
other step leaves `garage` alone. `SameModel` identifies the operators of the
instance with those of the service. A message that the handler raises on ends the
worker and leaves no trace in the context: the abstract garage has no `NonObject`
among its inputs and does not accept a `TooLarge` reading.

`ControlSettles` is about `GarageControl` itself. Every accepted message is followed
by a whole plan, and `WholePlanSettles` in `Planner_proofs` says what a whole plan
makes of the context it was generated from, whatever that was: nothing of the
state before is needed but that it is a context.

`QuietInv` carries the argument of `ExecuteInv` over to many threads. For the one
thread that is alone it says, place by place: before the plan is run, the context
is `origin`, the problem that of `origin` as far as it has been generated, and
after the writing the file has it (`QuietRead`); from then on the context is
`Execute(origin, ...)` of the actions carried out, with the one in hand published,
or half recorded (`QuietProgress`). It is inductive because nobody else writes what it speaks
of: `OthersAreQuiet` shows that a step of another thread which does not begin a
cycle leaves context, problem file and commands alone, and one that begins a cycle
ends the first one's being alone. `QuietStarts` is why the cycles before need not
have been quiet: one that begins while no other runs generates its problem from
the context as it is and writes the file before it reads it, so nothing an earlier
cycle left there matters.

`NoMessageSkipped` looks at what waits as one line, the event in hand before the
queue. `InLine` strengthens it: the uncounted numbers of a topic stand there *in
order*, and all of them are usable. Then the one at the head is the next number,
the manager has no reason to refuse it (`LineIsServed`), and what arrives has the
number after the last (`LineGrows`). Events of other topics pass through the same
line (`LineKeepsGrowing`, `LineKeepsBeingServed`). An HTTP thread touches only the
counters of vehicle topics (`NumbersReserved`), which is why `OwnNumbers` leaves
these out when there are HTTP threads.

In `Lifecycle_proofs`, `ShutdownInv` says what the main thread knows of
connection, network thread and worker at each of its places, unless an excused
Ctrl+C has struck; `StopInv`, that a worker which has taken an event after the
stop checks next; `RefusedInv`, that what waits in the queue is from former
lives, or in order and above what was refused and what was counted.

`CycleInv` in `PlanningCycle_proofs` relates the middle of an execution to its
problem: the goal is a function of the readings in `:init`, no action touches
what a precondition reads, the switches still to do are as they were and the
others as the goal wants them, and waiting flags are only cleared.

The two about the search are from `SearchInv`: each actuator is where it was or
where the goal wants it, and then this was allowed from the start, because no
effect touches what a precondition reads (`SameReadings`).

`TransportInv` in `SimulationTransport_proofs` says where each answer is. Those in
the queue and, after them, those under way are the answers to consecutive
requests (`OrderInv`), and as long as connection and broker last what the broker
works on continues them without a gap. A thread holds the lock from sending to
taking, so the number of the request it waits for is that of the last one sent
(`LockInv`), and what it takes is older by as many as timed out: `AnswersLag`. Before
the first of these all that is under way is its own (`OwnInv`): `AnswersAreOwn`.
For `NoMessageMissed` an answered subscription is one that the broker has made
(`SubscribedInv`), there is at most one on its way for a topic and its callback is
there before it (`AskingInv`), and nothing arrives before it (`SilentInv`). The wire
mixes answers and messages, so the places of each are sets of positions, and the
lemmas (`CarryTail` and its like) say what `Head`, `Tail` and `Append` make of these.

`RoundInv` in `RPSimulator_proofs` allows rounds that meet to leave anything
behind but a number ahead of the counters (`NumbersInv`). A round that is alone
(`AloneInv`) then takes a newer number for each of its messages; what is left of
it is the end of a snapshot of the readings, and the backend shows all that
comes before (`ProgressInv`). At its end that is everything.

`SimulatorIsLink` maps each step of the simulator to one of the link. `LogInv` says
that the counters are the lengths of the logs and that the number a thread has in
hand is that of the message it is about to publish. `BudgetInv` counts what the
rounds may still number, so the link's bound is never in the way: with
`MaxMessages` for it no step of the simulator is one the link could not take.
`NewestPublishedIsShown` is not proved again: it follows from `ReadingMatchesCounter` and `CounterIsNewestUsable`
of the instance. The theorems of `SensorLink_proofs` are used there under the
instance's substitution, and the assumptions they rest on are proved for it
(`LinkAssumptions`).

`CaptureInv` in `CameraSensor_proofs` needs of the readings only that they are
readings, because what voting makes of them is proved for every list, of any
length and with any plates. Of the frames it needs `FrameInv`: up to
the end of the countdown the newest is `last_frame`, after it `captured_frame` if
there is one. The sums and maxima in it are recursive, and
induction over them is out of reach; instead each lemma takes the *least* list
position at which the claim fails (`LeastNat`) and refutes it from the one before:
`PrefixSumsExist` and `PrefixSumsAgree` make `TotalConfidence` a function,
`TotalBounds` bounds it, `FirstBestIsBest` is Python's `max`. `NoPlateBeatsTheChosen`
is then arithmetic of the weights. For `MajorityIsHeard` two majorities of the
remembered readings have one in common (`MajoritiesMeet`), so the greatest cluster
holds the majority's plate, its center is within one character of it and all of
the majority is in it (`MajorityCluster`); each character is elected
(`MajorityIsMerged`), and the merged plate is found often enough (`MajorityConfirmed`).

Only model-checked: liveness (`RequestsEnd`, `EveryMessageCounts`,
`RequestsAreAnswered`, `GatesCloseAgain`, `CapturesEnd`, `InterruptEndsProcess`,
`LossIsNoticed`), since ENABLED is out of the prover's reach. Every other property
of the passing runs has a theorem.

Only proved: the types of `SensorLink` and `Lifecycle`, `LockHeldByRequest`,
`OneEventAfterStop` and `NewestIsShown`. Types and the lock are what other proofs rest
on, `NewestIsShown` follows from `ImplementsSensorLink`, and `OneEventAfterStop` is
part of why `stop` is done after one more event. TLC has found each of them to hold
on the instances of the runs; their theorems cover these.

## 5. Not modelled

* The dashboard's snapshot and its two history lists: they are read at different
  moments, so the page may show a command whose effect it does not show yet, and
  commands of a plan that failed midway are in no list. No document says more.
* Image processing, the shapes of OCR results, the preview window.
* Starting and stopping the simulator, and its display of received commands.
* `test_connecting`, the choice of planner and client at the start, reading the
  environment, logging, HTML and JavaScript rendering.
* Fast Downward itself, beyond "a shortest plan or an error".
* The threads of HTTP requests while the process shuts down: `Lifecycle` has the
  worker only, `SmartGarageService` no end.

## 6. Plan

Done: the modules of section 2 and proofs of every property that is not about
liveness.

What a next step could be, in this order:

1. Histories and the dashboard's reading of them, as one more thread of
   `SmartGarageService`.
2. The waiting flag that the recording of an earlier command clears, when cycles
   overlap: a history variable for it, and a bound on what can be lost.
3. The other steps that the liveness properties rest on, as action properties with
   proofs: what brings a request, a capture or a shutdown nearer to its end, and
   that nothing takes it back. (`NoMessageSkipped` is that of `EveryMessageCounts`.)
