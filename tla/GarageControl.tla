------------------------------ MODULE GarageControl ------------------------------
(***************************************************************************)
(* What the backend promises, without threads, queues or sequence numbers: *)
(* every accepted message updates the garage and all its actuators follow  *)
(* at once.  GarageRefinement shows that the service implements it.        *)
(***************************************************************************)
EXTENDS Executor

CONSTANTS
  Inputs,       \* the messages: records [topic, payload]
  Faulty,       \* TRUE: publish or the planner may fail
  Spaced        \* TRUE: a vehicle comes to a gate only once it has closed

ASSUME InputsAssumption ==
  \A i \in Inputs :
    /\ i.topic \in Topics
    /\ i.topic = "parking" => i.payload \in ParkingPayloads \cup {Malformed}

ASSUME ControlAssumption == Faulty \in BOOLEAN /\ Spaced \in BOOLEAN

VARIABLE garage

GateOf(topic) == IF topic = "vehicle_entry" THEN "entrance_gate" ELSE "exit_gate"

Init == garage = InitialContext

(* What is executed of the plan for c: all of it, unless something fails.  *)
Executed(c) ==
  LET plan == Switched(Generate(c)) IN IF Faulty THEN SUBSET plan ELSE {plan}

Accept(i) ==
  /\ ValidPayload(i.topic, i.payload)
  /\ LET c == Update(garage, i.topic, i.payload)
     IN  garage' \in {Execute(c, done, GoalPredicates(c)) : done \in Executed(c)}

Sense(i) == i.topic \notin EventTopics /\ Accept(i)

Vehicle(i) ==
  /\ i.topic \in EventTopics
  /\ Spaced => ~garage.on[GateOf(i.topic)]
  /\ Accept(i)

Next == \E i \in Inputs : Sense(i) \/ Vehicle(i)

(* Sensors report every few seconds for as long as the system runs, so     *)
(* some sensor message always comes; which one, and when a vehicle comes,  *)
(* is left open.                                                           *)
Spec ==
  /\ Init /\ [][Next]_garage
  /\ WF_garage(\E i \in Inputs : Sense(i))

SafetySpec == Init /\ [][Next]_garage

--------------------------------------------------------------------------------
(* After every message the actuators are where the context wants them. *)
AlwaysSettled == Settled(garage)

(* A gate that was opened for a vehicle closes again with a later message. *)
GatesCloseAgain == \A g \in Gates : garage.on[g] ~> ~garage.on[g]

================================================================================
