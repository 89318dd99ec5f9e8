----------------------------- MODULE Planner_proofs ----------------------------
(***************************************************************************)
(* What the message handlers and the problem generator make of a context,  *)
(* whatever called them.                                                   *)
(***************************************************************************)
EXTENDS Executor, TLAPS

(* A payload that the handler accepts leaves a well-formed context: the    *)
(* range check is what keeps positions_occupied within its bounds.         *)
LEMMA UpdateType ==
  ASSUME NEW c \in Contexts, NEW topic \in Topics, NEW payload,
         topic = "parking" => payload \in ParkingPayloads \cup {Malformed},
         ValidPayload(topic, payload)
  PROVE  Update(c, topic, payload) \in Contexts
<1> USE DEF Contexts, Positions, Gates, Actuators, Topics, EventTopics
<1>1. CASE topic = "temperature"
  BY <1>1 DEF ValidPayload, Update, UpdateTemperature
<1>2. CASE topic = "light"
  BY <1>2 DEF ValidPayload, Update, UpdateLight
<1>3. CASE topic = "parking"
  <2>1. payload \in ParkingPayloads /\ payload.position \in 0 .. ParkingSize - 1
    BY <1>3, ParkingSizeAssumption DEF ValidPayload, ParkingPayloads
  <2> QED  BY <1>3, <2>1 DEF Update, UpdateParking, ParkingPayloads
<1>4. CASE topic = "vehicle_entry"
  BY <1>4 DEF ValidPayload, Update, UpdateVehicleEntry
<1>5. CASE topic = "vehicle_exit"
  BY <1>5 DEF ValidPayload, Update, UpdateVehicleLeave
<1> QED  BY <1>1, <1>2, <1>3, <1>4, <1>5

(* What a message does to the readings: nothing unless it is of that topic. *)
LEMMA UpdateReading ==
  ASSUME NEW c \in Contexts, NEW topic \in Topics, NEW payload
  PROVE  /\ Update(c, topic, payload).temperature
              = IF topic = "temperature" THEN payload.temperature ELSE c.temperature
         /\ Update(c, topic, payload).lux
              = IF topic = "light" THEN payload.lux ELSE c.lux
  BY DEF Contexts, Topics, EventTopics, Update, UpdateTemperature, UpdateLight,
         UpdateParking, UpdateVehicleEntry, UpdateVehicleLeave

(* ... and to the parking positions. *)
LEMMA UpdateOccupied ==
  ASSUME NEW c \in Contexts, NEW topic \in Topics, NEW payload, ValidPayload(topic, payload),
         topic = "parking" => payload \in ParkingPayloads \cup {Malformed}
  PROVE  \A p \in Positions :
           Update(c, topic, payload).positions_occupied[p] =
             IF topic = "parking" /\ payload.position = p THEN payload.on_occupy
             ELSE c.positions_occupied[p]
<1>1. CASE topic = "parking"
  <2>1. c.positions_occupied \in [Positions -> BOOLEAN]
    BY DEF Contexts
  <2>2. Update(c, topic, payload) =
          [c EXCEPT !.positions_occupied[payload.position] = payload.on_occupy]
    BY <1>1 DEF Update, UpdateParking
  <2>3. Update(c, topic, payload).positions_occupied =
          [c.positions_occupied EXCEPT ![payload.position] = payload.on_occupy]
    BY <2>2 DEF Contexts
  <2> QED  BY <1>1, <2>1, <2>3
<1>2. CASE topic # "parking"
  <2>1. Update(c, topic, payload).positions_occupied = c.positions_occupied
    BY <1>2 DEF Contexts, Topics, EventTopics, Update, UpdateTemperature, UpdateLight,
                UpdateVehicleEntry, UpdateVehicleLeave
  <2> QED  BY <1>2, <2>1
<1> QED  BY <1>1, <1>2

(* No message switches an actuator. *)
LEMMA UpdateKeepsActuators ==
  ASSUME NEW c \in Contexts, NEW topic \in Topics, NEW payload
  PROVE  Update(c, topic, payload).on = c.on
  BY DEF Contexts, Topics, EventTopics, Update, UpdateTemperature, UpdateLight,
         UpdateParking, UpdateVehicleEntry, UpdateVehicleLeave

(* A generated problem is well-formed, whatever the readings. *)
LEMMA GenerateType ==
  ASSUME NEW c \in Contexts
  PROVE  /\ InitPredicates(c) \in InitSections
         /\ GoalPredicates(c) \in GoalSections
         /\ Generate(c) \in Problems
<1>1. /\ TemperatureIsHigh(c) \in BOOLEAN /\ LuxIsDark(c) \in BOOLEAN
      /\ GarageIsFull(c) \in BOOLEAN
  BY DEF TemperatureIsHigh, LuxIsDark, GarageIsFull
<1>2. c.waiting \in [Gates -> BOOLEAN] /\ c.on \in [Actuators -> BOOLEAN]
  BY DEF Contexts
<1>3. InitPredicates(c) \in InitSections
  BY <1>1, <1>2 DEF InitPredicates, InitSections
<1>4. GoalPredicates(c) \in GoalSections
  BY DEF GoalPredicates, GoalSections
<1> QED  BY <1>3, <1>4 DEF Generate, Problems

--------------------------------------------------------------------------------
LEMMA InitialContextType == InitialContext \in Contexts
  BY DEF InitialContext, Contexts, Positions, Gates, Actuators

(* Settled, of the switches goal would make instead of those there are.    *)
Wanted(goal, c) ==
  /\ goal["fan"] = TemperatureIsHigh(c)
  /\ goal["light"] = LuxIsDark(c)
  /\ GarageIsFull(c) => ~goal["entrance_gate"]
  /\ c.waiting["entrance_gate"] => goal["entrance_gate"] \/ GarageIsFull(c)
  /\ c.waiting["exit_gate"] => goal["exit_gate"]

(* What was generated from a context is what it wants. *)
LEMMA GoalsAreWanted ==
  ASSUME NEW c \in Contexts PROVE Wanted(GoalPredicates(c), c)
<1> DEFINE goal == GoalPredicates(c)
<1>1. {"fan", "light", "entrance_gate", "exit_gate"} \subseteq Actuators
      /\ "fan" \notin Gates /\ "light" \notin Gates
  BY DEF Actuators, Gates
<1>2. goal["fan"] = TemperatureIsHigh(c) /\ goal["light"] = LuxIsDark(c)
  BY <1>1 DEF GoalPredicates, TemperatureIsHigh, LuxIsDark
<1>3. goal["entrance_gate"] = (c.waiting["entrance_gate"] /\ ~GarageIsFull(c))
  BY <1>1 DEF GoalPredicates
<1>4. c.waiting["exit_gate"] => goal["exit_gate"]
  BY <1>1 DEF GoalPredicates
<1> HIDE DEF goal
<1> QED  BY <1>2, <1>3, <1>4 DEF Wanted, goal

(* Executing part of a plan, then one more action of it.                   *)
LEMMA ContextsEqual ==
  ASSUME NEW c \in Contexts, NEW d \in Contexts,
         c.temperature = d.temperature, c.lux = d.lux,
         c.positions_occupied = d.positions_occupied, c.current_vehicles = d.current_vehicles,
         c.on = d.on, c.waiting = d.waiting
  PROVE  c = d
  BY DEF Contexts

LEMMA ExecuteFields ==
  ASSUME NEW c \in Contexts, NEW done \in SUBSET Actuators, NEW goal \in GoalSections
  PROVE  LET e == Execute(c, done, goal) IN
         /\ e \in Contexts
         /\ e.temperature = c.temperature /\ e.lux = c.lux
         /\ e.positions_occupied = c.positions_occupied
         /\ e.current_vehicles = c.current_vehicles
         /\ e.on = [a \in Actuators |-> IF a \in done THEN goal[a] ELSE c.on[a]]
         /\ e.waiting = [g \in Gates |-> c.waiting[g] /\ ~(g \in done /\ goal[g])]
  BY DEF Execute, Contexts, GoalSections

LEMMA ExecuteNothing ==
  ASSUME NEW c \in Contexts, NEW goal \in GoalSections
  PROVE  Execute(c, {}, goal) = c
<1> DEFINE e == Execute(c, {}, goal)
<1>1. /\ e \in Contexts
      /\ e.temperature = c.temperature /\ e.lux = c.lux
      /\ e.positions_occupied = c.positions_occupied /\ e.current_vehicles = c.current_vehicles
      /\ e.on = [a \in Actuators |-> IF a \in {} THEN goal[a] ELSE c.on[a]]
      /\ e.waiting = [g \in Gates |-> c.waiting[g] /\ ~(g \in {} /\ goal[g])]
  BY ExecuteFields
<1>2. c.on \in [Actuators -> BOOLEAN] /\ c.waiting \in [Gates -> BOOLEAN]
  BY DEF Contexts
<1>3. e.on = c.on
  BY <1>1, <1>2
<1>4. e.waiting = c.waiting
  BY <1>1, <1>2
<1> QED  BY <1>1, <1>3, <1>4, ContextsEqual

LEMMA ExecuteOneMore ==
  ASSUME NEW c \in Contexts, NEW done \in SUBSET Actuators, NEW goal \in GoalSections,
         NEW a \in Actuators
  PROVE  LET d == SetActuator(Execute(c, done, goal), a, goal[a]) IN
         Execute(c, done \cup {a}, goal) = IF ClearsWaiting(a, goal[a]) THEN ClearWaiting(d, a) ELSE d
<1> DEFINE e == Execute(c, done, goal)
           d == SetActuator(e, a, goal[a])
           f == Execute(c, done \cup {a}, goal)
<1>0. /\ c.on \in [Actuators -> BOOLEAN] /\ c.waiting \in [Gates -> BOOLEAN]
      /\ goal \in [Actuators -> BOOLEAN] /\ goal[a] \in BOOLEAN
      /\ done \cup {a} \in SUBSET Actuators
  BY DEF Contexts, GoalSections
<1>1. /\ e \in Contexts
      /\ e.temperature = c.temperature /\ e.lux = c.lux
      /\ e.positions_occupied = c.positions_occupied /\ e.current_vehicles = c.current_vehicles
      /\ e.on = [b \in Actuators |-> IF b \in done THEN goal[b] ELSE c.on[b]]
      /\ e.waiting = [g \in Gates |-> c.waiting[g] /\ ~(g \in done /\ goal[g])]
  BY ExecuteFields
<1>2. /\ f \in Contexts
      /\ f.temperature = c.temperature /\ f.lux = c.lux
      /\ f.positions_occupied = c.positions_occupied /\ f.current_vehicles = c.current_vehicles
      /\ f.on = [b \in Actuators |-> IF b \in done \cup {a} THEN goal[b] ELSE c.on[b]]
      /\ f.waiting = [g \in Gates |-> c.waiting[g] /\ ~(g \in done \cup {a} /\ goal[g])]
  BY <1>0, ExecuteFields
<1> HIDE DEF e, f
<1>3. /\ d \in Contexts /\ d.on = [e.on EXCEPT ![a] = goal[a]] /\ d.waiting = e.waiting
      /\ d.temperature = e.temperature /\ d.lux = e.lux
      /\ d.positions_occupied = e.positions_occupied /\ d.current_vehicles = e.current_vehicles
  BY <1>0, <1>1 DEF SetActuator, Contexts
<1> HIDE DEF d
<1>4. d.on = f.on
  BY <1>0, <1>1, <1>2, <1>3
<1>5. CASE ClearsWaiting(a, goal[a])
  <2> DEFINE w == ClearWaiting(d, a)
  <2>1. a \in Gates /\ goal[a] = TRUE
    BY <1>0, <1>5 DEF ClearsWaiting
  <2>2. /\ w \in Contexts /\ w.on = d.on /\ w.waiting = [d.waiting EXCEPT ![a] = FALSE]
        /\ w.temperature = d.temperature /\ w.lux = d.lux
        /\ w.positions_occupied = d.positions_occupied /\ w.current_vehicles = d.current_vehicles
    BY <1>3, <2>1 DEF ClearWaiting, Contexts
  <2>3. w.waiting = f.waiting
    <3>1. w.waiting \in [Gates -> BOOLEAN] /\ f.waiting \in [Gates -> BOOLEAN]
      BY <1>2, <2>2 DEF Contexts
    <3>2. ASSUME NEW g \in Gates PROVE w.waiting[g] = f.waiting[g]
      <4>1. CASE g = a
        <5>1. f.waiting[g] = (c.waiting[g] /\ ~(g \in done \cup {a} /\ goal[g]))
          BY <1>2, <3>2
        <5>2. ~f.waiting[g]
          BY <2>1, <4>1, <5>1
        <5>3. w.waiting[g] = FALSE
          BY <1>3, <2>2, <4>1, <2>1 DEF Contexts
        <5> QED  BY <3>1, <5>2, <5>3
      <4>2. CASE g # a
        <5>1. w.waiting[g] = e.waiting[g]
          BY <1>1, <1>3, <2>2, <4>2, <3>2 DEF Contexts
        <5>2. g \in done \cup {a} <=> g \in done
          BY <4>2
        <5> QED  BY <1>1, <1>2, <5>1, <5>2, <3>2
      <4> QED  BY <4>1, <4>2
    <3> QED  BY <3>1, <3>2
  <2>4. f = w
    BY <1>1, <1>2, <1>3, <1>4, <2>2, <2>3, ContextsEqual
  <2> QED  BY <1>5, <2>4 DEF d, e, f
<1>6. CASE ~ClearsWaiting(a, goal[a])
  <2>1. ~(a \in Gates /\ goal[a])
    BY <1>6 DEF ClearsWaiting
  <2>2. d.waiting = f.waiting
    <3>1. d.waiting \in [Gates -> BOOLEAN] /\ f.waiting \in [Gates -> BOOLEAN]
      BY <1>2, <1>3 DEF Contexts
    <3>2. ASSUME NEW g \in Gates PROVE d.waiting[g] = f.waiting[g]
      BY <1>1, <1>2, <1>3, <2>1, <3>2
    <3> QED  BY <3>1, <3>2
  <2>3. f = d
    BY <1>1, <1>2, <1>3, <1>4, <2>2, ContextsEqual
  <2> QED  BY <1>6, <2>3 DEF d, e, f
<1> QED  BY <1>5, <1>6

(* A whole plan, executed from the context it was made for. *)
LEMMA WholePlanSettles ==
  ASSUME NEW c \in Contexts
  PROVE  LET d == Execute(c, Switched(Generate(c)), GoalPredicates(c))
         IN  d \in Contexts /\ Settled(d)
<1> DEFINE goal == GoalPredicates(c)
           plan == Switched(Generate(c))
           d    == Execute(c, plan, goal)
<1>0. /\ goal \in GoalSections /\ goal \in [Actuators -> BOOLEAN]
      /\ plan = {a \in Actuators : goal[a] # c.on[a]}
      /\ c.on \in [Actuators -> BOOLEAN] /\ c.waiting \in [Gates -> BOOLEAN]
      /\ Wanted(goal, c)
  BY GenerateType, GoalsAreWanted DEF Generate, InitPredicates, Switched, Contexts, GoalSections
<1> HIDE DEF goal, plan
<1>1. /\ d \in Contexts
      /\ d.temperature = c.temperature /\ d.lux = c.lux
      /\ d.positions_occupied = c.positions_occupied
      /\ d.on = [a \in Actuators |-> IF a \in plan THEN goal[a] ELSE c.on[a]]
      /\ d.waiting = [g \in Gates |-> c.waiting[g] /\ ~(g \in plan /\ goal[g])]
  BY <1>0, ExecuteFields
<1> HIDE DEF d
<1>2. \A a \in Actuators : d.on[a] = goal[a]
  <2> SUFFICES ASSUME NEW a \in Actuators PROVE d.on[a] = goal[a]
    OBVIOUS
  <2>1. a \in plan <=> goal[a] # c.on[a]
    BY <1>0
  <2>2. d.on[a] = IF a \in plan THEN goal[a] ELSE c.on[a]
    BY <1>1
  <2> QED  BY <2>1, <2>2
<1>3. \A g \in Gates : d.waiting[g] => c.waiting[g]
  BY <1>1
<1>4. /\ TemperatureIsHigh(d) = TemperatureIsHigh(c)
      /\ LuxIsDark(d) = LuxIsDark(c)
      /\ GarageIsFull(d) = GarageIsFull(c)
  BY <1>1 DEF TemperatureIsHigh, LuxIsDark, GarageIsFull
<1>5. Settled(d)
  <2>1. /\ d.on["fan"] = goal["fan"] /\ d.on["light"] = goal["light"]
        /\ d.on["entrance_gate"] = goal["entrance_gate"]
        /\ d.on["exit_gate"] = goal["exit_gate"]
        /\ d.waiting["entrance_gate"] => c.waiting["entrance_gate"]
        /\ d.waiting["exit_gate"] => c.waiting["exit_gate"]
    BY <1>2, <1>3 DEF Actuators, Gates
  <2> QED  BY <1>0, <1>4, <2>1 DEF Settled, Wanted
<1> QED  BY <1>1, <1>5 DEF d, plan, goal

================================================================================
