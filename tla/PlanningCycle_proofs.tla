-------------------------- MODULE PlanningCycle_proofs -------------------------
(***************************************************************************)
(* The planner is right for a garage of any size and any readings: both    *)
(* backends produce plans that domain.pddl allows, the plans leave nothing *)
(* to do, and the problems without a plan are known.  So GarageControl,    *)
(* which plans and executes in one step, always leaves the garage settled. *)
(***************************************************************************)
EXTENDS PlanningCycle, GarageControl, Planner_proofs, TLAPS

Readings(c) ==
  [hot |-> TemperatureIsHigh(c), dark |-> LuxIsDark(c), full |-> GarageIsFull(c)]

CycleTypeOK ==
  /\ context \in Contexts
  /\ problem \in Problems
  /\ state \in InitSections
  /\ todo \subseteq Switched(problem)

(* The problem is the one generated from a context with these readings.    *)
GoalFollowsInit ==
  /\ problem.goal["fan"] = problem.init.hot
  /\ problem.goal["light"] = problem.init.dark
  /\ problem.goal["entrance_gate"]
       = (problem.init.waiting["entrance_gate"] /\ ~problem.init.full)
  /\ problem.goal["exit_gate"] = problem.init.waiting["exit_gate"]

(* No action of the domain touches what the preconditions read, ...        *)
StateKeepsReadings ==
  /\ state.hot = problem.init.hot
  /\ state.dark = problem.init.dark
  /\ state.full = problem.init.full
  /\ state.waiting = problem.init.waiting
  /\ state.hot = TemperatureIsHigh(context)
  /\ state.dark = LuxIsDark(context)
  /\ state.full = GarageIsFull(context)

(* ... each switches its own actuator, in the state and in the context,    *)
(* and a waiting flag is only ever cleared.                                *)
PlanIsPartlyExecuted ==
  /\ \A a \in todo : state.on[a] = problem.init.on[a]
  /\ ~BackendFails(backend, problem) =>
       \A a \in Actuators \ todo : state.on[a] = problem.goal[a]
  /\ context.on = state.on
  /\ \A g \in Gates : context.waiting[g] => problem.init.waiting[g]

CycleInv == CycleTypeOK /\ GoalFollowsInit /\ StateKeepsReadings /\ PlanIsPartlyExecuted

LEMMA InitCycle == CycleInit => CycleInv
<1> SUFFICES ASSUME CycleInit PROVE CycleInv
  OBVIOUS
<1>1. /\ context \in Contexts /\ problem \in Problems
      /\ problem.init = InitPredicates(context) /\ problem.goal = GoalPredicates(context)
      /\ state = problem.init /\ state \in InitSections
  BY GenerateType DEF CycleInit, Generate
<1>2. todo \subseteq Switched(problem)
  BY DEF CycleInit
<1>3. CycleTypeOK
  BY <1>1, <1>2 DEF CycleTypeOK
<1>4. GoalFollowsInit
  <2> DEFINE goal == GoalPredicates(context)
  <2>1. {"fan", "light", "entrance_gate", "exit_gate"} \subseteq Actuators
        /\ "fan" \notin Gates /\ "light" \notin Gates
    BY DEF Actuators, Gates
  <2>2. goal["fan"] = TemperatureIsHigh(context) /\ goal["light"] = LuxIsDark(context)
    BY <2>1 DEF GoalPredicates, TemperatureIsHigh, LuxIsDark
  <2>3. goal["entrance_gate"]
          = (context.waiting["entrance_gate"] /\ ~GarageIsFull(context))
    BY <2>1 DEF GoalPredicates
  <2>4. goal["exit_gate"] = context.waiting["exit_gate"]
    <3>1. context.waiting["exit_gate"] \in BOOLEAN
      BY DEF CycleInit, Contexts, Gates
    <3> QED  BY <2>1, <3>1 DEF GoalPredicates
  <2> HIDE DEF goal
  <2> QED  BY <1>1, <2>2, <2>3, <2>4 DEF InitPredicates, GoalFollowsInit, goal
<1>5. StateKeepsReadings
  BY <1>1 DEF StateKeepsReadings, InitPredicates
<1>6. PlanIsPartlyExecuted
  <2>1. context.on = state.on /\ \A g \in Gates : context.waiting[g] => problem.init.waiting[g]
    BY <1>1 DEF InitPredicates
  <2>2. ~BackendFails(backend, problem) =>
          \A a \in Actuators \ todo : state.on[a] = problem.goal[a]
    BY <1>1 DEF CycleInit, Switched
  <2> QED  BY <1>1, <2>1, <2>2 DEF PlanIsPartlyExecuted
<1> QED  BY <1>3, <1>4, <1>5, <1>6 DEF CycleInv

(* What the executor writes of a context.                                  *)
LEMMA EffectFacts ==
  ASSUME NEW c \in Contexts, NEW a \in Actuators, NEW v \in BOOLEAN
  PROVE  LET d == ApplyActionEffect(c, a, v) IN
         /\ d \in Contexts
         /\ d.on = [c.on EXCEPT ![a] = v]
         /\ \A g \in Gates : d.waiting[g] => c.waiting[g]
         /\ Readings(d) = Readings(c)
<1>1. CASE ClearsWaiting(a, v)
  <2> DEFINE d == ClearWaiting(SetActuator(c, a, v), a)
  <2>1. d \in Contexts /\ d.on = [c.on EXCEPT ![a] = v]
        /\ d.waiting = [c.waiting EXCEPT ![a] = FALSE]
        /\ d.temperature = c.temperature /\ d.lux = c.lux
        /\ d.positions_occupied = c.positions_occupied
    BY <1>1 DEF Contexts, ClearWaiting, SetActuator, ClearsWaiting
  <2>2. \A g \in Gates : d.waiting[g] => c.waiting[g]
    BY <2>1 DEF Contexts
  <2>3. Readings(d) = Readings(c)
    BY <2>1 DEF Readings, TemperatureIsHigh, LuxIsDark, GarageIsFull
  <2> QED  BY <1>1, <2>1, <2>2, <2>3 DEF ApplyActionEffect
<1>2. CASE ~ClearsWaiting(a, v)
  <2> DEFINE d == SetActuator(c, a, v)
  <2>1. d \in Contexts /\ d.on = [c.on EXCEPT ![a] = v] /\ d.waiting = c.waiting
        /\ d.temperature = c.temperature /\ d.lux = c.lux
        /\ d.positions_occupied = c.positions_occupied
    BY DEF Contexts, SetActuator
  <2>2. Readings(d) = Readings(c)
    BY <2>1 DEF Readings, TemperatureIsHigh, LuxIsDark, GarageIsFull
  <2> QED  BY <1>2, <2>1, <2>2 DEF ApplyActionEffect
<1> QED  BY <1>1, <1>2

LEMMA StepCycle ==
  ASSUME CycleInv, NEW a \in Actuators, Step(a) PROVE CycleInv'
<1> DEFINE v == problem.goal[a]
<1>0. /\ v \in BOOLEAN /\ a \in todo /\ todo' = todo \ {a}
      /\ state' = Effect(state, a, v) /\ context' = ApplyActionEffect(context, a, v)
      /\ problem' = problem /\ backend' = backend
  BY DEF Step, MayComeNext, CycleInv, CycleTypeOK, Problems, GoalSections
<1>1. /\ state' \in InitSections /\ state'.on = [state.on EXCEPT ![a] = v]
      /\ state'.hot = state.hot /\ state'.dark = state.dark /\ state'.full = state.full
      /\ state'.waiting = state.waiting
  BY <1>0 DEF Effect, InitSections, CycleInv, CycleTypeOK
<1>2. /\ context' \in Contexts /\ context'.on = [context.on EXCEPT ![a] = v]
      /\ \A g \in Gates : context'.waiting[g] => context.waiting[g]
      /\ Readings(context') = Readings(context)
  BY <1>0, EffectFacts DEF CycleInv, CycleTypeOK
<1>3. CycleTypeOK' /\ GoalFollowsInit'
  BY <1>0, <1>1, <1>2 DEF CycleInv, CycleTypeOK, GoalFollowsInit
<1>4. StateKeepsReadings'
  <2>1. /\ TemperatureIsHigh(context') = TemperatureIsHigh(context)
        /\ LuxIsDark(context') = LuxIsDark(context)
        /\ GarageIsFull(context') = GarageIsFull(context)
    BY <1>2 DEF Readings
  <2> QED  BY <1>0, <1>1, <2>1 DEF CycleInv, StateKeepsReadings
<1>5. PlanIsPartlyExecuted'
  <2>1. state.on \in [Actuators -> BOOLEAN] /\ todo \subseteq Actuators
    BY DEF CycleInv, CycleTypeOK, InitSections, Switched
  <2>2. \A b \in todo' : state'.on[b] = problem'.init.on[b]
    BY <1>0, <1>1, <2>1 DEF CycleInv, PlanIsPartlyExecuted
  <2>3. ~BackendFails(backend', problem') =>
          \A b \in Actuators \ todo' : state'.on[b] = problem'.goal[b]
    BY <1>0, <1>1, <2>1 DEF CycleInv, PlanIsPartlyExecuted
  <2>4. context'.on = state'.on
    BY <1>1, <1>2 DEF CycleInv, PlanIsPartlyExecuted
  <2>5. \A g \in Gates : context'.waiting[g] => problem'.init.waiting[g]
    BY <1>0, <1>2 DEF CycleInv, PlanIsPartlyExecuted
  <2> QED  BY <2>2, <2>3, <2>4, <2>5 DEF PlanIsPartlyExecuted
<1> QED  BY <1>3, <1>4, <1>5 DEF CycleInv

LEMMA NextCycle == CycleInv /\ [CycleNext]_vars => CycleInv'
<1>1. CycleInv /\ UNCHANGED vars => CycleInv'
  BY DEF vars, CycleInv, CycleTypeOK, GoalFollowsInit, StateKeepsReadings, PlanIsPartlyExecuted
<1>2. CycleInv /\ Search => CycleInv'
  BY DEF Search, Explore, CycleInv, CycleTypeOK, GoalFollowsInit, StateKeepsReadings,
         PlanIsPartlyExecuted
<1> QED  BY <1>1, <1>2, StepCycle DEF CycleNext

--------------------------------------------------------------------------------
LEMMA InvApplicable == CycleInv => PlanIsApplicable
<1> SUFFICES ASSUME CycleInv, ~Stuck(problem.init), NEW a \in todo
             PROVE  Precondition(state, a, problem.goal[a])
  BY DEF PlanIsApplicable
<1> DEFINE v == problem.goal[a]
<1>1. /\ a \in Actuators /\ v # problem.init.on[a] /\ v \in BOOLEAN
      /\ problem.init.on[a] \in BOOLEAN /\ problem.init.full \in BOOLEAN
      /\ \A g \in Gates : problem.init.waiting[g] \in BOOLEAN
  BY DEF CycleInv, CycleTypeOK, Switched, Problems, GoalSections, InitSections
<1>2. state.on[a] # v
  BY <1>1 DEF CycleInv, PlanIsPartlyExecuted
<1>3. (a = "fan" => state.hot = v) /\ (a = "light" => state.dark = v)
  BY DEF CycleInv, StateKeepsReadings, GoalFollowsInit
<1>4. a \in Gates => state.waiting[a] = v
  BY <1>1 DEF CycleInv, StateKeepsReadings, GoalFollowsInit, Stuck, Gates
<1>5. a = "entrance_gate" /\ v => ~state.full
  BY <1>1 DEF CycleInv, StateKeepsReadings, GoalFollowsInit
<1> QED  BY <1>2, <1>3, <1>4, <1>5 DEF Precondition

LEMMA InvSettles == CycleInv => CycleSettles
<1> SUFFICES ASSUME CycleInv, todo = {}, ~BackendFails(backend, problem)
             PROVE  state.on = problem.goal /\ context.on = state.on /\ Settled(context)
  BY DEF CycleSettles
<1>1. /\ state.on \in [Actuators -> BOOLEAN] /\ problem.goal \in [Actuators -> BOOLEAN]
      /\ context.waiting \in [Gates -> BOOLEAN]
  BY DEF CycleInv, CycleTypeOK, InitSections, Problems, GoalSections, Contexts
<1>2. \A a \in Actuators : state.on[a] = problem.goal[a]
  BY DEF CycleInv, PlanIsPartlyExecuted
<1>3. state.on = problem.goal /\ context.on = problem.goal
  BY <1>1, <1>2 DEF CycleInv, PlanIsPartlyExecuted
<1>4. /\ problem.init.hot = TemperatureIsHigh(context)
      /\ problem.init.dark = LuxIsDark(context)
      /\ problem.init.full = GarageIsFull(context)
      /\ \A g \in Gates : context.waiting[g] => problem.init.waiting[g]
  BY DEF CycleInv, StateKeepsReadings, PlanIsPartlyExecuted
<1>5. Settled(context)
  BY <1>3, <1>4 DEF CycleInv, GoalFollowsInit, Settled, Gates
<1> QED  BY <1>3, <1>5

LEMMA InvSolvable == CycleInv => SolvableUnlessStuck
<1> SUFFICES ASSUME CycleInv PROVE Solvable(problem) <=> ~Stuck(problem.init)
  BY DEF SolvableUnlessStuck
<1>1. /\ problem.goal \in [Actuators -> BOOLEAN] /\ problem.init.on \in [Actuators -> BOOLEAN]
      /\ problem.init.full \in BOOLEAN /\ problem.init.waiting \in [Gates -> BOOLEAN]
  BY DEF CycleInv, CycleTypeOK, Problems, GoalSections, InitSections
<1>2. ASSUME ~Stuck(problem.init), NEW a \in Switched(problem)
      PROVE  Precondition(problem.init, a, problem.goal[a])
  BY <1>1, <1>2 DEF CycleInv, GoalFollowsInit, Precondition, Switched, Stuck, Actuators, Gates
<1>3. ASSUME Stuck(problem.init) PROVE ~Solvable(problem)
  <2>1. "entrance_gate" \in Switched(problem)
    BY <1>1, <1>3 DEF CycleInv, GoalFollowsInit, Switched, Stuck, Actuators, Gates
  <2>2. ~Precondition(problem.init, "entrance_gate", problem.goal["entrance_gate"])
    BY <1>1, <1>3 DEF CycleInv, GoalFollowsInit, Precondition, Stuck, Gates
  <2> QED  BY <2>1, <2>2 DEF Solvable
<1> QED  BY <1>2, <1>3 DEF Solvable

--------------------------------------------------------------------------------
(* The search for a plan. *)

SearchReadings ==
  /\ node.hot = problem.init.hot /\ node.dark = problem.init.dark
  /\ node.full = problem.init.full /\ node.waiting = problem.init.waiting

(* An actuator is where it was, or where the goal wants it, and then this  *)
(* was allowed from the start.                                             *)
SearchInv ==
  /\ problem \in Problems /\ node \in InitSections
  /\ GoalFollowsInit /\ SearchReadings
  /\ \A a \in Actuators :
       node.on[a] # problem.init.on[a] =>
         /\ node.on[a] = problem.goal[a]
         /\ Precondition(problem.init, a, problem.goal[a])

LEMMA SearchTypes ==
  ASSUME problem \in Problems, node \in InitSections
  PROVE  /\ problem.goal \in [Actuators -> BOOLEAN] /\ problem.init \in InitSections
         /\ problem.init.on \in [Actuators -> BOOLEAN] /\ node.on \in [Actuators -> BOOLEAN]
         /\ problem.init.waiting \in [Gates -> BOOLEAN]
         /\ problem.init.full \in BOOLEAN /\ problem.init.hot \in BOOLEAN
         /\ problem.init.dark \in BOOLEAN
  BY DEF Problems, InitSections, GoalSections

(* In two states with the same readings the same actions are allowed. *)
LEMMA SameReadings ==
  ASSUME SearchReadings, NEW a \in Actuators, NEW v \in BOOLEAN
  PROVE  /\ Precondition(node, a, v) /\ problem.init.on[a] # v => Precondition(problem.init, a, v)
         /\ Precondition(problem.init, a, v) /\ node.on[a] # v => Precondition(node, a, v)
  BY DEF SearchReadings, Precondition

LEMMA SearchGoesToGoal == SearchInv => NoDetours
<1> SUFFICES ASSUME SearchInv, NEW a \in Actuators, NEW v \in BOOLEAN, Precondition(node, a, v)
             PROVE  a \in Switched(problem) /\ v = problem.goal[a]
  BY DEF NoDetours
<1>1. /\ problem.goal \in [Actuators -> BOOLEAN] /\ problem.init.waiting \in [Gates -> BOOLEAN]
      /\ problem.init.on \in [Actuators -> BOOLEAN] /\ node.on \in [Actuators -> BOOLEAN]
      /\ problem.init.full \in BOOLEAN
  BY SearchTypes DEF SearchInv
<1>2. v = problem.goal[a]
  <2>1. CASE a \in {"fan", "light"}
    BY <2>1 DEF SearchInv, SearchReadings, GoalFollowsInit, Precondition
  <2>2. CASE a = "entrance_gate"
    <3>1. problem.init.waiting[a] = v /\ (v => ~problem.init.full)
      BY <2>2 DEF SearchInv, SearchReadings, Precondition, Gates
    <3> QED  BY <1>1, <2>2, <3>1 DEF SearchInv, GoalFollowsInit
  <2>3. CASE a = "exit_gate"
    BY <1>1, <2>3 DEF SearchInv, SearchReadings, GoalFollowsInit, Precondition, Gates
  <2> QED  BY <2>1, <2>2, <2>3 DEF Actuators, Gates
<1>3. node.on[a] # problem.goal[a]
  BY <1>2 DEF Precondition
<1> QED  BY <1>1, <1>2, <1>3 DEF SearchInv, Switched

LEMMA SearchAnswers == SearchInv => SolvableIsReachable
<1> SUFFICES ASSUME SearchInv PROVE SolvableIsReachable
  OBVIOUS
<1> USE DEF SearchInv
<1>1. /\ problem.goal \in [Actuators -> BOOLEAN] /\ node.on \in [Actuators -> BOOLEAN]
      /\ problem.init.on \in [Actuators -> BOOLEAN]
  BY SearchTypes
<1>2. ASSUME node.on = problem.goal, NEW a \in Switched(problem)
      PROVE  Precondition(problem.init, a, problem.goal[a])
  BY <1>2 DEF Switched
<1>3. ASSUME Solvable(problem), NEW a \in Actuators, node.on[a] # problem.goal[a]
      PROVE  Precondition(node, a, problem.goal[a])
  <2>1. a \in Switched(problem)
    BY <1>3 DEF Switched
  <2>2. Precondition(problem.init, a, problem.goal[a])
    BY <1>3, <2>1 DEF Solvable
  <2> QED  BY <1>1, <1>3, <2>2, SameReadings
<1> QED  BY <1>2, <1>3 DEF SolvableIsReachable, Solvable

LEMMA InitSearch == CycleInit => SearchInv
<1> SUFFICES ASSUME CycleInit PROVE SearchInv
  OBVIOUS
<1>1. CycleInv /\ node = problem.init /\ problem.init \in InitSections
  BY InitCycle DEF CycleInit, CycleInv, CycleTypeOK, Problems
<1> QED  BY <1>1 DEF CycleInv, CycleTypeOK, SearchInv, SearchReadings

LEMMA NextSearch == SearchInv /\ [CycleNext]_vars => SearchInv'
<1> SUFFICES ASSUME SearchInv, [CycleNext]_vars PROVE SearchInv'
  OBVIOUS
<1>1. ASSUME UNCHANGED <<problem, node>> PROVE SearchInv'
  BY <1>1 DEF SearchInv, SearchReadings, GoalFollowsInit
<1>2. ASSUME NEW a \in Actuators, NEW v \in BOOLEAN, Explore(a, v) PROVE SearchInv'
  <2>1. /\ Precondition(node, a, v) /\ node' = Effect(node, a, v) /\ problem' = problem
    BY <1>2 DEF Explore
  <2>2. a \in Switched(problem) /\ v = problem.goal[a]
    BY <2>1, SearchGoesToGoal DEF NoDetours
  <2>3. /\ node' \in InitSections /\ node'.on = [node.on EXCEPT ![a] = v]
        /\ node'.hot = node.hot /\ node'.dark = node.dark /\ node'.full = node.full
        /\ node'.waiting = node.waiting /\ node.on \in [Actuators -> BOOLEAN]
    BY <2>1 DEF Effect, InitSections, SearchInv
  <2>4. Precondition(problem.init, a, problem.goal[a])
    BY <2>1, <2>2, SameReadings DEF SearchInv, Switched
  <2>5. SearchReadings' /\ GoalFollowsInit'
    BY <2>1, <2>3 DEF SearchInv, SearchReadings, GoalFollowsInit
  <2>6. \A b \in Actuators : node'.on[b] = IF b = a THEN v ELSE node.on[b]
    BY <2>3
  <2> QED  BY <2>1, <2>2, <2>3, <2>4, <2>5, <2>6 DEF SearchInv
<1> QED  BY <1>1, <1>2 DEF CycleNext, Search, Step, vars

--------------------------------------------------------------------------------
(* In a garage of any size, from any context: an action's precondition in  *)
(* domain.pddl holds when its turn comes, in the fixed order of the rules  *)
(* and in whatever order Fast Downward chooses.                            *)
THEOREM PlansAreApplicable == CycleSpec => []PlanIsApplicable
  BY InitCycle, NextCycle, InvApplicable, PTL DEF CycleSpec

(* A plan that has been executed to its end leaves the actuators where     *)
(* description.md wants them, and the context as the domain predicts.      *)
THEOREM CyclesSettle == CycleSpec => []CycleSettles
  BY InitCycle, NextCycle, InvSettles, PTL DEF CycleSpec

(* A generated problem has no plan exactly if a vehicle waits at the open  *)
(* entrance gate of a full garage.                                         *)
THEOREM StuckIsTheOnlyFailure == CycleSpec => []SolvableUnlessStuck
  BY InitCycle, NextCycle, InvSolvable, PTL DEF CycleSpec

(* Whatever sequence of the domain's actions a search tries, from a        *)
(* problem generated in a garage of any size, each action is one of the    *)
(* switches of the plan: plans differ in their order only.                 *)
THEOREM PlansAreSets == CycleSpec => []NoDetours
  BY InitSearch, NextSearch, SearchGoesToGoal, PTL DEF CycleSpec

(* Fast Downward fails exactly on the problems that are not Solvable: no   *)
(* search reaches the goal of such a problem, and in another one every     *)
(* switch stays allowed until it has been made.                            *)
THEOREM SolvableDecides == CycleSpec => []SolvableIsReachable
  BY InitSearch, NextSearch, SearchAnswers, PTL DEF CycleSpec

--------------------------------------------------------------------------------
(* GarageControl plans and executes at once. *)

LEMMA AcceptSettles ==
  ASSUME ~Faulty, garage \in Contexts, NEW i \in Inputs, Accept(i)
  PROVE  garage' \in Contexts /\ Settled(garage')
<1> DEFINE c == Update(garage, i.topic, i.payload)
<1>1. c \in Contexts
  BY UpdateType, InputsAssumption DEF Accept
<1>2. garage' = Execute(c, Switched(Generate(c)), GoalPredicates(c))
  BY DEF Accept, Executed
<1> QED  BY <1>1, <1>2, WholePlanSettles

(* GarageControl keeps its promise for any garage and any inputs: as long  *)
(* as neither the planner nor publish fails, every actuator is where the   *)
(* context wants it after every message (implementation.md, 6).            *)
THEOREM ControlSettles ==
  ASSUME ~Faulty PROVE Spec => []AlwaysSettled
<1> DEFINE Inv == garage \in Contexts /\ Settled(garage)
<1>1. Init => Inv
  <2>1. Settled(InitialContext)
    BY DEF Settled, InitialContext, TemperatureIsHigh, LuxIsDark, Actuators, Gates
  <2> QED  BY <2>1, InitialContextType DEF Init
<1>2. Inv /\ [Next]_garage => Inv'
  BY AcceptSettles DEF Next, Sense, Vehicle, Settled
<1>3. Inv => AlwaysSettled
  BY DEF AlwaysSettled
<1> QED  BY <1>1, <1>2, <1>3, PTL DEF Spec

================================================================================
