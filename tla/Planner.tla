-------------------------------- MODULE Planner --------------------------------
(***************************************************************************)
(* planner/: from a context to the commands that bring the actuators where *)
(* the context wants them.                                                 *)
(*                                                                         *)
(* A problem holds the predicates of its :init section and, per actuator,  *)
(* whether its :goal section asks for it on (open) or off (closed).  A     *)
(* plan switches each actuator at most once, so it is the set of actuators *)
(* it switches; in which order is said by MayComeNext.                     *)
(***************************************************************************)
EXTENDS GarageModel

(* RulePlanningBackend and FastDownwardBackend. *)
Backends == {"rule", "fd"}

InitSections ==
  [hot : BOOLEAN, dark : BOOLEAN, full : BOOLEAN,
   waiting : [Gates -> BOOLEAN], on : [Actuators -> BOOLEAN]]

GoalSections == [Actuators -> BOOLEAN]

Problems == [init : InitSections, goal : GoalSections]

InitPredicates(c) ==
  [hot |-> TemperatureIsHigh(c), dark |-> LuxIsDark(c), full |-> GarageIsFull(c),
   waiting |-> c.waiting, on |-> c.on]

(* Mutant: the entrance opens for whoever waits. *)
GoalPredicatesWhenFull(c) ==
  [a \in Actuators |->
     \/ a = "fan"   /\ TemperatureIsHigh(c)
     \/ a = "light" /\ LuxIsDark(c)
     \/ a \in Gates /\ c.waiting[a]]

GoalPredicates(c) ==
  [a \in Actuators |->
     \/ a = "fan"   /\ TemperatureIsHigh(c)
     \/ a = "light" /\ LuxIsDark(c)
     \/ a = "entrance_gate" /\ c.waiting["entrance_gate"] /\ ~GarageIsFull(c)
     \/ a = "exit_gate"     /\ c.waiting["exit_gate"]]

Generate(c) == [init |-> InitPredicates(c), goal |-> GoalPredicates(c)]

--------------------------------------------------------------------------------
(* RulePlanningBackend: one action for every actuator that is not where    *)
(* the goal wants it, in the order fan, light, entrance, exit.             *)

Switched(problem) == {a \in Actuators : problem.goal[a] # problem.init.on[a]}

RuleOrder == [fan |-> 1, light |-> 2, entrance_gate |-> 3, exit_gate |-> 4]

--------------------------------------------------------------------------------
(* domain.pddl.  Precondition(s, a, v) is the precondition of the action   *)
(* that takes actuator a to v; its effect is on a alone.                   *)

(* Mutant: a domain with an interlock between the gates. *)
PreconditionInterlocked(s, a, v) ==
  /\ s.on[a] # v
  /\ a = "fan"   => s.hot = v
  /\ a = "light" => s.dark = v
  /\ a \in Gates => s.waiting[a] = v
  /\ a = "entrance_gate" /\ v => ~s.full
  /\ a = "exit_gate" /\ v => ~s.on["entrance_gate"]

(* Mutant: gates close although somebody waits. *)
PreconditionToOpen(s, a, v) ==
  /\ s.on[a] # v
  /\ a = "fan"   => s.hot = v
  /\ a = "light" => s.dark = v
  /\ a \in Gates /\ v => s.waiting[a]
  /\ a = "entrance_gate" /\ v => ~s.full

Precondition(s, a, v) ==
  /\ s.on[a] # v
  /\ a = "fan"   => s.hot = v
  /\ a = "light" => s.dark = v
  /\ a \in Gates => s.waiting[a] = v
  /\ a = "entrance_gate" /\ v => ~s.full

Effect(s, a, v) == [s EXCEPT !.on[a] = v]

(* Fast Downward finds a shortest plan.  No action changes what another    *)
(* one needs, so there is a plan iff every switch is allowed at once       *)
(* (SolvableIsReachable in PlanningCycle).                                 *)
Solvable(problem) ==
  \A a \in Switched(problem) : Precondition(problem.init, a, problem.goal[a])

(* The backend exits with an error, CalledProcessError in planner.plan:    *)
(* only Fast Downward does, on a problem without a plan.                   *)
BackendFails(backend, problem) == backend = "fd" /\ ~Solvable(problem)

(* Which of the actions still to execute the plan lists first: astar may   *)
(* return a shortest plan in any order.                                    *)
MayComeNext(backend, a, todo) ==
  /\ a \in todo
  /\ backend = "rule" => \A b \in todo : RuleOrder[a] <= RuleOrder[b]

================================================================================
