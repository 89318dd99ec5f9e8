------------------------------ MODULE PlanningCycle ------------------------------
(***************************************************************************)
(* One planning cycle, from every context there is: generate the problem,  *)
(* run the backend, of Fast Downward with the states it may search, then   *)
(* execute the plan action by action on the context, beside the state the  *)
(* PDDL domain predicts.                                                   *)
(***************************************************************************)
EXTENDS Executor

VARIABLES
  backend,      \* which backend the planner was given
  context,      \* the garage context the executor updates
  problem,      \* problem.pddl
  node,         \* the state a search of the problem has got to
  state,        \* the state of the PDDL domain
  todo          \* the switches of the plan not executed yet

vars == <<backend, context, problem, node, state, todo>>

(* Every context, except that FastDownward returns a plan only if one exists. *)
CycleInit ==
  /\ backend \in Backends
  /\ context \in Contexts
  /\ problem = Generate(context)
  /\ node = problem.init
  /\ state = problem.init
  /\ todo = IF BackendFails(backend, problem) THEN {} ELSE Switched(problem)

(* Fast Downward searches the states that the actions of domain.pddl reach *)
(* from the problem's initial state, before the executor has its plan.     *)
Explore(a, v) ==
  /\ backend = "fd"
  /\ state = problem.init
  /\ Precondition(node, a, v)
  /\ node' = Effect(node, a, v)
  /\ UNCHANGED <<backend, context, problem, state, todo>>

Search == \E a \in Actuators, v \in BOOLEAN : Explore(a, v)

Step(a) ==
  /\ MayComeNext(backend, a, todo)
  /\ state' = Effect(state, a, problem.goal[a])
  /\ context' = ApplyActionEffect(context, a, problem.goal[a])
  /\ todo' = todo \ {a}
  /\ UNCHANGED <<backend, problem, node>>

CycleNext == Search \/ \E a \in Actuators : Step(a)

CycleSpec == CycleInit /\ [][CycleNext]_vars

--------------------------------------------------------------------------------
(* The generated problems that have no plan are exactly those of a vehicle *)
(* waiting at an entrance gate that is already open in a full garage:      *)
(* close-entrance-gate needs nobody waiting.                               *)
Stuck(s) == s.waiting["entrance_gate"] /\ s.on["entrance_gate"] /\ s.full

SolvableUnlessStuck == Solvable(problem) <=> ~Stuck(problem.init)

(* Otherwise a plan never lists an action whose precondition in            *)
(* domain.pddl fails when its turn comes, in whichever order the backend   *)
(* puts them: the rule backend, which reads no precondition, still obeys   *)
(* them all.                                                               *)
PlanIsApplicable ==
  ~Stuck(problem.init) => \A a \in todo : Precondition(state, a, problem.goal[a])

(* With everything executed, the context records what the domain predicts, *)
(* and nothing is left to do about it.                                     *)
CycleSettles ==
  todo = {} /\ ~BackendFails(backend, problem) =>
    state.on = problem.goal /\ context.on = state.on /\ Settled(context)

--------------------------------------------------------------------------------
(* Wherever a search has got to, every action the domain allows takes its  *)
(* actuator to the goal: a sequence of actions that reaches the goal is    *)
(* the set of switches in some order, which is what Planner calls a plan.  *)
NoDetours ==
  \A a \in Actuators, v \in BOOLEAN :
    Precondition(node, a, v) => a \in Switched(problem) /\ v = problem.goal[a]

(* The goal is reached only if every switch was allowed to begin with, and *)
(* then no action ever gets in the way of another: Solvable is what a      *)
(* complete search answers.                                                *)
SolvableIsReachable ==
  /\ node.on = problem.goal => Solvable(problem)
  /\ Solvable(problem) =>
       \A a \in Actuators :
         node.on[a] # problem.goal[a] => Precondition(node, a, problem.goal[a])

================================================================================
