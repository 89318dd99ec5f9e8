-------------------------------- MODULE Executor --------------------------------
(***************************************************************************)
(* executor/executor.py: what the context records once a command has been  *)
(* published.  The code makes two separate assignments for an opened gate; *)
(* each is an operator of its own, so that a threaded model can take them  *)
(* as two steps.                                                           *)
(***************************************************************************)
EXTENDS Planner

SetActuator(c, a, v) == [c EXCEPT !.on[a] = v]

(* Mutant: the exit flag is never cleared. *)
ClearsWaitingAtEntrance(a, v) == a = "entrance_gate" /\ v

(* Opening a gate answers the vehicle waiting at it. *)
ClearsWaiting(a, v) == a \in Gates /\ v

ClearWaiting(c, gate) == [c EXCEPT !.waiting[gate] = FALSE]

(* Mutant: an opened gate is not recorded as open. *)
ApplyActionEffectUnrecorded(c, a, v) ==
  IF ClearsWaiting(a, v) THEN ClearWaiting(c, a) ELSE SetActuator(c, a, v)

ApplyActionEffect(c, a, v) ==
  IF ClearsWaiting(a, v) THEN ClearWaiting(SetActuator(c, a, v), a)
                         ELSE SetActuator(c, a, v)

(* Mutant: the waiting flags stay. *)
ExecuteKeepingFlags(c, switched, goal) ==
  [c EXCEPT !.on = [a \in Actuators |-> IF a \in switched THEN goal[a] ELSE c.on[a]]]

(* Every switch of a plan, executed without interruption. *)
Execute(c, switched, goal) ==
  [c EXCEPT !.on = [a \in Actuators |-> IF a \in switched THEN goal[a] ELSE c.on[a]],
            !.waiting = [g \in Gates |-> c.waiting[g] /\ ~(g \in switched /\ goal[g])]]

(* What is true of a context when nothing is left to do about it. *)
Settled(c) ==
  /\ c.on["fan"] = TemperatureIsHigh(c)
  /\ c.on["light"] = LuxIsDark(c)
  /\ GarageIsFull(c) => ~c.on["entrance_gate"]
  /\ c.waiting["entrance_gate"] => c.on["entrance_gate"] \/ GarageIsFull(c)
  /\ c.waiting["exit_gate"] => c.on["exit_gate"]

================================================================================
