------------------------------- MODULE QuietCycles -------------------------------
(***************************************************************************)
(* Any number of threads may be inside process_event at once, and what two *)
(* cycles do to each other is anybody's guess.  A cycle that happens to    *)
(* meet no other one, however, is as good as the worker's alone, whatever  *)
(* the other threads do in the camera, the handler or the queue meanwhile  *)
(* and whatever an earlier cycle left behind.  Two history variables say   *)
(* which cycles those are.                                                 *)
(***************************************************************************)
EXTENDS SmartGarageService

VARIABLES
  alone,        \* the thread, if any, whose cycle has met no other so far
  origin        \* the context as its message left it

Reading   == {"read_init", "read_goal", "truncate", "write", "run"}
Executing == {"execute", "apply", "clear"}

(* The threads between their accepted message and the end of its plan. *)
Running == {t \in Threads : pc[t] \in Reading \cup Executing}

QInit == Init /\ alone = {} /\ origin = context

QNext ==
  /\ Next
  /\ alone' = {t \in Threads : Running' = {t} /\ (Running = {} \/ t \in alone)}
  /\ origin' = IF Running = {} THEN context' ELSE origin

QSpec == QInit /\ [][QNext]_<<vars, alone, origin>>

--------------------------------------------------------------------------------
(* What a quiet cycle has carried out of its plan when it asks for the     *)
(* next action.                                                            *)
CarriedOut(t) == Switched(Generate(origin)) \ todo[t]

(* A quiet cycle is one step of the garage: the context is what its        *)
(* message left with the actions carried out so far, no more and no less,  *)
(* and they are the commands the actuators were last given.                *)
QuietCycleIsOneStep ==
  \A t \in alone :
    pc[t] = "execute" =>
      /\ context = Execute(origin, CarriedOut(t), GoalPredicates(origin))
      /\ \A a \in CarriedOut(t) : published[a] = context.on[a]

(* When it ends without an error, nothing is left to do, even if the       *)
(* cycles before it overlapped.                                            *)
QuietCycleSettles ==
  \A t \in alone : pc[t] = "execute" /\ todo[t] = {} => Settled(context)

(* While a quiet cycle runs, nobody opens the entrance of a full garage.   *)
QuietGateStaysShut ==
  [][alone # {} /\ ~published["entrance_gate"] /\ published'["entrance_gate"]
       => ~GarageIsFull(context)]_<<vars, alone, origin>>

================================================================================
