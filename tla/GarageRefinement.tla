---------------------------- MODULE GarageRefinement ----------------------------
(***************************************************************************)
(* The event worker, statement by statement, implements GarageControl: a   *)
(* message and everything process_event does about it are one step of the  *)
(* abstract garage.  The step happens where process_event returns; a       *)
(* history variable remembers the garage as it was before.                 *)
(***************************************************************************)
EXTENDS SmartGarageService

VARIABLE garage       \* the context when the worker last had nothing in hand

HInit == Init /\ garage = context

HNext ==
  /\ Next
  /\ garage' = IF pc'[Worker] = "idle" THEN context' ELSE garage

HSpec == HInit /\ [][HNext]_<<vars, garage>>

(* What is no JSON object never reaches a handler. *)
Abstract ==
  INSTANCE GarageControl
    WITH Inputs <- {i \in Inputs : i.payload # NonObject},
         Spaced <- FALSE, Faulty <- PublishFaults # {} \/ Backend = "fd"

(* Seen between two messages, the garage only ever changes by an accepted  *)
(* message and the commands planned for it, in full unless publish or the  *)
(* planner failed, with exactly the published part recorded.               *)
ImplementsGarageControl == Abstract!SafetySpec

================================================================================
