----------------------------- MODULE ContextManager -----------------------------
(***************************************************************************)
(* context/manager.py: the garage context and, per topic, the sequence     *)
(* number of the last message applied.  event_handler runs under the       *)
(* manager's lock, so one call is one step.                                *)
(***************************************************************************)
EXTENDS GarageModel

CONSTANT NoNumber     \* a sequence_number that is missing, a bool or no int

ASSUME NumberAssumption == NoNumber \notin Int

VARIABLES
  context,            \* ContextManager.context
  msg_sequences       \* ContextManager.msg_sequences

managerVars == <<context, msg_sequences>>

(* An MQTTEvent; its topic may be one the manager does not know. *)
Event(topic, number, payload) ==
  [topic |-> topic, number |-> number, payload |-> payload]

ManagerInit ==
  /\ context = InitialContext
  /\ msg_sequences = [topic \in Topics |-> 0]

(* Mutant: any numbered message is taken for a new one. *)
AcceptsInAnyOrder(e) ==
  /\ e.topic \in Topics
  /\ e.number # NoNumber
  /\ ValidPayload(e.topic, e.payload)

(* The three early returns of _event_handler_locked, and the handler's     *)
(* own verdict on the payload.                                             *)
Accepts(e) ==
  /\ e.topic \in Topics
  /\ e.number # NoNumber
  /\ e.number > msg_sequences[e.topic]
  /\ ValidPayload(e.topic, e.payload)

(* Mutant: the number is not stored. *)
AcceptEventUncounted(e) ==
  /\ Accepts(e)
  /\ context' = Update(context, e.topic, e.payload)
  /\ UNCHANGED msg_sequences

(* event_handler returning True ... *)
AcceptEvent(e) ==
  /\ Accepts(e)
  /\ context' = Update(context, e.topic, e.payload)
  /\ msg_sequences' = [msg_sequences EXCEPT ![e.topic] = e.number]

(* Mutant: the counter moves before the handler has judged the payload. *)
RejectEventConsuming(e) ==
  /\ ~Accepts(e)
  /\ msg_sequences' =
       IF e.number # NoNumber /\ e.number > msg_sequences[e.topic]
       THEN [msg_sequences EXCEPT ![e.topic] = e.number]
       ELSE msg_sequences
  /\ UNCHANGED context

(* Mutant: a valid payload updates the garage, whatever its number. *)
RejectEventUpdating(e) ==
  /\ ~Accepts(e)
  /\ context' = IF e.topic \in Topics /\ ValidPayload(e.topic, e.payload)
                THEN Update(context, e.topic, e.payload)
                ELSE context
  /\ UNCHANGED msg_sequences

(* A new message whose reading float() refuses with an OverflowError.      *)
Overflows(e) ==
  /\ e.topic \in {"temperature", "light"} /\ e.payload = TooLarge
  /\ e.number # NoNumber /\ e.number > msg_sequences[e.topic]

(* ... and False, or raising that: nothing changes, and the sequence       *)
(* number is not consumed.                                                 *)
RejectEvent(e) ==
  /\ ~Accepts(e)
  /\ UNCHANGED managerVars

EventHandler(e) == AcceptEvent(e) \/ RejectEvent(e)

NextSequenceNumber(topic) == msg_sequences[topic] + 1

ManagerTypeOK ==
  /\ context \in Contexts
  /\ msg_sequences \in [Topics -> Nat]

================================================================================
