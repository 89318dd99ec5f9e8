------------------------------- MODULE SensorLink -------------------------------
(***************************************************************************)
(* The context manager at the end of an MQTT link.  Publishers number the  *)
(* messages of each topic 1, 2, 3, ...; the link may deliver a message     *)
(* again at any time (QoS 1), lose it, and, unless the topic is "fifo",     *)
(* overtake one message with another.                                      *)
(***************************************************************************)
EXTENDS ContextManager, Sequences

CONSTANTS
  Inputs,       \* what the publishers send: records [topic, payload]
  Delivery,     \* per topic, "fifo": first deliveries in order, or "any"
  MaxSent       \* bound: messages sent per topic

ASSUME InputsAssumption ==
  \A i \in Inputs :
    /\ i.topic \in Topics
    /\ i.topic = "parking" => i.payload \in ParkingPayloads \cup {Malformed}

ASSUME DeliveryAssumption ==
  Delivery \in [Topics -> {"fifo", "any"}] /\ MaxSent \in [Topics -> Nat]

VARIABLES
  sent,         \* the payloads sent on each topic; the n-th has number n
  delivered     \* the numbers delivered at least once, per topic

vars == <<context, msg_sequences, sent, delivered>>

Init ==
  /\ ManagerInit
  /\ sent = [topic \in Topics |-> <<>>]
  /\ delivered = [topic \in Topics |-> {}]

Send(i) ==
  /\ Len(sent[i.topic]) < MaxSent[i.topic]
  /\ sent' = [sent EXCEPT ![i.topic] = Append(@, i.payload)]
  /\ UNCHANGED <<context, msg_sequences, delivered>>

(* Message n of a topic reaches event_handler, for the first time or again. *)
Deliver(topic, n) ==
  /\ Delivery[topic] = "fifo" => 1 .. n - 1 \subseteq delivered[topic]
  /\ EventHandler(Event(topic, n, sent[topic][n]))
  /\ delivered' = [delivered EXCEPT ![topic] = @ \cup {n}]
  /\ UNCHANGED sent

(* The same payload arrives without a usable sequence number. *)
DeliverUnnumbered(topic, n) ==
  /\ EventHandler(Event(topic, NoNumber, sent[topic][n]))
  /\ UNCHANGED <<sent, delivered>>

Next ==
  \/ \E i \in Inputs : Send(i)
  \/ \E topic \in Topics : \E n \in 1 .. Len(sent[topic]) :
       Deliver(topic, n) \/ DeliverUnnumbered(topic, n)

Spec == Init /\ [][Next]_vars

--------------------------------------------------------------------------------
Payloads(topic) == {i.payload : i \in {j \in Inputs : j.topic = topic}}

TypeOK ==
  /\ ManagerTypeOK
  /\ DOMAIN sent = Topics
  /\ \A topic \in Topics : sent[topic] \in Seq(Payloads(topic))
  /\ delivered \in [Topics -> SUBSET Nat]
  /\ \A topic \in Topics : delivered[topic] \subseteq 1 .. Len(sent[topic])

(* A reading in the context is the one the topic's counter stands for:     *)
(* neither a duplicate nor a late older message ever replaces it.          *)
Reading(topic) == IF topic = "temperature" THEN context.temperature ELSE context.lux

ReadingIn(topic, payload) ==
  IF topic = "temperature" THEN payload.temperature ELSE payload.lux

ReadingMatchesCounter ==
  \A topic \in {"temperature", "light"} :
    Reading(topic) = IF msg_sequences[topic] = 0
                     THEN None
                     ELSE ReadingIn(topic, sent[topic][msg_sequences[topic]])

(* The counter is the newest usable message that got through: a valid      *)
(* message is only ever skipped for a newer one, and an invalid message    *)
(* never consumes its number.                                              *)
CounterIsNewestUsable ==
  \A topic \in Topics :
    LET usable == {n \in delivered[topic] : ValidPayload(topic, sent[topic][n])}
    IN  /\ msg_sequences[topic] \in usable \cup {0}
        /\ \A n \in usable : n <= msg_sequences[topic]

(* event_handler applies no message twice: whenever the context changes,   *)
(* some topic's counter moves to a number that had not arrived before.     *)
AppliedAtMostOnce ==
  [][context' # context =>
       \E topic \in Topics : /\ msg_sequences'[topic] > msg_sequences[topic]
                             /\ msg_sequences'[topic] \notin delivered[topic]]_vars

(* The three positions share one topic and one counter.  As long as first  *)
(* deliveries keep their order, each position still shows the last valid   *)
(* message about it, whatever is redelivered in between.                   *)
ParkingFollowsLog ==
  Delivery["parking"] = "fifo" =>
    \A p \in Positions :
      LET about == {n \in 1 .. msg_sequences["parking"] :
                      /\ ValidPayload("parking", sent["parking"][n])
                      /\ sent["parking"][n].position = p}
      IN  IF about = {} THEN ~context.positions_occupied[p]
          ELSE \E n \in about : /\ \A m \in about : m <= n
                                /\ context.positions_occupied[p] = sent["parking"][n].on_occupy

================================================================================
