--------------------------- MODULE SensorLink_proofs ---------------------------
(***************************************************************************)
(* The context manager behind a link that loses, repeats and reorders.     *)
(***************************************************************************)
EXTENDS SensorLink, Planner_proofs, TLAPS

--------------------------------------------------------------------------------
(* The inductive invariant: the two properties need each other's types,    *)
(* and the numbers of a topic never go beyond what was sent on it.         *)
LinkInv ==
  /\ TypeOK
  /\ ReadingMatchesCounter
  /\ CounterIsNewestUsable

(* Sending appends: the messages already numbered stay what they were. *)
LEMMA SendKeepsLog ==
  ASSUME TypeOK, NEW i \in Inputs, Send(i), NEW topic \in Topics
  PROVE  /\ sent'[topic] \in Seq(Payloads(topic))
         /\ Len(sent[topic]) \in Nat /\ Len(sent'[topic]) \in Nat
         /\ Len(sent[topic]) <= Len(sent'[topic])
         /\ \A n \in 1 .. Len(sent[topic]) : sent'[topic][n] = sent[topic][n]
<1>1. i.topic \in Topics /\ i.payload \in Payloads(i.topic)
  BY InputsAssumption DEF Payloads
<1>2. sent[topic] \in Seq(Payloads(topic)) /\ Len(sent[topic]) \in Nat
  BY DEF TypeOK
<1>3. CASE topic = i.topic
  <2>1. sent'[topic] = Append(sent[topic], i.payload)
    BY <1>1, <1>3 DEF Send, TypeOK
  <2> QED  BY <1>1, <1>2, <1>3, <2>1
<1>4. CASE topic # i.topic
  <2>1. sent'[topic] = sent[topic]
    BY <1>1, <1>4 DEF Send, TypeOK
  <2> QED  BY <1>2, <2>1
<1> QED  BY <1>3, <1>4

(* What the log holds on the parking topic is well-typed or malformed. *)
LEMMA LogType ==
  ASSUME TypeOK, NEW topic \in Topics, NEW n \in 1 .. Len(sent[topic])
  PROVE  topic = "parking" => sent[topic][n] \in ParkingPayloads \cup {Malformed}
<1>1. sent[topic][n] \in Payloads(topic)
  BY DEF TypeOK
<1> QED  BY <1>1, InputsAssumption DEF Payloads

LEMMA InitLinkInv == Init => LinkInv
<1> SUFFICES ASSUME Init PROVE LinkInv
  OBVIOUS
<1> USE DEF Init, ManagerInit
<1>1. InitialContext \in Contexts
  BY DEF InitialContext, Contexts, Positions, Gates, Actuators
<1>2. TypeOK
  BY <1>1 DEF TypeOK, ManagerTypeOK
<1>3. ReadingMatchesCounter
  BY DEF ReadingMatchesCounter, Reading, InitialContext, Topics
<1>4. CounterIsNewestUsable
  BY DEF CounterIsNewestUsable
<1> QED  BY <1>2, <1>3, <1>4 DEF LinkInv

(* An accepted message: newer than the counter, so it becomes the counter. *)
LEMMA AcceptLinkInv ==
  ASSUME LinkInv, NEW topic \in Topics, NEW n \in 1 .. Len(sent[topic]),
         AcceptEvent(Event(topic, n, sent[topic][n])),
         delivered' = [delivered EXCEPT ![topic] = @ \cup {n}], UNCHANGED sent
  PROVE  LinkInv'
<1> DEFINE payload == sent[topic][n]
<1> USE DEF LinkInv
<1>1. /\ n \in Nat /\ n > msg_sequences[topic] /\ ValidPayload(topic, payload)
      /\ context' = Update(context, topic, payload)
      /\ msg_sequences' = [msg_sequences EXCEPT ![topic] = n]
  BY DEF AcceptEvent, Accepts, Event, TypeOK
<1>2. TypeOK'
  <2>1. context' \in Contexts
    <3>1. topic = "parking" => payload \in ParkingPayloads \cup {Malformed}
      BY LogType
    <3> QED  BY <1>1, <3>1, UpdateType DEF TypeOK, ManagerTypeOK
  <2>2. msg_sequences' \in [Topics -> Nat]
    BY <1>1 DEF TypeOK, ManagerTypeOK
  <2>3. delivered' \in [Topics -> SUBSET Nat]
    BY <1>1 DEF TypeOK
  <2>4. \A u \in Topics : delivered'[u] \subseteq 1 .. Len(sent[u])
    BY DEF TypeOK
  <2> QED  BY <2>1, <2>2, <2>3, <2>4 DEF TypeOK, ManagerTypeOK
<1>3. ReadingMatchesCounter'
  <2> SUFFICES ASSUME NEW u \in {"temperature", "light"}
               PROVE  Reading(u)' = IF msg_sequences'[u] = 0 THEN None
                                    ELSE ReadingIn(u, sent[u][msg_sequences'[u]])
    BY DEF ReadingMatchesCounter
  <2>0. u \in Topics /\ context \in Contexts /\ msg_sequences \in [Topics -> Nat]
    BY DEF TypeOK, ManagerTypeOK, Topics
  <2>1. CASE u = topic
    <3>1. msg_sequences'[u] = n /\ n # 0
      BY <1>1, <2>0, <2>1
    <3>2. Reading(u)' = ReadingIn(u, payload)
      BY <1>1, <2>0, <2>1, UpdateReading DEF Reading, ReadingIn
    <3> QED  BY <2>1, <3>1, <3>2
  <2>2. CASE u # topic
    <3>1. msg_sequences'[u] = msg_sequences[u]
      BY <1>1, <2>0, <2>2
    <3>2. Reading(u)' = Reading(u)
      BY <1>1, <2>0, <2>2, UpdateReading DEF Reading
    <3> QED  BY <3>1, <3>2 DEF ReadingMatchesCounter
  <2> QED  BY <2>1, <2>2
<1>4. CounterIsNewestUsable'
  <2> SUFFICES ASSUME NEW u \in Topics
               PROVE  LET usable == {m \in delivered'[u] : ValidPayload(u, sent[u][m])}
                      IN  /\ msg_sequences'[u] \in usable \cup {0}
                          /\ \A m \in usable : m <= msg_sequences'[u]
    BY DEF CounterIsNewestUsable
  <2>0. msg_sequences \in [Topics -> Nat] /\ delivered \in [Topics -> SUBSET Nat]
    BY DEF TypeOK, ManagerTypeOK
  <2>1. CASE u = topic
    <3>1. msg_sequences'[u] = n /\ delivered'[u] = delivered[u] \cup {n}
      BY <1>1, <2>0, <2>1
    <3>2. \A m \in delivered[u] : m \in Nat /\ msg_sequences[u] \in Nat
      BY <2>0
    <3>3. \A m \in delivered[u] : ValidPayload(u, sent[u][m]) => m <= msg_sequences[u]
      BY DEF CounterIsNewestUsable
    <3>4. \A m \in delivered'[u] : ValidPayload(u, sent[u][m]) => m <= n
      BY <1>1, <2>1, <3>1, <3>2, <3>3
    <3> QED  BY <1>1, <2>1, <3>1, <3>4
  <2>2. CASE u # topic
    BY <1>1, <2>0, <2>2 DEF CounterIsNewestUsable
  <2> QED  BY <2>1, <2>2
<1> QED  BY <1>2, <1>3, <1>4

(* A rejected message was invalid, or no newer than the counter. *)
LEMMA RejectLinkInv ==
  ASSUME LinkInv, NEW topic \in Topics, NEW n \in 1 .. Len(sent[topic]),
         n # NoNumber, RejectEvent(Event(topic, n, sent[topic][n])),
         delivered' = [delivered EXCEPT ![topic] = @ \cup {n}], UNCHANGED sent
  PROVE  LinkInv'
<1> USE DEF LinkInv
<1>1. /\ n \in Nat /\ UNCHANGED <<context, msg_sequences>>
      /\ ValidPayload(topic, sent[topic][n]) => ~(n > msg_sequences[topic])
  BY DEF RejectEvent, Accepts, Event, TypeOK, managerVars
<1>2. TypeOK'
  BY <1>1 DEF TypeOK, ManagerTypeOK
<1>3. ReadingMatchesCounter'
  BY <1>1 DEF ReadingMatchesCounter, Reading
<1>4. CounterIsNewestUsable'
  <2>1. msg_sequences[topic] \in Nat
    BY DEF TypeOK, ManagerTypeOK
  <2>2. \A u \in Topics : delivered'[u] = IF u = topic THEN delivered[u] \cup {n}
                                          ELSE delivered[u]
    BY DEF TypeOK
  <2> QED  BY <1>1, <2>1, <2>2 DEF CounterIsNewestUsable
<1> QED  BY <1>2, <1>3, <1>4

LEMMA NextLinkInv == LinkInv /\ [Next]_vars => LinkInv'
<1> SUFFICES ASSUME LinkInv, [Next]_vars PROVE LinkInv'
  OBVIOUS
<1>1. ASSUME NEW i \in Inputs, Send(i) PROVE LinkInv'
  <2>1. /\ UNCHANGED <<context, msg_sequences, delivered>>
        /\ DOMAIN sent' = Topics
    BY <1>1 DEF Send, LinkInv, TypeOK
  <2>2. \A topic \in Topics :
          /\ sent'[topic] \in Seq(Payloads(topic))
          /\ Len(sent[topic]) \in Nat /\ Len(sent'[topic]) \in Nat
          /\ Len(sent[topic]) <= Len(sent'[topic])
          /\ \A n \in 1 .. Len(sent[topic]) : sent'[topic][n] = sent[topic][n]
    BY <1>1, SendKeepsLog DEF LinkInv
  <2>3. \A topic \in Topics : delivered[topic] \subseteq 1 .. Len(sent'[topic])
    BY <2>2 DEF LinkInv, TypeOK
  <2>4. TypeOK'
    BY <2>1, <2>2, <2>3 DEF LinkInv, TypeOK, ManagerTypeOK
  <2>5. \A topic \in Topics : msg_sequences[topic] # 0
          => msg_sequences[topic] \in 1 .. Len(sent[topic])
    BY DEF LinkInv, CounterIsNewestUsable, TypeOK
  <2>6. ReadingMatchesCounter'
    BY <2>1, <2>2, <2>5 DEF LinkInv, ReadingMatchesCounter, Reading, Topics
  <2>7. CounterIsNewestUsable'
    <3>1. \A topic \in Topics : \A n \in delivered[topic] : sent'[topic][n] = sent[topic][n]
      BY <2>2 DEF LinkInv, TypeOK
    <3> QED  BY <2>1, <3>1 DEF LinkInv, CounterIsNewestUsable
  <2> QED  BY <2>4, <2>6, <2>7 DEF LinkInv
<1>2. ASSUME NEW topic \in Topics, NEW n \in 1 .. Len(sent[topic]), Deliver(topic, n)
      PROVE  LinkInv'
  <2>1. CASE AcceptEvent(Event(topic, n, sent[topic][n]))
    BY <1>2, <2>1, AcceptLinkInv DEF Deliver
  <2>2. CASE RejectEvent(Event(topic, n, sent[topic][n]))
    <3>1. n # NoNumber
      BY NumberAssumption
    <3> QED  BY <1>2, <2>2, <3>1, RejectLinkInv DEF Deliver
  <2> QED  BY <1>2, <2>1, <2>2 DEF Deliver, EventHandler
<1>3. ASSUME NEW topic \in Topics, NEW n \in 1 .. Len(sent[topic]),
             DeliverUnnumbered(topic, n)
      PROVE  LinkInv'
  <2>1. UNCHANGED vars
    BY <1>3 DEF DeliverUnnumbered, EventHandler, AcceptEvent, RejectEvent, Accepts,
                Event, vars, managerVars
  <2> QED  BY <2>1 DEF vars, LinkInv, TypeOK, ManagerTypeOK, ReadingMatchesCounter,
                       Reading, CounterIsNewestUsable
<1>4. CASE UNCHANGED vars
  BY <1>4 DEF vars, LinkInv, TypeOK, ManagerTypeOK, ReadingMatchesCounter,
              Reading, CounterIsNewestUsable
<1> QED  BY <1>1, <1>2, <1>3, <1>4 DEF Next

LEMMA LinkInvariant == Spec => []LinkInv
  BY InitLinkInv, NextLinkInv, PTL DEF Spec

(* Type correctness: no message, however late or malformed, leaves the     *)
(* context or the counters ill-formed.                                     *)
THEOREM LinkTypeCorrect == Spec => []TypeOK
<1>1. LinkInv => TypeOK
  BY DEF LinkInv
<1> QED  BY <1>1, LinkInvariant, PTL

(* Readings and counters agree, for any number of messages in any order.   *)
THEOREM ReadingsAreCurrent == Spec => []ReadingMatchesCounter
<1>1. LinkInv => ReadingMatchesCounter
  BY DEF LinkInv
<1> QED  BY <1>1, LinkInvariant, PTL

(* The manager never loses a usable message to an older or an unusable     *)
(* one, whatever is lost, repeated or overtaken on the way to it.          *)
THEOREM NewestIsKept == Spec => []CounterIsNewestUsable
<1>1. LinkInv => CounterIsNewestUsable
  BY DEF LinkInv
<1> QED  BY <1>1, LinkInvariant, PTL

(* Only a number that is new to its topic changes the context. *)
THEOREM NothingAppliedTwice == Spec => AppliedAtMostOnce
<1> DEFINE Fresh ==
      context' # context =>
        \E topic \in Topics : /\ msg_sequences'[topic] > msg_sequences[topic]
                              /\ msg_sequences'[topic] \notin delivered[topic]
<1>1. LinkInv /\ [Next]_vars => Fresh
  <2> SUFFICES ASSUME LinkInv, Next, context' # context PROVE Fresh
    BY DEF vars
  <2>0. PICK topic \in Topics : \E n \in 1 .. Len(sent[topic]) :
          Deliver(topic, n) \/ DeliverUnnumbered(topic, n)
    BY DEF Next, Send
  <2>1. PICK n \in 1 .. Len(sent[topic]) :
          Deliver(topic, n) \/ DeliverUnnumbered(topic, n)
    BY <2>0
  <2>2. /\ AcceptEvent(Event(topic, n, sent[topic][n])) /\ n \in Nat
    BY <2>1 DEF Deliver, DeliverUnnumbered, EventHandler, AcceptEvent, RejectEvent,
                Accepts, Event, managerVars, LinkInv, TypeOK
  <2>3. /\ msg_sequences'[topic] = n /\ n > msg_sequences[topic]
        /\ ValidPayload(topic, sent[topic][n])
    BY <2>2 DEF AcceptEvent, Accepts, Event, LinkInv, TypeOK, ManagerTypeOK
  <2>4. n \notin delivered[topic]
    BY <2>2, <2>3 DEF LinkInv, CounterIsNewestUsable, TypeOK, ManagerTypeOK
  <2> QED  BY <2>3, <2>4
<1> QED  BY <1>1, LinkInvariant, PTL DEF Spec, AppliedAtMostOnce

--------------------------------------------------------------------------------
(* The parking topic: its positions share one counter. *)

(* First deliveries in order: what has been delivered has no gap. *)
InOrder ==
  Delivery["parking"] = "fifo" =>
    \A n \in delivered["parking"] : 1 .. n - 1 \subseteq delivered["parking"]

(* The valid messages about a position up to the k-th of the log. *)
About(log, p, k) ==
  {n \in 1 .. k : ValidPayload("parking", log[n]) /\ log[n].position = p}

ShowsLast(log, p, k, occupied) ==
  IF About(log, p, k) = {} THEN ~occupied
  ELSE \E n \in About(log, p, k) : /\ \A m \in About(log, p, k) : m <= n
                                   /\ occupied = log[n].on_occupy

LEMMA ParkingRestated ==
  ParkingFollowsLog <=>
    (Delivery["parking"] = "fifo" =>
       \A p \in Positions : ShowsLast(sent["parking"], p, msg_sequences["parking"],
                                      context.positions_occupied[p]))
  BY DEF ParkingFollowsLog, ShowsLast, About

(* A longer log says the same of the messages it already held. *)
LEMMA LongerLog ==
  ASSUME NEW log, NEW longer, NEW k \in Nat, NEW p, NEW occupied,
         \A n \in 1 .. k : longer[n] = log[n], ShowsLast(log, p, k, occupied)
  PROVE  ShowsLast(longer, p, k, occupied)
<1>1. About(longer, p, k) = About(log, p, k)
  BY DEF About
<1>2. \A n \in About(log, p, k) : longer[n] = log[n]
  BY DEF About
<1> QED  BY <1>1, <1>2 DEF ShowsLast

(* A message that is accepted jumps over unusable ones only. *)
LEMMA JumpIsEmpty ==
  ASSUME NEW log, NEW k \in Nat, NEW n \in Nat, n > k, ValidPayload("parking", log[n]),
         \A m \in k + 1 .. n - 1 : ~ValidPayload("parking", log[m]),
         NEW p, NEW occupied, ShowsLast(log, p, k, occupied)
  PROVE  ShowsLast(log, p, n, IF log[n].position = p THEN log[n].on_occupy ELSE occupied)
<1>1. \A m \in 1 .. n : m \in 1 .. k \/ m \in k + 1 .. n - 1 \/ m = n
  OBVIOUS
<1>2. CASE log[n].position = p
  <2>1. n \in About(log, p, n) /\ \A m \in About(log, p, n) : m <= n
    BY <1>2 DEF About
  <2> QED  BY <1>2, <2>1 DEF ShowsLast
<1>3. CASE log[n].position # p
  <2>1. About(log, p, n) \subseteq About(log, p, k)
    BY <1>1, <1>3 DEF About
  <2>2. About(log, p, k) \subseteq About(log, p, n)
    BY DEF About
  <2>3. About(log, p, n) = About(log, p, k)
    BY <2>1, <2>2
  <2> QED  BY <1>3, <2>3 DEF ShowsLast
<1> QED  BY <1>2, <1>3

ParkingInv == LinkInv /\ InOrder /\ ParkingFollowsLog

LEMMA InitParking == Init => ParkingInv
<1> SUFFICES ASSUME Init PROVE ParkingInv
  OBVIOUS
<1>1. InOrder
  BY DEF Init, InOrder, Topics
<1>2. ParkingFollowsLog
  <2>1. /\ msg_sequences["parking"] = 0
        /\ \A p \in Positions : ~context.positions_occupied[p]
    BY DEF Init, ManagerInit, InitialContext, Topics
  <2>2. \A p : About(sent["parking"], p, 0) = {}
    BY DEF About
  <2> QED  BY <2>1, <2>2, ParkingRestated DEF ShowsLast
<1> QED  BY <1>1, <1>2, InitLinkInv DEF ParkingInv

LEMMA NextParking == ParkingInv /\ [Next]_vars => ParkingInv'
<1> SUFFICES ASSUME ParkingInv, [Next]_vars PROVE ParkingInv'
  OBVIOUS
<1> USE DEF ParkingInv
<1> DEFINE log == sent["parking"]
           k == msg_sequences["parking"]
<1>0. LinkInv'
  BY NextLinkInv
<1>1. /\ "parking" \in Topics /\ context \in Contexts /\ k \in Nat /\ k \in 0 .. Len(log)
      /\ msg_sequences \in [Topics -> Nat] /\ delivered \in [Topics -> SUBSET Nat]
      /\ Len(log) \in Nat
  BY DEF LinkInv, TypeOK, ManagerTypeOK, Topics, CounterIsNewestUsable
<1>2. CASE /\ UNCHANGED <<msg_sequences, delivered, context>>
           /\ \A n \in 1 .. Len(log) : sent'["parking"][n] = log[n]
  <2>1. \A n \in 1 .. k : sent'["parking"][n] = log[n]
    BY <1>1, <1>2
  <2>2. InOrder'
    BY <1>2 DEF InOrder
  <2>3. ASSUME Delivery["parking"] = "fifo", NEW p \in Positions
        PROVE  ShowsLast(sent'["parking"], p, k, context.positions_occupied[p])
    <3>1. ShowsLast(log, p, k, context.positions_occupied[p])
      BY <2>3, ParkingRestated
    <3> HIDE DEF log, k
    <3> QED  BY <1>1, <2>1, <3>1, LongerLog
  <2>4. ParkingFollowsLog'
    BY <1>2, <2>3 DEF ParkingFollowsLog, ShowsLast, About
  <2> QED  BY <1>0, <2>2, <2>4
<1>3. ASSUME NEW i \in Inputs, Send(i) PROVE ParkingInv'
  BY <1>1, <1>2, <1>3, SendKeepsLog DEF LinkInv, Send
<1>4. ASSUME NEW topic \in Topics, NEW n \in 1 .. Len(sent[topic]), Deliver(topic, n)
      PROVE  ParkingInv'
  <2>1. /\ n \in Nat /\ sent' = sent
        /\ delivered' = [delivered EXCEPT ![topic] = @ \cup {n}]
        /\ Delivery[topic] = "fifo" => 1 .. n - 1 \subseteq delivered[topic]
    BY <1>4 DEF Deliver, LinkInv, TypeOK
  <2>2. InOrder'
    <3>1. CASE topic # "parking"
      BY <1>1, <2>1, <3>1 DEF InOrder
    <3>2. CASE topic = "parking"
      <4>1. delivered'["parking"] = delivered["parking"] \cup {n}
        BY <1>1, <2>1, <3>2
      <4> QED  BY <2>1, <3>2, <4>1 DEF InOrder
    <3> QED  BY <3>1, <3>2
  <2>3. CASE RejectEvent(Event(topic, n, sent[topic][n]))
    <3>1. UNCHANGED <<context, msg_sequences>>
      BY <2>3 DEF RejectEvent, managerVars
    <3>2. ParkingFollowsLog'
      BY <2>1, <3>1 DEF ParkingFollowsLog
    <3> QED  BY <1>0, <2>2, <3>2
  <2>4. CASE AcceptEvent(Event(topic, n, sent[topic][n]))
    <3>1. /\ n > msg_sequences[topic] /\ ValidPayload(topic, sent[topic][n])
          /\ context' = Update(context, topic, sent[topic][n])
          /\ msg_sequences' = [msg_sequences EXCEPT ![topic] = n]
      BY <2>4 DEF AcceptEvent, Accepts, Event
    <3>2. topic = "parking" => sent[topic][n] \in ParkingPayloads \cup {Malformed}
      BY LogType DEF LinkInv
    <3>3. \A p \in Positions :
            context'.positions_occupied[p] =
              IF topic = "parking" /\ sent[topic][n].position = p THEN sent[topic][n].on_occupy
              ELSE context.positions_occupied[p]
      BY <1>1, <3>1, <3>2, UpdateOccupied
    <3>4. ASSUME Delivery["parking"] = "fifo", NEW p \in Positions
          PROVE  ShowsLast(log, p, msg_sequences'["parking"], context'.positions_occupied[p])
      <4>1. ShowsLast(log, p, k, context.positions_occupied[p])
        BY <3>4, ParkingRestated
      <4>2. CASE topic # "parking"
        BY <1>1, <3>1, <3>3, <4>1, <4>2
      <4>3. CASE topic = "parking"
        <5>1. \A m \in k + 1 .. n - 1 : ~ValidPayload("parking", log[m])
          <6>1. ASSUME NEW m \in k + 1 .. n - 1, ValidPayload("parking", log[m]) PROVE FALSE
            <7>1. m \in delivered["parking"]
              BY <1>1, <2>1, <3>4, <4>3
            <7>2. m <= k
              BY <1>1, <6>1, <7>1 DEF LinkInv, CounterIsNewestUsable
            <7> QED  BY <1>1, <7>2
          <6> QED  BY <6>1
        <5>2. msg_sequences'["parking"] = n /\ n > k /\ ValidPayload("parking", log[n])
          BY <1>1, <3>1, <4>3
        <5> HIDE DEF log, k
        <5>3. ShowsLast(log, p, n, IF log[n].position = p THEN log[n].on_occupy
                                   ELSE context.positions_occupied[p])
          BY <1>1, <2>1, <4>1, <5>1, <5>2, JumpIsEmpty
        <5> QED  BY <3>3, <4>3, <5>2, <5>3 DEF log
      <4> QED  BY <4>2, <4>3
    <3>5. ParkingFollowsLog'
      BY <2>1, <3>4 DEF ParkingFollowsLog, ShowsLast, About
    <3> QED  BY <1>0, <2>2, <3>5
  <2> QED  BY <1>4, <2>3, <2>4 DEF Deliver, EventHandler
<1>5. ASSUME NEW topic \in Topics, NEW n \in 1 .. Len(sent[topic]),
             DeliverUnnumbered(topic, n)
      PROVE  ParkingInv'
  <2>1. UNCHANGED vars
    BY <1>5 DEF DeliverUnnumbered, EventHandler, AcceptEvent, RejectEvent, Accepts,
                Event, vars, managerVars
  <2> QED  BY <1>2, <2>1 DEF vars
<1>6. CASE UNCHANGED vars
  BY <1>2, <1>6 DEF vars
<1> QED  BY <1>3, <1>4, <1>5, <1>6 DEF Next

(* Over a link that keeps the order of first deliveries every position     *)
(* shows the last valid message about it, though they all share one        *)
(* counter and any message may come again.                                 *)
THEOREM PositionsAreCurrent == Spec => []ParkingFollowsLog
<1>1. ParkingInv => ParkingFollowsLog
  BY DEF ParkingInv
<1> QED  BY <1>1, InitParking, NextParking, PTL DEF Spec

================================================================================
