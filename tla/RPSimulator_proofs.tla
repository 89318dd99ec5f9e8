--------------------------- MODULE RPSimulator_proofs --------------------------
(***************************************************************************)
(* A round of the simulator that no other round interrupts is shown by the *)
(* backend, for a garage of any size and any number of commands and rounds *)
(* before it.                                                              *)
(***************************************************************************)
EXTENDS SimulatorLink, Planner_proofs, SequenceTheorems, TLAPS

SensorTopics == {"temperature", "light", "parking"}
Places       == {"idle", "set_lux", "collect", "publish", "send", "stopped"}
Publishing   == {"publish", "send"}

RoundTypeOK ==
  /\ ManagerTypeOK
  /\ readings \in Readings
  /\ sequences \in [SensorTopics -> Nat]
  /\ pc \in [Publishers -> Places]
  /\ round \in [Publishers -> Seq(Messages)]
  /\ \A t \in Publishers : pc[t] \in Publishing => round[t] # <<>>
  /\ number \in [Publishers -> Nat]
  /\ alone \in Publishers \cup {"done", None}

(* No number is ahead of the counter it was taken from. *)
NumbersInv ==
  /\ \A topic \in SensorTopics : msg_sequences[topic] <= sequences[topic]
  /\ \A t \in Publishers :
       pc[t] = "send" => number[t] <= sequences[Head(round[t]).topic]

(* Whose round is alone is in it, and the other thread is in none. *)
AloneInv ==
  /\ \A t \in Publishers :
       alone = t => pc[t] \in Publishing /\ pc[Other(t)] \in {"idle", "collect"}
  /\ alone = "done" => \A t \in Publishers : pc[t] \in {"idle", "collect"}

Shows(m) ==
  /\ m.topic = "temperature" => context.temperature = m.payload.temperature
  /\ m.topic = "light"       => context.lux = m.payload.lux
  /\ m.topic = "parking"     =>
       context.positions_occupied[m.payload.position] = m.payload.on_occupy

(* What is left of the round is the end of a snapshot of the readings,     *)
(* and the backend shows all that comes before.                            *)
Rest(t, published) ==
  /\ published \in Nat /\ published + Len(round[t]) = Len(Snapshot)
  /\ \A j \in 1 .. Len(round[t]) : round[t][j] = Snapshot[published + j]
  /\ \A j \in 1 .. published : Shows(Snapshot[j])

ProgressInv ==
  \A t \in Publishers :
    alone = t =>
      /\ Rest(t, Len(Snapshot) - Len(round[t]))
      /\ pc[t] = "send" => number[t] > msg_sequences[Head(round[t]).topic]

(* The inductive invariant.  Rounds that meet may leave anything behind    *)
(* but numbers ahead of the counters; a round that is alone then takes     *)
(* newer ones for all of its messages.                                     *)
RoundInv == RoundTypeOK /\ NumbersInv /\ AloneInv /\ ProgressInv /\ QuietRoundIsShown

--------------------------------------------------------------------------------
(* The temperature, the light, then each position in turn. *)
LEMMA SnapshotShape ==
  ASSUME readings \in Readings
  PROVE  /\ Snapshot \in Seq(Messages)
         /\ Len(Snapshot) = 2 + ParkingSize
         /\ Snapshot[1] = [topic |-> "temperature", payload |-> [temperature |-> readings.temperature]]
         /\ Snapshot[2] = [topic |-> "light", payload |-> [lux |-> readings.lux]]
         /\ \A p \in Positions :
              /\ 3 + p \in 1 .. Len(Snapshot)
              /\ Snapshot[3 + p] = [topic |-> "parking",
                                    payload |-> [position |-> p, on_occupy |-> readings.parking[p]]]
<1> DEFINE first  == <<[topic |-> "temperature", payload |-> [temperature |-> readings.temperature]],
                       [topic |-> "light", payload |-> [lux |-> readings.lux]]>>
           space(i) == [topic |-> "parking",
                        payload |-> [position |-> i - 1, on_occupy |-> readings.parking[i - 1]]]
           second == [i \in 1 .. ParkingSize |-> space(i)]
<1>1. ParkingSize \in Nat
  BY ParkingSizeAssumption
<1>2. /\ readings.temperature \in Temperatures /\ readings.lux \in LuxLevels
      /\ readings.parking \in [Positions -> BOOLEAN]
  BY DEF Readings
<1>3. first \in Seq(Messages) /\ Len(first) = 2
  <2>1. first[1] \in Messages /\ first[2] \in Messages
    BY <1>2 DEF Messages
  <2>. QED
    BY <2>1
<1>4. \A i \in 1 .. ParkingSize : space(i) \in Messages
  <2>1. \A i \in 1 .. ParkingSize : i - 1 \in Positions
    BY <1>1 DEF Positions
  <2>. QED
    BY <1>2, <2>1 DEF Messages
<1>5. second \in Seq(Messages) /\ Len(second) = ParkingSize
  <2> HIDE DEF space
  <2>. QED
    BY <1>1, <1>4
<1>6. Snapshot = first \o second
  BY DEF Snapshot
<1> HIDE DEF first, second
<1>7. /\ Snapshot \in Seq(Messages) /\ Len(Snapshot) = 2 + ParkingSize
      /\ \A i \in 1 .. 2 + ParkingSize :
           Snapshot[i] = IF i <= 2 THEN first[i] ELSE second[i - 2]
  <2>1. /\ first \o second \in Seq(Messages)
        /\ Len(first \o second) = Len(first) + Len(second)
        /\ \A i \in 1 .. Len(first) + Len(second) :
             (first \o second)[i] = IF i <= Len(first) THEN first[i] ELSE second[i - Len(first)]
    BY <1>3, <1>5, ConcatProperties, Zenon
  <2>. QED
    BY <1>3, <1>5, <1>6, <2>1
<1>8. Snapshot[1] = first[1] /\ Snapshot[2] = first[2]
  BY <1>1, <1>7
<1>9. ASSUME NEW p \in Positions
      PROVE  3 + p \in 1 .. Len(Snapshot) /\ Snapshot[3 + p] = space(p + 1)
  <2>1. p \in Nat /\ p + 1 \in 1 .. ParkingSize
    BY <1>1 DEF Positions
  <2>2. 3 + p \in 1 .. 2 + ParkingSize /\ (3 + p) - 2 = p + 1 /\ ~(3 + p <= 2)
    BY <1>1, <2>1
  <2>3. Snapshot[3 + p] = second[p + 1]
    BY <1>7, <2>2
  <2>. QED
    BY <1>7, <2>1, <2>2, <2>3 DEF second
<1>10. \A p \in Positions : (p + 1) - 1 = p
  BY <1>1 DEF Positions
<1>. QED
  BY <1>7, <1>8, <1>9, <1>10 DEF first

(* The manager has nothing against what the simulator sends but its age. *)
LEMMA MessageIsUsable ==
  ASSUME NEW m \in Messages
  PROVE  /\ m.topic \in SensorTopics /\ m.topic \in Topics
         /\ ValidPayload(m.topic, m.payload)
         /\ m.topic = "parking" => m.payload \in ParkingPayloads
<1>1. CASE m \in [topic : {"temperature"}, payload : [temperature : Temperatures]]
  BY <1>1, MalformedAssumption DEF SensorTopics, Topics, ValidPayload
<1>2. CASE m \in [topic : {"light"}, payload : [lux : LuxLevels]]
  BY <1>2, MalformedAssumption DEF SensorTopics, Topics, ValidPayload
<1>3. CASE m \in [topic : {"parking"}, payload : [position : Positions, on_occupy : BOOLEAN]]
  <2>1. /\ m.topic = "parking" /\ m.payload \in ParkingPayloads
        /\ m.payload.position \in 0 .. ParkingSize - 1
    BY <1>3, ParkingSizeAssumption DEF Positions, ParkingPayloads
  <2>2. m.payload \notin {Malformed, TooLarge}
    BY <2>1, MalformedAssumption
  <2>. QED
    BY <2>1, <2>2, ParkingSizeAssumption DEF SensorTopics, Topics, ValidPayload
<1>. QED
  BY <1>1, <1>2, <1>3 DEF Messages

(* Two messages about the same reading. *)
SameReading(m, n) ==
  m.topic = n.topic /\ (m.topic = "parking" => m.payload.position = n.payload.position)

(* An accepted message is shown, and hides none about another reading. *)
LEMMA AcceptedIsShown ==
  ASSUME context \in Contexts, NEW m \in Messages,
         context' = Update(context, m.topic, m.payload)
  PROVE  /\ Shows(m)'
         /\ \A n \in Messages : Shows(n) /\ ~SameReading(m, n) => Shows(n)'
<1>1. /\ m.topic \in Topics /\ ValidPayload(m.topic, m.payload)
      /\ m.topic = "parking" => m.payload \in ParkingPayloads \cup {Malformed}
  BY MessageIsUsable
<1>2. /\ context'.temperature = IF m.topic = "temperature" THEN m.payload.temperature
                                ELSE context.temperature
      /\ context'.lux = IF m.topic = "light" THEN m.payload.lux ELSE context.lux
  BY <1>1, UpdateReading
<1>3. \A p \in Positions :
        context'.positions_occupied[p] =
          IF m.topic = "parking" /\ m.payload.position = p THEN m.payload.on_occupy
          ELSE context.positions_occupied[p]
  BY <1>1, UpdateOccupied
<1>4. \A n \in Messages : n.topic = "parking" => n.payload.position \in Positions
  BY DEF Messages
<1>5. Shows(m)'
  BY <1>2, <1>3, <1>4 DEF Shows
<1>6. ASSUME NEW n \in Messages, Shows(n), ~SameReading(m, n) PROVE Shows(n)'
  BY <1>2, <1>3, <1>4, <1>6 DEF Shows, SameReading
<1>. QED
  BY <1>5, <1>6

(* No two messages of a round are about the same reading. *)
LEMMA SnapshotIsDistinct ==
  ASSUME readings \in Readings, NEW j \in 1 .. Len(Snapshot), NEW k \in 1 .. Len(Snapshot),
         SameReading(Snapshot[j], Snapshot[k])
  PROVE  j = k
<1> DEFINE len == Len(Snapshot)
<1>1. ParkingSize \in Nat /\ len = 2 + ParkingSize
  BY SnapshotShape, ParkingSizeAssumption
<1>2. ASSUME NEW i \in 1 .. len
      PROVE  /\ Snapshot[i].topic = "temperature" <=> i = 1
             /\ Snapshot[i].topic = "light" <=> i = 2
             /\ Snapshot[i].topic = "parking" => Snapshot[i].payload.position = i - 3
             /\ Snapshot[i].topic \in SensorTopics
  <2>1. CASE i = 1
    BY <2>1, SnapshotShape DEF SensorTopics
  <2>2. CASE i = 2
    BY <2>2, SnapshotShape DEF SensorTopics
  <2>3. CASE i # 1 /\ i # 2
    <3> DEFINE p == i - 3
    <3>1. p \in Positions /\ 3 + p = i
      BY <1>1, <2>3 DEF Positions
    <3> HIDE DEF p
    <3>2. Snapshot[i] = [topic |-> "parking",
                         payload |-> [position |-> p, on_occupy |-> readings.parking[p]]]
      BY <3>1, SnapshotShape
    <3>. QED
      BY <2>3, <3>2 DEF SensorTopics, p
  <2>. QED
    BY <2>1, <2>2, <2>3
<1> HIDE DEF len
<1>3. j \in 1 .. len /\ k \in 1 .. len
  BY DEF len
<1>. QED
  BY <1>1, <1>2, <1>3 DEF SameReading, SensorTopics

(* A round that is shown shows everything. *)
AllIsShown ==
  /\ context.temperature = readings.temperature
  /\ context.lux = readings.lux
  /\ context.positions_occupied = readings.parking

LEMMA SnapshotIsAll ==
  /\ readings \in Readings /\ context \in Contexts
  /\ \A j \in 1 .. Len(Snapshot) : Shows(Snapshot[j])
  => AllIsShown
<1> SUFFICES ASSUME readings \in Readings, context \in Contexts,
                    \A j \in 1 .. Len(Snapshot) : Shows(Snapshot[j])
             PROVE  AllIsShown
  OBVIOUS
<1>1. ParkingSize \in Nat /\ 1 \in 1 .. Len(Snapshot) /\ 2 \in 1 .. Len(Snapshot)
  BY SnapshotShape, ParkingSizeAssumption
<1>2. Shows(Snapshot[1]) /\ Shows(Snapshot[2])
  BY <1>1
<1>3. context.temperature = readings.temperature /\ context.lux = readings.lux
  BY <1>2, SnapshotShape DEF Shows
<1>4. ASSUME NEW p \in Positions
      PROVE  context.positions_occupied[p] = readings.parking[p]
  <2>1. Shows(Snapshot[3 + p])
    BY SnapshotShape
  <2>2. Snapshot[3 + p] = [topic |-> "parking",
                           payload |-> [position |-> p, on_occupy |-> readings.parking[p]]]
    BY SnapshotShape
  <2>. QED
    BY <2>1, <2>2 DEF Shows
<1>5. /\ context.positions_occupied \in [Positions -> BOOLEAN]
      /\ readings.parking \in [Positions -> BOOLEAN]
  BY DEF Contexts, Readings
<1>. QED
  BY <1>3, <1>4, <1>5 DEF AllIsShown

--------------------------------------------------------------------------------
(* It holds at the start. *)
LEMMA RoundInvInit == Init => RoundInv
<1> SUFFICES ASSUME Init PROVE RoundInv
  OBVIOUS
<1> USE DEF Init, ManagerInit
<1>1. InitialContext \in Contexts
  BY DEF InitialContext, Contexts, Positions, Gates, Actuators
<1>2. RoundTypeOK
  BY <1>1 DEF RoundTypeOK, ManagerTypeOK, SensorTopics, Places, Publishing
<1>3. NumbersInv
  BY DEF NumbersInv, SensorTopics, Topics
<1>4. alone \notin Publishers /\ alone # "done"
  BY SimulatorAssumption DEF Publishers
<1>. QED
  BY <1>2, <1>3, <1>4 DEF RoundInv, AloneInv, ProgressInv, QuietRoundIsShown

(* There are two threads, and alone tells them from None and "done". *)
LEMMA OtherThread ==
  ASSUME NEW t \in Publishers
  PROVE  /\ Other(t) \in Publishers /\ Other(t) # t /\ Publishers = {t, Other(t)}
         /\ t # "done" /\ t # None /\ None # "done"
<1>1. /\ Console # Sensors /\ None # "done"
      /\ Console # None /\ Sensors # None /\ Console # "done" /\ Sensors # "done"
  BY SimulatorAssumption
<1>2. CASE t = Console
  BY <1>1, <1>2 DEF Other, Publishers
<1>3. CASE t = Sensors
  BY <1>1, <1>3 DEF Other, Publishers
<1>. QED
  BY <1>2, <1>3 DEF Publishers

(* A command changes the readings, and no round is alone any more. *)
LEMMA CommandRoundInv ==
  ASSUME RoundInv, Command \/ SetBoth
  PROVE  RoundInv'
<1> USE DEF RoundInv
<1>1. /\ alone' = None /\ readings' \in Readings
      /\ UNCHANGED <<context, msg_sequences, sequences, round, number>>
      /\ \E place \in {"collect", "set_lux"} : pc' = [pc EXCEPT ![Console] = place]
  <2>1. readings \in Readings
    BY DEF RoundTypeOK
  <2>2. readings' \in Readings
    <3>1. CASE \E x \in Temperatures : readings' = [readings EXCEPT !.temperature = x]
      BY <2>1, <3>1 DEF Readings
    <3>2. CASE \E x \in LuxLevels : readings' = [readings EXCEPT !.lux = x]
      BY <2>1, <3>2 DEF Readings
    <3>3. CASE \E p \in Positions : readings' = [readings EXCEPT !.parking[p] = ~@]
      BY <2>1, <3>3 DEF Readings
    <3>. QED
      BY <3>1, <3>2, <3>3 DEF Command, SetBoth
  <2>. QED
    BY <2>2 DEF Command, SetBoth, managerVars
<1>2. PICK place \in {"collect", "set_lux"} : pc' = [pc EXCEPT ![Console] = place]
  BY <1>1
<1>3. \A t \in Publishers : pc'[t] \in Publishing => pc'[t] = pc[t]
  BY <1>2 DEF RoundTypeOK, Publishing
<1>4. RoundTypeOK'
  <2>1. pc' \in [Publishers -> Places]
    BY <1>2 DEF RoundTypeOK, Places
  <2>. QED
    BY <1>1, <1>3, <2>1 DEF RoundTypeOK, ManagerTypeOK
<1>5. NumbersInv'
  BY <1>1, <1>3 DEF NumbersInv, Publishing
<1>6. alone' \notin Publishers /\ alone' # "done"
  BY <1>1, SimulatorAssumption DEF Publishers
<1>. QED
  BY <1>4, <1>5, <1>6 DEF AloneInv, ProgressInv, QuietRoundIsShown

(* No round is alone between the two assignments of "hot-dark". *)
LEMMA SetLuxRoundInv ==
  ASSUME RoundInv, SetLux
  PROVE  RoundInv'
<1> USE DEF RoundInv
<1>1. /\ pc[Console] = "set_lux" /\ readings' \in Readings
      /\ pc' = [pc EXCEPT ![Console] = "collect"]
      /\ UNCHANGED <<context, msg_sequences, sequences, round, number, alone>>
  BY DEF SetLux, managerVars, RoundTypeOK, Readings
<1>2. alone \notin Publishers /\ alone # "done"
  <2>1. Console \in Publishers
    BY DEF Publishers
  <2>2. \A t \in Publishers : t = Console \/ Other(t) = Console
    BY DEF Publishers, Other
  <2>. QED
    BY <1>1, <2>1, <2>2 DEF AloneInv, Publishing
<1>3. \A t \in Publishers : pc'[t] \in Publishing => pc'[t] = pc[t]
  BY <1>1 DEF RoundTypeOK, Publishing
<1>4. RoundTypeOK'
  <2>1. pc' \in [Publishers -> Places]
    BY <1>1 DEF RoundTypeOK, Places
  <2>. QED
    BY <1>1, <1>3, <2>1 DEF RoundTypeOK, ManagerTypeOK
<1>5. NumbersInv'
  BY <1>1, <1>3 DEF NumbersInv, Publishing
<1>. QED
  BY <1>1, <1>2, <1>4, <1>5 DEF AloneInv, ProgressInv, QuietRoundIsShown

(* A thread about to begin a round has not met the other yet. *)
LEMMA TickRoundInv ==
  ASSUME RoundInv, Tick
  PROVE  RoundInv'
<1> USE DEF RoundInv
<1>1. /\ pc[Sensors] = "idle" /\ pc' = [pc EXCEPT ![Sensors] = "collect"]
      /\ UNCHANGED <<context, msg_sequences, readings, sequences, round, number, alone>>
  BY DEF Tick, managerVars
<1>2. pc' \in [Publishers -> Places]
  BY <1>1 DEF RoundTypeOK, Places
<1>3. \A t \in Publishers : pc'[t] = IF t = Sensors THEN "collect" ELSE pc[t]
  BY <1>1 DEF RoundTypeOK
<1>4. RoundTypeOK'
  BY <1>1, <1>2, <1>3 DEF RoundTypeOK, ManagerTypeOK, Publishing
<1>5. NumbersInv'
  BY <1>1, <1>3 DEF NumbersInv
<1>6. AloneInv'
  BY <1>1, <1>3, OtherThread DEF AloneInv, Publishing
<1>7. Snapshot' = Snapshot
  BY <1>1 DEF Snapshot
<1>8. ProgressInv'
  <2>1. SUFFICES ASSUME NEW t \in Publishers, alone' = t
                 PROVE  /\ Rest(t, Len(Snapshot) - Len(round[t]))'
                        /\ pc'[t] = "send" => number'[t] > msg_sequences'[Head(round'[t]).topic]
    BY DEF ProgressInv
  <2>2. Rest(t, Len(Snapshot) - Len(round[t]))
    BY <1>1, <2>1 DEF ProgressInv
  <2>3. Rest(t, Len(Snapshot) - Len(round[t]))'
    BY <1>1, <1>7, <2>2 DEF Rest, Shows
  <2>4. pc'[t] = "send" => number'[t] > msg_sequences'[Head(round'[t]).topic]
    BY <1>1, <1>3, <2>1 DEF ProgressInv
  <2>. QED
    BY <2>3, <2>4
<1>9. QuietRoundIsShown'
  BY <1>1 DEF QuietRoundIsShown
<1>. QED
  BY <1>4, <1>5, <1>6, <1>8, <1>9

(* A new round has everything still to publish. *)
LEMMA CollectRoundInv ==
  ASSUME RoundInv, NEW t \in Publishers, Collect(t)
  PROVE  RoundInv'
<1> USE DEF RoundInv
<1>1. /\ pc[t] = "collect" /\ pc' = [pc EXCEPT ![t] = "publish"]
      /\ round' = [round EXCEPT ![t] = Snapshot]
      /\ alone' = IF pc[Other(t)] = "idle" THEN t ELSE None
      /\ UNCHANGED <<context, msg_sequences, readings, sequences, number>>
  BY DEF Collect, managerVars
<1>2. /\ readings \in Readings /\ Snapshot \in Seq(Messages)
      /\ Len(Snapshot) = 2 + ParkingSize /\ ParkingSize \in Nat
  BY SnapshotShape, ParkingSizeAssumption DEF RoundTypeOK
<1>3. Snapshot # <<>>
  BY <1>2
<1>4. \A u \in Publishers : /\ pc'[u] = IF u = t THEN "publish" ELSE pc[u]
                            /\ round'[u] = IF u = t THEN Snapshot ELSE round[u]
  BY <1>1 DEF RoundTypeOK
<1>5. pc' \in [Publishers -> Places] /\ round' \in [Publishers -> Seq(Messages)]
  <2> HIDE DEF Snapshot
  <2>. QED
    BY <1>1, <1>2 DEF RoundTypeOK, Places
<1>6. RoundTypeOK'
  <2>1. alone' \in Publishers \cup {"done", None}
    BY <1>1
  <2>2. \A u \in Publishers : pc'[u] \in Publishing => round'[u] # <<>>
    BY <1>3, <1>4 DEF RoundTypeOK
  <2>. QED
    BY <1>1, <1>5, <2>1, <2>2 DEF RoundTypeOK, ManagerTypeOK
<1>7. NumbersInv'
  BY <1>1, <1>4 DEF NumbersInv
<1>8. AloneInv'
  BY <1>1, <1>4, OtherThread DEF AloneInv, Publishing
<1>9. Snapshot' = Snapshot
  BY <1>1 DEF Snapshot
<1>10. ProgressInv'
  <2>1. SUFFICES ASSUME NEW u \in Publishers, alone' = u
                 PROVE  /\ Rest(u, Len(Snapshot) - Len(round[u]))'
                        /\ pc'[u] # "send"
    BY DEF ProgressInv
  <2>2. u = t
    BY <1>1, <2>1, OtherThread
  <2>3. round'[u] = Snapshot /\ pc'[u] = "publish"
    BY <1>4, <2>2
  <2> DEFINE len == Len(Snapshot)
  <2>4. len \in Nat
    BY <1>2
  <2>5. Rest(u, len - Len(round[u]))'
    <3> HIDE DEF Snapshot
    <3>1. Len(round'[u]) = len /\ len - len = 0
      BY <2>3, <2>4
    <3>. QED
      BY <1>9, <2>3, <2>4, <3>1 DEF Rest
  <2>. QED
    BY <2>3, <2>5
<1>11. alone' # "done"
  BY <1>1, OtherThread
<1>. QED
  BY <1>6, <1>7, <1>8, <1>10, <1>11 DEF QuietRoundIsShown

(* A number that is taken is newer than all that were taken before. *)
LEMMA TakeNumberRoundInv ==
  ASSUME RoundInv, NEW t \in Publishers, TakeNumber(t)
  PROVE  RoundInv'
<1> USE DEF RoundInv
<1>1. PICK topic : topic = Head(round[t]).topic
  OBVIOUS
<1>2. /\ pc[t] = "publish" /\ pc' = [pc EXCEPT ![t] = "send"]
      /\ sequences' = [sequences EXCEPT ![topic] = sequences[topic] + 1]
      /\ number' = [number EXCEPT ![t] = sequences[topic] + 1]
      /\ UNCHANGED <<context, msg_sequences, readings, round, alone>>
  BY <1>1 DEF TakeNumber, managerVars
<1>3. topic \in SensorTopics
  <2>1. round[t] \in Seq(Messages) /\ round[t] # <<>>
    BY <1>2 DEF RoundTypeOK, Publishing
  <2>2. Head(round[t]) \in Messages
    BY <2>1, HeadTailProperties
  <2>. QED
    BY <1>1, <2>2, MessageIsUsable
<1>4. /\ \A u \in SensorTopics : sequences[u] \in Nat /\ msg_sequences[u] \in Nat
      /\ \A u \in SensorTopics :
           sequences'[u] = IF u = topic THEN sequences[u] + 1 ELSE sequences[u]
      /\ \A u \in Publishers : /\ pc'[u] = IF u = t THEN "send" ELSE pc[u]
                               /\ number'[u] = IF u = t THEN sequences[topic] + 1 ELSE number[u]
                               /\ number[u] \in Nat
  BY <1>2, <1>3 DEF RoundTypeOK, ManagerTypeOK, SensorTopics, Topics
<1>5. RoundTypeOK'
  <2>1. /\ pc' \in [Publishers -> Places]
        /\ sequences' \in [SensorTopics -> Nat] /\ number' \in [Publishers -> Nat]
    BY <1>2, <1>3, <1>4 DEF RoundTypeOK, Places
  <2>2. \A u \in Publishers : pc'[u] \in Publishing => round'[u] # <<>>
    BY <1>2, <1>4 DEF RoundTypeOK, Publishing
  <2>. QED
    BY <1>2, <2>1, <2>2 DEF RoundTypeOK, ManagerTypeOK
<1>6. NumbersInv'
  <2>1. \A u \in SensorTopics : msg_sequences'[u] <= sequences'[u]
    BY <1>2, <1>4 DEF NumbersInv
  <2>2. ASSUME NEW u \in Publishers, pc'[u] = "send"
        PROVE  number'[u] <= sequences'[Head(round'[u]).topic]
    <3>1. CASE u = t
      BY <1>1, <1>2, <1>3, <1>4, <3>1
    <3>2. CASE u # t
      <4>1. pc[u] = "send" /\ number'[u] = number[u]
        BY <1>4, <2>2, <3>2
      <4>2. PICK m : m = Head(round[u])
        OBVIOUS
      <4>3. number[u] <= sequences[m.topic]
        BY <4>1, <4>2 DEF NumbersInv
      <4>4. m.topic \in SensorTopics
        <5>1. round[u] \in Seq(Messages) /\ round[u] # <<>>
          BY <4>1 DEF RoundTypeOK, Publishing
        <5>2. m \in Messages
          BY <4>2, <5>1, HeadTailProperties
        <5>. QED
          BY <5>2, MessageIsUsable
      <4>. QED
        BY <1>2, <1>4, <4>1, <4>2, <4>3, <4>4
    <3>. QED
      BY <3>1, <3>2
  <2>. QED
    BY <2>1, <2>2 DEF NumbersInv
<1>7. AloneInv'
  BY <1>2, <1>4, OtherThread DEF AloneInv, Publishing
<1>8. Snapshot' = Snapshot
  BY <1>2 DEF Snapshot
<1>9. ProgressInv'
  <2>1. SUFFICES ASSUME NEW u \in Publishers, alone' = u
                 PROVE  /\ Rest(u, Len(Snapshot) - Len(round[u]))'
                        /\ pc'[u] = "send" => number'[u] > msg_sequences'[Head(round'[u]).topic]
    BY DEF ProgressInv
  <2>2. alone = u /\ pc[u] \in Publishing
    BY <1>2, <2>1 DEF AloneInv
  <2>3. u = t
    BY <1>2, <2>2, OtherThread DEF AloneInv
  <2>4. Rest(u, Len(Snapshot) - Len(round[u]))'
    <3>1. Rest(u, Len(Snapshot) - Len(round[u]))
      BY <2>2 DEF ProgressInv
    <3>. QED
      BY <1>2, <1>8, <3>1 DEF Rest, Shows
  <2>5. number'[t] > msg_sequences[topic]
    BY <1>3, <1>4 DEF NumbersInv
  <2>. QED
    BY <1>1, <1>2, <2>3, <2>4, <2>5
<1>10. QuietRoundIsShown'
  BY <1>2 DEF QuietRoundIsShown
<1>. QED
  BY <1>5, <1>6, <1>7, <1>9, <1>10

(* A message that gets through is shown, and covers no other of its round. *)
LEMMA PublishRoundInv ==
  ASSUME RoundInv, NEW t \in Publishers, Publish(t)
  PROVE  RoundInv'
<1> USE DEF RoundInv
<1>1. PICK m : m = Head(round[t])
  OBVIOUS
<1>2. PICK rest : rest = Tail(round[t])
  OBVIOUS
<1>3. PICK n : n = number[t]
  OBVIOUS
<1>4. /\ pc[t] = "send" /\ EventHandler(Event(m.topic, n, m.payload))
      /\ round' = [round EXCEPT ![t] = rest]
      /\ number' = [number EXCEPT ![t] = 0]
      /\ pc' = [pc EXCEPT ![t] = IF rest = <<>> THEN "idle" ELSE "publish"]
      /\ alone' = IF rest = <<>> /\ alone = t THEN "done" ELSE alone
      /\ UNCHANGED <<readings, sequences>>
  BY <1>1, <1>2, <1>3 DEF Publish, Finished
<1>5. /\ round[t] \in Seq(Messages) /\ round[t] # <<>>
      /\ m \in Messages /\ rest \in Seq(Messages) /\ Len(rest) = Len(round[t]) - 1
      /\ \A i \in 1 .. Len(rest) : rest[i] = round[t][i + 1]
      /\ m = round[t][1] /\ Len(round[t]) \in Nat \ {0}
  <2>1. round[t] \in Seq(Messages) /\ round[t] # <<>>
    BY <1>4 DEF RoundTypeOK, Publishing
  <2>. QED
    BY <1>1, <1>2, <2>1, HeadTailProperties
<1>6. /\ m.topic \in SensorTopics /\ m.topic \in Topics
      /\ ValidPayload(m.topic, m.payload)
      /\ m.topic = "parking" => m.payload \in ParkingPayloads \cup {Malformed}
  BY <1>5, MessageIsUsable
<1>7. /\ context \in Contexts /\ msg_sequences \in [Topics -> Nat]
      /\ n \in Nat /\ n # NoNumber /\ n <= sequences[m.topic]
  BY <1>1, <1>3, <1>4, NumberAssumption DEF RoundTypeOK, ManagerTypeOK, NumbersInv
<1>8. /\ n > msg_sequences[m.topic] =>
           /\ context' = Update(context, m.topic, m.payload)
           /\ msg_sequences' = [msg_sequences EXCEPT ![m.topic] = n]
      /\ ~(n > msg_sequences[m.topic]) => UNCHANGED <<context, msg_sequences>>
  BY <1>4, <1>6, <1>7 DEF EventHandler, AcceptEvent, RejectEvent, Accepts, Event, managerVars
<1>9. /\ \A u \in Publishers : /\ pc'[u] = IF u # t THEN pc[u]
                                           ELSE IF rest = <<>> THEN "idle" ELSE "publish"
                               /\ round'[u] = IF u = t THEN rest ELSE round[u]
                               /\ number'[u] = IF u = t THEN 0 ELSE number[u]
  BY <1>4 DEF RoundTypeOK
<1>10. RoundTypeOK'
  <2>1. context' \in Contexts /\ msg_sequences' \in [Topics -> Nat]
    <3>1. Update(context, m.topic, m.payload) \in Contexts
      BY <1>6, <1>7, UpdateType
    <3>. QED
      BY <1>7, <1>8, <3>1
  <2>2. /\ pc' \in [Publishers -> Places] /\ round' \in [Publishers -> Seq(Messages)]
        /\ number' \in [Publishers -> Nat]
    BY <1>4, <1>5 DEF RoundTypeOK, Places
  <2>3. \A u \in Publishers : pc'[u] \in Publishing => round'[u] # <<>>
    BY <1>9 DEF RoundTypeOK, Publishing
  <2>4. alone' \in Publishers \cup {"done", None}
    BY <1>4 DEF RoundTypeOK
  <2>. QED
    BY <1>4, <2>1, <2>2, <2>3, <2>4 DEF RoundTypeOK, ManagerTypeOK
<1>11. NumbersInv'
  <2>1. ASSUME NEW topic \in SensorTopics PROVE msg_sequences'[topic] <= sequences[topic]
    <3>1. topic \in Topics
      BY DEF SensorTopics, Topics
    <3>2. msg_sequences[topic] <= sequences[topic]
      BY DEF NumbersInv
    <3>. QED
      BY <1>7, <1>8, <3>1, <3>2
  <2>2. ASSUME NEW u \in Publishers, pc'[u] = "send"
        PROVE  number'[u] <= sequences[Head(round'[u]).topic]
    <3>1. u # t /\ pc[u] = "send"
      BY <1>9, <2>2
    <3>. QED
      BY <1>9, <3>1 DEF NumbersInv
  <2>. QED
    BY <1>4, <2>1, <2>2 DEF NumbersInv
<1>12. AloneInv'
  BY <1>4, <1>9, OtherThread DEF AloneInv, Publishing
<1>13. ASSUME alone = t
       PROVE  Rest(t, Len(Snapshot) - Len(rest))'
  <2> DEFINE len == Len(Snapshot)
             old == len - Len(round[t])
             new == len - Len(rest)
  <2>1. readings \in Readings /\ Snapshot' = Snapshot
    BY <1>4 DEF RoundTypeOK, Snapshot
  <2>2. Snapshot \in Seq(Messages) /\ len \in Nat
    BY <2>1, SnapshotShape
  <2>3. Rest(t, old)
    BY <1>13 DEF ProgressInv
  <2>4. old \in Nat /\ new = old + 1 /\ new \in 1 .. len /\ m = Snapshot[new]
    <3>1. old \in Nat /\ round[t][1] = Snapshot[old + 1]
      <4>1. 1 \in 1 .. Len(round[t])
        BY <1>5
      <4> HIDE DEF old
      <4>. QED
        BY <2>3, <4>1 DEF Rest
    <3>. QED
      BY <1>5, <2>2, <3>1
  <2>5. \A j \in 1 .. old : Shows(Snapshot[j])
    BY <2>3 DEF Rest
  <2>6. \A j \in 1 .. Len(rest) : rest[j] = Snapshot[new + j]
    <3>1. \A j \in 1 .. Len(round[t]) : round[t][j] = Snapshot[old + j]
      BY <2>3 DEF Rest
    <3> HIDE DEF new, old
    <3>2. ASSUME NEW j \in 1 .. Len(rest) PROVE rest[j] = Snapshot[new + j]
      <4>1. j + 1 \in 1 .. Len(round[t]) /\ old + (j + 1) = new + j
        BY <1>5, <2>4
      <4>2. rest[j] = round[t][j + 1]
        BY <1>5
      <4>. QED
        BY <3>1, <4>1, <4>2
    <3>. QED
      BY <3>2
  <2>7. context' = Update(context, m.topic, m.payload)
    BY <1>1, <1>3, <1>4, <1>8, <1>13 DEF ProgressInv
  <2>8. /\ Shows(m)'
        /\ \A k \in Messages : Shows(k) /\ ~SameReading(m, k) => Shows(k)'
    BY <1>5, <1>7, <2>7, AcceptedIsShown
  <2>9. ASSUME NEW j \in 1 .. new PROVE Shows(Snapshot[j])'
    <3>1. PICK k : k = Snapshot[j]
      OBVIOUS
    <3>2. Shows(k)'
      <4>1. CASE j = new
        BY <2>4, <2>8, <3>1, <4>1
      <4>2. CASE j # new
        <5>1. j \in 1 .. old /\ j \in 1 .. len
          BY <2>2, <2>4, <4>2
        <5>2. k \in Messages /\ Shows(k)
          BY <2>2, <2>5, <3>1, <5>1, ElementOfSeq
        <5>3. ~SameReading(m, k)
          <6> HIDE DEF new
          <6>. QED
            BY <2>1, <2>4, <3>1, <4>2, <5>1, SnapshotIsDistinct
        <5>. QED
          BY <2>8, <5>2, <5>3
      <4>. QED
        BY <4>1, <4>2
    <3>. QED
      BY <2>1, <3>1, <3>2 DEF Shows
  <2>10. round'[t] = rest
    BY <1>9
  <2>11. new \in Nat /\ new + Len(rest) = len
    BY <1>5, <2>2, <2>4
  <2>. QED
    BY <2>1, <2>6, <2>9, <2>10, <2>11 DEF Rest
<1>14. Snapshot' = Snapshot
  BY <1>4 DEF Snapshot
<1>15. ProgressInv'
  <2>1. SUFFICES ASSUME NEW u \in Publishers, alone' = u
                 PROVE  /\ Rest(u, Len(Snapshot) - Len(round[u]))'
                        /\ pc'[u] # "send"
    BY DEF ProgressInv
  <2>2. alone = u
    BY <1>4, <2>1, OtherThread
  <2>3. u = t
    BY <1>4, <2>2, OtherThread DEF AloneInv
  <2>. QED
    BY <1>9, <1>13, <1>14, <2>2, <2>3
<1>16. QuietRoundIsShown'
  <2>1. SUFFICES ASSUME alone' = "done"
                 PROVE  /\ context'.temperature = readings.temperature
                        /\ context'.lux = readings.lux
                        /\ context'.positions_occupied = readings.parking
    BY <1>4 DEF QuietRoundIsShown
  <2>2. alone # "done"
    BY <1>4 DEF AloneInv
  <2>3. alone = t /\ rest = <<>>
    BY <1>4, <2>1, <2>2
  <2>4. Rest(t, Len(Snapshot) - Len(rest))'
    BY <1>13, <2>3
  <2>5. (readings \in Readings /\ context \in Contexts)' /\ Len(Snapshot) \in Nat
    BY <1>10, SnapshotShape, ParkingSizeAssumption DEF RoundTypeOK, ManagerTypeOK
  <2>6. Len(Snapshot) - Len(rest) = Len(Snapshot)
    BY <2>3, <2>5
  <2>7. (\A j \in 1 .. Len(Snapshot) : Shows(Snapshot[j]))'
    BY <1>14, <2>4, <2>6 DEF Rest
  <2>8. AllIsShown'
    BY <2>5, <2>7, SnapshotIsAll, PTL
  <2>. QED
    BY <1>4, <2>8 DEF AllIsShown
<1>. QED
  BY <1>10, <1>11, <1>12, <1>15, <1>16

(* Its number does not put a counter ahead of the simulator's. *)
LEMMA DeliveredInTurn ==
  ASSUME RoundInv, NEW t \in Publishers, pc[t] = "send",
         EventHandler(Event(Head(round[t]).topic, number[t], Head(round[t]).payload))
  PROVE  /\ context' \in Contexts /\ msg_sequences' \in [Topics -> Nat]
         /\ \A topic \in SensorTopics : msg_sequences'[topic] <= sequences[topic]
<1> USE DEF RoundInv
<1>1. PICK m : m = Head(round[t])
  OBVIOUS
<1>2. /\ m \in Messages /\ m.topic \in SensorTopics /\ m.topic \in Topics
      /\ ValidPayload(m.topic, m.payload)
      /\ m.topic = "parking" => m.payload \in ParkingPayloads \cup {Malformed}
  <2>1. m \in Messages
    <3>1. round[t] \in Seq(Messages) /\ round[t] # <<>>
      BY DEF RoundTypeOK, Publishing
    <3>. QED
      BY <1>1, <3>1, HeadTailProperties
  <2>. QED
    BY <2>1, MessageIsUsable
<1>3. /\ context \in Contexts /\ msg_sequences \in [Topics -> Nat]
      /\ number[t] \in Nat /\ number[t] <= sequences[m.topic]
  BY <1>1 DEF RoundTypeOK, ManagerTypeOK, NumbersInv
<1>4. \/ /\ context' = Update(context, m.topic, m.payload)
         /\ msg_sequences' = [msg_sequences EXCEPT ![m.topic] = number[t]]
      \/ UNCHANGED <<context, msg_sequences>>
  BY <1>1 DEF EventHandler, AcceptEvent, RejectEvent, Event, managerVars
<1>5. Update(context, m.topic, m.payload) \in Contexts
  BY <1>2, <1>3, UpdateType
<1>6. ASSUME NEW topic \in SensorTopics PROVE msg_sequences'[topic] <= sequences[topic]
  <2>1. topic \in Topics /\ msg_sequences[topic] <= sequences[topic]
    BY DEF SensorTopics, Topics, NumbersInv
  <2>. QED
    BY <1>3, <1>4, <2>1
<1>. QED
  BY <1>3, <1>4, <1>5, <1>6

(* After a failure no round is alone, whether or not its message arrived. *)
LEMMA FailRoundInv ==
  ASSUME RoundInv, NEW t \in Publishers, PublishFails(t) \/ PublishTimesOut(t)
  PROVE  RoundInv'
<1> USE DEF RoundInv
<1>0. CutShort(t)
  BY DEF PublishFails, PublishTimesOut
<1>1. PICK place \in {"idle", "stopped"} : pc' = [pc EXCEPT ![t] = place]
  BY <1>0 DEF CutShort
<1>2. /\ pc[t] = "send"
      /\ round' = [round EXCEPT ![t] = <<>>] /\ number' = [number EXCEPT ![t] = 0]
      /\ alone' = None
      /\ UNCHANGED <<readings, sequences>>
  BY <1>0 DEF CutShort
<1>9. /\ context' \in Contexts /\ msg_sequences' \in [Topics -> Nat]
      /\ \A topic \in SensorTopics : msg_sequences'[topic] <= sequences[topic]
  <2>1. CASE PublishFails(t)
    BY <2>1 DEF PublishFails, managerVars, RoundTypeOK, ManagerTypeOK, NumbersInv
  <2>2. CASE PublishTimesOut(t)
    BY <1>2, <2>2, DeliveredInTurn DEF PublishTimesOut
  <2>. QED
    BY <2>1, <2>2
<1>3. \A u \in Publishers : pc'[u] = IF u = t THEN place ELSE pc[u]
  BY <1>1 DEF RoundTypeOK
<1>4. \A u \in Publishers : /\ round'[u] = IF u = t THEN <<>> ELSE round[u]
                            /\ number'[u] = IF u = t THEN 0 ELSE number[u]
  BY <1>2 DEF RoundTypeOK
<1>5. RoundTypeOK'
  <2>1. pc' \in [Publishers -> Places]
    BY <1>1 DEF RoundTypeOK, Places
  <2>2. round' \in [Publishers -> Seq(Messages)] /\ number' \in [Publishers -> Nat]
    BY <1>2 DEF RoundTypeOK
  <2>3. \A u \in Publishers : pc'[u] \in Publishing => round'[u] # <<>>
    BY <1>3, <1>4 DEF RoundTypeOK, Publishing
  <2>. QED
    BY <1>2, <1>9, <2>1, <2>2, <2>3 DEF RoundTypeOK, ManagerTypeOK
<1>6. NumbersInv'
  BY <1>2, <1>3, <1>4, <1>9 DEF NumbersInv
<1>7. alone' \notin Publishers /\ alone' # "done"
  BY <1>2, OtherThread
<1>. QED
  BY <1>5, <1>6, <1>7 DEF AloneInv, ProgressInv, QuietRoundIsShown

(* Each step preserves it. *)
LEMMA RoundInvNext == RoundInv /\ [Next]_vars => RoundInv'
<1> SUFFICES ASSUME RoundInv, [Next]_vars PROVE RoundInv'
  OBVIOUS
<1>1. CASE UNCHANGED vars
  <2>1. Snapshot' = Snapshot
    BY <1>1 DEF vars, simulatorVars, Snapshot
  <2>2. RoundTypeOK'
    BY <1>1 DEF vars, managerVars, simulatorVars, RoundInv, RoundTypeOK, ManagerTypeOK
  <2>3. NumbersInv' /\ AloneInv' /\ QuietRoundIsShown'
    BY <1>1 DEF vars, managerVars, simulatorVars, RoundInv, NumbersInv, AloneInv,
                QuietRoundIsShown
  <2>4. ProgressInv'
    BY <1>1, <2>1 DEF vars, managerVars, simulatorVars, RoundInv, ProgressInv, Rest, Shows
  <2>. QED
    BY <2>2, <2>3, <2>4 DEF RoundInv
<1>. QED
  BY <1>1, CommandRoundInv, SetLuxRoundInv, TickRoundInv, CollectRoundInv,
     TakeNumberRoundInv, PublishRoundInv, FailRoundInv DEF Next

(* While the console and the sensor loop do not publish at the same time,  *)
(* the backend shows the simulator's readings after each round, however    *)
(* many rounds failed or were mixed up before.                             *)
THEOREM QuietRoundsAreShown == Spec => []QuietRoundIsShown
<1>1. RoundInv => QuietRoundIsShown
  BY DEF RoundInv
<1>. QED
  BY <1>1, RoundInvInit, RoundInvNext, PTL DEF Spec

--------------------------------------------------------------------------------
(* The refinement of SensorLink.  The log has an entry for every number    *)
(* taken, and a number in hand is that of the message to be published.     *)
Logged == {m.payload : m \in Messages}

LogInv ==
  /\ log \in [Topics -> Seq(Logged)]
  /\ arrived \in [Topics -> SUBSET Nat]
  /\ \A topic \in SensorTopics : Len(log[topic]) = sequences[topic]
  /\ \A t \in Publishers :
       pc[t] = "send" =>
         LET m == Head(round[t]) IN
         number[t] \in 1 .. Len(log[m.topic]) /\ log[m.topic][number[t]] = m.payload

(* The numbers a thread will still take in the round it has begun. *)
Ahead(t) ==
  CASE pc[t] \in {"set_lux", "collect"} -> RoundSize
    [] pc[t] = "publish"                -> Len(round[t])
    [] pc[t] = "send"                   -> Len(round[t]) - 1
    [] OTHER                            -> 0

Begun == commands + rounds
Taken == sequences["temperature"] + sequences["light"] + sequences["parking"]

(* What has been numbered and what is to come fit the rounds begun, so     *)
(* that no bound of SensorLink is met before one of the simulator.         *)
BudgetInv ==
  /\ commands \in 0 .. MaxCommands /\ rounds \in 0 .. MaxRounds
  /\ Taken + Ahead(Console) + Ahead(Sensors) <= Begun * RoundSize

SimulatorInv == RoundInv /\ LogInv /\ BudgetInv

(* A step of the specification with its log is one of the simulator. *)
LEMMA LoggedSteps == ASSUME LNext PROVE Next
  BY DEF LNext, NumberedStep, PublishedStep, Next

(* The message a thread has in hand. *)
LEMMA MessageInHand ==
  ASSUME RoundInv, NEW t \in Publishers, pc[t] \in Publishing
  PROVE  /\ round[t] \in Seq(Messages) /\ round[t] # <<>>
         /\ Head(round[t]) \in Messages /\ Head(round[t]).topic \in SensorTopics
         /\ Tail(round[t]) \in Seq(Messages) /\ Len(Tail(round[t])) = Len(round[t]) - 1
         /\ Len(round[t]) \in Nat \ {0}
<1>1. round[t] \in Seq(Messages) /\ round[t] # <<>>
  BY DEF RoundInv, RoundTypeOK
<1>2. /\ Head(round[t]) \in Messages /\ Tail(round[t]) \in Seq(Messages)
      /\ Len(Tail(round[t])) = Len(round[t]) - 1 /\ Len(round[t]) \in Nat \ {0}
  BY <1>1, HeadTailProperties, EmptySeq, LenProperties
<1>. QED
  BY <1>1, <1>2, MessageIsUsable

LEMMA NoSensorSendsVehicles == SensorTopics \subseteq Topics
  BY DEF SensorTopics, Topics

--------------------------------------------------------------------------------
(* The log. *)

(* A step that numbers nothing and publishes nothing. *)
LEMMA LogKept ==
  ASSUME LogInv, UNCHANGED <<log, arrived, sequences>>,
         \A u \in Publishers :
           pc'[u] = "send" => pc[u] = "send" /\ round'[u] = round[u] /\ number'[u] = number[u]
  PROVE  LogInv'
  BY DEF LogInv

LEMMA NumberedLog ==
  ASSUME RoundInv, LogInv, NEW t \in Publishers, NumberedStep(t)
  PROVE  LogInv'
<1> DEFINE m     == Head(round[t])
           topic == m.topic
           next  == sequences[topic] + 1
<1>1. /\ pc[t] = "publish" /\ pc' = [pc EXCEPT ![t] = "send"]
      /\ sequences' = [sequences EXCEPT ![topic] = next]
      /\ number' = [number EXCEPT ![t] = next] /\ UNCHANGED <<round, arrived>>
      /\ log' = [log EXCEPT ![topic] = Append(@, m.payload)]
  BY DEF NumberedStep, TakeNumber
<1>2. /\ m \in Messages /\ topic \in SensorTopics /\ topic \in Topics /\ m.payload \in Logged
      /\ pc \in [Publishers -> Places] /\ number \in [Publishers -> Nat]
      /\ sequences \in [SensorTopics -> Nat]
  BY <1>1, MessageInHand, NoSensorSendsVehicles DEF Publishing, RoundInv, RoundTypeOK, Logged
<1> HIDE DEF m, topic
<1>3. /\ log' \in [Topics -> Seq(Logged)]
      /\ \A u \in Topics \ {topic} : log'[u] = log[u]
      /\ Len(log[topic]) = sequences[topic] /\ Len(log'[topic]) = next
      /\ \A n \in 1 .. Len(log[topic]) : log'[topic][n] = log[topic][n]
      /\ log'[topic][next] = m.payload
  <2>1. log[topic] \in Seq(Logged) /\ Len(log[topic]) = sequences[topic]
    BY <1>2 DEF LogInv
  <2>2. /\ Append(log[topic], m.payload) \in Seq(Logged)
        /\ Len(Append(log[topic], m.payload)) = next
        /\ \A n \in 1 .. Len(log[topic]) : Append(log[topic], m.payload)[n] = log[topic][n]
        /\ Append(log[topic], m.payload)[next] = m.payload
    BY <1>2, <2>1, AppendProperties
  <2>3. log'[topic] = Append(log[topic], m.payload)
    BY <1>1, <1>2 DEF LogInv
  <2>4. \A u \in Topics \ {topic} : log'[u] = log[u]
    BY <1>1, <1>2 DEF LogInv
  <2>. QED
    BY <1>1, <1>2, <2>1, <2>2, <2>3, <2>4 DEF LogInv
<1>4. \A u \in SensorTopics : Len(log'[u]) = sequences'[u]
  BY <1>1, <1>2, <1>3, NoSensorSendsVehicles DEF LogInv
<1>5. ASSUME NEW u \in Publishers, pc'[u] = "send"
      PROVE  /\ number'[u] \in 1 .. Len(log'[Head(round[u]).topic])
             /\ log'[Head(round[u]).topic][number'[u]] = Head(round[u]).payload
  <2>1. CASE u = t
    <3>1. number'[t] \in 1 .. Len(log'[topic]) /\ log'[topic][number'[t]] = m.payload
      BY <1>1, <1>2, <1>3
    <3>. QED
      BY <2>1, <3>1 DEF m, topic
  <2>2. CASE u # t
    <3> DEFINE k == Head(round[u])
    <3>1. pc[u] = "send" /\ number'[u] = number[u] /\ number[u] \in Nat
      BY <1>1, <1>2, <1>5, <2>2
    <3>2. k.topic \in Topics
      BY <3>1, MessageInHand, NoSensorSendsVehicles DEF Publishing
    <3>3. number[u] \in 1 .. Len(log[k.topic]) /\ log[k.topic][number[u]] = k.payload
      BY <3>1 DEF LogInv
    <3> HIDE DEF k
    <3>4. k.topic = topic =>
            log'[k.topic][number[u]] = k.payload /\ number[u] \in 1 .. Len(log'[k.topic])
      BY <1>2, <1>3, <3>1, <3>3
    <3>5. k.topic # topic =>
            log'[k.topic][number[u]] = k.payload /\ number[u] \in 1 .. Len(log'[k.topic])
      BY <1>3, <3>1, <3>2, <3>3
    <3>6. number'[u] \in 1 .. Len(log'[k.topic]) /\ log'[k.topic][number'[u]] = k.payload
      <4>1. log'[k.topic][number[u]] = k.payload /\ number[u] \in 1 .. Len(log'[k.topic])
        BY <3>4, <3>5
      <4>. QED
        BY <3>1, <4>1
    <3>. QED
      BY <3>6 DEF k
  <2>. QED
    BY <2>1, <2>2
<1>. QED
  BY <1>1, <1>3, <1>4, <1>5 DEF LogInv

LEMMA NextLog == RoundInv /\ LogInv /\ [LNext]_<<vars, linkVars>> => LogInv'
<1> SUFFICES ASSUME RoundInv, LogInv, [LNext]_<<vars, linkVars>> PROVE LogInv'
  OBVIOUS
<1>0. /\ pc \in [Publishers -> Places] /\ round \in [Publishers -> Seq(Messages)]
      /\ number \in [Publishers -> Nat] /\ {Console, Sensors} = Publishers
  BY DEF RoundInv, RoundTypeOK, Publishers
<1>1. ASSUME NEW t \in Publishers, NumberedStep(t) PROVE LogInv'
  BY <1>1, NumberedLog
<1>2. ASSUME NEW t \in Publishers, PublishedStep(t) PROVE LogInv'
  <2> DEFINE topic == Head(round[t]).topic
  <2>1. /\ pc[t] = "send" /\ UNCHANGED <<log, sequences>>
        /\ \A u \in Publishers :
             pc'[u] = "send" => pc[u] = "send" /\ round'[u] = round[u] /\ number'[u] = number[u]
        /\ arrived' = [arrived EXCEPT ![topic] = @ \cup {number[t]}]
    BY <1>0, <1>2 DEF PublishedStep, Publish, PublishTimesOut, CutShort
  <2>2. topic \in Topics
    BY <2>1, MessageInHand, NoSensorSendsVehicles DEF Publishing
  <2> HIDE DEF topic
  <2>3. arrived' \in [Topics -> SUBSET Nat]
    BY <1>0, <2>1, <2>2 DEF LogInv
  <2>. QED
    BY <2>1, <2>3 DEF LogInv
<1>3. CASE UNCHANGED linkVars /\ (Command \/ SetBoth \/ SetLux \/ Tick)
  BY <1>0, <1>3, LogKept DEF linkVars, Command, SetBoth, SetLux, Tick
<1>4. ASSUME UNCHANGED linkVars, NEW t \in Publishers, Collect(t) \/ PublishFails(t) PROVE LogInv'
  BY <1>0, <1>4, LogKept DEF linkVars, Collect, PublishFails, CutShort
<1>5. CASE UNCHANGED <<vars, linkVars>>
  BY <1>5, LogKept DEF vars, simulatorVars, linkVars
<1>. QED
  BY <1>1, <1>2, <1>3, <1>4, <1>5 DEF LNext

--------------------------------------------------------------------------------
(* The budget. *)

LEMMA OneMoreRound ==
  ASSUME NEW k \in Nat
  PROVE  /\ RoundSize \in Nat /\ k * RoundSize \in Nat
         /\ (k + 1) * RoundSize = k * RoundSize + RoundSize
  BY ParkingSizeAssumption DEF RoundSize

LEMMA AheadKept ==
  ASSUME NEW u, pc'[u] = pc[u], round'[u] = round[u]
  PROVE  Ahead(u)' = Ahead(u)
  BY DEF Ahead

AheadTypeOK == Ahead(Console) \in Nat /\ Ahead(Sensors) \in Nat /\ Taken \in Nat

LEMMA AheadType == RoundInv => AheadTypeOK
<1> SUFFICES ASSUME RoundInv PROVE AheadTypeOK
  OBVIOUS
<1>1. ASSUME NEW t \in Publishers PROVE Ahead(t) \in Nat
  <2>1. RoundSize \in Nat
    BY OneMoreRound
  <2>2. pc[t] \in Publishing => Len(round[t]) \in Nat \ {0}
    BY MessageInHand
  <2>. QED
    BY <2>1, <2>2 DEF Ahead, Publishing
<1>2. Taken \in Nat
  BY DEF RoundInv, RoundTypeOK, Taken, SensorTopics
<1>. QED
  BY <1>1, <1>2 DEF AheadTypeOK, Publishers

LEMMA AheadTypeNext == RoundInv' => AheadTypeOK'
  BY AheadType, PTL

(* A thread within its round: what it takes it no longer has ahead.        *)
LEMMA BudgetKept ==
  ASSUME RoundInv, RoundInv', BudgetInv, NEW t \in Publishers, UNCHANGED <<commands, rounds>>,
         Ahead(t)' + Taken' <= Ahead(t) + Taken,
         pc'[Other(t)] = pc[Other(t)], round'[Other(t)] = round[Other(t)]
  PROVE  BudgetInv'
<1>1. Ahead(Other(t))' = Ahead(Other(t))
  BY AheadKept
<1>2. /\ Ahead(Console) \in Nat /\ Ahead(Sensors) \in Nat /\ Taken \in Nat
  BY AheadType DEF AheadTypeOK
<1>3. /\ Ahead(Console)' \in Nat /\ Ahead(Sensors)' \in Nat /\ Taken' \in Nat
  BY AheadTypeNext DEF AheadTypeOK
<1>4. Begun' = Begun /\ Begun * RoundSize \in Nat
  <2>1. Begun \in Nat
    BY SimulatorAssumption DEF Begun, BudgetInv
  <2>. QED
    BY <2>1, OneMoreRound DEF Begun
<1>5. (t = Console /\ Other(t) = Sensors) \/ (t = Sensors /\ Other(t) = Console)
  BY SimulatorAssumption DEF Publishers, Other
<1>6. Taken' + Ahead(Console)' + Ahead(Sensors)' <= Taken + Ahead(Console) + Ahead(Sensors)
  <2>1. CASE t = Console
    BY <1>1, <1>2, <1>3, <1>5, <2>1, SimulatorAssumption
  <2>2. CASE t = Sensors
    BY <1>1, <1>2, <1>3, <1>5, <2>2, SimulatorAssumption
  <2>. QED
    BY <2>1, <2>2, <1>5
<1>. QED
  BY <1>2, <1>3, <1>4, <1>6 DEF BudgetInv

(* A thread that begins a round. *)
LEMMA BudgetGrows ==
  ASSUME RoundInv, RoundInv', BudgetInv, NEW t \in Publishers, pc[t] = "idle",
         pc'[t] \in {"set_lux", "collect"}, UNCHANGED <<sequences, round>>,
         pc'[Other(t)] = pc[Other(t)],
         \/ commands < MaxCommands /\ commands' = commands + 1 /\ rounds' = rounds
         \/ rounds < MaxRounds /\ rounds' = rounds + 1 /\ commands' = commands
  PROVE  BudgetInv'
<1>1. Ahead(Other(t))' = Ahead(Other(t)) /\ Taken' = Taken
  BY AheadKept DEF Taken
<1>2. Ahead(t) = 0 /\ Ahead(t)' = RoundSize
  BY DEF Ahead
<1>3. /\ Ahead(Console) \in Nat /\ Ahead(Sensors) \in Nat /\ Taken \in Nat
  BY AheadType DEF AheadTypeOK
<1>4. /\ Begun \in Nat /\ Begun' = Begun + 1 /\ RoundSize \in Nat
      /\ commands' \in 0 .. MaxCommands /\ rounds' \in 0 .. MaxRounds
  <2>1. commands \in 0 .. MaxCommands /\ rounds \in 0 .. MaxRounds
    BY DEF BudgetInv
  <2>2. RoundSize \in Nat
    BY OneMoreRound
  <2>. QED
    BY <2>1, <2>2, SimulatorAssumption DEF Begun
<1>5. Begun' * RoundSize = Begun * RoundSize + RoundSize /\ Begun * RoundSize \in Nat
  BY <1>4, OneMoreRound
<1>6. (t = Console /\ Other(t) = Sensors) \/ (t = Sensors /\ Other(t) = Console)
  BY SimulatorAssumption DEF Publishers, Other
<1>7. Taken' + Ahead(Console)' + Ahead(Sensors)'
        = Taken + Ahead(Console) + Ahead(Sensors) + RoundSize
  BY <1>1, <1>2, <1>3, <1>4, <1>6
<1>. QED
  BY <1>3, <1>4, <1>5, <1>7 DEF BudgetInv

LEMMA NextBudget ==
  RoundInv /\ RoundInv' /\ BudgetInv /\ [LNext]_<<vars, linkVars>> => BudgetInv'
<1> SUFFICES ASSUME RoundInv, RoundInv', BudgetInv, [LNext]_<<vars, linkVars>> PROVE BudgetInv'
  OBVIOUS
<1>0. /\ pc \in [Publishers -> Places] /\ round \in [Publishers -> Seq(Messages)]
      /\ Console \in Publishers /\ Sensors \in Publishers
      /\ \A t \in Publishers : Other(t) \in Publishers /\ Other(t) # t
  BY SimulatorAssumption DEF RoundInv, RoundTypeOK, Publishers, Other
<1>1. CASE Command \/ SetBoth
  BY <1>0, <1>1, BudgetGrows DEF Command, SetBoth
<1>2. CASE Tick
  BY <1>0, <1>2, BudgetGrows DEF Tick
<1>3. CASE SetLux
  <2>1. /\ Ahead(Console) = RoundSize /\ Ahead(Console)' = RoundSize /\ Taken' = Taken
        /\ UNCHANGED <<commands, rounds, round>> /\ pc'[Other(Console)] = pc[Other(Console)]
    BY <1>0, <1>3 DEF SetLux, Ahead, Taken
  <2>2. RoundSize \in Nat /\ Taken \in Nat
    BY OneMoreRound, AheadType DEF AheadTypeOK
  <2>. QED
    BY <1>0, <2>1, <2>2, BudgetKept
<1>4. ASSUME NEW t \in Publishers, Collect(t) PROVE BudgetInv'
  <2>1. /\ pc[t] = "collect" /\ pc'[t] = "publish" /\ round'[t] = Snapshot /\ Taken' = Taken
        /\ UNCHANGED <<commands, rounds>>
        /\ pc'[Other(t)] = pc[Other(t)] /\ round'[Other(t)] = round[Other(t)]
    BY <1>0, <1>4 DEF Collect, Taken
  <2>2. Len(Snapshot) = RoundSize
    BY SnapshotShape DEF RoundInv, RoundTypeOK, RoundSize
  <2>3. Ahead(t) = RoundSize /\ Ahead(t)' = RoundSize
    BY <2>1, <2>2 DEF Ahead
  <2>4. RoundSize \in Nat /\ Taken \in Nat
    BY OneMoreRound, AheadType DEF AheadTypeOK
  <2>. QED
    BY <2>1, <2>3, <2>4, BudgetKept
<1>5. ASSUME NEW t \in Publishers, NumberedStep(t) PROVE BudgetInv'
  <2> DEFINE topic == Head(round[t]).topic
  <2>1. /\ pc[t] = "publish" /\ pc'[t] = "send" /\ UNCHANGED <<commands, rounds, round>>
        /\ pc'[Other(t)] = pc[Other(t)] /\ round'[Other(t)] = round[Other(t)]
        /\ sequences' = [sequences EXCEPT ![topic] = sequences[topic] + 1]
    BY <1>0, <1>5 DEF NumberedStep, TakeNumber
  <2>2. topic \in SensorTopics /\ Len(round[t]) \in Nat \ {0}
    BY <2>1, MessageInHand DEF Publishing
  <2>3. Ahead(t) = Len(round[t]) /\ Ahead(t)' = Len(round[t]) - 1
    BY <2>1 DEF Ahead
  <2> HIDE DEF topic
  <2>4. Taken' = Taken + 1 /\ Taken \in Nat
    <3>1. sequences \in [SensorTopics -> Nat]
      BY DEF RoundInv, RoundTypeOK
    <3>2. topic \in {"temperature", "light", "parking"}
      BY <2>2 DEF SensorTopics
    <3>3. \A u \in {"temperature", "light", "parking"} :
            /\ sequences[u] \in Nat
            /\ sequences'[u] = IF u = topic THEN sequences[u] + 1 ELSE sequences[u]
      BY <2>1, <3>1, <3>2 DEF SensorTopics
    <3>. QED
      BY <3>2, <3>3 DEF Taken
  <2>. QED
    BY <2>1, <2>2, <2>3, <2>4, BudgetKept
<1>6. ASSUME NEW t \in Publishers, Publish(t) PROVE BudgetInv'
  <2>1. /\ pc[t] = "send" /\ UNCHANGED <<commands, rounds>> /\ Taken' = Taken
        /\ round'[t] = Tail(round[t])
        /\ pc'[t] = IF Tail(round[t]) = <<>> THEN "idle" ELSE "publish"
        /\ pc'[Other(t)] = pc[Other(t)] /\ round'[Other(t)] = round[Other(t)]
    BY <1>0, <1>6 DEF Publish, Taken, Finished
  <2>2. Len(Tail(round[t])) = Len(round[t]) - 1 /\ Len(round[t]) \in Nat \ {0}
    BY <2>1, MessageInHand DEF Publishing
  <2>3. Ahead(t) = Len(round[t]) - 1 /\ Ahead(t)' \in {0, Len(round[t]) - 1}
    BY <2>1, <2>2 DEF Ahead
  <2>4. Taken \in Nat
    BY AheadType DEF AheadTypeOK
  <2>. QED
    BY <2>1, <2>2, <2>3, <2>4, BudgetKept
<1>7. ASSUME NEW t \in Publishers, PublishFails(t) \/ PublishTimesOut(t) PROVE BudgetInv'
  <2>1. /\ pc[t] = "send" /\ pc'[t] \in {"idle", "stopped"} /\ UNCHANGED <<commands, rounds>>
        /\ Taken' = Taken
        /\ pc'[Other(t)] = pc[Other(t)] /\ round'[Other(t)] = round[Other(t)]
    BY <1>0, <1>7 DEF PublishFails, PublishTimesOut, CutShort, Taken
  <2>2. Len(round[t]) \in Nat \ {0}
    BY <2>1, MessageInHand DEF Publishing
  <2>3. Ahead(t) = Len(round[t]) - 1 /\ Ahead(t)' = 0 /\ Taken \in Nat
    BY <2>1, AheadType DEF Ahead, AheadTypeOK
  <2>. QED
    BY <2>1, <2>2, <2>3, BudgetKept
<1>8. CASE UNCHANGED <<vars, linkVars>>
  <2>1. UNCHANGED <<pc, round, sequences, commands, rounds>>
    BY <1>8 DEF vars, simulatorVars
  <2>. QED
    BY <2>1 DEF BudgetInv, Ahead, Taken, Begun
<1>. QED
  BY <1>1, <1>2, <1>3, <1>4, <1>5, <1>6, <1>7, <1>8 DEF LNext, PublishedStep

--------------------------------------------------------------------------------
LEMMA InitSimulator == LInit => SimulatorInv
<1> SUFFICES ASSUME LInit PROVE SimulatorInv
  OBVIOUS
<1>1. RoundInv
  BY RoundInvInit DEF LInit
<1>2. LogInv
  BY NoSensorSendsVehicles DEF LInit, Init, LogInv, SensorTopics
<1>3. BudgetInv
  <2>1. commands = 0 /\ rounds = 0 /\ Taken = 0 /\ Ahead(Console) = 0 /\ Ahead(Sensors) = 0
    BY DEF LInit, Init, Taken, Ahead, Publishers
  <2>2. 0 * RoundSize \in Nat
    BY OneMoreRound
  <2>. QED
    BY <2>1, <2>2, SimulatorAssumption DEF BudgetInv, Begun
<1>. QED
  BY <1>1, <1>2, <1>3 DEF SimulatorInv

LEMMA NextSimulator == SimulatorInv /\ [LNext]_<<vars, linkVars>> => SimulatorInv'
<1>1. [LNext]_<<vars, linkVars>> => [Next]_vars
  BY LoggedSteps
<1>. QED
  BY <1>1, RoundInvNext, NextLog, NextBudget DEF SimulatorInv

(* SensorLink's manager is the simulator's. *)
LEMMA SameManager ==
  ASSUME NEW topic, NEW n, NEW payload
  PROVE  /\ Link!InitialContext = InitialContext /\ Link!Topics = Topics
         /\ EventHandler(Event(topic, n, payload))
              => Link!EventHandler(Link!Event(topic, n, payload))
<1>1. Link!InitialContext = InitialContext
  BY DEF Link!InitialContext, InitialContext, Link!Positions, Positions, Link!Actuators,
         Actuators, Link!Gates, Gates
<1>2. Link!Topics = Topics
  BY DEF Link!Topics, Topics, Link!EventTopics, EventTopics
<1>3. Link!ValidPayload(topic, payload) <=> ValidPayload(topic, payload)
  BY DEF Link!ValidPayload, ValidPayload, Link!EventTopics, EventTopics
<1>4. Link!Update(context, topic, payload) = Update(context, topic, payload)
  BY DEF Link!Update, Update, Link!UpdateTemperature, UpdateTemperature, Link!UpdateLight,
         UpdateLight, Link!UpdateParking, UpdateParking, Link!UpdateVehicleEntry,
         UpdateVehicleEntry, Link!UpdateVehicleLeave, UpdateVehicleLeave
<1>5. Link!Accepts(Link!Event(topic, n, payload)) <=> Accepts(Event(topic, n, payload))
  BY <1>2, <1>3 DEF Link!Accepts, Accepts, Link!Event, Event
<1>6. EventHandler(Event(topic, n, payload)) => Link!EventHandler(Link!Event(topic, n, payload))
  BY <1>4, <1>5 DEF Link!EventHandler, EventHandler, Link!AcceptEvent, AcceptEvent,
         Link!RejectEvent, RejectEvent, Link!managerVars, managerVars, Link!Event, Event
<1>. QED
  BY <1>1, <1>2, <1>6

(* Numbering is sending, publishing is delivery, the rest is invisible.    *)
LEMMA LinkStep ==
  ASSUME SimulatorInv, [LNext]_<<vars, linkVars>>
  PROVE  Link!Next \/ UNCHANGED Link!vars
<1>1. ASSUME NEW t \in Publishers, NumberedStep(t) PROVE Link!Next
  <2> DEFINE m == Head(round[t])
  <2>1. /\ pc[t] = "publish" /\ UNCHANGED <<context, msg_sequences, arrived>>
        /\ log' = [log EXCEPT ![m.topic] = Append(@, m.payload)]
    BY <1>1 DEF NumberedStep, TakeNumber, managerVars
  <2>2. m \in Messages /\ m.topic \in SensorTopics /\ m.topic \in Topics
    BY <2>1, MessageInHand, NoSensorSendsVehicles DEF SimulatorInv, Publishing
  <2>3. Len(log[m.topic]) < MaxMessages
    <3>1. Len(log[m.topic]) = sequences[m.topic]
      BY <2>2 DEF SimulatorInv, LogInv
    <3>2. sequences[m.topic] <= Taken
      BY <2>2 DEF SimulatorInv, RoundInv, RoundTypeOK, Taken, SensorTopics
    <3>3. Ahead(t) = Len(round[t]) /\ Len(round[t]) \in Nat \ {0}
      BY <2>1, MessageInHand DEF SimulatorInv, Publishing, Ahead
    <3>4. /\ Ahead(Console) \in Nat /\ Ahead(Sensors) \in Nat /\ Taken \in Nat
          /\ sequences[m.topic] \in Nat
      BY <2>2, AheadType DEF AheadTypeOK, SimulatorInv, RoundInv, RoundTypeOK
    <3>5. Begun * RoundSize <= MaxMessages /\ Begun * RoundSize \in Nat /\ MaxMessages \in Nat
      <4>1. /\ Begun \in Nat /\ MaxCommands + MaxRounds \in Nat
            /\ Begun <= MaxCommands + MaxRounds /\ RoundSize \in Nat
        BY OneMoreRound, SimulatorAssumption DEF SimulatorInv, BudgetInv, Begun
      <4>2. ASSUME NEW k \in Nat, NEW l \in Nat, NEW r \in Nat, k <= l
            PROVE  k * r <= l * r /\ k * r \in Nat /\ l * r \in Nat
        BY <4>2
      <4>. QED
        BY <4>1, <4>2 DEF MaxMessages
    <3>6. Taken + Ahead(Console) + Ahead(Sensors) <= Begun * RoundSize
      BY DEF SimulatorInv, BudgetInv
    <3>7. Taken < Begun * RoundSize
      BY <3>3, <3>4, <3>5, <3>6 DEF Publishers
    <3>. QED
      BY <3>1, <3>2, <3>4, <3>5, <3>7
  <2>4. Link!Send(m)
    BY <2>1, <2>2, <2>3 DEF Link!Send
  <2>. QED
    BY <2>2, <2>4 DEF Link!Next
<1>2. ASSUME NEW t \in Publishers, PublishedStep(t) PROVE Link!Next
  <2> DEFINE m == Head(round[t])
             n == number[t]
  <2>1. /\ pc[t] = "send" /\ EventHandler(Event(m.topic, n, m.payload)) /\ UNCHANGED log
        /\ arrived' = [arrived EXCEPT ![m.topic] = @ \cup {n}]
    BY <1>2 DEF PublishedStep, Publish, PublishTimesOut, CutShort
  <2>2. m.topic \in Topics /\ n \in 1 .. Len(log[m.topic]) /\ log[m.topic][n] = m.payload
    BY <2>1, MessageInHand, NoSensorSendsVehicles DEF SimulatorInv, LogInv, Publishing
  <2>3. Link!EventHandler(Link!Event(m.topic, n, log[m.topic][n]))
    BY <2>1, <2>2, SameManager
  <2>4. Link!Deliver(m.topic, n)
    BY <2>1, <2>2, <2>3 DEF Link!Deliver
  <2>5. m.topic \in Link!Topics
    BY <2>2, SameManager
  <2>. QED
    BY <2>2, <2>4, <2>5 DEF Link!Next
<1>3. CASE UNCHANGED linkVars /\ (Command \/ SetBoth \/ SetLux \/ Tick)
  BY <1>3 DEF linkVars, managerVars, Command, SetBoth, SetLux, Tick, Link!vars
<1>4. ASSUME UNCHANGED linkVars, NEW t \in Publishers, Collect(t) \/ PublishFails(t)
      PROVE  UNCHANGED Link!vars
  BY <1>4 DEF linkVars, managerVars, Collect, PublishFails, CutShort, Link!vars
<1>5. CASE UNCHANGED <<vars, linkVars>>
  BY <1>5 DEF vars, managerVars, linkVars, Link!vars
<1>. QED
  BY <1>1, <1>2, <1>3, <1>4, <1>5 DEF LNext

(* The simulator's console and sensor loop, however they interleave and    *)
(* whatever fails, are a link that numbers, loses and overtakes, for a     *)
(* garage of any size and any number of commands and rounds.               *)
THEOREM SimulatorImplementsLink == LSpec => ImplementsSensorLink
<1>1. LInit => Link!Init
  <2> SUFFICES ASSUME LInit PROVE Link!Init
    OBVIOUS
  <2>1. /\ context = InitialContext /\ msg_sequences = [topic \in Topics |-> 0]
        /\ log = [topic \in Topics |-> <<>>] /\ arrived = [topic \in Topics |-> {}]
    BY DEF LInit, Init, ManagerInit
  <2>2. Link!InitialContext = InitialContext /\ Link!Topics = Topics
    BY SameManager
  <2>. QED
    BY <2>1, <2>2 DEF Link!Init, Link!ManagerInit
<1>2. SimulatorInv /\ [LNext]_<<vars, linkVars>> => [Link!Next]_(Link!vars)
  BY LinkStep
<1>. QED
  BY <1>1, <1>2, InitSimulator, NextSimulator, PTL DEF LSpec, ImplementsSensorLink, Link!Spec

(* SensorLink's theorems for this link; what they assume of it is true.    *)
Proved ==
  INSTANCE SensorLink_proofs
    WITH Inputs <- Messages, Delivery <- [topic \in Topics |-> "any"],
         MaxSent <- [topic \in Topics |-> MaxMessages],
         sent <- log, delivered <- arrived

LEMMA LinkAssumptions ==
  /\ Proved!ParkingSizeAssumption /\ Proved!ReadingAssumption /\ Proved!MalformedAssumption
  /\ Proved!NumberAssumption /\ Proved!InputsAssumption /\ Proved!DeliveryAssumption
<1>1. Proved!Topics = Topics
  BY DEF Proved!Topics, Topics, Proved!EventTopics, EventTopics
<1>2. Proved!InputsAssumption
  BY <1>1, MessageIsUsable
     DEF Proved!InputsAssumption, Proved!ParkingPayloads, ParkingPayloads
<1>3. Proved!DeliveryAssumption
  <2>1. MaxMessages \in Nat
    <3>1. MaxCommands + MaxRounds \in Nat
      BY SimulatorAssumption
    <3>. QED
      BY <3>1, OneMoreRound DEF MaxMessages
  <2>. QED
    BY <1>1, <2>1 DEF Proved!DeliveryAssumption
<1>4. /\ Proved!ParkingSizeAssumption /\ Proved!ReadingAssumption /\ Proved!MalformedAssumption
      /\ Proved!NumberAssumption
  BY ParkingSizeAssumption, ReadingAssumption, MalformedAssumption, NumberAssumption
     DEF Proved!ParkingSizeAssumption, Proved!ReadingAssumption, Proved!MalformedAssumption,
         Proved!NumberAssumption, Proved!ParkingPayloads, ParkingPayloads
<1>. QED
  BY <1>2, <1>3, <1>4

(* The link the theorems speak of is the one the simulator implements.     *)
LEMMA SameLink ==
  /\ Link!Init => Proved!Init
  /\ Link!Next => Proved!Next
  /\ Link!vars = Proved!vars
<1>1. Link!Topics = Proved!Topics
  BY DEF Link!Topics, Proved!Topics, Link!EventTopics, Proved!EventTopics
<1>2. Link!Init => Proved!Init
  BY <1>1 DEF Link!Init, Proved!Init, Link!ManagerInit, Proved!ManagerInit,
              Link!InitialContext, Proved!InitialContext, Link!Positions, Proved!Positions,
              Link!Actuators, Proved!Actuators, Link!Gates, Proved!Gates
<1>3. ASSUME NEW topic, NEW n, NEW payload,
             Link!EventHandler(Link!Event(topic, n, payload))
      PROVE  Proved!EventHandler(Proved!Event(topic, n, payload))
  <2>1. Link!ValidPayload(topic, payload) <=> Proved!ValidPayload(topic, payload)
    BY DEF Link!ValidPayload, Proved!ValidPayload, Link!EventTopics, Proved!EventTopics
  <2>2. Link!Update(context, topic, payload) = Proved!Update(context, topic, payload)
    BY DEF Link!Update, Proved!Update, Link!UpdateTemperature, Proved!UpdateTemperature,
           Link!UpdateLight, Proved!UpdateLight, Link!UpdateParking, Proved!UpdateParking,
           Link!UpdateVehicleEntry, Proved!UpdateVehicleEntry, Link!UpdateVehicleLeave,
           Proved!UpdateVehicleLeave
  <2>3. Link!Accepts(Link!Event(topic, n, payload))
          <=> Proved!Accepts(Proved!Event(topic, n, payload))
    BY <1>1, <2>1 DEF Link!Accepts, Proved!Accepts, Link!Event, Proved!Event
  <2>. QED
    BY <1>3, <2>2, <2>3 DEF Link!EventHandler, Proved!EventHandler, Link!AcceptEvent,
         Proved!AcceptEvent, Link!RejectEvent, Proved!RejectEvent, Link!managerVars,
         Proved!managerVars, Link!Event, Proved!Event
<1>4. \A topic, n : Link!Deliver(topic, n) => Proved!Deliver(topic, n)
  BY <1>3 DEF Link!Deliver, Proved!Deliver
<1>5. \A topic, n : Link!DeliverUnnumbered(topic, n) => Proved!DeliverUnnumbered(topic, n)
  BY <1>3 DEF Link!DeliverUnnumbered, Proved!DeliverUnnumbered
<1>6. \A i : Link!Send(i) => Proved!Send(i)
  BY DEF Link!Send, Proved!Send
<1>7. Link!Next => Proved!Next
  BY <1>1, <1>4, <1>5, <1>6 DEF Link!Next, Proved!Next
<1>. QED
  BY <1>2, <1>7 DEF Link!vars, Proved!vars

LEMMA SimulatorIsLink ==
  LSpec => [](Proved!TypeOK /\ Proved!ReadingMatchesCounter /\ Proved!CounterIsNewestUsable)
<1>1. LSpec => Proved!Spec
  <2>1. Link!Init => Proved!Init
    BY SameLink
  <2>2. [Link!Next]_(Link!vars) => [Proved!Next]_(Proved!vars)
    <3>1. UNCHANGED Link!vars => UNCHANGED Proved!vars
      BY DEF Link!vars, Proved!vars
    <3>. QED
      BY <3>1, SameLink
  <2>. QED
    BY <2>1, <2>2, SimulatorImplementsLink, PTL DEF ImplementsSensorLink, Link!Spec, Proved!Spec
<1>2. Proved!Spec => []Proved!TypeOK
  BY LinkAssumptions, Proved!LinkTypeCorrect
<1>3. Proved!Spec => []Proved!ReadingMatchesCounter
  BY LinkAssumptions, Proved!ReadingsAreCurrent
<1>4. Proved!Spec => []Proved!CounterIsNewestUsable
  BY LinkAssumptions, Proved!NewestIsKept
<1>. QED
  BY <1>1, <1>2, <1>3, <1>4, PTL

(* The backend shows the newest message that got through, whatever the two *)
(* threads do to each other: SensorLink's theorems carry over.             *)
THEOREM NewestPublishedIsShown == LSpec => []NewestIsShown
<1>1. Proved!TypeOK /\ Proved!ReadingMatchesCounter /\ Proved!CounterIsNewestUsable
        => NewestIsShown
  <2> SUFFICES ASSUME Proved!TypeOK, Proved!ReadingMatchesCounter, Proved!CounterIsNewestUsable,
                      NEW topic \in {"temperature", "light"}, NEW n \in arrived[topic],
                      \A k \in arrived[topic] : k <= n
               PROVE  Link!Reading(topic) = Link!ReadingIn(topic, log[topic][n])
    BY DEF NewestIsShown
  <2>1. topic \in Proved!Topics /\ topic \in Topics
    BY DEF Proved!Topics, Topics
  <2>2. /\ n \in 1 .. Len(log[topic]) /\ log[topic] \in Seq(Proved!Payloads(topic))
        /\ msg_sequences[topic] \in Nat
    BY <2>1 DEF Proved!TypeOK, Proved!ManagerTypeOK
  <2>3. ValidPayload(topic, log[topic][n])
    <3>1. log[topic][n] \in Proved!Payloads(topic)
      BY <2>2
    <3>. QED
      BY <3>1, MessageIsUsable DEF Proved!Payloads
  <2>4. Proved!ValidPayload(topic, log[topic][n])
    BY <2>3 DEF Proved!ValidPayload, ValidPayload, Proved!EventTopics, EventTopics
  <2>5. n <= msg_sequences[topic] /\ msg_sequences[topic] \in arrived[topic] \cup {0}
    BY <2>1, <2>4 DEF Proved!CounterIsNewestUsable
  <2>6. msg_sequences[topic] = n
    BY <2>2, <2>5
  <2>7. Proved!Reading(topic) = Proved!ReadingIn(topic, log[topic][n])
    BY <2>2, <2>6 DEF Proved!ReadingMatchesCounter
  <2>. QED
    BY <2>7 DEF Link!Reading, Link!ReadingIn, Proved!Reading, Proved!ReadingIn
<1>. QED
  BY <1>1, SimulatorIsLink, PTL

================================================================================
