------------------------------- MODULE RPSimulator ------------------------------
(***************************************************************************)
(* RP_Simulator.py: the console and the sensor loop both publish all       *)
(* readings, from a snapshot taken under _state_lock, with sequence        *)
(* numbers taken outside it.  The link keeps their messages in order       *)
(* (SimulationTransport) and nothing here depends on when they arrive, so  *)
(* the backend's manager handles each as soon as it is published.          *)
(***************************************************************************)
EXTENDS ContextManager, Sequences

CONSTANTS
  Console,          \* run_console, in the main thread
  Sensors,          \* the thread "rp-simulator-sensors"
  MaxCommands,      \* bound: commands typed
  MaxRounds         \* bound: rounds of the sensor loop

ASSUME SimulatorAssumption ==
  /\ Console # Sensors /\ None # "done"
  /\ {Console, Sensors} \cap {None, "done"} = {}
  /\ Temperatures # {} /\ LuxLevels # {}
  /\ MaxCommands \in Nat /\ MaxRounds \in Nat

VARIABLES
  readings,         \* temperature, lux and parking
  sequences,        \* RaspberryPiSimulator.sequences
  pc,               \* "idle", "collect", "publish", "send", or "stopped"
  round,            \* what each thread has still to publish of its snapshot
  number,           \* the number it has taken for the first of these
  commands,         \* commands typed so far
  rounds,           \* rounds the sensor loop has begun
  alone             \* the thread whose round has not met the other's so far;
                    \* "done" after such a round, until the next one begins

Publishers == {Console, Sensors}

simulatorVars == <<readings, sequences, pc, round, number, commands, rounds, alone>>
vars == <<managerVars, simulatorVars>>

Readings == [temperature : Temperatures, lux : LuxLevels, parking : [Positions -> BOOLEAN]]

Init ==
  /\ ManagerInit
  /\ readings \in {r \in Readings : r.parking = [p \in Positions |-> FALSE]}
  /\ sequences = [topic \in {"temperature", "light", "parking"} |-> 0]
  /\ pc = [t \in Publishers |-> "idle"]
  /\ round = [t \in Publishers |-> <<>>]
  /\ number = [t \in Publishers |-> 0]
  /\ commands = 0 /\ rounds = 0
  /\ alone = None

--------------------------------------------------------------------------------
(* A command changes readings (only parking under the lock) and then       *)
(* publishes everything.                                                   *)
Command ==
  /\ pc[Console] = "idle" /\ commands < MaxCommands
  /\ commands' = commands + 1
  /\ \/ \E x \in Temperatures : readings' = [readings EXCEPT !.temperature = x]
     \/ \E x \in LuxLevels : readings' = [readings EXCEPT !.lux = x]
     \/ \E p \in Positions : readings' = [readings EXCEPT !.parking[p] = ~@]
  /\ pc' = [pc EXCEPT ![Console] = "collect"]
  /\ alone' = None
  /\ UNCHANGED <<managerVars, sequences, round, number, rounds>>

(* "hot-dark" and "normal" set two readings, one after the other. *)
SetBoth ==
  /\ pc[Console] = "idle" /\ commands < MaxCommands
  /\ commands' = commands + 1
  /\ \E x \in Temperatures : readings' = [readings EXCEPT !.temperature = x]
  /\ pc' = [pc EXCEPT ![Console] = "set_lux"]
  /\ alone' = None
  /\ UNCHANGED <<managerVars, sequences, round, number, rounds>>

SetLux ==
  /\ pc[Console] = "set_lux"
  /\ \E x \in LuxLevels : readings' = [readings EXCEPT !.lux = x]
  /\ pc' = [pc EXCEPT ![Console] = "collect"]
  /\ UNCHANGED <<managerVars, sequences, round, number, commands, rounds, alone>>

(* The interval is over: whatever else happens meanwhile. *)
Tick ==
  /\ pc[Sensors] = "idle" /\ pc[Console] # "stopped" /\ rounds < MaxRounds
  /\ rounds' = rounds + 1
  /\ pc' = [pc EXCEPT ![Sensors] = "collect"]
  /\ UNCHANGED <<managerVars, readings, sequences, round, number, commands, alone>>

Snapshot ==
  <<[topic |-> "temperature", payload |-> [temperature |-> readings.temperature]],
    [topic |-> "light", payload |-> [lux |-> readings.lux]]>>
  \o [i \in 1 .. ParkingSize |->
        [topic |-> "parking",
         payload |-> [position |-> i - 1, on_occupy |-> readings.parking[i - 1]]]]

Other(t) == IF t = Console THEN Sensors ELSE Console

Collect(t) ==
  /\ pc[t] = "collect"
  /\ round' = [round EXCEPT ![t] = Snapshot]
  /\ pc' = [pc EXCEPT ![t] = "publish"]
  /\ alone' = IF pc[Other(t)] = "idle" THEN t ELSE None
  /\ UNCHANGED <<managerVars, readings, sequences, number, commands, rounds>>

(* Mutant: one number for all messages of a round on one topic. *)
TakeNumberPerRound(t) ==
  LET topic == Head(round[t]).topic
      next  == IF topic = "parking" /\ Len(round[t]) < ParkingSize
               THEN sequences[topic] ELSE sequences[topic] + 1
  IN
  /\ pc[t] = "publish"
  /\ sequences' = [sequences EXCEPT ![topic] = next]
  /\ number' = [number EXCEPT ![t] = next]
  /\ pc' = [pc EXCEPT ![t] = "send"]
  /\ UNCHANGED <<managerVars, readings, round, commands, rounds, alone>>

(* Counting up and reading the counter back are one step: CPython switches *)
(* threads at calls and at loops, and there is neither in between.         *)
TakeNumber(t) ==
  LET topic == Head(round[t]).topic
      next  == sequences[topic] + 1
  IN
  /\ pc[t] = "publish"
  /\ sequences' = [sequences EXCEPT ![topic] = next]
  /\ number' = [number EXCEPT ![t] = next]
  /\ pc' = [pc EXCEPT ![t] = "send"]
  /\ UNCHANGED <<managerVars, readings, round, commands, rounds, alone>>

Finished(t) == Tail(round[t]) = <<>>

Publish(t) ==
  LET m == Head(round[t]) IN
  /\ pc[t] = "send" /\ pc[Console] # "stopped"
  /\ EventHandler(Event(m.topic, number[t], m.payload))
  /\ round' = [round EXCEPT ![t] = Tail(@)]
  /\ number' = [number EXCEPT ![t] = 0]
  /\ pc' = [pc EXCEPT ![t] = IF Finished(t) THEN "idle" ELSE "publish"]
  /\ alone' = IF Finished(t) /\ alone = t THEN "done" ELSE alone
  /\ UNCHANGED <<readings, sequences, commands, rounds>>

(* RuntimeError ends a round of the sensor loop, and the console, which    *)
(* stops the simulator on its way out.                                     *)
CutShort(t) ==
  /\ pc[t] = "send"
  /\ round' = [round EXCEPT ![t] = <<>>]
  /\ number' = [number EXCEPT ![t] = 0]
  /\ pc' = [pc EXCEPT ![t] = IF t = Console THEN "stopped" ELSE "idle"]
  /\ alone' = None
  /\ UNCHANGED <<readings, sequences, commands, rounds>>

PublishFails(t) == CutShort(t) /\ UNCHANGED managerVars

(* The broker got the message, but its answer did not come in time.        *)
PublishTimesOut(t) ==
  LET m == Head(round[t]) IN
  /\ pc[Console] # "stopped"
  /\ CutShort(t)
  /\ EventHandler(Event(m.topic, number[t], m.payload))

Next ==
  \/ Command \/ SetBoth \/ SetLux \/ Tick
  \/ \E t \in Publishers :
       \/ Collect(t) \/ TakeNumber(t) \/ Publish(t)
       \/ PublishFails(t) \/ PublishTimesOut(t)

Spec == Init /\ [][Next]_vars

--------------------------------------------------------------------------------
(* As long as the two threads do not publish at the same time, the backend *)
(* shows what the simulator measures: numbers never run ahead of a later   *)
(* round, whatever rounds were cut short or mixed up before it.            *)
QuietRoundIsShown ==
  alone = "done" =>
    /\ context.temperature = readings.temperature
    /\ context.lux = readings.lux
    /\ context.positions_occupied = readings.parking

================================================================================
