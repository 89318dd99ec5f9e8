-------------------------- MODULE MCSmartGarageService --------------------------
(* Small instances of SmartGarageService. *)
EXTENDS SmartGarageService, TLC

(* Readings on both sides of the threshold. *)
MCTemperatures == {29, 30}
MCLuxLevels == {100}

Readings == {[topic |-> "temperature", payload |-> [temperature |-> v]] : v \in Temperatures}
Parkings ==
  {[topic |-> "parking", payload |-> [position |-> p, on_occupy |-> o]] :
     p \in Positions, o \in BOOLEAN}
Vehicles == {[topic |-> t, payload |-> [license_plate |-> v]] : t \in EventTopics, v \in Plates}
TooLargeReadings == {[topic |-> "temperature", payload |-> TooLarge]}
NonObjects == {[topic |-> "temperature", payload |-> NonObject]}

MCAllInputs == Readings \cup Parkings \cup Vehicles
MCOccupied == {i \in Parkings : i.payload.on_occupy}

(* Beside usable messages of one topic, others that the manager refuses. *)
MCOccupiedAndMalformed == MCOccupied \cup {[topic |-> "light", payload |-> Malformed]}

HttpSymmetry == Permutations(HttpThreads)

================================================================================
