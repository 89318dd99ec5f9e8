----------------------------- MODULE MCSensorLink -----------------------------
(* Small instances of SensorLink. *)
EXTENDS SensorLink

(* Readings on both sides of each threshold, and payloads that are rejected. *)
TemperatureInputs ==
  {[topic |-> "temperature", payload |-> [temperature |-> v]] : v \in Temperatures}
    \cup {[topic |-> "temperature", payload |-> Malformed]}

VehicleInputs ==
  {[topic |-> t, payload |-> [license_plate |-> v]] : t \in EventTopics, v \in Plates}

(* One position before the first and one past the last are out of range. *)
ParkingInputs ==
  {[topic |-> "parking", payload |-> [position |-> p, on_occupy |-> TRUE]] :
     p \in -1 .. ParkingSize}
    \cup {[topic |-> "parking", payload |-> [position |-> p, on_occupy |-> FALSE]] :
            p \in Positions}

MCInputs ==
  TemperatureInputs \cup VehicleInputs \cup ParkingInputs
    \cup {[topic |-> "light", payload |-> [lux |-> v]] : v \in LuxLevels}

MCDelivery == [topic \in Topics |-> IF topic = "parking" THEN "fifo" ELSE "any"]
MCMaxSent == [topic \in Topics |-> CASE topic = "parking" -> 3
                                      [] topic = "temperature" -> 2
                                      [] topic = "vehicle_exit" -> 0
                                      [] OTHER -> 1]

MCTemperatures == {29, 30}
MCLuxLevels == {100}

================================================================================
