---------------------------- MODULE MCGarageControl ----------------------------
(* Small instances of GarageControl. *)
EXTENDS GarageControl

(* Readings on both sides of each threshold. *)
MCTemperatures == {29, 30}
MCLuxLevels == {100, 101}

MCInputs ==
  {[topic |-> "temperature", payload |-> [temperature |-> v]] : v \in Temperatures}
    \cup {[topic |-> "light", payload |-> [lux |-> v]] : v \in LuxLevels}
    \cup {[topic |-> "parking", payload |-> [position |-> p, on_occupy |-> o]] :
            p \in Positions, o \in BOOLEAN}
    \cup {[topic |-> t, payload |-> [license_plate |-> v]] : t \in EventTopics, v \in Plates}

================================================================================
