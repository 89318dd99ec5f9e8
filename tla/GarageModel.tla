------------------------------ MODULE GarageModel ------------------------------
(***************************************************************************)
(* The vocabulary every other module shares: the topics, the garage        *)
(* context, and what one valid message does to it.                         *)
(*                                                                         *)
(* A reading is an integer in the unit of the source (tenths or whole      *)
(* degrees do not matter: only the comparison with the threshold does), a  *)
(* license plate is a model value.  The two enter_time and sequence_number *)
(* formats are abstracted: a payload with a missing or ill-typed field is  *)
(* the value Malformed.                                                    *)
(***************************************************************************)
EXTENDS Integers

CONSTANTS
  ParkingSize,      \* settings.parking_size
  HighThreshold,    \* settings.temperature_high_threshold
  DarkThreshold,    \* settings.lux_dark_threshold
  Temperatures,     \* the temperatures a sensor reports
  LuxLevels,        \* the light readings a sensor reports
  Plates,           \* the license plates that appear
  None,             \* Python's None
  Malformed,        \* a payload that misses a field or gives it a wrong type
  TooLarge          \* one whose reading is an integer that no float can hold

ASSUME ParkingSizeAssumption == ParkingSize \in Nat

ASSUME ReadingAssumption ==
  /\ Temperatures \subseteq Int /\ LuxLevels \subseteq Int
  /\ HighThreshold \in Int /\ DarkThreshold \in Int

Positions   == 0 .. ParkingSize - 1
Gates       == {"entrance_gate", "exit_gate"}
Actuators   == {"fan", "light"} \cup Gates
EventTopics == {"vehicle_entry", "vehicle_exit"}
Topics      == {"temperature", "light", "parking"} \cup EventTopics

(* The two gate commands answer the two waiting flags. *)
Contexts ==
  [temperature        : Temperatures \cup {None},
   lux                : LuxLevels \cup {None},
   positions_occupied : [Positions -> BOOLEAN],
   current_vehicles   : SUBSET Plates,
   on                 : [Actuators -> BOOLEAN],
   waiting            : [Gates -> BOOLEAN]]

(* The payloads of the parking topic that have both fields, of their types. *)
ParkingPayloads == [position : Int, on_occupy : BOOLEAN]

(* Such payloads are none that a handler takes. *)
ASSUME MalformedAssumption ==
  {Malformed, TooLarge}
    \cap ([temperature : Temperatures] \cup [lux : LuxLevels] \cup ParkingPayloads) = {}

InitialContext ==
  [temperature        |-> None,
   lux                |-> None,
   positions_occupied |-> [p \in Positions |-> FALSE],
   current_vehicles   |-> {},
   on                 |-> [a \in Actuators |-> FALSE],
   waiting            |-> [g \in Gates |-> FALSE]]

--------------------------------------------------------------------------------
(* The handlers of ContextManager: which payloads each accepts. *)

ValidPayload(topic, payload) ==
  /\ payload \notin {Malformed, TooLarge}
  /\ \/ topic = "temperature" /\ payload.temperature \in Temperatures
     \/ topic = "light"       /\ payload.lux \in LuxLevels
     \/ topic = "parking"     /\ 0 <= payload.position
                              /\ payload.position < ParkingSize
     \/ topic \in EventTopics /\ payload.license_plate \in Plates

(* What each does with one it accepts.  A leaving plate that was never     *)
(* registered only raises a warning: the exit flag is set all the same.    *)

UpdateTemperature(c, payload) == [c EXCEPT !.temperature = payload.temperature]

UpdateLight(c, payload) == [c EXCEPT !.lux = payload.lux]

UpdateParking(c, payload) ==
  [c EXCEPT !.positions_occupied[payload.position] = payload.on_occupy]

(* Mutant: the flag is overwritten with the plate. *)
UpdateVehicleEntryStoringPlate(c, payload) ==
  [c EXCEPT !.current_vehicles = @ \cup {payload.license_plate},
            !.waiting["entrance_gate"] = payload.license_plate]

UpdateVehicleEntry(c, payload) ==
  [c EXCEPT !.current_vehicles = @ \cup {payload.license_plate},
            !.waiting["entrance_gate"] = TRUE]

UpdateVehicleLeave(c, payload) ==
  [c EXCEPT !.current_vehicles = @ \ {payload.license_plate},
            !.waiting["exit_gate"] = TRUE]

Update(c, topic, payload) ==
  CASE topic = "temperature"   -> UpdateTemperature(c, payload)
    [] topic = "light"         -> UpdateLight(c, payload)
    [] topic = "parking"       -> UpdateParking(c, payload)
    [] topic = "vehicle_entry" -> UpdateVehicleEntry(c, payload)
    [] topic = "vehicle_exit"  -> UpdateVehicleLeave(c, payload)

--------------------------------------------------------------------------------
(* What the planner and the camera read off a context. *)

TemperatureIsHigh(c) == c.temperature # None /\ c.temperature >= HighThreshold

LuxIsDark(c) == c.lux # None /\ c.lux <= DarkThreshold

GarageIsFull(c) == \A p \in Positions : c.positions_occupied[p]

================================================================================
