----------------------------- MODULE MCRPSimulator -----------------------------
(* A small garage: one temperature changes, and two positions. *)
EXTENDS SimulatorLink

MCTemperatures == {29, 30}
MCLuxLevels == {100}

================================================================================
