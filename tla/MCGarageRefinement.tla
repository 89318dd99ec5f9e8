--------------------------- MODULE MCGarageRefinement ---------------------------
(* The instances of MCSmartGarageService, for GarageRefinement. *)
EXTENDS MCSmartGarageService, GarageRefinement

MCEveryInput == MCAllInputs \cup NonObjects \cup TooLargeReadings

================================================================================
