------------------------------ MODULE MCQuietCycles ------------------------------
(* The instances of MCSmartGarageService, for QuietCycles. *)
EXTENDS MCSmartGarageService, QuietCycles

================================================================================
