---------------------------- MODULE MCPlanningCycle ----------------------------
(* Every context of a small garage. *)
EXTENDS PlanningCycle

MCTemperatures == {29, 30}
MCLuxLevels == {100, 101}

================================================================================
