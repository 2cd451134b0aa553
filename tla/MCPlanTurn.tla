------------------------------ MODULE MCPlanTurn ------------------------------
(***************************************************************************)
(* Small instances of PlanTurn for TLC.                                    *)
(***************************************************************************)
EXTENDS PlanTurnProps

AllFaults == {"drop", "disk", "crash"}
Both == {"steps", "citations"}
=============================================================================
