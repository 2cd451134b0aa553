------------------------- MODULE MCWorkflowScheduler -------------------------
(***************************************************************************)
(* Small instances of WorkflowScheduler for TLC.                           *)
(***************************************************************************)
EXTENDS WorkflowSchedulerProps

TwoProcesses == {"p1", "p2"}
TwoWorkflows == {"f1", "f2"}
\* The first workflow fires twice, the second once.
ThreeFires == {<<"f1", 1>>, <<"f1", 2>>, <<"f2", 1>>}
StopAndDb == {"stop", "db"}
=============================================================================
