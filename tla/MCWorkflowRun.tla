---------------------------- MODULE MCWorkflowRun ----------------------------
(***************************************************************************)
(* A small instance of WorkflowRun for TLC: run ids start with the letter  *)
(* of the endpoint that starts them (i, t or b), and two of the four runs  *)
(* are asked for.                                                          *)
(***************************************************************************)
EXTENDS WorkflowRunProps, TLC

FourRuns == {"i1", "t1", "b1", "b2"}
InPairs == {{"i1", "t1"}, {"b1", "b2"}}
Endpoints == "i1" :> "interactive" @@ "t1" :> "trigger"
               @@ "b1" :> "batch" @@ "b2" :> "batch"
OneHome == [r \in FourRuns |-> "w1"]
TwoWorkers == {"w1", "w2"}

AllFaults == {"insert", "raise", "leave", "silence", "persist", "crash"}
SilenceOnly == {"silence"}
=============================================================================
