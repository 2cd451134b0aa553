-------------------------------- MODULE DagRun --------------------------------
(***************************************************************************)
(* What running a directed graph of nodes promises, however the nodes are  *)
(* scheduled, fail or are interrupted: a node is started once at most, and *)
(* only when everything it needs has its final status; a final status      *)
(* stays; the run gets one result, after which nothing is started; it is   *)
(* called completed only when every node is settled, unless somebody asked *)
(* to cancel it; and only a run that is broken off leaves nodes at work.   *)
(* Several nodes may move at once.                                         *)
(*                                                                         *)
(* Abstract specification of core/workflow/engine.py, which WorkflowEngine *)
(* models.                                                                 *)
(***************************************************************************)
CONSTANTS
  Nodes,
  Needs    \* the predecessors of each node

VARIABLES
  status,  \* of each node
  result,  \* of the run
  cancel   \* somebody asked to cancel the run

Final == {"completed", "failed", "skipped"}
Results == {"completed", "failed", "cancelled"}

Init ==
  /\ status = [n \in Nodes |-> "pending"]
  /\ result = "none"
  /\ cancel = FALSE

Start(n) ==
  /\ result = "none" /\ status[n] = "pending"
  /\ \A p \in Needs[n] : status[p] \in Final
  /\ status'[n] = "running"

Skip(n) == result = "none" /\ status[n] = "pending" /\ status'[n] = "skipped"

End(n) ==
  /\ result \in {"none", "cancelled"} /\ status[n] = "running"
  /\ status'[n] \in {"completed", "failed"}

Stay(n) == status'[n] = status[n]

Conclude ==
  /\ result = "none" /\ result' \in Results
  /\ result' = "completed" => cancel \/ \A n \in Nodes : status[n] \in Final

Next ==
  /\ \A n \in Nodes : Start(n) \/ Skip(n) \/ End(n) \/ Stay(n)
  /\ result' = result \/ (Conclude /\ \A n \in Nodes : Stay(n))
  /\ cancel => cancel'

Spec == Init /\ [][Next]_<<status, result, cancel>>
=============================================================================
