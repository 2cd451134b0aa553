------------------------- MODULE WorkflowEngineProps ------------------------
(***************************************************************************)
(* What a run of the workflow engine promises.                             *)
(***************************************************************************)
EXTENDS WorkflowEngine

Live(n) == phase[n] \notin Over \cup {"none"}
StopFailed ==
  \E n \in Nodes : nodeStatus[n] = "failed" /\ Strategy[n] = "stop_workflow"

(* Every slot of the concurrency semaphore is free, on its way to a waiter *)
(* or held by a node that is executing or backing off: no path of          *)
(* _run_node (queueing, human node, crash, cancellation, retry) loses or   *)
(* duplicates one.                                                         *)
SlotsAccounted ==
  /\ SemaphoreOK(sem, Nodes, MaxConcurrency)
  /\ sem.held = {n \in Nodes \ HumanNodes : phase[n] \in Working}

(* At most max_concurrency nodes other than human interventions, which     *)
(* wait for hours, are between node_started and their last event.          *)
ConcurrencyBound ==
  Cardinality({n \in Nodes \ HumanNodes : phase[n] \in Working})
    <= MaxConcurrency

(* A node is launched only after every predecessor has its final status    *)
(* and while some incoming edge is active, and neither is ever taken back. *)
LaunchedAfterInputs ==
  \A n \in Nodes : phase[n] # "none" =>
    /\ \A p \in Preds(n) : nodeStatus[p] \in Settled
    /\ In(n) # {} => In(n) \cap activeEdges # {}

(* A node the client was told is skipped downstream of a failed branch     *)
(* never gets a task, whatever the other branches do afterwards.           *)
AnnouncedNeverRun == \A n \in announced : phase[n] = "none"

(* On an acyclic blueprint the orchestrator never gives up on nodes as     *)
(* deadlocked: only a launched node can fail.                              *)
NeverStuck == \A n \in Nodes : nodeStatus[n] = "failed" => phase[n] # "none"

(* No node task is alive once the run's verdict is out, unless the client  *)
(* closed the stream (which abandons the tasks).                           *)
QuietAfterVerdict ==
  orch = "done" /\ ~closed => \A n \in Nodes : ~Live(n)

\* The edge was taken when its source ended: the source ran, and neither the
\* branch it chose nor its error strategy cut the edge.
Taken(e) == /\ nodeStatus[Source[e]] \in {"completed", "failed"}
            /\ e \in activeEdges

(* Unless the run was stopped, cancelled, timed out or closed, exactly the *)
(* nodes with a taken edge (or no incoming edge at all) have run and all   *)
(* others were skipped.                                                    *)
LivePathsRun ==
  orch = "done" /\ ~StopFailed /\ ~cancelEvent /\ ~deadline /\ ~closed =>
    \A n \in Nodes :
      IF In(n) = {} \/ \E e \in In(n) : Taken(e)
      THEN nodeStatus[n] \in {"completed", "failed"}
      ELSE nodeStatus[n] = "skipped"

(* Whatever order skips, failures and branch decisions come in, the live   *)
(* paths and no others are followed, and in order.                         *)
PathsRespected == LaunchedAfterInputs /\ AnnouncedNeverRun /\ LivePathsRun

(* A run reported as completed that nobody cancelled has settled every     *)
(* node, had no failure its nodes did not tolerate, and if a failure was   *)
(* tolerated it still produced an End node's output.                       *)
CompletedIsSound ==
  verdict = "completed" /\ ~cancelEvent =>
    /\ \A n \in Nodes : nodeStatus[n] \in Settled
    /\ \A n \in Nodes : nodeStatus[n] = "failed" => n \in tolerated
    /\ (\E n \in Nodes : nodeStatus[n] = "failed")
         => \E n \in EndNodes : nodeStatus[n] = "completed"

(* A node's final status is final: no late task, skip or cancellation      *)
(* overwrites it.                                                          *)
SettledForever ==
  [][\A n \in Nodes :
       nodeStatus[n] \in Settled => nodeStatus'[n] = nodeStatus[n]]_vars

Dag == INSTANCE DagRun WITH
  Needs <- [n \in Nodes |-> Preds(n)],
  status <- nodeStatus, result <- verdict, cancel <- cancelEvent

(* The engine runs its blueprint as a DagRun: with the slots, retries and  *)
(* error strategies, the orchestrator's own book-keeping, and whatever is  *)
(* cancelled, timed out or closed and whenever.                            *)
ImplementsDagRun == Dag!Spec

(* Once a STOP_WORKFLOW node has failed, no further node is launched, not  *)
(* even in the pass that discovers the failure.                            *)
StopHaltsLaunching ==
  [][StopFailed => \A n \in Nodes : phase[n] = "none" => phase'[n] = "none"]_vars

(* Every run ends with all its tasks returned, whatever is cancelled,      *)
(* timed out or closed and whenever.                                       *)
RunEnds == <>[]AllReturned
=============================================================================
