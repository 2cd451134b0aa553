--------------------------- MODULE WorkflowRunProps ---------------------------
(***************************************************************************)
(* What the life cycle of workflow runs promises.                          *)
(***************************************************************************)
EXTENDS WorkflowRun

\* The runs of process w between their acquire() and their record_run_end().
\* The items of a batch look at the limiter and are not counted by it.
Counted(w) ==
  {r \in Runs : /\ Home[r] = w /\ Mode[r] # "batch"
                /\ stage[r] \in {"acquired", "ready", "streaming", "closing"}}

(* However requests, disconnects and failures interleave, one process      *)
(* never has more interactive and triggered runs of a user under way than  *)
(* max_concurrent_runs.  Batch items come on top of them, up to            *)
(* max_parallel for each request.                                          *)
CountedRunsBounded ==
  \A w \in Workers : Cardinality(Counted(w)) <= MaxConcurrentRuns

(* A slot never outlives its run, except where the code loses it: an       *)
(* interactive run whose insert failed or whose stream never began.        *)
SlotsEndWithRuns ==
  \A w \in Workers : \A r \in slots[w] \ Counted(w) :
    Mode[r] = "interactive" /\ stage[r] \in {"refused", "lost"}

(* The cancel endpoint reaches by event exactly the interactive runs whose *)
(* stream may still have to look at it, except for a stream that never     *)
(* began, whose entry is left behind.                                      *)
HandlesMatchStreams ==
  \A r \in Runs : Mode[r] = "interactive" =>
    /\ stage[r] \in {"ready", "streaming", "closing"} => r \in handles[Home[r]]
    /\ r \in handles[Home[r]]
         => stage[r] \in {"ready", "streaming", "closing", "lost"}

(* What a run took from its process comes back on every path the handler   *)
(* has, and on none too early.                                             *)
GivenBack == SlotsEndWithRuns /\ HandlesMatchStreams

(* When a handler is through with a run and its last write succeeded, the  *)
(* row is terminal or deleted: no cancel or delete request in between      *)
(* leaves it looking active.                                               *)
FinishedRunSettled ==
  \A r \in Runs : stage[r] \in {"notifying", "over"} /\ r \notin unsaved =>
    row[r] \in Terminal \cup {"deleted"}

(* The webhook tells of a triggered run what its engine said, and agrees   *)
(* with the stored row unless a cancel request rewrote it or the last      *)
(* write failed.                                                           *)
HookTruthful ==
  \A r \in Runs : hook[r] # "none" =>
    /\ Mode[r] = "trigger" /\ hook[r] = "completed" => engine[r] = "completed"
    /\ row[r] \in {hook[r], "deleted"} \/ r \in marked \cup unsaved

(* Every run that got past the rate limiter is answered, unless its        *)
(* process died or its stream never began.                                 *)
RunsAnswered ==
  \A r \in Runs :
    stage[r] = "acquired" ~> stage[r] \in {"over", "refused", "lost"}

(* "Keepalive comment to prevent proxy/browser timeout": a pause between   *)
(* events does not end the run, so a row says completed only when the      *)
(* engine does.                                                            *)
CompletedByEngine ==
  \A r \in Runs : row[r] = "completed" => engine[r] = "completed"

=============================================================================
