--------------------------- MODULE WorkflowEngine ---------------------------
(***************************************************************************)
(* One call of WorkflowEngine.execute_streaming                            *)
(* (src/src/fim_one/core/workflow/engine.py): the orchestrator task, one   *)
(* asyncio task per launched node, and the consumer of the event stream.   *)
(*                                                                         *)
(* The event loop runs one coroutine at a time, so an action is the code   *)
(* between two suspension points.  The orchestrator's loop body has no     *)
(* suspension point before asyncio.wait; it is still cut into one action   *)
(* per branch, and while it is inside the body (orch = "top" or "verdict") *)
(* Yielded keeps every other coroutine from running.                       *)
(*                                                                         *)
(* A node's executor is abstracted to its outcome: completed with a set of *)
(* active handles, or failed.  Time is abstracted to deadline, which flips *)
(* once when the workflow's timeout has elapsed.                           *)
(***************************************************************************)
EXTENDS AsyncSemaphore

CONSTANTS
  Nodes,           \* node ids of the parsed blueprint
  Edges,           \* edge ids
  Source, Target,  \* [Edges -> Nodes]
  Handle,          \* source_handle of each edge
  TopoOrder,       \* topological_sort(blueprint): a sequence of all nodes
  EndNodes,        \* nodes of type END
  HumanNodes,      \* nodes of type HUMAN_INTERVENTION
  Strategy,        \* error_strategy of each node
  Retries,         \* retry_count of each node
  Misconfigured,   \* nodes whose retry settings do not parse as integers
  Fallible,        \* nodes whose executor may fail
  Choices,         \* the active_handles each node's executor may answer with
  MaxConcurrency,  \* max_concurrency of the engine
  Disruptions      \* what may happen to the run from outside

Strategies == {"stop_workflow", "continue", "fail_branch"}

In(n)  == {e \in Edges : Target[e] = n}
Out(n) == {e \in Edges : Source[e] = n}
Preds(n) == {Source[e] : e \in In(n)}

\* What parse_blueprint returns.  "None", the active_handles of a node that
\* does not branch, is the set of all handles.
ParsedBlueprint ==
  /\ IsFiniteSet(Nodes)
  /\ Source \in [Edges -> Nodes] /\ Target \in [Edges -> Nodes]
  /\ EndNodes \subseteq Nodes /\ HumanNodes \subseteq Nodes
  /\ Misconfigured \subseteq Nodes /\ Fallible \subseteq Nodes
  /\ Strategy \in [Nodes -> Strategies]
  /\ Retries \in [Nodes -> Nat]

\* What topological_sort returns, parse_blueprint having refused every cycle:
\* each node, after its predecessors.
TopologicallySorted ==
  /\ TopoOrder \in Seq(Nodes)
  /\ \A n \in Nodes : \E i \in 1 .. Len(TopoOrder) : TopoOrder[i] = n
  /\ \A i, j \in 1 .. Len(TopoOrder) :
       TopoOrder[j] \in Preds(TopoOrder[i]) => j < i

ASSUME BlueprintAssumption == ParsedBlueprint
ASSUME TopologyAssumption == TopologicallySorted
ASSUME ConcurrencyAssumption == MaxConcurrency \in Nat \ {0}
ASSUME DisruptionAssumption == Disruptions \subseteq {"cancel", "deadline", "close"}

VARIABLES
  orch,         \* where the orchestrator is
  nodeStatus,   \* node_status
  activeEdges,  \* active_edges
  completed,    \* completed: settled nodes, as far as the orchestrator knows
  pending,      \* pending: nodes not yet launched or skipped
  running,      \* running_tasks: launched and not yet collected
  tolerated,    \* tolerated_failures
  announced,    \* union of the skipped_downstream lists sent to the client
  phase,        \* where each node's task is
  attempt,      \* retries each node has used
  cancelled,    \* tasks whose cancel() has not been delivered yet
  sem,          \* semaphore
  cancelEvent,  \* the cancel_event is set
  deadline,     \* the workflow timeout has elapsed
  closed,       \* the consumer closed the generator
  verdict       \* the run-level event that was emitted

orchVars == <<orch, completed, pending, running, verdict>>
taskVars == <<phase, attempt, cancelled, sem>>
graphVars == <<nodeStatus, activeEdges, tolerated, announced>>
envVars == <<cancelEvent, deadline, closed>>
vars == <<orchVars, taskVars, graphVars, envVars>>

Settled == {"completed", "failed", "skipped"}
OrchStates ==
  {"new", "top", "wait", "gather_timeout", "gather_cancel", "verdict", "done"}
Phases ==
  {"none", "created", "waiting", "executing", "backoff", "finished", "crashed"}
Over == {"finished", "crashed"}        \* task.done()
Working == {"executing", "backoff"}    \* inside _run_node_inner

Gathering == orch \in {"gather_timeout", "gather_cancel"}
Yielded == \/ orch \in {"new", "wait", "done"}
           \/ Gathering /\ running # {}

TypeOK ==
  /\ orch \in OrchStates
  /\ nodeStatus \in [Nodes -> Settled \cup {"pending", "running"}]
  /\ activeEdges \subseteq Edges
  /\ completed \subseteq Nodes /\ pending \subseteq Nodes
  /\ running \subseteq Nodes /\ tolerated \subseteq Nodes
  /\ announced \subseteq Nodes /\ cancelled \subseteq Nodes
  /\ phase \in [Nodes -> Phases]
  /\ attempt \in [Nodes -> Nat]
  /\ SemaphoreType(sem, Nodes)
  /\ cancelEvent \in BOOLEAN /\ deadline \in BOOLEAN /\ closed \in BOOLEAN
  /\ verdict \in {"none", "completed", "failed", "cancelled"}

Init ==
  /\ orch = "new"
  /\ nodeStatus = [n \in Nodes |-> "pending"]
  /\ activeEdges = Edges
  /\ completed = {} /\ pending = Nodes /\ running = {}
  /\ tolerated = {} /\ announced = {}
  /\ phase = [n \in Nodes |-> "none"]
  /\ attempt = [n \in Nodes |-> 0]
  /\ cancelled = {}
  /\ sem = NewSemaphore(MaxConcurrency)
  /\ cancelEvent = FALSE /\ deadline = FALSE /\ closed = FALSE
  /\ verdict = "none"
-----------------------------------------------------------------------------
(* The graph helpers of execute_streaming.                                 *)

\* Mutants of CanExecute: one finished predecessor is enough; every incoming
\* edge must be active.
CanExecuteEarly(n) ==
  /\ Preds(n) # {} => Preds(n) \cap completed # {}
  /\ In(n) # {} => In(n) \cap activeEdges # {}

CanExecuteAllEdges(n) == Preds(n) \subseteq completed /\ In(n) \subseteq activeEdges

CanExecute(n) ==
  /\ Preds(n) \subseteq completed
  /\ In(n) # {} => In(n) \cap activeEdges # {}

ShouldSkip(n) == In(n) # {} /\ In(n) \cap activeEdges = {}

\* Mutant of StopFailure: a failure its strategy tolerates hides the others.
StopFailureHidden(status) ==
  /\ \E n \in Nodes : status[n] = "failed" /\ Strategy[n] = "stop_workflow"
  /\ tolerated = {}

StopFailure(status) ==
  \E n \in Nodes : status[n] = "failed" /\ Strategy[n] = "stop_workflow"

\* _branch_cut_off_by: the nodes that lose their last live path with n.
CutOffBy(n) ==
  LET LosesAll(m, dead) ==
        /\ nodeStatus[m] = "pending" /\ In(m) # {}
        /\ \A e \in In(m) : e \notin activeEdges \/ Source[e] \in dead
      dead[i \in 0 .. Len(TopoOrder)] ==
        IF i = 0 THEN {n}
        ELSE LET m == TopoOrder[i]
             IN  IF LosesAll(m, dead[i-1]) THEN dead[i-1] \cup {m}
                                           ELSE dead[i-1]
  IN  {m \in Nodes \ {n} : m \in dead[Len(TopoOrder)]}

\* Mutant of Mark: tasks not yet collected are overwritten as well.
MarkUncollected(S, status) ==
  [n \in Nodes |-> IF n \in S \cup running THEN status ELSE nodeStatus[n]]

Mark(S, status) ==
  [n \in Nodes |-> IF n \in S THEN status ELSE nodeStatus[n]]
-----------------------------------------------------------------------------
(* The orchestrator.                                                       *)

OrchStart ==
  /\ orch = "new" /\ ~closed
  /\ orch' = "top"
  /\ UNCHANGED <<completed, pending, running, verdict,
                 taskVars, graphVars, envVars>>

\* Timeout and cancellation drop what is pending and cancel what runs.
Abandon(gather) ==
  /\ nodeStatus' = Mark(pending, "skipped")
  /\ pending' = {}
  /\ cancelled' = {n \in running : phase[n] \notin Over}
  /\ sem' = DropWaiters(sem)
  /\ orch' = gather
  /\ UNCHANGED <<completed, running, verdict, phase, attempt,
                 activeEdges, tolerated, announced, envVars>>

InLoop == orch = "top" /\ pending \cup running # {}

OrchTimeout == InLoop /\ deadline /\ Abandon("gather_timeout")

OrchCancel == InLoop /\ ~deadline /\ cancelEvent /\ Abandon("gather_cancel")

\* A STOP_WORKFLOW failure skips everything that was not launched.
OrchStop ==
  /\ nodeStatus' = Mark(pending, "skipped")
  /\ completed' = completed \cup pending
  /\ pending' = {}
  /\ UNCHANGED <<orch, running, verdict, taskVars,
                 activeEdges, tolerated, announced, envVars>>

\* Skip dead nodes, launch ready ones, then wait, go round again or give up.
OrchPass ==
  /\ LET skip  == {n \in pending : ShouldSkip(n)}
         ready == {n \in pending \ skip : CanExecute(n)}
         left  == pending \ (skip \cup ready)
         idle  == running \cup ready = {}
         stuck == IF idle /\ skip = {} THEN left ELSE {}
     IN  /\ nodeStatus' = [n \in Nodes |->
                             CASE n \in skip  -> "skipped"
                               [] n \in ready -> "running"
                               [] n \in stuck -> "failed"
                               [] OTHER       -> nodeStatus[n]]
         /\ activeEdges' = activeEdges \ {e \in Edges : Source[e] \in skip}
         /\ completed' = completed \cup skip
         /\ pending' = left \ stuck
         /\ running' = running \cup ready
         /\ phase' = [n \in Nodes |->
                        IF n \in ready THEN "created" ELSE phase[n]]
         /\ orch' = IF ~idle THEN "wait"
                    ELSE IF skip # {} /\ left # {} THEN "top" ELSE "verdict"
  /\ UNCHANGED <<verdict, attempt, cancelled, sem,
                 tolerated, announced, envVars>>

\* One round of the loop.  OrchReap deals with a STOP_WORKFLOW failure first,
\* so the check here is a safeguard.
OrchRound ==
  /\ InLoop /\ ~deadline /\ ~cancelEvent
  /\ IF StopFailure(nodeStatus) /\ pending # {} THEN OrchStop ELSE OrchPass

OrchLeave ==
  /\ orch = "top" /\ pending \cup running = {}
  /\ orch' = "verdict"
  /\ UNCHANGED <<completed, pending, running, verdict,
                 taskVars, graphVars, envVars>>

\* asyncio.wait returns: collect the finished tasks.
OrchReap ==
  LET done == {n \in running : phase[n] \in Over}
      status == Mark({n \in done : phase[n] = "crashed"}, "failed")
      stop == done # {} /\ StopFailure(status)
  IN  /\ orch = "wait" /\ ~closed
      /\ done # {} \/ deadline
      /\ running' = running \ done
      /\ nodeStatus' = [n \in Nodes |->
                          IF stop /\ n \in pending THEN "skipped" ELSE status[n]]
      /\ completed' = completed \cup done \cup (IF stop THEN pending ELSE {})
      /\ pending' = IF stop THEN {} ELSE pending
      /\ orch' = "top"
      /\ UNCHANGED <<verdict, taskVars, activeEdges, tolerated, announced,
                     envVars>>

\* Mutant of OrchGathered: the cancelled tasks are not awaited.
OrchGatheredAtOnce ==
  /\ Gathering
  /\ running' = {}
  /\ IF orch = "gather_timeout" THEN orch' = "done" /\ verdict' = "failed"
     ELSE orch' = "verdict" /\ UNCHANGED verdict
  /\ UNCHANGED <<completed, pending, taskVars, graphVars, envVars>>

\* asyncio.gather returns: every cancelled task has unwound.
OrchGathered ==
  /\ Gathering
  /\ \A n \in running : phase[n] \in Over
  /\ running' = {}
  /\ IF closed THEN orch' = "done" /\ verdict' = "cancelled"
     ELSE IF orch = "gather_timeout" THEN orch' = "done" /\ verdict' = "failed"
     ELSE orch' = "verdict" /\ UNCHANGED verdict
  /\ UNCHANGED <<completed, pending, taskVars, graphVars, envVars>>

\* Mutant of OrchVerdict: tolerated failures never fail the run.
OrchVerdictTolerant ==
  /\ orch = "verdict"
  /\ verdict' = IF {n \in Nodes : nodeStatus[n] = "failed"} \ tolerated # {}
                THEN "failed" ELSE "completed"
  /\ orch' = "done"
  /\ UNCHANGED <<completed, pending, running, taskVars, graphVars, envVars>>

OrchVerdict ==
  LET failed  == {n \in Nodes : nodeStatus[n] = "failed"}
      reached == \E n \in EndNodes : nodeStatus[n] = "completed"
  IN  /\ orch = "verdict"
      /\ verdict' = IF \/ failed \ tolerated # {}
                       \/ failed \cap tolerated # {} /\ ~reached
                    THEN "failed" ELSE "completed"
      /\ orch' = "done"
      /\ UNCHANGED <<completed, pending, running, taskVars, graphVars, envVars>>

\* The generator's finally cancels the orchestrator while it waits: it stops
\* without cancelling its node tasks, which run on as orphans.
OrchAborted ==
  /\ orch = "wait" /\ closed
  /\ orch' = "done" /\ verdict' = "cancelled"
  /\ UNCHANGED <<completed, pending, running, taskVars, graphVars, envVars>>
-----------------------------------------------------------------------------
(* The node tasks (_run_node and _run_node_inner).                         *)

\* The task owns a slot in s.  A human node gives it back before executing;
\* a node whose retry settings do not parse raises outside the try block.
Begin(n, s) ==
  /\ sem' = IF n \in HumanNodes \cup Misconfigured THEN ReleaseSlot(s, n)
                                                   ELSE s
  /\ phase' = [phase EXCEPT ![n] = IF n \in Misconfigured THEN "crashed"
                                                          ELSE "executing"]

NodeEnter(n) ==
  /\ Yielded /\ phase[n] = "created" /\ n \notin cancelled
  /\ IF Locked(sem)
     THEN sem' = JoinQueue(sem, n) /\ phase' = [phase EXCEPT ![n] = "waiting"]
     ELSE Begin(n, TakeSlot(sem, n))
  /\ UNCHANGED <<orchVars, attempt, cancelled, graphVars, envVars>>

NodeResume(n) ==
  /\ Yielded /\ phase[n] = "waiting" /\ n \in sem.granted /\ n \notin cancelled
  /\ Begin(n, ResumeWaiter(sem, n))
  /\ UNCHANGED <<orchVars, attempt, cancelled, graphVars, envVars>>

\* The task returns: the finally of _run_node gives the slot back.
Finish(n) ==
  /\ phase' = [phase EXCEPT ![n] = "finished"]
  /\ sem' = IF n \in sem.held THEN ReleaseSlot(sem, n) ELSE sem
  /\ cancelled' = cancelled \ {n}

\* A cancellation that finds the executor already done is swallowed by
\* asyncio.wait_for, so a cancelled task may still succeed, fail or retry.
NodeSucceed(n) ==
  /\ Yielded /\ phase[n] = "executing"
  /\ nodeStatus' = [nodeStatus EXCEPT ![n] = "completed"]
  /\ \E handles \in Choices[n] :
       activeEdges' = activeEdges \ {e \in Out(n) : Handle[e] \notin handles}
  /\ Finish(n)
  /\ UNCHANGED <<orchVars, attempt, tolerated, announced, envVars>>

\* _handle_node_failure.
HandleFailure(n) ==
  /\ nodeStatus' = [nodeStatus EXCEPT ![n] = "failed"]
  /\ tolerated' = IF Strategy[n] = "stop_workflow" THEN tolerated
                                                   ELSE tolerated \cup {n}
  /\ IF Strategy[n] = "fail_branch"
     THEN /\ activeEdges' = activeEdges \ Out(n)
          /\ announced' = announced \cup CutOffBy(n)
     ELSE UNCHANGED <<activeEdges, announced>>
  /\ Finish(n)
  /\ UNCHANGED <<orchVars, attempt, envVars>>

\* The executor raised, or failed with no retry left (or none allowed).
NodeFail(n) ==
  /\ Yielded /\ phase[n] = "executing" /\ n \in Fallible
  /\ HandleFailure(n)

\* Mutant of NodeRetry: the attempt is not counted.
NodeRetryForever(n) ==
  /\ Yielded /\ phase[n] = "executing" /\ n \in Fallible
  /\ attempt[n] < Retries[n] /\ ~cancelEvent
  /\ phase' = [phase EXCEPT ![n] = "backoff"]
  /\ cancelled' = cancelled \ {n}
  /\ UNCHANGED <<orchVars, attempt, sem, graphVars, envVars>>

\* The executor failed and the retry loop goes to sleep.
NodeRetry(n) ==
  /\ Yielded /\ phase[n] = "executing" /\ n \in Fallible
  /\ attempt[n] < Retries[n] /\ ~cancelEvent
  /\ attempt' = [attempt EXCEPT ![n] = @ + 1]
  /\ phase' = [phase EXCEPT ![n] = "backoff"]
  /\ cancelled' = cancelled \ {n}
  /\ UNCHANGED <<orchVars, sem, graphVars, envVars>>

\* The backoff sleep ends; a cancellation meanwhile ends the retry loop.
NodeWake(n) ==
  /\ Yielded /\ phase[n] = "backoff" /\ n \notin cancelled
  /\ IF cancelEvent THEN HandleFailure(n)
     ELSE /\ phase' = [phase EXCEPT ![n] = "executing"]
          /\ UNCHANGED <<orchVars, attempt, cancelled, sem, graphVars, envVars>>

\* CancelledError is delivered.  Before the try block it leaves no trace: the
\* node keeps the status RUNNING it was launched with.
NodeUnwind(n) ==
  /\ Yielded /\ n \in cancelled
  /\ IF phase[n] \in Working
     THEN nodeStatus' = [nodeStatus EXCEPT ![n] = "failed"]
     ELSE UNCHANGED nodeStatus
  /\ phase' = [phase EXCEPT ![n] = "finished"]
  /\ sem' = IF n \in sem.held THEN ReleaseSlot(sem, n)
            ELSE IF n \in sem.granted THEN ForfeitSlot(sem, n)
            ELSE sem
  /\ cancelled' = cancelled \ {n}
  /\ UNCHANGED <<orchVars, attempt, activeEdges, tolerated, announced, envVars>>
-----------------------------------------------------------------------------
(* The environment.                                                        *)

\* cancel_workflow_run, or the SSE handler on a disconnect, sets the event.
\* Nothing wakes the orchestrator: it looks when a task finishes.
SetCancel ==
  /\ "cancel" \in Disruptions /\ Yielded /\ ~cancelEvent /\ orch # "done"
  /\ cancelEvent' = TRUE
  /\ UNCHANGED <<orchVars, taskVars, graphVars, deadline, closed>>

DeadlinePasses ==
  /\ "deadline" \in Disruptions /\ ~deadline /\ orch # "done"
  /\ deadline' = TRUE
  /\ UNCHANGED <<orchVars, taskVars, graphVars, cancelEvent, closed>>

\* The consumer closes the stream, which cancels the orchestrator task; a
\* gather in progress passes the cancellation on to its children.
CloseStream ==
  /\ "close" \in Disruptions /\ Yielded /\ ~closed /\ orch # "done"
  /\ closed' = TRUE
  /\ orch' = IF orch = "new" THEN "done" ELSE orch
  /\ cancelled' = IF Gathering THEN {n \in running : phase[n] \notin Over}
                               ELSE cancelled
  /\ UNCHANGED <<completed, pending, running, verdict, phase, attempt, sem,
                 graphVars, cancelEvent, deadline>>
-----------------------------------------------------------------------------
OrchStep == \/ OrchStart \/ OrchTimeout \/ OrchCancel \/ OrchRound
            \/ OrchLeave \/ OrchReap \/ OrchGathered \/ OrchVerdict
            \/ OrchAborted

NodeStep(n) == \/ NodeEnter(n) \/ NodeResume(n) \/ NodeSucceed(n)
               \/ NodeFail(n) \/ NodeRetry(n) \/ NodeWake(n) \/ NodeUnwind(n)

Disrupt == SetCancel \/ DeadlinePasses \/ CloseStream

\* The run is over and every task has returned.
AllReturned == orch = "done" /\ \A n \in Nodes : phase[n] \in Over \cup {"none"}

Terminated == AllReturned /\ UNCHANGED vars

Next == OrchStep \/ (\E n \in Nodes : NodeStep(n)) \/ Disrupt \/ Terminated

Spec == Init /\ [][Next]_vars

\* The event loop runs every ready coroutine, and wait_for bounds every
\* executor, so each task that can move eventually does.
FairSpec == /\ Spec
            /\ WF_vars(OrchStep)
            /\ \A n \in Nodes : WF_vars(NodeStep(n))
=============================================================================
