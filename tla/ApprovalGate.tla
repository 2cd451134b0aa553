----------------------------- MODULE ApprovalGate -----------------------------
(***************************************************************************)
(* One HUMAN_INTERVENTION node and the people who decide it                *)
(* (HumanInterventionExecutor in src/src/fim_one/core/workflow/nodes.py,   *)
(* the approve and reject endpoints in web/api/workflows.py, and the       *)
(* engine's per-node timeout and retry loop around the executor).          *)
(*                                                                         *)
(* Each attempt of the node asks anew, with an approval row of its own,    *)
(* and polls it.  Time is abstracted: the executor's timeout, the engine's *)
(* equally long one (which starts earlier, but on another clock) and a     *)
(* cancellation may strike at any suspension point.  Who may decide is     *)
(* settled before a request is a member of Requests.  Names are prefixed   *)
(* where WorkflowRun has the same: one module proves both.                 *)
(***************************************************************************)
EXTENDS Naturals

CONSTANTS
  Requests,     \* approve and reject requests of people entitled to decide
  MaxAttempts,  \* 1 + retry_count of the node
  Contexts,     \* whether the run's context may carry a db_session_factory
  Strikes       \* what may happen to the node

ASSUME GateAssumption ==
  /\ MaxAttempts \in Nat \ {0}
  /\ Contexts \subseteq BOOLEAN
  /\ Strikes \subseteq {"expire", "timeout", "cancel", "delete"}

VARIABLES
  database, \* the context carries a db_session_factory
  deleted,  \* the run's row is gone
  node,     \* where the node is
  attempt,  \* the current attempt
  approval, \* status of each attempt's approval row
  request,  \* what became of each request
  target    \* the attempt each request decided

gateVars == <<database, deleted, node, attempt, approval, request, target>>

Attempts == 1 .. MaxAttempts
Decisions == {"approved", "rejected"}
Over == {"completed", "failed", "cancelled"}

GateTypeOK ==
  /\ database \in BOOLEAN /\ deleted \in BOOLEAN
  /\ node \in {"asking", "polling", "expiring", "backoff"} \cup Over
  /\ attempt \in Attempts
  /\ approval \in [Attempts -> {"absent", "pending", "expired", "deleted"}
                                 \cup Decisions]
  /\ request \in [Requests -> {"unsent", "conflict"} \cup Decisions]
  /\ target \in [Requests -> Attempts]

GateInit ==
  /\ database \in Contexts /\ deleted = FALSE
  /\ node = "asking"
  /\ attempt = 1
  /\ approval = [a \in Attempts |-> "absent"]
  /\ request = [q \in Requests |-> "unsent"]
  /\ target \in [Requests -> Attempts]
-----------------------------------------------------------------------------
(* The node.                                                               *)

\* An attempt is FAILED: the engine backs off and tries again, or gives up.
AttemptFailed == node' = IF attempt < MaxAttempts THEN "backoff" ELSE "failed"

\* The approval row is created, which the foreign key to the run can prevent.
Ask ==
  /\ node = "asking" /\ database
  /\ IF deleted THEN AttemptFailed /\ UNCHANGED approval
     ELSE /\ approval' = [approval EXCEPT ![attempt] = "pending"]
          /\ node' = "polling"
  /\ UNCHANGED <<attempt, request, target, database, deleted>>

\* "When no DB is available, auto-approve immediately".
AutoApprove ==
  /\ node = "asking" /\ ~database
  /\ node' = "completed"
  /\ UNCHANGED <<attempt, approval, request, target, database, deleted>>

\* Mutant of Poll: a row that is no longer pending counts as approved.
PollAnyDecision ==
  /\ node = "polling" /\ approval[attempt] # "pending"
  /\ IF approval[attempt] # "deleted" THEN node' = "completed"
                                      ELSE AttemptFailed
  /\ UNCHANGED <<attempt, approval, request, target, database, deleted>>

\* A poll that finds the row decided, expired or gone.
Poll ==
  /\ node = "polling" /\ approval[attempt] # "pending"
  /\ IF approval[attempt] = "approved" THEN node' = "completed"
                                       ELSE AttemptFailed
  /\ UNCHANGED <<attempt, approval, request, target, database, deleted>>

\* The executor's own timeout: the row is read...
ExpireRead ==
  /\ "expire" \in Strikes /\ node = "polling"
  /\ IF approval[attempt] = "pending" THEN node' = "expiring"
                                      ELSE AttemptFailed
  /\ UNCHANGED <<attempt, approval, request, target, database, deleted>>

\* ... and written, by primary key only.
ExpireWrite ==
  /\ node = "expiring"
  /\ approval' = [approval EXCEPT ![attempt] =
                    IF @ = "deleted" THEN @ ELSE "expired"]
  /\ AttemptFailed
  /\ UNCHANGED <<attempt, request, target, database, deleted>>

\* asyncio.wait_for in _execute_once cancels the executor.
EngineTimeout ==
  /\ "timeout" \in Strikes /\ node \in {"asking", "polling", "expiring"}
  /\ AttemptFailed
  /\ UNCHANGED <<attempt, approval, request, target, database, deleted>>

\* Mutant of Retry: the attempt is not counted.
RetryUncounted ==
  /\ node = "backoff"
  /\ node' = "asking"
  /\ UNCHANGED <<attempt, approval, request, target, database, deleted>>

Retry ==
  /\ node = "backoff"
  /\ attempt' = attempt + 1
  /\ node' = "asking"
  /\ UNCHANGED <<approval, request, target, database, deleted>>

\* The run is cancelled, or its engine goes away: the task just stops.
Cancel ==
  /\ "cancel" \in Strikes /\ node \notin Over
  /\ node' = "cancelled"
  /\ UNCHANGED <<attempt, approval, request, target, database, deleted>>
-----------------------------------------------------------------------------
(* The endpoints.                                                          *)

\* Mutant of Decide: the update does not ask for status = 'pending'.
DecideUnguarded(q, d) ==
  /\ request[q] = "unsent" /\ approval[target[q]] # "absent"
  /\ approval' = [approval EXCEPT ![target[q]] = d]
  /\ request' = [request EXCEPT ![q] = d]
  /\ UNCHANGED <<node, attempt, target, database, deleted>>

\* approve_approval and reject_approval: one conditional update.
Decide(q, d) ==
  LET a == target[q]
  IN  /\ request[q] = "unsent" /\ approval[a] # "absent"
      /\ IF approval[a] = "pending"
         THEN /\ approval' = [approval EXCEPT ![a] = d]
              /\ request' = [request EXCEPT ![q] = d]
         ELSE /\ request' = [request EXCEPT ![q] = "conflict"]
              /\ UNCHANGED approval
      /\ UNCHANGED <<node, attempt, target, database, deleted>>

\* The run's row is deleted, and its approvals by ON DELETE CASCADE.
DeleteRun ==
  /\ "delete" \in Strikes /\ ~deleted
  /\ deleted' = TRUE
  /\ approval' = [a \in Attempts |-> IF approval[a] = "absent" THEN "absent"
                                                               ELSE "deleted"]
  /\ UNCHANGED <<node, attempt, request, target, database>>
-----------------------------------------------------------------------------
Execute == \/ Ask \/ AutoApprove \/ Poll \/ ExpireRead \/ ExpireWrite
           \/ EngineTimeout \/ Retry \/ Cancel

GateNext == \/ Execute \/ DeleteRun
        \/ \E q \in Requests, d \in Decisions : Decide(q, d)

GateSpec == GateInit /\ [][GateNext]_gateVars

\* The node polls as long as it lives; nobody has to decide.
GateFairSpec == GateSpec /\ WF_gateVars(Execute)
=============================================================================
