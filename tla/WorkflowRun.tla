----------------------------- MODULE WorkflowRun -----------------------------
(***************************************************************************)
(* The life of workflow runs around the engine                             *)
(* (src/src/fim_one/web/api/workflows.py, core/workflow/rate_limiter.py):  *)
(* the three endpoints that start a run, the database row of each run, the *)
(* per-process rate limiter and table of running tasks, the cancel and     *)
(* delete endpoints, the retention sweep and process crashes.              *)
(*                                                                         *)
(* All runs belong to one user and one workflow.  The engine is abstracted *)
(* to "executing", then a verdict, or "aborted" when the generator that    *)
(* drives it is closed (see WorkflowEngine).  The sliding window is a      *)
(* count from which time takes timestamps away.                            *)
(***************************************************************************)
EXTENDS Naturals, FiniteSets

CONSTANTS
  Runs,              \* run ids
  Requested,         \* the sets of runs that may be asked for
  Workers,           \* server processes
  Mode,              \* how each run is started
  Home,              \* the process that serves each run
  MaxConcurrentRuns, \* max_concurrent_runs of the rate limiter
  MaxRunsPerMinute,  \* max_runs_per_minute of the rate limiter
  MaxParallel,       \* max_parallel of the batch request
  Faults             \* what may go wrong

ASSUME RunAssumption ==
  /\ IsFiniteSet(Runs) /\ Requested \subseteq SUBSET Runs
  /\ Mode \in [Runs -> {"interactive", "trigger", "batch"}]
  /\ Home \in [Runs -> Workers]
  /\ MaxConcurrentRuns \in Nat \ {0} /\ MaxRunsPerMinute \in Nat \ {0}
  /\ MaxParallel \in Nat \ {0}
  /\ Faults \subseteq {"insert", "raise", "leave", "silence", "persist", "crash"}

VARIABLES
  stage,    \* where the request handler of each run is
  row,      \* status column of the run's row
  final,    \* final_status of the handler
  engine,   \* the run's engine
  hook,     \* the webhook event sent for the run
  unsaved,  \* runs whose last write failed (history)
  slots,    \* _active_runs of each process
  starts,   \* number of _run_timestamps in the window, per process
  handles,  \* keys of _running_tasks, per process
  gone,     \* runs whose client has disconnected
  marking,  \* runs a cancel request has read as active and not yet written
  marked    \* runs a cancel request has written as cancelled

handlerVars == <<stage, final, engine, hook, unsaved>>
processVars == <<slots, starts, handles>>
clientVars == <<gone, marking, marked>>
vars == <<handlerVars, row, processVars, clientVars>>

Active == {"pending", "running"}
Terminal == {"completed", "failed", "cancelled"}
Verdicts == {"completed", "failed"}
Stages == {"idle", "checked", "acquired", "ready", "streaming", "closing",
           "persisting", "notifying", "over", "refused", "lost"}

TypeOK ==
  /\ stage \in [Runs -> Stages]
  /\ row \in [Runs -> {"absent", "deleted"} \cup Active \cup Terminal]
  /\ final \in [Runs -> Terminal]
  /\ engine \in [Runs -> {"idle", "executing", "aborted"} \cup Verdicts]
  /\ hook \in [Runs -> {"none"} \cup Verdicts]
  /\ unsaved \subseteq Runs
  /\ slots \in [Workers -> SUBSET Runs]
  /\ starts \in [Workers -> 0 .. MaxRunsPerMinute]
  /\ handles \in [Workers -> SUBSET Runs]
  /\ gone \subseteq Runs /\ marking \subseteq Runs /\ marked \subseteq Runs

Init ==
  /\ \E asked \in Requested :
       stage = [r \in Runs |-> IF r \in asked THEN "idle" ELSE "refused"]
  /\ row = [r \in Runs |-> "absent"]
  /\ final = [r \in Runs |-> "completed"]
  /\ engine = [r \in Runs |-> "idle"]
  /\ hook = [r \in Runs |-> "none"]
  /\ slots = [w \in Workers |-> {}]
  /\ starts = [w \in Workers |-> 0]
  /\ handles = [w \in Workers |-> {}]
  /\ unsaved = {} /\ gone = {} /\ marking = {} /\ marked = {}
-----------------------------------------------------------------------------
(* Starting a run.                                                         *)

GoTo(r, s) == stage' = [stage EXCEPT ![r] = s]

\* trigger_workflow refuses when the workflow has an active run.
Check(r) ==
  /\ Mode[r] = "trigger" /\ stage[r] = "idle"
  /\ \A q \in Runs : row[q] \notin Active
  /\ GoTo(r, "checked")
  /\ UNCHANGED <<row, final, engine, hook, unsaved, processVars, clientVars>>

\* _check_rate_limit_locked
Allowed(w) == /\ Cardinality(slots[w]) < MaxConcurrentRuns
              /\ starts[w] < MaxRunsPerMinute

\* WorkflowRateLimiter.acquire, or check_rate_limit for a batch item.
Acquire(r) ==
  LET w == Home[r]
      recorded == Allowed(w) /\ Mode[r] # "batch"
  IN  /\ stage[r] = IF Mode[r] = "trigger" THEN "checked" ELSE "idle"
      /\ GoTo(r, IF Allowed(w) THEN "acquired" ELSE "refused")
      /\ slots' = [slots EXCEPT ![w] = IF recorded THEN @ \cup {r} ELSE @]
      /\ starts' = [starts EXCEPT ![w] = IF recorded THEN @ + 1 ELSE @]
      /\ UNCHANGED <<row, final, engine, hook, unsaved, handles, clientVars>>

\* The row is committed; an interactive run becomes cancellable by event.
Insert(r) ==
  /\ stage[r] = "acquired"
  /\ GoTo(r, "ready")
  /\ row' = [row EXCEPT ![r] =
               IF Mode[r] = "trigger" THEN "running" ELSE "pending"]
  /\ handles' = [handles EXCEPT ![Home[r]] =
                   IF Mode[r] = "interactive" THEN @ \cup {r} ELSE @]
  /\ UNCHANGED <<final, engine, hook, unsaved, slots, starts, clientVars>>

\* The commit raises; only trigger_workflow gives its slot back.
InsertFails(r) ==
  /\ "insert" \in Faults /\ stage[r] = "acquired"
  /\ GoTo(r, "refused")
  /\ slots' = [slots EXCEPT ![Home[r]] =
                 IF Mode[r] = "trigger" THEN @ \ {r} ELSE @]
  /\ UNCHANGED <<row, final, engine, hook, unsaved, starts, handles, clientVars>>

BatchBusy(w) ==
  Cardinality({q \in Runs : /\ Home[q] = w /\ Mode[q] = "batch"
                            /\ stage[q] = "streaming"}) >= MaxParallel

\* The stream is first iterated, or a batch item gets its semaphore slot.
Start(r) ==
  /\ stage[r] = "ready"
  /\ Mode[r] = "batch" => ~BatchBusy(Home[r])
  /\ GoTo(r, "streaming")
  /\ engine' = [engine EXCEPT ![r] = "executing"]
  /\ UNCHANGED <<row, final, hook, unsaved, processVars, clientVars>>

\* The client has gone before the response starts: generate() never runs.
NeverStarts(r) ==
  /\ stage[r] = "ready" /\ r \in gone
  /\ GoTo(r, "lost")
  /\ UNCHANGED <<row, final, engine, hook, unsaved, processVars, clientVars>>
-----------------------------------------------------------------------------
(* Following the engine.                                                   *)

Following(r) == stage[r] = "streaming" /\ engine[r] = "executing"

\* The engine's run_completed or run_failed arrives and is sent on.
EngineEnds(r) ==
  /\ Following(r)
  /\ \E v \in Verdicts :
       /\ engine' = [engine EXCEPT ![r] = v]
       /\ final' = [final EXCEPT ![r] = v]
  /\ UNCHANGED <<stage, row, hook, unsaved, processVars, clientVars>>

\* Mutant of StreamEnds: only run_completed ends the loop.
StreamEndsCompleted(r) ==
  /\ stage[r] = "streaming" /\ engine[r] = "completed"
  /\ GoTo(r, "closing")
  /\ UNCHANGED <<row, final, engine, hook, unsaved, processVars, clientVars>>

StreamEnds(r) ==
  /\ stage[r] = "streaming" /\ engine[r] \in Verdicts
  /\ GoTo(r, "closing")
  /\ UNCHANGED <<row, final, engine, hook, unsaved, processVars, clientVars>>

\* The handler leaves the engine's generator before its end.
Break(r, status) ==
  /\ GoTo(r, "closing")
  /\ final' = [final EXCEPT ![r] = status]
  /\ engine' = [engine EXCEPT ![r] = IF @ = "executing" THEN "aborted" ELSE @]
  /\ UNCHANGED <<row, hook, unsaved, processVars, clientVars>>

Raises(r) == "raise" \in Faults /\ Following(r) /\ Break(r, "failed")

\* No event for 15 seconds: wait_for cancels the engine's generator, which
\* has nothing more to say after the keepalive.
Silence(r) ==
  /\ "silence" \in Faults /\ Mode[r] = "interactive" /\ Following(r)
  /\ Break(r, final[r])

\* is_disconnected() is seen with an event or a keepalive, or the response
\* is closed at a yield: final_status stays what it was.
Dropped(r) ==
  /\ stage[r] = "streaming" /\ r \in gone
  /\ Break(r, final[r])

\* The response task is cancelled while it waits for an event.
ResponseCancelled(r) ==
  /\ stage[r] = "streaming" /\ r \in gone
  /\ Break(r, "cancelled")

\* Mutant of Release: a run that failed keeps its slot.
ReleaseUnlessFailed(r) ==
  /\ stage[r] = "closing"
  /\ GoTo(r, "persisting")
  /\ slots' = [slots EXCEPT ![Home[r]] =
                 IF final[r] = "failed" THEN @ ELSE @ \ {r}]
  /\ handles' = [handles EXCEPT ![Home[r]] = @ \ {r}]
  /\ UNCHANGED <<row, final, engine, hook, unsaved, starts, clientVars>>

Release(r) ==
  /\ stage[r] = "closing"
  /\ GoTo(r, "persisting")
  /\ slots' = [slots EXCEPT ![Home[r]] = @ \ {r}]
  /\ handles' = [handles EXCEPT ![Home[r]] = @ \ {r}]
  /\ UNCHANGED <<row, final, engine, hook, unsaved, starts, clientVars>>

\* Mutant of Persist: only verdicts are written.
PersistVerdicts(r) ==
  /\ stage[r] = "persisting"
  /\ GoTo(r, "notifying")
  /\ row' = [row EXCEPT ![r] = IF @ # "deleted" /\ final[r] \in Verdicts
                               THEN final[r] ELSE @]
  /\ UNCHANGED <<final, engine, hook, unsaved, processVars, clientVars>>

\* The row, if it is still there, is overwritten whatever it says.
Persist(r) ==
  /\ stage[r] = "persisting"
  /\ GoTo(r, "notifying")
  /\ \/ /\ row' = [row EXCEPT ![r] = IF @ = "deleted" THEN @ ELSE final[r]]
        /\ UNCHANGED unsaved
     \/ "persist" \in Faults /\ unsaved' = unsaved \cup {r} /\ UNCHANGED row
  /\ UNCHANGED <<final, engine, hook, processVars, clientVars>>

\* Mutant of Notify: every run that was not cancelled is announced completed.
NotifyCompleted(r) ==
  /\ stage[r] = "notifying"
  /\ GoTo(r, "over")
  /\ hook' = [hook EXCEPT ![r] = IF Mode[r] # "batch" /\ final[r] # "cancelled"
                                 THEN "completed" ELSE @]
  /\ UNCHANGED <<final, engine, row, unsaved, processVars, clientVars>>

Notify(r) ==
  /\ stage[r] = "notifying"
  /\ GoTo(r, "over")
  /\ hook' = [hook EXCEPT ![r] = IF Mode[r] # "batch" /\ final[r] \in Verdicts
                                 THEN final[r] ELSE @]
  /\ UNCHANGED <<final, engine, row, unsaved, processVars, clientVars>>
-----------------------------------------------------------------------------
(* Clients, operators and time.                                            *)

ClientLeaves(r) ==
  /\ "leave" \in Faults /\ Mode[r] = "interactive"
  /\ stage[r] \in {"ready", "streaming"} /\ r \notin gone
  /\ gone' = gone \cup {r}
  /\ UNCHANGED <<handlerVars, row, processVars, marking, marked>>

\* cancel_workflow_run, served by process w.  Setting the event leaves the
\* engine free to end as it would have: only the other case changes state.
CancelRead(w, r) ==
  /\ r \notin handles[w] /\ row[r] \in Active /\ r \notin marking
  /\ marking' = marking \cup {r}
  /\ UNCHANGED <<handlerVars, row, processVars, gone, marked>>

CancelWrite(r) ==
  /\ r \in marking
  /\ marking' = marking \ {r}
  /\ IF row[r] = "deleted" THEN UNCHANGED <<row, marked>>
     ELSE /\ row' = [row EXCEPT ![r] = "cancelled"]
          /\ marked' = marked \cup {r}
  /\ UNCHANGED <<handlerVars, processVars, gone>>

\* delete_workflow_run
Delete(r) ==
  /\ row[r] \in Terminal
  /\ row' = [row EXCEPT ![r] = "deleted"]
  /\ UNCHANGED <<handlerVars, processVars, clientVars>>

\* clear_workflow_runs
Clear ==
  /\ \E r \in Runs : row[r] \in Terminal
  /\ row' = [r \in Runs |-> IF row[r] \in Terminal THEN "deleted" ELSE row[r]]
  /\ UNCHANGED <<handlerVars, processVars, clientVars>>

\* The retention sweep deletes the old rows, then the rows in excess of the
\* number a workflow may keep; it takes none that is active.
DeleteOldRuns ==
  /\ \E S \in SUBSET {r \in Runs : row[r] \in Terminal} :
       /\ S # {}
       /\ row' = [r \in Runs |-> IF r \in S THEN "deleted" ELSE row[r]]
  /\ UNCHANGED <<handlerVars, processVars, clientVars>>

WindowSlides(w) ==
  /\ starts[w] > 0
  /\ starts' = [starts EXCEPT ![w] = @ - 1]
  /\ UNCHANGED <<handlerVars, row, slots, handles, clientVars>>

\* Everything a process keeps in memory dies with it; rows stay.
Crash(w) ==
  LET served == {r \in Runs : /\ Home[r] = w
                              /\ stage[r] \notin {"idle", "over", "refused"}}
  IN  /\ "crash" \in Faults
      /\ stage' = [r \in Runs |-> IF r \in served THEN "lost" ELSE stage[r]]
      /\ engine' = [r \in Runs |-> IF r \in served /\ engine[r] = "executing"
                                   THEN "aborted" ELSE engine[r]]
      /\ slots' = [slots EXCEPT ![w] = {}]
      /\ starts' = [starts EXCEPT ![w] = 0]
      /\ handles' = [handles EXCEPT ![w] = {}]
      /\ UNCHANGED <<final, hook, unsaved, row, clientVars>>
-----------------------------------------------------------------------------
Serve(r) == \/ Acquire(r) \/ Insert(r) \/ InsertFails(r) \/ Start(r)
            \/ NeverStarts(r) \/ EngineEnds(r) \/ StreamEnds(r) \/ Raises(r)
            \/ Silence(r) \/ Dropped(r) \/ ResponseCancelled(r) \/ Release(r)
            \/ Persist(r) \/ Notify(r)

Outside == \/ \E r \in Runs : \/ Check(r) \/ ClientLeaves(r) \/ CancelWrite(r)
                              \/ Delete(r)
                              \/ \E w \in Workers : CancelRead(w, r)
           \/ \E w \in Workers : WindowSlides(w) \/ Crash(w)
           \/ Clear \/ DeleteOldRuns

Next == (\E r \in Runs : Serve(r)) \/ Outside

Spec == Init /\ [][Next]_vars

\* A handler that has started goes on by itself, and the workflow timeout
\* ends every engine.
FairSpec == Spec /\ \A r \in Runs : WF_vars(Serve(r)) /\ WF_vars(CancelWrite(r))
=============================================================================
