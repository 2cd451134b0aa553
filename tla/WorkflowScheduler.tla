-------------------------- MODULE WorkflowScheduler --------------------------
(***************************************************************************)
(* The cron scheduler (src/src/fim_one/core/workflow/scheduler.py), one    *)
(* instance in every server process, over the shared column                *)
(* last_scheduled_at of the workflows.                                     *)
(*                                                                         *)
(* Time is a count of the fire times of each workflow's cron expression;   *)
(* last_scheduled_at is the count at the moment of the stamp.  The fire    *)
(* <<f, n>> is the n-th of workflow f, and names the run a process         *)
(* launches for it.  Some names carry a prefix: WorkflowRun has the same,  *)
(* and one module proves both.                                             *)
(***************************************************************************)
EXTENDS AsyncSemaphore, Integers

CONSTANTS
  Processes,     \* server processes
  Workflows,     \* active workflows with an enabled schedule
  MaxConcurrent, \* max_concurrent_runs of each scheduler
  Fires,         \* bound: the fires explored
  Mishaps        \* "stop": the server shuts down; "db": a write fails

ASSUME SchedulerAssumption ==
  /\ IsFiniteSet(Fires) /\ Fires \subseteq Workflows \X (Nat \ {0})
  /\ MaxConcurrent \in Nat \ {0}
  /\ Mishaps \subseteq {"stop", "db"}

VARIABLES
  fired,    \* fire times of each workflow so far
  recent,   \* workflows never scheduled whose last fire is at most two poll
            \* intervals old; of the others nobody asks
  last,     \* last_scheduled_at; -1 when the scheduler never ran it
  ticker,   \* where each process's scheduler loop is
  due,      \* the fire for which the tick of each process will dispatch a
            \* workflow, as its query and its clock had it; 0 for none
  stamp,    \* the time each process is writing for a workflow; 0 for none
  sem,      \* _semaphore of each process
  task,     \* where each run of each process is
  launched, \* history: how often each process launched each fire
  raced,    \* history: workflows that two processes had in hand at once
  setback   \* history: workflows whose stamp was replaced by an older one

clockVars == <<fired, recent>>
tickVars == <<ticker, due, stamp>>
history == <<launched, raced, setback>>
schedulerVars == <<clockVars, last, tickVars, sem, task, history>>

Never == -1

\* What becomes of a run's row is left out: a run holds its slot from the
\* semaphore to the end of the block.
Places == {"none", "created", "waiting", "running"}

SchedulerTypeOK ==
  /\ fired \in [Workflows -> Nat]
  /\ recent \subseteq Workflows
  /\ last \in [Workflows -> {Never} \cup Nat]
  /\ ticker \in [Processes -> {"asleep", "ticking", "stamping", "draining",
                               "stopped"}]
  /\ due \in [Processes -> [Workflows -> Nat]]
  /\ stamp \in [Processes -> [Workflows -> Nat]]
  /\ \A p \in Processes : SemaphoreOK(sem[p], Fires, MaxConcurrent)
  /\ task \in [Processes -> [Fires -> Places]]
  /\ launched \in [Processes -> [Fires -> Nat]]
  /\ raced \subseteq Workflows /\ setback \subseteq Workflows

Nothing == [p \in Processes |-> [f \in Workflows |-> 0]]

SchedulerInit ==
  /\ fired = [f \in Workflows |-> 0]
  /\ recent = {}
  /\ last \in [Workflows -> {Never, 0}]
  /\ ticker = [p \in Processes |-> "asleep"]
  /\ due = Nothing /\ stamp = Nothing
  /\ sem = [p \in Processes |-> NewSemaphore(MaxConcurrent)]
  /\ task = [p \in Processes |-> [t \in Fires |-> "none"]]
  /\ launched = [p \in Processes |-> [t \in Fires |-> 0]]
  /\ raced = {} /\ setback = {}
-----------------------------------------------------------------------------
(* The clock.                                                              *)

CronFires(f) ==
  /\ <<f, fired[f] + 1>> \in Fires
  /\ fired' = [fired EXCEPT ![f] = @ + 1]
  /\ recent' = IF last[f] = Never THEN recent \cup {f} ELSE recent
  /\ UNCHANGED <<last, tickVars, sem, task, history>>

\* Two poll intervals pass without a fire.
FireAges(f) ==
  /\ f \in recent
  /\ recent' = recent \ {f}
  /\ UNCHANGED <<fired, last, tickVars, sem, task, history>>
-----------------------------------------------------------------------------
(* The scheduler loop.                                                     *)

\* _is_due
Due(f, now, at) ==
  IF at = Never THEN now > 0 /\ f \in recent ELSE now > at

InHand(p, f) == due[p][f] > 0

\* _tick: one query, judged by one reading of the clock.
TickStart(p) ==
  /\ ticker[p] = "asleep"
  /\ due' = [due EXCEPT ![p] =
       [f \in Workflows |-> IF Due(f, fired[f], last[f]) THEN fired[f] ELSE 0]]
  /\ raced' = raced \cup {f \in Workflows : /\ Due(f, fired[f], last[f])
                                            /\ \E q \in Processes : InHand(q, f)}
  /\ ticker' = [ticker EXCEPT ![p] = "ticking"]
  /\ UNCHANGED <<clockVars, last, stamp, sem, task, launched, setback>>

Stamps(p, f) ==
  /\ ticker' = [ticker EXCEPT ![p] = "stamping"]
  /\ stamp' = [stamp EXCEPT ![p][f] = fired[f]]
  /\ UNCHANGED due

\* Mutant of Dispatch: a busy scheduler dispatches all the same.
DispatchBusy(p, f) ==
  /\ ticker[p] = "ticking" /\ InHand(p, f)
  /\ Stamps(p, f)
  /\ UNCHANGED <<clockVars, last, sem, task, history>>

\* _dispatch_run up to the write of last_scheduled_at, with a second reading
\* of the clock.  A busy scheduler leaves the workflow for a later tick.  The
\* query of the tick has no ORDER BY.
Dispatch(p, f) ==
  /\ ticker[p] = "ticking" /\ InHand(p, f)
  /\ IF Locked(sem[p])
     THEN due' = [due EXCEPT ![p][f] = 0] /\ UNCHANGED <<ticker, stamp>>
     ELSE Stamps(p, f)
  /\ UNCHANGED <<clockVars, last, sem, task, history>>

\* f is dealt with, and the tick goes on.
Done(p, f) ==
  /\ ticker' = [ticker EXCEPT ![p] = "ticking"]
  /\ due' = [due EXCEPT ![p][f] = 0]
  /\ stamp' = [stamp EXCEPT ![p][f] = 0]

\* The write fails: _tick logs it and goes on with the next workflow.
DispatchFails(p, f) ==
  /\ "db" \in Mishaps /\ stamp[p][f] > 0
  /\ Done(p, f)
  /\ UNCHANGED <<clockVars, last, sem, task, history>>

\* The background task of the fire.  Bound: one that the process launched for
\* the same fire before has ended.
Creates(p, f) ==
  LET t == <<f, due[p][f]>>
  IN  /\ task[p][t] = "none"
      /\ \A u \in Fires : task[p][u] # "created"
      /\ task' = [task EXCEPT ![p][t] = "created"]
      /\ launched' = [launched EXCEPT ![p][t] = @ + 1]

\* Mutant of Launch: last_scheduled_at is left alone.
LaunchUnstamped(p, f) ==
  /\ stamp[p][f] > 0
  /\ Creates(p, f) /\ Done(p, f)
  /\ UNCHANGED <<clockVars, last, sem, raced, setback>>

\* The stamp is committed, whatever the row says by now, and the task created.
\* A task created before has run its first step meanwhile.
Launch(p, f) ==
  /\ stamp[p][f] > 0
  /\ last' = [last EXCEPT ![f] = stamp[p][f]] /\ recent' = recent \ {f}
  /\ setback' = IF stamp[p][f] < last[f] THEN setback \cup {f} ELSE setback
  /\ Creates(p, f) /\ Done(p, f)
  /\ UNCHANGED <<fired, sem, raced>>

TickEnd(p) ==
  /\ ticker[p] = "ticking" /\ \A f \in Workflows : ~InHand(p, f)
  /\ ticker' = [ticker EXCEPT ![p] = "asleep"]
  /\ UNCHANGED <<clockVars, last, due, stamp, sem, task, history>>

\* stop() wakes the sleeping loop, which waits for its runs.
Stop(p) ==
  /\ "stop" \in Mishaps /\ ticker[p] = "asleep"
  /\ ticker' = [ticker EXCEPT ![p] = "draining"]
  /\ UNCHANGED <<clockVars, last, due, stamp, sem, task, history>>

\* _cleanup: what has not ended after 30 seconds is cancelled.
Cleanup(p) ==
  /\ ticker[p] = "draining"
  /\ ticker' = [ticker EXCEPT ![p] = "stopped"]
  /\ task' = [task EXCEPT ![p] = [t \in Fires |-> "none"]]
  /\ sem' = [sem EXCEPT ![p] = NewSemaphore(MaxConcurrent)]
  /\ UNCHANGED <<clockVars, last, due, stamp, history>>
-----------------------------------------------------------------------------
(* The runs (_execute_workflow).                                           *)

RunEnter(p, t) ==
  /\ task[p][t] = "created"
  /\ IF Locked(sem[p])
     THEN /\ sem' = [sem EXCEPT ![p] = JoinQueue(@, t)]
          /\ task' = [task EXCEPT ![p][t] = "waiting"]
     ELSE /\ sem' = [sem EXCEPT ![p] = TakeSlot(@, t)]
          /\ task' = [task EXCEPT ![p][t] = "running"]
  /\ UNCHANGED <<clockVars, last, tickVars, history>>

RunResume(p, t) ==
  /\ task[p][t] = "waiting" /\ t \in sem[p].granted
  /\ sem' = [sem EXCEPT ![p] = ResumeWaiter(@, t)]
  /\ task' = [task EXCEPT ![p][t] = "running"]
  /\ UNCHANGED <<clockVars, last, tickVars, history>>

\* Mutant of RunEnd: the slot is kept.
RunEndKeepsSlot(p, t) ==
  /\ task[p][t] = "running"
  /\ task' = [task EXCEPT ![p][t] = "none"]
  /\ UNCHANGED <<clockVars, last, tickVars, sem, history>>

\* The end of the async with block: the row could not be inserted, or the
\* engine ended, whatever the outcome and whether or not it could be saved.
RunEnd(p, t) ==
  /\ task[p][t] = "running"
  /\ sem' = [sem EXCEPT ![p] = ReleaseSlot(@, t)]
  /\ task' = [task EXCEPT ![p][t] = "none"]
  /\ UNCHANGED <<clockVars, last, tickVars, history>>
-----------------------------------------------------------------------------
LaunchSome(p) == \E f \in Workflows : Launch(p, f)

Tick(p) == \/ TickStart(p) \/ TickEnd(p) \/ LaunchSome(p) \/ Cleanup(p)
           \/ \E f \in Workflows : Dispatch(p, f) \/ DispatchFails(p, f)

Run(p) == \E t \in Fires : RunEnter(p, t) \/ RunResume(p, t) \/ RunEnd(p, t)

Clock == \E f \in Workflows : CronFires(f) \/ FireAges(f)

SchedulerNext == Clock \/ \E p \in Processes : Tick(p) \/ Run(p) \/ Stop(p)

SchedulerSpec == SchedulerInit /\ [][SchedulerNext]_schedulerVars

\* The loop ticks for ever, every scheduled run ends by itself, and writes do
\* not fail for ever.
SchedulerFairSpec ==
  /\ SchedulerSpec
  /\ \A p \in Processes :
       WF_schedulerVars(Tick(p)) /\ WF_schedulerVars(Run(p))
       /\ SF_schedulerVars(LaunchSome(p))
=============================================================================
