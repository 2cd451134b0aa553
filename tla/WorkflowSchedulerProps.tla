------------------------ MODULE WorkflowSchedulerProps ------------------------
(***************************************************************************)
(* What the cron scheduler promises.                                       *)
(***************************************************************************)
EXTENDS WorkflowScheduler

(* last_scheduled_at is written "immediately to prevent duplicate          *)
(* triggers": a fire is launched once, whichever processes tick one after  *)
(* the other, fail to write or are passed over.  Two processes that have   *)
(* judged the same row before either stamps it do launch it both, but each *)
(* of them once, as long as no stamp is replaced by an older one.          *)
LaunchedOnce ==
  \A t \in Fires :
    /\ t[1] \notin setback => \A p \in Processes : launched[p][t] <= 1
    /\ t[1] \notin raced =>
         \A p, q \in Processes : p # q => launched[p][t] = 0 \/ launched[q][t] = 0

(* A scheduler never executes more runs than its semaphore allows, and the *)
(* semaphore's holders are exactly the runs that execute.                  *)
RunsBounded ==
  \A p \in Processes :
    /\ sem[p].held = {t \in Fires : task[p][t] = "running"}
    /\ Cardinality(sem[p].held) <= MaxConcurrent

(* The check of the semaphore before each dispatch lags one task behind:   *)
(* one run at most is ever launched into a full scheduler.                 *)
OneWaiterAtMost ==
  \A p \in Processes :
    Cardinality({t \in Fires : task[p][t] = "waiting"}) <= 1

(* When cron falls silent nothing is left over in the end: every workflow  *)
(* that was scheduled before has been stamped with its last fire, or with  *)
(* a later reading of the clock, however the processes overtook each       *)
(* other, however full they were and however often a write failed, as long *)
(* as not all of them are stopped.                                         *)
FiresAreServed ==
  <>[][FALSE]_fired =>
    <>[](\/ \A f \in Workflows : last[f] # Never => last[f] >= fired[f]
         \/ \A p \in Processes : ticker[p] \in {"draining", "stopped"})

=============================================================================
