------------------------ MODULE WorkflowEngineProofs ------------------------
(***************************************************************************)
(* Proofs about WorkflowEngine for every blueprint and every concurrency   *)
(* limit.  The inductive invariant IInv adds to the type invariant where   *)
(* the semaphore's tasks are (SlotInv) and what the orchestrator knows     *)
(* about the tasks it has launched and cancelled (TaskInv).  On it rest    *)
(* what the statuses say (StatusInv), when a verdict is reached            *)
(* (VerdictInv), which edges are still active (PathInv) and what the       *)
(* client was told is skipped (AnnounceInv).                               *)
(***************************************************************************)
EXTENDS WorkflowEngineProps, LibraryProofs

WorkingAuto == {m \in Nodes \ HumanNodes : phase[m] \in Working}
WaitingNodes == {m \in Nodes : phase[m] = "waiting"}

\* Each slot is where the phase of its node says it is.
SlotInv ==
  /\ SemaphoreOK(sem, Nodes, MaxConcurrency)
  /\ sem.held = WorkingAuto
  /\ Waiters(sem) \subseteq WaitingNodes

\* A live task is in running_tasks while the orchestrator lives; cancellations
\* are outstanding only during a gather, and then for every task that has not
\* entered _run_node_inner.
TaskInv ==
  /\ \A n \in cancelled : n \in running /\ Live(n)
  /\ \A n \in Nodes : Live(n) /\ orch # "done" => n \in running
  /\ \A n \in running : phase[n] # "none"
  /\ \A n \in pending : phase[n] = "none"
  /\ cancelled # {} => Gathering
  /\ Gathering =>
       /\ sem.queue = << >>
       /\ \A n \in Nodes : phase[n] \in {"created", "waiting"}
                             => n \in cancelled

IInv == TypeOK /\ SlotInv /\ TaskInv

LEMMA LimitIsNat == MaxConcurrency \in Nat /\ IsFiniteSet(Nodes)
BY ConcurrencyAssumption, BlueprintAssumption DEF ParsedBlueprint
-----------------------------------------------------------------------------
(* Initially no task exists and every slot is free.                        *)
LEMMA InitInv == Init => IInv
<1> SUFFICES ASSUME Init PROVE IInv
  OBVIOUS
<1>1. /\ SemaphoreOK(sem, Nodes, MaxConcurrency)
      /\ sem.held = {} /\ Waiters(sem) = {}
  BY NewSemaphoreOK, LimitIsNat DEF Init
<1>2. TypeOK
  BY <1>1 DEF Init, TypeOK, OrchStates, Phases, SemaphoreOK
<1>3. SlotInv
  BY <1>1 DEF Init, SlotInv, WorkingAuto, WaitingNodes, Working
<1>4. TaskInv
  BY DEF Init, TaskInv, Live, Over, Gathering
<1> QED BY <1>2, <1>3, <1>4 DEF IInv

(* A task that enters _run_node_inner, or crashes on the way in, leaves    *)
(* each slot with its owner.                                               *)
LEMMA BeginSlots ==
  ASSUME TypeOK, NEW n \in Nodes, NEW s, Begin(n, s),
         SemaphoreOK(s, Nodes, MaxConcurrency),
         s.held = WorkingAuto \cup {n}, phase[n] \notin Working,
         Waiters(s) \subseteq WaitingNodes \ {n}
  PROVE  /\ SlotInv'
         /\ phase' \in [Nodes -> Phases]
         /\ phase'[n] \in {"executing", "crashed"}
         /\ \A m \in Nodes \ {n} : phase'[m] = phase[m]
<1>1. /\ phase' \in [Nodes -> Phases]
      /\ phase'[n] = IF n \in Misconfigured THEN "crashed" ELSE "executing"
      /\ \A m \in Nodes \ {n} : phase'[m] = phase[m]
  BY DEF Begin, TypeOK, Phases
<1>2. Waiters(s) \subseteq WaitingNodes'
  BY <1>1 DEF WaitingNodes
<1>3. CASE n \in HumanNodes \cup Misconfigured
  <2>1. sem' = ReleaseSlot(s, n)
    BY <1>3 DEF Begin
  <2>2. /\ SemaphoreOK(sem', Nodes, MaxConcurrency)
        /\ sem'.held = s.held \ {n} /\ Waiters(sem') = Waiters(s)
    BY <2>1, ReleaseSlotOK, LimitIsNat
  <2>3. s.held \ {n} = WorkingAuto'
    BY <1>1, <1>3 DEF WorkingAuto, Working
  <2> QED BY <1>1, <1>2, <2>2, <2>3 DEF SlotInv
<1>4. CASE n \notin HumanNodes \cup Misconfigured
  <2>1. sem' = s
    BY <1>4 DEF Begin
  <2>2. s.held = WorkingAuto'
    BY <1>1, <1>4 DEF WorkingAuto, Working
  <2> QED BY <1>1, <1>2, <2>1, <2>2 DEF SlotInv
<1> QED BY <1>3, <1>4

(* A task that returns from _run_node_inner gives back the slot it holds.  *)
LEMMA FinishSlots ==
  ASSUME IInv, NEW n \in Nodes, phase[n] \in Working, Finish(n)
  PROVE  /\ SlotInv'
         /\ phase' \in [Nodes -> Phases]
         /\ phase'[n] = "finished"
         /\ \A m \in Nodes \ {n} : phase'[m] = phase[m]
         /\ sem.queue = << >> => sem'.queue = << >>
<1>1. /\ phase' \in [Nodes -> Phases] /\ phase'[n] = "finished"
      /\ \A m \in Nodes \ {n} : phase'[m] = phase[m]
  BY DEF Finish, IInv, TypeOK, Phases
<1>2. WaitingNodes' = WaitingNodes
  BY <1>1 DEF WaitingNodes, Working
<1>3. WorkingAuto' = WorkingAuto \ {n}
  BY <1>1 DEF WorkingAuto, Working
<1>4. CASE n \in sem.held
  <2>1. sem' = ReleaseSlot(sem, n)
    BY <1>4 DEF Finish
  <2>2. /\ SemaphoreOK(sem', Nodes, MaxConcurrency)
        /\ sem'.held = sem.held \ {n} /\ Waiters(sem') = Waiters(sem)
        /\ sem.queue = << >> => sem'.queue = << >>
    BY <1>4, <2>1, ReleaseSlotOK, LimitIsNat DEF IInv, SlotInv
  <2> QED BY <1>1, <1>2, <1>3, <2>2 DEF SlotInv, IInv
<1>5. CASE n \notin sem.held
  BY <1>1, <1>2, <1>3, <1>5 DEF Finish, SlotInv, IInv
<1> QED BY <1>4, <1>5
-----------------------------------------------------------------------------
(* The orchestrator's steps that leave the tasks and their slots alone.    *)
LEMMA QuietOrchInv ==
  ASSUME IInv,
         OrchStart \/ OrchStop \/ OrchLeave \/ OrchReap \/ OrchGathered
           \/ OrchVerdict \/ OrchAborted
  PROVE  IInv'
<1>1. SlotInv'
  BY DEF IInv, SlotInv, WorkingAuto, WaitingNodes, taskVars, OrchStart,
         OrchStop, OrchLeave, OrchReap, OrchGathered, OrchVerdict, OrchAborted
<1>2. TypeOK'
  <2>1. CASE OrchStart \/ OrchLeave \/ OrchVerdict \/ OrchAborted
    BY <2>1 DEF IInv, TypeOK, OrchStates, taskVars, graphVars, envVars,
                OrchStart, OrchLeave, OrchVerdict, OrchAborted
  <2>2. CASE OrchStop
    BY <2>2 DEF IInv, TypeOK, OrchStates, taskVars, envVars, OrchStop,
                Mark, Settled
  <2>3. CASE OrchReap
    BY <2>3 DEF IInv, TypeOK, OrchStates, taskVars, envVars, OrchReap, Mark,
                Settled
  <2>4. CASE OrchGathered
    BY <2>4 DEF IInv, TypeOK, OrchStates, taskVars, graphVars, envVars,
                OrchGathered
  <2> QED BY <2>1, <2>2, <2>3, <2>4
<1>3. TaskInv'
  <2>1. CASE OrchStart \/ OrchLeave \/ OrchVerdict \/ OrchAborted
    BY <2>1 DEF IInv, TaskInv, Live, Gathering, taskVars,
                OrchStart, OrchLeave, OrchVerdict, OrchAborted
  <2>2. CASE OrchStop
    BY <2>2 DEF IInv, TaskInv, Live, Gathering, taskVars, OrchStop
  <2>3. CASE OrchReap
    BY <2>3 DEF IInv, TaskInv, Live, Over, Gathering, taskVars, OrchReap
  <2>4. CASE OrchGathered
    BY <2>4 DEF IInv, TaskInv, Live, Over, Gathering, taskVars, OrchGathered
  <2> QED BY <2>1, <2>2, <2>3, <2>4
<1> QED BY <1>1, <1>2, <1>3 DEF IInv

(* Timeout and cancellation empty the semaphore's queue and address every  *)
(* task that has not returned.                                             *)
LEMMA AbandonInv ==
  ASSUME IInv, OrchTimeout \/ OrchCancel
  PROVE  IInv'
<1>1. PICK gather \in {"gather_timeout", "gather_cancel"} :
        InLoop /\ Abandon(gather)
  BY DEF OrchTimeout, OrchCancel
<1>2. /\ SemaphoreOK(sem', Nodes, MaxConcurrency)
      /\ sem'.held = sem.held /\ sem'.queue = << >>
      /\ Waiters(sem') \subseteq Waiters(sem)
  BY <1>1, DropWaitersOK, LimitIsNat DEF Abandon, IInv, SlotInv, Waiters
<1>3. SlotInv'
  BY <1>1, <1>2 DEF Abandon, IInv, SlotInv, WorkingAuto, WaitingNodes
<1>4. TypeOK'
  BY <1>1, <1>2 DEF Abandon, IInv, TypeOK, OrchStates, Mark, Settled, envVars,
                    SemaphoreOK
<1>5. TaskInv'
  BY <1>1, <1>2 DEF Abandon, InLoop, IInv, TaskInv, TypeOK, Live, Over,
                    Gathering
<1> QED BY <1>3, <1>4, <1>5 DEF IInv

(* A pass of the loop launches tasks; none of them is in the semaphore yet. *)
LEMMA PassInv ==
  ASSUME IInv, InLoop, OrchPass
  PROVE  IInv'
<1> DEFINE skip  == {n \in pending : ShouldSkip(n)}
           ready == {n \in pending \ skip : CanExecute(n)}
           left  == pending \ (skip \cup ready)
<1>1. /\ running' = running \cup ready
      /\ pending' \subseteq left
      /\ phase' = [n \in Nodes |-> IF n \in ready THEN "created" ELSE phase[n]]
      /\ orch' \in {"wait", "top", "verdict"} /\ orch = "top"
      /\ completed' \subseteq Nodes /\ activeEdges' \subseteq Edges
      /\ UNCHANGED <<verdict, attempt, cancelled, sem,
                     tolerated, announced, envVars>>
  BY DEF OrchPass, InLoop, IInv, TypeOK
<1>2. nodeStatus' \in [Nodes -> Settled \cup {"pending", "running"}]
  <2>1. nodeStatus \in [Nodes -> Settled \cup {"pending", "running"}]
    BY DEF IInv, TypeOK
  <2> DEFINE stuck == IF running \cup ready = {} /\ skip = {} THEN left ELSE {}
  <2>2. nodeStatus' = [n \in Nodes |->
                          CASE n \in skip  -> "skipped"
                            [] n \in ready -> "running"
                            [] n \in stuck -> "failed"
                            [] OTHER       -> nodeStatus[n]]
    BY DEF OrchPass
  <2> HIDE DEF skip, ready, stuck
  <2> QED BY <2>1, <2>2 DEF Settled
<1>3. ready \subseteq pending /\ pending \subseteq Nodes /\ left \subseteq pending
  BY DEF IInv, TypeOK
<1>4. \A n \in ready : phase[n] = "none"
  BY <1>3 DEF IInv, TaskInv
<1> HIDE DEF ready, left
<1>5. WorkingAuto' = WorkingAuto /\ WaitingNodes' = WaitingNodes
  BY <1>1, <1>4 DEF WorkingAuto, WaitingNodes, Working
<1>6. SlotInv'
  BY <1>1, <1>5 DEF IInv, SlotInv
<1>7. TypeOK'
  BY <1>1, <1>2, <1>3 DEF IInv, TypeOK, OrchStates, Phases, envVars
<1>8. TaskInv'
  <2>1. ~Gathering /\ ~Gathering' /\ cancelled = {}
    BY <1>1 DEF Gathering, IInv, TaskInv
  <2>2. \A n \in pending' : n \in pending /\ n \notin ready
    BY <1>1, <1>3 DEF left
  <2> QED BY <1>1, <1>3, <2>1, <2>2 DEF IInv, TaskInv, TypeOK, Live, Over
<1> QED BY <1>6, <1>7, <1>8 DEF IInv
-----------------------------------------------------------------------------
(* How the orchestrator's view of the tasks follows from what one node's   *)
(* step changes.                                                           *)
LEMMA NodeTaskInv ==
  ASSUME IInv, NEW n \in Nodes, Live(n), UNCHANGED orchVars,
         phase'[n] # "none",
         \A m \in Nodes \ {n} : phase'[m] = phase[m],
         cancelled' \subseteq cancelled, cancelled \ {n} \subseteq cancelled',
         n \in cancelled' => Live(n)',
         Gathering => /\ sem'.queue = << >>
                      /\ phase'[n] \notin {"created", "waiting"}
  PROVE  TaskInv'
<1>1. orch' = orch /\ running' = running /\ pending' = pending
  BY DEF orchVars
<1>2. cancelled \subseteq Nodes /\ running \subseteq Nodes /\ pending \subseteq Nodes
  BY DEF IInv, TypeOK
<1>3. Gathering' = Gathering
  BY <1>1 DEF Gathering
<1>4. \A m \in cancelled' : m \in running' /\ Live(m)'
  BY <1>1, <1>2 DEF IInv, TaskInv, Live
<1>5. \A m \in Nodes : Live(m)' /\ orch' # "done" => m \in running'
  BY <1>1 DEF IInv, TaskInv, Live
<1>6. \A m \in running' : phase'[m] # "none"
  BY <1>1, <1>2 DEF IInv, TaskInv
<1>7. \A m \in pending' : phase'[m] = "none"
  BY <1>1, <1>2 DEF IInv, TaskInv, Live
<1>8. cancelled' # {} => Gathering'
  BY <1>3 DEF IInv, TaskInv
<1>9. Gathering' => /\ sem'.queue = << >>
                    /\ \A m \in Nodes : phase'[m] \in {"created", "waiting"}
                                          => m \in cancelled'
  BY <1>3 DEF IInv, TaskInv
<1> QED BY <1>4, <1>5, <1>6, <1>7, <1>8, <1>9 DEF TaskInv

(* A task reaches the semaphore: it takes a slot or joins the queue.       *)
LEMMA EnterInv ==
  ASSUME IInv, NEW n \in Nodes, NodeEnter(n)
  PROVE  IInv'
<1>1. /\ phase[n] = "created" /\ n \notin cancelled /\ Live(n)
      /\ UNCHANGED <<orchVars, attempt, cancelled, graphVars, envVars>>
  BY DEF NodeEnter, Live, Over
<1>2. ~Gathering
  BY <1>1 DEF IInv, TaskInv
<1>3. n \notin sem.held /\ n \notin Waiters(sem)
  BY <1>1 DEF IInv, SlotInv, WorkingAuto, WaitingNodes, Working
<1>4. SemaphoreOK(sem, Nodes, MaxConcurrency)
  BY DEF IInv, SlotInv
<1>5. /\ SlotInv' /\ phase' \in [Nodes -> Phases]
      /\ phase'[n] \in {"waiting", "executing", "crashed"}
      /\ \A m \in Nodes \ {n} : phase'[m] = phase[m]
  <2>1. CASE Locked(sem)
    <3>1. /\ sem' = JoinQueue(sem, n)
          /\ phase' = [phase EXCEPT ![n] = "waiting"]
      BY <2>1 DEF NodeEnter
    <3>2. /\ SemaphoreOK(sem', Nodes, MaxConcurrency)
          /\ sem'.held = sem.held /\ Waiters(sem') = Waiters(sem) \cup {n}
      BY <1>3, <1>4, <3>1, JoinQueueOK, LimitIsNat
    <3>3. /\ phase' \in [Nodes -> Phases] /\ phase'[n] = "waiting"
          /\ \A m \in Nodes \ {n} : phase'[m] = phase[m]
      BY <3>1 DEF IInv, TypeOK, Phases
    <3>4. WorkingAuto' = WorkingAuto
      BY <1>1, <3>3 DEF WorkingAuto, Working
    <3>5. WaitingNodes' = WaitingNodes \cup {n}
      BY <3>3 DEF WaitingNodes
    <3> QED BY <3>2, <3>3, <3>4, <3>5 DEF IInv, SlotInv
  <2>2. CASE ~Locked(sem)
    <3> DEFINE s == TakeSlot(sem, n)
    <3>1. Begin(n, s)
      BY <2>2 DEF NodeEnter
    <3>2. /\ SemaphoreOK(s, Nodes, MaxConcurrency)
          /\ s.held = sem.held \cup {n} /\ Waiters(s) = Waiters(sem)
      BY <1>3, <1>4, <2>2, TakeSlotOK, LimitIsNat
    <3> HIDE DEF s
    <3>3. /\ s.held = WorkingAuto \cup {n} /\ phase[n] \notin Working
          /\ Waiters(s) \subseteq WaitingNodes \ {n}
      BY <1>1, <1>3, <3>2 DEF IInv, SlotInv, Working
    <3>4. TypeOK
      BY DEF IInv
    <3> QED BY <3>1, <3>2, <3>3, <3>4, BeginSlots
  <2> QED BY <2>1, <2>2
<1>6. TypeOK'
  BY <1>1, <1>5 DEF IInv, TypeOK, SlotInv, SemaphoreOK, orchVars, graphVars,
                    envVars
<1>7. TaskInv'
  BY <1>1, <1>2, <1>5, NodeTaskInv
<1> QED BY <1>5, <1>6, <1>7 DEF IInv

(* A granted task resumes.                                                 *)
LEMMA ResumeInv ==
  ASSUME IInv, NEW n \in Nodes, NodeResume(n)
  PROVE  IInv'
<1>1. /\ phase[n] = "waiting" /\ n \in sem.granted /\ n \notin cancelled
      /\ Live(n)
      /\ UNCHANGED <<orchVars, attempt, cancelled, graphVars, envVars>>
  BY DEF NodeResume, Live, Over
<1>2. ~Gathering
  BY <1>1 DEF IInv, TaskInv
<1> DEFINE s == ResumeWaiter(sem, n)
<1>3. Begin(n, s)
  BY DEF NodeResume
<1>4. /\ SemaphoreOK(s, Nodes, MaxConcurrency)
      /\ s.held = sem.held \cup {n} /\ Waiters(s) = Waiters(sem) \ {n}
  BY <1>1, ResumeWaiterOK, LimitIsNat DEF IInv, SlotInv
<1> HIDE DEF s
<1>5. /\ s.held = WorkingAuto \cup {n} /\ phase[n] \notin Working
      /\ Waiters(s) \subseteq WaitingNodes \ {n} /\ TypeOK
  BY <1>1, <1>4 DEF IInv, SlotInv, Working
<1>6. /\ SlotInv' /\ phase' \in [Nodes -> Phases]
      /\ phase'[n] \in {"executing", "crashed"}
      /\ \A m \in Nodes \ {n} : phase'[m] = phase[m]
  BY <1>3, <1>4, <1>5, BeginSlots
<1>7. TypeOK'
  BY <1>1, <1>6 DEF IInv, TypeOK, SlotInv, SemaphoreOK, orchVars, graphVars,
                    envVars
<1>8. TaskInv'
  BY <1>1, <1>2, <1>6, NodeTaskInv
<1> QED BY <1>6, <1>7, <1>8 DEF IInv

(* A task that finishes after executing.                                   *)
LEMMA FinishTaskInv ==
  ASSUME IInv, NEW n \in Nodes, phase[n] \in Working, Finish(n),
         UNCHANGED orchVars
  PROVE  SlotInv' /\ TaskInv' /\ phase' \in [Nodes -> Phases]
<1>1. /\ SlotInv' /\ phase' \in [Nodes -> Phases] /\ phase'[n] = "finished"
      /\ \A m \in Nodes \ {n} : phase'[m] = phase[m]
      /\ sem.queue = << >> => sem'.queue = << >>
  BY FinishSlots
<1>2. Live(n) /\ cancelled' = cancelled \ {n}
  BY DEF Live, Over, Working, Finish
<1>3. Gathering => sem.queue = << >>
  BY DEF IInv, TaskInv
<1> QED BY <1>1, <1>2, <1>3, NodeTaskInv

(* _handle_node_failure.                                                   *)
LEMMA FailureInv ==
  ASSUME IInv, NEW n \in Nodes, phase[n] \in Working, HandleFailure(n)
  PROVE  IInv'
<1>1. SlotInv' /\ TaskInv' /\ phase' \in [Nodes -> Phases]
  BY FinishTaskInv DEF HandleFailure
<1>2. CutOffBy(n) \subseteq Nodes
  BY DEF CutOffBy
<1>3. TypeOK'
  BY <1>1, <1>2 DEF HandleFailure, Finish, IInv, TypeOK, SlotInv, SemaphoreOK,
                    Settled, orchVars, envVars
<1> QED BY <1>1, <1>3 DEF IInv

(* A node completes.                                                       *)
LEMMA SucceedInv ==
  ASSUME IInv, NEW n \in Nodes, NodeSucceed(n)
  PROVE  IInv'
<1>1. SlotInv' /\ TaskInv' /\ phase' \in [Nodes -> Phases]
  BY FinishTaskInv DEF NodeSucceed, Working
<1>2. TypeOK'
  BY <1>1 DEF NodeSucceed, Finish, IInv, TypeOK, SlotInv, SemaphoreOK, Settled,
              orchVars, envVars
<1> QED BY <1>1, <1>2 DEF IInv

(* A task moves between executing and backing off, keeping its slot.       *)
LEMMA RetryInv ==
  ASSUME IInv, NEW n \in Nodes,
         NodeRetry(n) \/ (NodeWake(n) /\ ~cancelEvent)
  PROVE  IInv'
<1>1. /\ phase[n] \in Working /\ Live(n) /\ sem' = sem
      /\ UNCHANGED <<orchVars, graphVars, envVars>>
      /\ cancelled' = cancelled \ {n} \/ cancelled' = cancelled
      /\ n \notin cancelled'
  BY DEF NodeRetry, NodeWake, Working, Live, Over
<1>2. /\ phase' \in [Nodes -> Phases] /\ phase'[n] \in Working
      /\ \A m \in Nodes \ {n} : phase'[m] = phase[m]
  BY DEF NodeRetry, NodeWake, Working, IInv, TypeOK, Phases
<1>3. WorkingAuto' = WorkingAuto /\ WaitingNodes' = WaitingNodes
  BY <1>1, <1>2 DEF WorkingAuto, WaitingNodes, Working
<1>4. SlotInv'
  BY <1>1, <1>3 DEF IInv, SlotInv
<1>5. attempt' \in [Nodes -> Nat]
  BY DEF NodeRetry, NodeWake, IInv, TypeOK
<1>6. TypeOK'
  BY <1>1, <1>2, <1>4, <1>5 DEF IInv, TypeOK, orchVars, graphVars, envVars
<1>7. TaskInv'
  <2>1. Gathering => sem'.queue = << >>
    BY <1>1 DEF IInv, TaskInv
  <2>2. phase'[n] # "none" /\ phase'[n] \notin {"created", "waiting"}
    BY <1>2 DEF Working
  <2> QED BY <1>1, <1>2, <2>1, <2>2, NodeTaskInv
<1> QED BY <1>4, <1>6, <1>7 DEF IInv

(* A cancelled task unwinds and gives back whatever slot it has.           *)
LEMMA UnwindInv ==
  ASSUME IInv, NEW n \in Nodes, NodeUnwind(n)
  PROVE  IInv'
<1>1. /\ n \in cancelled /\ Live(n) /\ Gathering /\ sem.queue = << >>
      /\ UNCHANGED orchVars /\ cancelled' = cancelled \ {n}
  BY DEF NodeUnwind, IInv, TaskInv
<1>2. /\ phase' \in [Nodes -> Phases] /\ phase'[n] = "finished"
      /\ \A m \in Nodes \ {n} : phase'[m] = phase[m]
  BY DEF NodeUnwind, IInv, TypeOK, Phases
<1>3. WorkingAuto' = WorkingAuto \ {n} /\ WaitingNodes' = WaitingNodes \ {n}
  BY <1>2 DEF WorkingAuto, WaitingNodes, Working
<1>4. SemaphoreOK(sem, Nodes, MaxConcurrency)
  BY DEF IInv, SlotInv
<1>5. /\ SemaphoreOK(sem', Nodes, MaxConcurrency) /\ sem'.queue = << >>
      /\ sem'.held = sem.held \ {n} /\ Waiters(sem') \subseteq WaitingNodes \ {n}
  <2>1. CASE n \in sem.held
    <3>1. sem' = ReleaseSlot(sem, n)
      BY <2>1 DEF NodeUnwind
    <3>2. n \notin WaitingNodes
      BY <2>1 DEF IInv, SlotInv, WorkingAuto, WaitingNodes, Working
    <3> QED BY <1>1, <1>4, <2>1, <3>1, <3>2, ReleaseSlotOK, LimitIsNat
            DEF IInv, SlotInv
  <2>2. CASE n \notin sem.held /\ n \in sem.granted
    <3>1. sem' = ForfeitSlot(sem, n)
      BY <2>2 DEF NodeUnwind
    <3>2. /\ SemaphoreOK(sem', Nodes, MaxConcurrency) /\ sem'.queue = << >>
          /\ sem'.held = sem.held /\ Waiters(sem') = Waiters(sem) \ {n}
      BY <1>1, <1>4, <2>2, <3>1, ForfeitSlotOK, LimitIsNat
    <3> QED BY <2>2, <3>2 DEF IInv, SlotInv
  <2>3. CASE n \notin sem.held /\ n \notin sem.granted
    <3>1. sem' = sem
      BY <2>3 DEF NodeUnwind
    <3>2. n \notin Waiters(sem)
      BY <1>1, <2>3 DEF Waiters
    <3> QED BY <1>1, <1>4, <2>3, <3>1, <3>2 DEF IInv, SlotInv
  <2> QED BY <2>1, <2>2, <2>3
<1>6. SlotInv'
  BY <1>3, <1>5 DEF IInv, SlotInv
<1>7. TypeOK'
  BY <1>1, <1>2, <1>5 DEF NodeUnwind, IInv, TypeOK, SemaphoreOK, Settled,
                          orchVars, envVars
<1>8. TaskInv'
  BY <1>1, <1>2, <1>5, NodeTaskInv
<1> QED BY <1>6, <1>7, <1>8 DEF IInv

(* What the environment does.                                              *)
LEMMA DisruptInv ==
  ASSUME IInv, Disrupt
  PROVE  IInv'
<1>1. SlotInv'
  BY DEF IInv, SlotInv, WorkingAuto, WaitingNodes, Disrupt, SetCancel,
         DeadlinePasses, CloseStream, taskVars
<1>2. TypeOK'
  BY DEF IInv, TypeOK, OrchStates, Disrupt, SetCancel, DeadlinePasses,
         CloseStream, taskVars, orchVars, graphVars
<1>3. TaskInv'
  BY DEF IInv, TaskInv, Live, Over, Gathering, Disrupt, SetCancel,
         DeadlinePasses, CloseStream, taskVars, orchVars
<1> QED BY <1>1, <1>2, <1>3 DEF IInv
-----------------------------------------------------------------------------
(* Every step keeps the inductive invariant.                               *)
LEMMA NextInv == IInv /\ [Next]_vars => IInv'
<1> SUFFICES ASSUME IInv, [Next]_vars PROVE IInv'
  OBVIOUS
<1>1. CASE OrchStep
  BY <1>1, QuietOrchInv, AbandonInv, PassInv DEF OrchStep, OrchRound
<1>2. ASSUME NEW n \in Nodes, NodeStep(n) PROVE IInv'
  <2>1. CASE NodeFail(n)
    BY <2>1, FailureInv DEF NodeFail, Working
  <2>2. CASE NodeWake(n) /\ cancelEvent
    BY <2>2, FailureInv DEF NodeWake, Working
  <2> QED BY <1>2, <2>1, <2>2, EnterInv, ResumeInv, SucceedInv, RetryInv,
             UnwindInv DEF NodeStep
<1>3. CASE Disrupt
  BY <1>3, DisruptInv
<1>4. CASE Terminated \/ UNCHANGED vars
  BY <1>4 DEF Terminated, vars, orchVars, taskVars, graphVars, envVars, IInv,
              TypeOK, SlotInv, WorkingAuto, WaitingNodes, TaskInv, Live,
              Gathering
<1> QED BY <1>1, <1>2, <1>3, <1>4 DEF Next

(* The inductive invariant holds in every reachable state.                 *)
THEOREM Invariance == Spec => []IInv
BY InitInv, NextInv, PTL DEF Spec

(* The engine's state is well-typed; in particular the semaphore never     *)
(* hands out a slot it does not have.                                      *)
THEOREM TypeCorrect == Spec => []TypeOK
<1>1. IInv => TypeOK
  BY DEF IInv
<1> QED BY <1>1, Invariance, PTL

(* No path of _run_node loses or duplicates a slot, for every blueprint,   *)
(* every concurrency limit and every moment of cancellation.               *)
THEOREM NoSlotLost == Spec => []SlotsAccounted
<1>1. IInv => SlotsAccounted
  BY DEF IInv, SlotInv, WorkingAuto, SlotsAccounted
<1> QED BY <1>1, Invariance, PTL

(* At most max_concurrency nodes other than human interventions execute    *)
(* at a time.                                                              *)
THEOREM Bounded == Spec => []ConcurrencyBound
<1>1. ASSUME IInv PROVE ConcurrencyBound
  <2>1. /\ SemaphoreOK(sem, Nodes, MaxConcurrency)
        /\ sem.held = {n \in Nodes \ HumanNodes : phase[n] \in Working}
    BY <1>1 DEF IInv, SlotInv, WorkingAuto
  <2>2. /\ sem.free \in Nat /\ Cardinality(sem.granted) \in Nat
        /\ Cardinality(sem.held) \in Nat
    BY <2>1, SemaphoreFinite, LimitIsNat
  <2>3. sem.free + Cardinality(sem.granted) + Cardinality(sem.held)
          = MaxConcurrency
    BY <2>1 DEF SemaphoreOK
  <2> QED BY <2>1, <2>2, <2>3, LimitIsNat DEF ConcurrencyBound
<1> QED BY <1>1, Invariance, PTL
-----------------------------------------------------------------------------
(* Statuses, and what is left when the verdict is out.                     *)

(* What one step of a task may change: its own phase, its own status when  *)
(* it returns, and edges that leave its node.                              *)
LEMMA NodeEffect ==
  ASSUME IInv, NEW n \in Nodes, NodeStep(n)
  PROVE  /\ Live(n)
         /\ \E x \in Phases \ {"none"}, st \in {nodeStatus[n], "completed", "failed"} :
              /\ phase' = [phase EXCEPT ![n] = x]
              /\ nodeStatus' = [nodeStatus EXCEPT ![n] = st]
              /\ x # "finished" => st = nodeStatus[n]
              /\ x = "finished" => st \in {"completed", "failed"} \/ Gathering
         /\ activeEdges' \subseteq activeEdges
         /\ \A e \in activeEdges \ activeEdges' : Source[e] = n
         /\ UNCHANGED <<orchVars, envVars>>
<1>1. /\ nodeStatus \in [Nodes -> Settled \cup {"pending", "running"}]
      /\ phase \in [Nodes -> Phases] /\ activeEdges \subseteq Edges
  BY DEF IInv, TypeOK
<1>2. nodeStatus = [nodeStatus EXCEPT ![n] = nodeStatus[n]]
  BY <1>1
<1>3. CASE NodeEnter(n) \/ NodeResume(n)
  <2>1. phase[n] \in {"created", "waiting"}
    BY <1>3 DEF NodeEnter, NodeResume
  <2>2. \E x \in {"waiting", "executing", "crashed"} : phase' = [phase EXCEPT ![n] = x]
    BY <1>3 DEF NodeEnter, NodeResume, Begin
  <2>3. UNCHANGED <<orchVars, envVars, graphVars>>
    BY <1>3 DEF NodeEnter, NodeResume
  <2> QED
    BY <1>2, <2>1, <2>2, <2>3 DEF Live, Over, Phases, graphVars
<1>4. CASE NodeSucceed(n)
  <2>1. /\ Live(n) /\ phase' = [phase EXCEPT ![n] = "finished"]
        /\ nodeStatus' = [nodeStatus EXCEPT ![n] = "completed"]
        /\ UNCHANGED <<orchVars, envVars>>
    BY <1>4 DEF NodeSucceed, Finish, Live, Over
  <2>2. /\ activeEdges' \subseteq activeEdges
        /\ \A e \in activeEdges \ activeEdges' : Source[e] = n
    BY <1>4 DEF NodeSucceed, Out
  <2> QED
    BY <2>1, <2>2 DEF Phases
<1>5. ASSUME HandleFailure(n), phase[n] \in Working
      PROVE  /\ Live(n) /\ phase' = [phase EXCEPT ![n] = "finished"]
             /\ nodeStatus' = [nodeStatus EXCEPT ![n] = "failed"]
             /\ activeEdges' \subseteq activeEdges
             /\ \A e \in activeEdges \ activeEdges' : Source[e] = n
             /\ UNCHANGED <<orchVars, envVars>>
  BY <1>5 DEF HandleFailure, Finish, Live, Over, Working, Out
<1>6. CASE NodeFail(n) \/ (NodeWake(n) /\ cancelEvent)
  <2>1. HandleFailure(n) /\ phase[n] \in Working
    BY <1>6 DEF NodeFail, NodeWake, Working
  <2> QED
    BY <1>5, <2>1 DEF Phases
<1>7. CASE NodeRetry(n) \/ (NodeWake(n) /\ ~cancelEvent)
  <2>1. /\ Live(n) /\ UNCHANGED <<orchVars, envVars, graphVars>>
        /\ \E x \in {"executing", "backoff"} : phase' = [phase EXCEPT ![n] = x]
    BY <1>7 DEF NodeRetry, NodeWake, Live, Over
  <2> QED
    BY <1>2, <2>1 DEF Phases, graphVars
<1>8. CASE NodeUnwind(n)
  <2>1. Live(n) /\ Gathering
    BY <1>8 DEF NodeUnwind, IInv, TaskInv
  <2>2. /\ phase' = [phase EXCEPT ![n] = "finished"]
        /\ \E st \in {nodeStatus[n], "failed"} : nodeStatus' = [nodeStatus EXCEPT ![n] = st]
        /\ UNCHANGED <<orchVars, activeEdges, envVars>>
    BY <1>2, <1>8 DEF NodeUnwind
  <2> QED
    BY <2>1, <2>2 DEF Phases
<1> QED
  BY <1>3, <1>4, <1>6, <1>7, <1>8 DEF NodeStep

\* A node has the status "pending" until it is launched or skipped and
\* "running" until its task returns; what has returned and was collected is
\* settled.
StatusInv ==
  /\ \A n \in pending : nodeStatus[n] = "pending"
  /\ \A n \in Nodes : Live(n) => nodeStatus[n] = "running"
  /\ \A n \in running : phase[n] = "crashed" => nodeStatus[n] = "running"
  /\ \A n \in completed : nodeStatus[n] \in Settled
  /\ orch \in {"new", "top", "wait"} =>
       /\ \A n \in running : phase[n] = "finished" => nodeStatus[n] \in Settled
       /\ \A n \in Nodes : n \in pending \cup running \cup completed

(* A task writes its own status, and only before it returns.               *)
LEMMA NodeStatus ==
  ASSUME IInv, StatusInv, NEW n \in Nodes, NodeStep(n)
  PROVE  /\ StatusInv'
         /\ \A m \in Nodes : nodeStatus[m] \in Settled => nodeStatus'[m] = nodeStatus[m]
<1>1. PICK x \in Phases \ {"none"}, st \in {nodeStatus[n], "completed", "failed"} :
        /\ phase' = [phase EXCEPT ![n] = x]
        /\ nodeStatus' = [nodeStatus EXCEPT ![n] = st]
        /\ x # "finished" => st = nodeStatus[n]
        /\ x = "finished" => st \in {"completed", "failed"} \/ Gathering
  BY NodeEffect
<1>2. Live(n) /\ UNCHANGED <<orch, completed, pending, running>>
  BY NodeEffect DEF orchVars
<1>3. /\ nodeStatus \in [Nodes -> Settled \cup {"pending", "running"}]
      /\ phase \in [Nodes -> Phases] /\ pending \subseteq Nodes
      /\ running \subseteq Nodes /\ completed \subseteq Nodes
  BY DEF IInv, TypeOK
<1>4. nodeStatus[n] = "running" /\ n \notin pending /\ n \notin completed
  BY <1>2 DEF StatusInv, Settled, Live, IInv, TaskInv
<1>5. \A m \in Nodes : m # n => phase'[m] = phase[m] /\ nodeStatus'[m] = nodeStatus[m]
  BY <1>1
<1>6. phase'[n] = x /\ nodeStatus'[n] = st
  BY <1>1, <1>3
<1>7. Gathering => orch \notin {"new", "top", "wait"}
  BY DEF Gathering
<1>8. StatusInv'
  BY <1>1, <1>2, <1>3, <1>4, <1>5, <1>6, <1>7 DEF StatusInv, Live, Over, Settled
<1> QED
  BY <1>4, <1>5, <1>8 DEF Settled

\* What a pass of the loop skips, launches and gives up on.
Skips == {n \in pending : ShouldSkip(n)}
Launches == {n \in pending \ Skips : CanExecute(n)}
GivesUp == IF running \cup Launches = {} /\ Skips = {} THEN pending \ Launches ELSE {}

(* What a pass of the loop does to each node.                              *)
LEMMA PassEffect ==
  ASSUME IInv, InLoop, OrchPass
  PROVE  /\ Skips \subseteq pending /\ Launches \subseteq pending \ Skips
         /\ GivesUp # {} => running = {} /\ Skips = {} /\ Launches = {} /\ GivesUp = pending
         /\ \A n \in Nodes :
              nodeStatus'[n] = IF n \in Skips THEN "skipped"
                               ELSE IF n \in Launches THEN "running"
                               ELSE IF n \in GivesUp THEN "failed" ELSE nodeStatus[n]
         /\ activeEdges' = activeEdges \ {e \in Edges : Source[e] \in Skips}
         /\ completed' = completed \cup Skips
         /\ pending' = pending \ (Skips \cup Launches \cup GivesUp)
         /\ running' = running \cup Launches
         /\ \A n \in Nodes : phase'[n] = IF n \in Launches THEN "created" ELSE phase[n]
         /\ orch' = "verdict" => running' = {} /\ pending' = {}
         /\ orch' # "verdict" => GivesUp = {}
         /\ orch = "top" /\ orch' \in {"wait", "top", "verdict"}
         /\ UNCHANGED <<verdict, tolerated, announced, envVars>>
<1> DEFINE left == pending \ (Skips \cup Launches)
           idle == running \cup Launches = {}
<1>1. Skips \subseteq pending /\ Launches \subseteq pending \ Skips
  BY DEF Skips, Launches
<1>2. GivesUp = IF idle /\ Skips = {} THEN left ELSE {}
  BY DEF GivesUp
<1>3. /\ nodeStatus' = [n \in Nodes |-> CASE n \in Skips    -> "skipped"
                                          [] n \in Launches -> "running"
                                          [] n \in GivesUp  -> "failed"
                                          [] OTHER          -> nodeStatus[n]]
      /\ activeEdges' = activeEdges \ {e \in Edges : Source[e] \in Skips}
      /\ completed' = completed \cup Skips
      /\ pending' = left \ GivesUp
      /\ running' = running \cup Launches
      /\ phase' = [n \in Nodes |-> IF n \in Launches THEN "created" ELSE phase[n]]
      /\ orch' = IF ~idle THEN "wait"
                 ELSE IF Skips # {} /\ left # {} THEN "top" ELSE "verdict"
      /\ UNCHANGED <<verdict, tolerated, announced, envVars>>
  BY <1>2 DEF OrchPass, Skips, Launches
<1>4. \A n \in Nodes :
        nodeStatus'[n] = IF n \in Skips THEN "skipped"
                         ELSE IF n \in Launches THEN "running"
                         ELSE IF n \in GivesUp THEN "failed" ELSE nodeStatus[n]
  <2>1. Launches \cap Skips = {} /\ GivesUp \cap (Skips \cup Launches) = {}
    BY <1>1, <1>2
  <2> QED BY <1>3, <2>1
<1>5. GivesUp # {} => running = {} /\ Skips = {} /\ Launches = {} /\ GivesUp = pending
  BY <1>2
<1>6. pending' = pending \ (Skips \cup Launches \cup GivesUp)
  BY <1>3
<1>7. \A n \in Nodes : phase'[n] = IF n \in Launches THEN "created" ELSE phase[n]
  BY <1>3
<1>8. /\ orch' = "verdict" => running' = {} /\ pending' = {}
      /\ orch' # "verdict" => GivesUp = {}
      /\ orch' \in {"wait", "top", "verdict"}
  BY <1>2, <1>3
<1>9. orch = "top"
  BY DEF InLoop
<1> QED BY <1>1, <1>3, <1>4, <1>5, <1>6, <1>7, <1>8, <1>9

(* The orchestrator writes the status of nodes it has not launched and of  *)
(* tasks that raised, and collects a task after it has returned.           *)
LEMMA OrchStatus ==
  ASSUME IInv, StatusInv, OrchStep
  PROVE  /\ StatusInv'
         /\ \A m \in Nodes : nodeStatus[m] \in Settled => nodeStatus'[m] = nodeStatus[m]
<1>1. /\ nodeStatus \in [Nodes -> Settled \cup {"pending", "running"}]
      /\ phase \in [Nodes -> Phases] /\ pending \subseteq Nodes
      /\ running \subseteq Nodes /\ completed \subseteq Nodes
      /\ \A n \in pending : phase[n] = "none"
      /\ \A n \in Nodes : Live(n) /\ orch # "done" => n \in running
      /\ \A n \in running : phase[n] # "none"
  BY DEF IInv, TypeOK, TaskInv
<1>2. CASE OrchStart \/ OrchLeave \/ OrchGathered \/ OrchVerdict \/ OrchAborted
  BY <1>1, <1>2 DEF OrchStart, OrchLeave, OrchGathered, OrchVerdict, OrchAborted,
       taskVars, graphVars, StatusInv, Live, Over, Gathering
<1>3. CASE OrchTimeout \/ OrchCancel
  <2>1. PICK gather \in {"gather_timeout", "gather_cancel"} : Abandon(gather)
    BY <1>3 DEF OrchTimeout, OrchCancel
  <2> QED
    BY <1>1, <2>1 DEF Abandon, Mark, StatusInv, Live, Over, Settled
<1>4. CASE InLoop /\ OrchStop
  BY <1>1, <1>4 DEF InLoop, OrchStop, Mark, taskVars, StatusInv, Live, Over, Settled
<1>5. CASE InLoop /\ OrchPass
  <2>1. /\ \A n \in Nodes :
             nodeStatus'[n] = IF n \in Skips THEN "skipped"
                              ELSE IF n \in Launches THEN "running"
                              ELSE IF n \in GivesUp THEN "failed" ELSE nodeStatus[n]
        /\ Skips \subseteq pending /\ Launches \subseteq pending \ Skips
        /\ completed' = completed \cup Skips
        /\ pending' = pending \ (Skips \cup Launches \cup GivesUp)
        /\ running' = running \cup Launches
        /\ \A n \in Nodes : phase'[n] = IF n \in Launches THEN "created" ELSE phase[n]
        /\ GivesUp # {} => GivesUp = pending /\ Launches = {}
        /\ orch' # "verdict" => GivesUp = {}
        /\ orch = "top" /\ orch' \in {"wait", "top", "verdict"}
    BY <1>5, PassEffect
  <2>2. \A n \in pending : nodeStatus[n] = "pending" /\ n \notin completed /\ ~Live(n)
    BY <1>1 DEF StatusInv, Settled, Live, Over
  <2> QED
    BY <1>1, <2>1, <2>2 DEF StatusInv, Live, Over, Settled
<1>6. CASE OrchReap
  <2> DEFINE done == {n \in running : phase[n] \in Over}
             raised == {n \in done : phase[n] = "crashed"}
             status == Mark(raised, "failed")
             stop == done # {} /\ StopFailure(status)
  <2>1. /\ orch = "wait" /\ orch' = "top" /\ phase' = phase
        /\ running' = running \ done
        /\ nodeStatus' = [n \in Nodes |->
                            IF stop /\ n \in pending THEN "skipped" ELSE status[n]]
        /\ completed' = completed \cup done \cup (IF stop THEN pending ELSE {})
        /\ pending' = IF stop THEN {} ELSE pending
    BY <1>6 DEF OrchReap, taskVars
  <2>2. \A n \in Nodes : status[n] = IF n \in raised THEN "failed" ELSE nodeStatus[n]
    BY DEF Mark
  <2>3. /\ \A n \in done \ raised : nodeStatus[n] \in Settled
        /\ \A n \in raised : nodeStatus[n] = "running"
    BY <2>1 DEF StatusInv, Over
  <2>4. \A n \in done : ~Live(n)
    BY DEF Live
  <2> HIDE DEF stop, status, raised
  <2>5. \A n \in Nodes : nodeStatus'[n] = IF stop /\ n \in pending THEN "skipped"
                                         ELSE IF n \in raised THEN "failed"
                                         ELSE nodeStatus[n]
    BY <2>1, <2>2
  <2>6. \A n \in Nodes : nodeStatus[n] \in Settled => nodeStatus'[n] = nodeStatus[n]
    BY <2>3, <2>5 DEF StatusInv, Settled
  <2>7. raised \subseteq done
    BY DEF raised
  <2>8. /\ \A n \in pending' : nodeStatus'[n] = "pending"
        /\ \A n \in running' : phase'[n] = "crashed" => nodeStatus'[n] = "running"
        /\ \A n \in running' : phase'[n] = "finished" => nodeStatus'[n] \in Settled
    BY <1>1, <2>1, <2>5, <2>7 DEF StatusInv, Over
  <2>9. \A n \in Nodes : Live(n)' => nodeStatus'[n] = "running"
    BY <1>1, <2>1, <2>4, <2>5, <2>7 DEF StatusInv, Live, Over
  <2>10. \A n \in completed' : nodeStatus'[n] \in Settled
    <3> SUFFICES ASSUME NEW n \in completed' PROVE nodeStatus'[n] \in Settled
      OBVIOUS
    <3>1. n \in completed \/ n \in done \/ (stop /\ n \in pending)
      BY <2>1
    <3>2. n \in Nodes
      BY <1>1, <3>1
    <3> QED
      BY <2>3, <2>5, <2>6, <3>1, <3>2 DEF StatusInv, Settled
  <2>11. \A n \in Nodes : n \in pending' \cup running' \cup completed'
    BY <2>1 DEF StatusInv
  <2> QED
    BY <2>6, <2>8, <2>9, <2>10, <2>11 DEF StatusInv
<1> QED
  BY <1>2, <1>3, <1>4, <1>5, <1>6 DEF OrchStep, OrchRound

(* Nothing else changes a status.                                          *)
LEMMA OtherStatus ==
  ASSUME IInv, StatusInv, Disrupt \/ Terminated \/ UNCHANGED vars
  PROVE  StatusInv' /\ nodeStatus' = nodeStatus
<1>1. /\ UNCHANGED <<nodeStatus, phase, completed, pending, running>>
      /\ orch' \in {orch, "done"}
  BY DEF Disrupt, SetCancel, DeadlinePasses, CloseStream, Terminated, vars, orchVars,
         taskVars, graphVars
<1> QED
  BY <1>1 DEF StatusInv, Live

\* What statuses say holds in every reachable state.
LEMMA Statuses == Spec => []StatusInv
<1>1. Init => StatusInv
  BY DEF Init, StatusInv, Live, Over
<1>2. IInv /\ StatusInv /\ [Next]_vars => StatusInv'
  BY NodeStatus, OrchStatus, OtherStatus DEF Next
<1> QED
  BY <1>1, <1>2, Invariance, PTL DEF Spec

(* A node's final status is final: no late task, skip or cancellation      *)
(* overwrites it, in no blueprint and however the run is disrupted.        *)
THEOREM StatusFinal == Spec => SettledForever
<1>1. IInv /\ StatusInv /\ [Next]_vars
        => [\A n \in Nodes : nodeStatus[n] \in Settled => nodeStatus'[n] = nodeStatus[n]]_vars
  BY NodeStatus, OrchStatus, OtherStatus DEF Next
<1> QED
  BY <1>1, Statuses, Invariance, PTL DEF Spec, SettledForever

\* Every failure was tolerated, and none of them cost the run its result.
Sound ==
  /\ \A n \in Nodes : nodeStatus[n] \in Settled
  /\ \A n \in Nodes : nodeStatus[n] = "failed" => n \in tolerated
  /\ (\E n \in Nodes : nodeStatus[n] = "failed")
       => \E n \in EndNodes : nodeStatus[n] = "completed"

\* The verdict is reached with nothing running and every node settled, unless
\* the run was cancelled, and closing the stream keeps it from being reached.
VerdictInv ==
  /\ orch \in {"top", "verdict"} => ~closed
  /\ orch = "verdict" => running = {} /\ (cancelEvent \/ \A n \in Nodes : nodeStatus[n] \in Settled)
  /\ orch = "done" /\ ~closed => \A n \in Nodes : ~Live(n)
  /\ verdict # "none" => orch = "done"
  /\ verdict = "completed" => ~closed /\ (cancelEvent \/ Sound)
  /\ orch = "gather_cancel" => cancelEvent

(* The verdict is not touched by what tasks and clients still do.          *)
LEMMA VerdictStep ==
  ASSUME IInv, StatusInv, StatusInv', VerdictInv, [Next]_vars
  PROVE  VerdictInv'
<1>1. CASE UNCHANGED <<orch, closed, running, cancelEvent, nodeStatus, phase, verdict, tolerated>>
  BY <1>1 DEF VerdictInv, Live, Sound
<1>2. ASSUME NEW n \in Nodes, NodeStep(n) PROVE VerdictInv'
  <2>1. Live(n) /\ Yielded /\ UNCHANGED <<orchVars, envVars>>
    BY <1>2, NodeEffect DEF NodeStep, NodeEnter, NodeResume, NodeSucceed, NodeFail,
                            NodeRetry, NodeWake, NodeUnwind
  <2>2. orch # "verdict" /\ (orch = "done" => closed)
    BY <2>1 DEF Yielded, Gathering, VerdictInv
  <2> QED
    BY <2>1, <2>2 DEF VerdictInv, orchVars, envVars
<1>3. CASE OrchStart \/ OrchAborted \/ OrchGathered
  BY <1>3 DEF OrchStart, OrchAborted, OrchGathered, Gathering, VerdictInv, IInv, TaskInv,
              Live, taskVars, graphVars, envVars
<1>4. CASE OrchTimeout \/ OrchCancel
  BY <1>4 DEF OrchTimeout, OrchCancel, InLoop, Abandon, VerdictInv, envVars
<1>5. CASE InLoop /\ OrchStop
  BY <1>5 DEF InLoop, OrchStop, VerdictInv, envVars
<1>6. CASE InLoop /\ OrchPass
  <2>1. /\ orch = "top" /\ orch' \in {"wait", "top", "verdict"}
        /\ orch' = "verdict" => running' = {} /\ pending' = {}
        /\ completed' = completed \cup Skips
        /\ pending' = pending \ (Skips \cup Launches \cup GivesUp)
        /\ running' = running \cup Launches
        /\ Skips \subseteq pending /\ pending \subseteq Nodes
        /\ \A n \in Nodes :
             nodeStatus'[n] = IF n \in Skips THEN "skipped"
                              ELSE IF n \in Launches THEN "running"
                              ELSE IF n \in GivesUp THEN "failed" ELSE nodeStatus[n]
        /\ UNCHANGED <<verdict, envVars>>
    BY <1>6, PassEffect DEF IInv, TypeOK
  <2>2. orch' = "verdict" => \A n \in Nodes : nodeStatus'[n] \in Settled
    <3> SUFFICES ASSUME orch' = "verdict", NEW n \in Nodes PROVE nodeStatus'[n] \in Settled
      OBVIOUS
    <3>1. n \notin Launches /\ n \notin running
      BY <2>1
    <3>2. n \in pending \/ n \in completed
      BY <2>1, <3>1 DEF StatusInv
    <3>3. n \in pending => n \in Skips \cup GivesUp
      BY <2>1, <3>1
    <3> QED
      BY <2>1, <3>1, <3>2, <3>3 DEF StatusInv, Settled
  <2> QED
    BY <2>1, <2>2 DEF VerdictInv, envVars
<1>7. CASE OrchLeave
  <2>1. \A n \in Nodes : n \in completed
    BY <1>7 DEF OrchLeave, StatusInv
  <2> QED
    BY <1>7, <2>1 DEF OrchLeave, VerdictInv, StatusInv, taskVars, graphVars, envVars
<1>8. CASE OrchReap
  BY <1>8 DEF OrchReap, VerdictInv, envVars
<1>9. CASE OrchVerdict
  <2>1. /\ orch = "verdict" /\ orch' = "done" /\ ~closed
        /\ UNCHANGED <<running, nodeStatus, phase, tolerated, cancelEvent, closed>>
    BY <1>9 DEF OrchVerdict, VerdictInv, taskVars, graphVars, envVars
  <2>2. \A n \in Nodes : ~Live(n)
    BY <2>1 DEF VerdictInv, IInv, TaskInv
  <2>3. verdict' = "completed" => cancelEvent \/ Sound
    BY <1>9, <2>1 DEF OrchVerdict, VerdictInv, Sound
  <2> QED
    BY <2>1, <2>2, <2>3 DEF VerdictInv, Sound, Live
<1>10. CASE Disrupt
  BY <1>10 DEF Disrupt, SetCancel, DeadlinePasses, CloseStream, Yielded, Gathering, VerdictInv,
               orchVars, taskVars, graphVars, Live, Sound
<1> QED
  BY <1>1, <1>2, <1>3, <1>4, <1>5, <1>6, <1>7, <1>8, <1>9, <1>10
  DEF Next, OrchStep, OrchRound, Terminated, vars, orchVars, taskVars, graphVars, envVars

\* The verdict's invariant holds in every reachable state.
LEMMA Verdict == Spec => []VerdictInv
<1>1. Init => VerdictInv
  BY DEF Init, VerdictInv
<1> QED
  BY <1>1, VerdictStep, Statuses, Invariance, PTL DEF Spec

(* No node task is alive once the run's verdict is out, unless the client  *)
(* closed the stream.                                                      *)
THEOREM NothingOutlivesVerdict == Spec => []QuietAfterVerdict
<1>1. VerdictInv => QuietAfterVerdict
  BY DEF VerdictInv, QuietAfterVerdict
<1> QED BY <1>1, Verdict, PTL

(* A run reported as completed has settled every node, tolerated every     *)
(* failure and, if there was one, still produced an End node's output.     *)
THEOREM CompletedHonestly == Spec => []CompletedIsSound
<1>1. VerdictInv => CompletedIsSound
  BY DEF VerdictInv, CompletedIsSound, Sound
<1> QED BY <1>1, Verdict, PTL

(* Once a STOP_WORKFLOW node has failed, no further node is launched.      *)
THEOREM StopIsFinal == Spec => StopHaltsLaunching
<1>1. ASSUME IInv, [Next]_vars, StopFailed, NEW n \in Nodes, phase[n] = "none"
      PROVE  phase'[n] = "none"
  <2>1. CASE OrchRound
    <3>1. CASE pending = {}
      <4>1. InLoop /\ OrchPass
        BY <2>1, <3>1 DEF OrchRound
      <4>2. n \notin Launches
        BY <3>1 DEF Launches
      <4> QED
        BY <1>1, <4>1, <4>2, PassEffect
    <3>2. CASE pending # {}
      <4>1. StopFailure(nodeStatus)
        BY <1>1 DEF StopFailure, StopFailed
      <4>2. OrchStop
        BY <2>1, <3>2, <4>1 DEF OrchRound
      <4> QED
        BY <1>1, <4>2 DEF OrchStop, taskVars
    <3> QED
      BY <3>1, <3>2
  <2>2. ASSUME NEW m \in Nodes, NodeStep(m) PROVE phase'[n] = "none"
    <3>1. Live(m) /\ \E x : phase' = [phase EXCEPT ![m] = x]
      BY <1>1, <2>2, NodeEffect
    <3>2. m # n
      BY <1>1, <3>1 DEF Live
    <3> QED
      BY <1>1, <3>1, <3>2
  <2>3. CASE UNCHANGED phase
    BY <1>1, <2>3
  <2> QED
    BY <1>1, <2>1, <2>2, <2>3
    DEF Next, OrchStep, OrchStart, OrchTimeout, OrchCancel, Abandon, OrchLeave,
        OrchReap, OrchGathered, OrchVerdict, OrchAborted, Disrupt, SetCancel,
        DeadlinePasses, CloseStream, Terminated, vars, taskVars
<1>2. IInv /\ [Next]_vars
        => [StopFailed => \A n \in Nodes : phase[n] = "none" => phase'[n] = "none"]_vars
  BY <1>1
<1> QED
  BY <1>2, Invariance, PTL DEF Spec, StopHaltsLaunching

(* Among the pending nodes is one all of whose predecessors are not.       *)
LEMMA FirstPending ==
  ASSUME NEW S \in SUBSET Nodes, S # {}
  PROVE  \E n \in S : Preds(n) \cap S = {}
<1> DEFINE T == {i \in 1 .. Len(TopoOrder) : TopoOrder[i] \in S}
<1>1. TopologicallySorted
  BY TopologyAssumption
<1>2. T \subseteq Nat /\ T # {}
  BY <1>1 DEF TopologicallySorted
<1>3. PICK i \in T : \A j \in T : i <= j
  BY <1>2, LeastNat
<1>4. Preds(TopoOrder[i]) \cap S = {}
  <2> SUFFICES ASSUME NEW p \in S, p \in Preds(TopoOrder[i]) PROVE FALSE
    OBVIOUS
  <2>1. PICK j \in 1 .. Len(TopoOrder) : TopoOrder[j] = p
    BY <1>1 DEF TopologicallySorted
  <2>2. i \in 1 .. Len(TopoOrder) /\ Len(TopoOrder) \in Nat
    BY <1>1 DEF TopologicallySorted
  <2>3. TopoOrder[j] \in Preds(TopoOrder[i])
    BY <2>1
  <2>4. j < i
    BY <1>1, <2>2, <2>3 DEF TopologicallySorted
  <2>5. j \in T /\ i \in Nat /\ j \in Nat
    BY <2>1, <2>2
  <2> QED
    BY <1>3, <2>4, <2>5
<1> QED
  BY <1>4

(* So a pass with nothing running always finds something to do.            *)
LEMMA NoneGivenUp ==
  ASSUME IInv, StatusInv, InLoop, OrchPass
  PROVE  GivesUp = {}
<1> SUFFICES ASSUME GivesUp # {} PROVE FALSE
  OBVIOUS
<1>1. /\ running = {} /\ Skips = {} /\ Launches = {} /\ pending # {}
      /\ pending \subseteq Nodes /\ orch = "top"
  BY PassEffect DEF IInv, TypeOK
<1>2. PICK n \in pending : Preds(n) \cap pending = {}
  BY <1>1, FirstPending
<1>3. Preds(n) \subseteq Nodes
  BY BlueprintAssumption DEF ParsedBlueprint, Preds, In
<1>4. Preds(n) \subseteq completed
  BY <1>1, <1>2, <1>3 DEF StatusInv
<1>5. ~ShouldSkip(n)
  BY <1>1 DEF Skips
<1>6. CanExecute(n)
  BY <1>4, <1>5 DEF CanExecute, ShouldSkip
<1> QED
  BY <1>1, <1>6 DEF Launches, Skips

\* Was stopped, cancelled or timed out: what is pending is skipped as it is.
Interrupted == StopFailed \/ cancelEvent \/ deadline

\* What has been launched stays so, with its inputs; what was skipped in an
\* undisturbed run had lost every incoming edge and has cut its own.
PathInv ==
  /\ LaunchedAfterInputs
  /\ \A n \in Nodes : nodeStatus[n] \in {"completed", "failed"} => phase[n] # "none"
  /\ Interrupted \/ \A n \in Nodes : nodeStatus[n] = "skipped" =>
       ShouldSkip(n) /\ Out(n) \cap activeEdges = {}
  /\ orch = "gather_timeout" => deadline
  /\ orch = "done" => cancelEvent \/ deadline \/ closed \/ \A n \in Nodes : nodeStatus[n] \in Settled

(* A disturbance is not undone.                                            *)
LEMMA InterruptedStays ==
  ASSUME IInv, StatusInv, [Next]_vars, Interrupted
  PROVE  Interrupted'
<1>1. \A n \in Nodes : nodeStatus[n] \in Settled => nodeStatus'[n] = nodeStatus[n]
  BY NodeStatus, OrchStatus, OtherStatus DEF Next
<1>2. (cancelEvent => cancelEvent') /\ (deadline => deadline')
  <2>1. ASSUME NEW n \in Nodes, NodeStep(n) PROVE UNCHANGED envVars
    BY <2>1, NodeEffect
  <2> QED
    BY <2>1 DEF Next, OrchStep, OrchStart, OrchTimeout, OrchCancel, Abandon, OrchRound,
       OrchStop, OrchPass, OrchLeave, OrchReap, OrchGathered, OrchVerdict, OrchAborted,
       Disrupt, SetCancel, DeadlinePasses, CloseStream, Terminated, vars, envVars
<1> QED
  BY <1>1, <1>2 DEF Interrupted, StopFailed, Settled
(* The graph facts survive every step that launches nothing, cuts only     *)
(* edges of nodes that have not settled, and skips only after a disturbance. *)
LEMMA PathsKept ==
  ASSUME IInv, StatusInv, PathInv, [Next]_vars,
         \A n \in Nodes : phase'[n] = "none" <=> phase[n] = "none",
         activeEdges' \subseteq activeEdges,
         \A e \in activeEdges \ activeEdges' : nodeStatus[Source[e]] \notin Settled,
         \A n \in Nodes : nodeStatus'[n] \in {"completed", "failed"} => phase[n] # "none",
         \A n \in Nodes : nodeStatus'[n] = "skipped" => nodeStatus[n] = "skipped" \/ Interrupted'
  PROVE  /\ LaunchedAfterInputs'
         /\ \A n \in Nodes : nodeStatus'[n] \in {"completed", "failed"} => phase'[n] # "none"
         /\ Interrupted' \/ \A n \in Nodes : nodeStatus'[n] = "skipped" =>
              ShouldSkip(n)' /\ Out(n) \cap activeEdges' = {}
<1>1. \A n \in Nodes : nodeStatus[n] \in Settled => nodeStatus'[n] = nodeStatus[n]
  BY NodeStatus, OrchStatus, OtherStatus DEF Next
<1>2. \A n \in Nodes : Preds(n) \subseteq Nodes
  BY BlueprintAssumption DEF ParsedBlueprint, Preds, In
<1>3. LaunchedAfterInputs'
  <2> SUFFICES ASSUME NEW n \in Nodes, phase'[n] # "none"
               PROVE  /\ \A p \in Preds(n) : nodeStatus'[p] \in Settled
                      /\ In(n) # {} => In(n) \cap activeEdges' # {}
    BY DEF LaunchedAfterInputs, Preds, In
  <2>1. /\ \A p \in Preds(n) : nodeStatus[p] \in Settled
        /\ In(n) # {} => In(n) \cap activeEdges # {}
    BY DEF PathInv, LaunchedAfterInputs
  <2>2. \A e \in In(n) : e \in activeEdges => e \in activeEdges'
    BY <2>1 DEF Preds
  <2> QED
    BY <1>1, <1>2, <2>1, <2>2
<1>4. Interrupted => Interrupted'
  BY InterruptedStays
<1> QED
  BY <1>3, <1>4 DEF PathInv, ShouldSkip, In, Out

(* A pass launches a node whose inputs are settled and skips one that has  *)
(* lost them; and it gives nothing up.                                     *)
LEMMA PassPaths ==
  ASSUME IInv, StatusInv, StatusInv', PathInv, [Next]_vars, InLoop, OrchPass
  PROVE  PathInv'
<1>1. /\ Skips \subseteq pending /\ Launches \subseteq pending \ Skips
      /\ \A n \in Nodes :
           nodeStatus'[n] = IF n \in Skips THEN "skipped"
                            ELSE IF n \in Launches THEN "running" ELSE nodeStatus[n]
      /\ activeEdges' = activeEdges \ {e \in Edges : Source[e] \in Skips}
      /\ \A n \in Nodes : phase'[n] = IF n \in Launches THEN "created" ELSE phase[n]
      /\ orch' \in {"wait", "top", "verdict"}
  BY PassEffect, NoneGivenUp
<1>2. /\ pending \subseteq Nodes /\ activeEdges \subseteq Edges
      /\ \A n \in pending : nodeStatus[n] = "pending"
  BY DEF IInv, TypeOK, StatusInv
<1>3. \A n \in Nodes : nodeStatus[n] \in Settled => nodeStatus'[n] = nodeStatus[n]
  BY NodeStatus, OrchStatus, OtherStatus DEF Next
<1>4. \A n \in Nodes : Preds(n) \subseteq Nodes
  BY BlueprintAssumption DEF ParsedBlueprint, Preds, In
<1>5. \A n \in Launches : /\ \A p \in Preds(n) : nodeStatus[p] \in Settled
                          /\ In(n) # {} => In(n) \cap activeEdges # {}
  BY DEF Launches, CanExecute, StatusInv
<1>6. LaunchedAfterInputs'
  <2> SUFFICES ASSUME NEW n \in Nodes, phase'[n] # "none"
               PROVE  /\ \A p \in Preds(n) : nodeStatus'[p] \in Settled
                      /\ In(n) # {} => In(n) \cap activeEdges' # {}
    BY DEF LaunchedAfterInputs, Preds, In
  <2>1. /\ \A p \in Preds(n) : nodeStatus[p] \in Settled
        /\ In(n) # {} => In(n) \cap activeEdges # {}
    BY <1>1, <1>5 DEF PathInv, LaunchedAfterInputs
  <2>2. \A e \in In(n) : Source[e] \notin Skips
    BY <1>1, <1>2, <2>1 DEF Preds, Settled
  <2> QED
    BY <1>1, <1>3, <1>4, <2>1, <2>2
<1>7. \A n \in Nodes : nodeStatus'[n] \in {"completed", "failed"} => phase'[n] # "none"
  BY <1>1 DEF PathInv
<1>8. Interrupted' \/ \A n \in Nodes : nodeStatus'[n] = "skipped" =>
        ShouldSkip(n)' /\ Out(n) \cap activeEdges' = {}
  <2>1. Interrupted => Interrupted'
    BY InterruptedStays
  <2>2. ASSUME ~Interrupted, NEW n \in Nodes, nodeStatus'[n] = "skipped"
        PROVE  In(n) # {} /\ In(n) \cap activeEdges' = {} /\ Out(n) \cap activeEdges' = {}
    <3>1. CASE n \in Skips
      BY <1>1, <1>2, <3>1 DEF Skips, ShouldSkip, Out
    <3>2. CASE n \notin Skips
      <4>1. nodeStatus[n] = "skipped"
        BY <1>1, <2>2, <3>2
      <4> QED
        BY <1>1, <2>2, <4>1 DEF PathInv, ShouldSkip
    <3> QED
      BY <3>1, <3>2
  <2> QED
    BY <2>1, <2>2 DEF ShouldSkip, In, Out
<1> QED
  BY <1>1, <1>6, <1>7, <1>8 DEF PathInv

(* The other steps of the orchestrator, of the tasks and of the clients.   *)
LEMMA PathStep ==
  ASSUME IInv, StatusInv, StatusInv', VerdictInv, PathInv, [Next]_vars
  PROVE  PathInv'
<1>1. /\ \A n \in Nodes : nodeStatus[n] \in Settled => nodeStatus'[n] = nodeStatus[n]
      /\ Interrupted => Interrupted'
  BY NodeStatus, OrchStatus, OtherStatus, InterruptedStays DEF Next
<1>2. ASSUME NEW n \in Nodes, NodeStep(n) PROVE PathInv'
  <2>1. /\ Live(n) /\ activeEdges' \subseteq activeEdges
        /\ \A e \in activeEdges \ activeEdges' : Source[e] = n
        /\ UNCHANGED <<orchVars, envVars>>
    BY <1>2, NodeEffect
  <2>2. PICK x \in Phases \ {"none"}, st \in {nodeStatus[n], "completed", "failed"} :
          /\ phase' = [phase EXCEPT ![n] = x]
          /\ nodeStatus' = [nodeStatus EXCEPT ![n] = st]
    BY <1>2, NodeEffect
  <2>3. nodeStatus[n] = "running" /\ phase[n] # "none"
    BY <2>1 DEF StatusInv, Live
  <2>4. \A m \in Nodes : /\ phase'[m] = IF m = n THEN x ELSE phase[m]
                         /\ nodeStatus'[m] = IF m = n THEN st ELSE nodeStatus[m]
    BY <2>2 DEF IInv, TypeOK
  <2>5. \A m \in Nodes : phase'[m] = "none" <=> phase[m] = "none"
    BY <2>3, <2>4
  <2>6. \A e \in activeEdges \ activeEdges' : nodeStatus[Source[e]] \notin Settled
    BY <2>1, <2>3 DEF Settled
  <2>7. \A m \in Nodes : nodeStatus'[m] \in {"completed", "failed"} => phase[m] # "none"
    BY <2>3, <2>4 DEF PathInv
  <2>8. \A m \in Nodes : nodeStatus'[m] = "skipped" => nodeStatus[m] = "skipped"
    BY <2>3, <2>4
  <2> QED
    BY <1>1, <2>1, <2>5, <2>6, <2>7, <2>8, PathsKept DEF PathInv, orchVars, envVars
<1>3. CASE InLoop /\ OrchPass
  BY <1>3, PassPaths
<1>4. ASSUME UNCHANGED <<activeEdges, phase>>,
             \A n \in Nodes : nodeStatus'[n] \in {"completed", "failed"} => phase[n] # "none",
             \A n \in Nodes : nodeStatus'[n] = "skipped" => nodeStatus[n] = "skipped" \/ Interrupted',
             orch' = "gather_timeout" => deadline',
             orch' = "done" => cancelEvent' \/ deadline' \/ closed'
                                 \/ \A n \in Nodes : nodeStatus'[n] \in Settled
      PROVE  PathInv'
  BY <1>4, PathsKept DEF PathInv
<1>5. CASE OrchTimeout \/ OrchCancel
  <2>1. PICK gather \in {"gather_timeout", "gather_cancel"} :
          Abandon(gather) /\ (gather = "gather_timeout" => deadline)
    BY <1>5 DEF OrchTimeout, OrchCancel
  <2>2. Interrupted' /\ (deadline => deadline')
    BY <1>1, <1>5, <2>1 DEF OrchTimeout, OrchCancel, Interrupted, Abandon, envVars
  <2> QED
    BY <1>4, <2>1, <2>2 DEF Abandon, Mark, PathInv
<1>6. CASE InLoop /\ StopFailure(nodeStatus) /\ OrchStop
  <2>1. Interrupted'
    BY <1>1, <1>6 DEF StopFailure, Interrupted, StopFailed
  <2> QED
    BY <1>4, <1>6, <2>1 DEF InLoop, OrchStop, Mark, PathInv, taskVars
<1>7. CASE OrchReap
  <2> DEFINE done == {n \in running : phase[n] \in Over}
             raised == {n \in done : phase[n] = "crashed"}
             status == Mark(raised, "failed")
             stop == done # {} /\ StopFailure(status)
  <2>1. /\ orch' = "top" /\ UNCHANGED <<activeEdges, phase>>
        /\ nodeStatus' = [n \in Nodes |->
                            IF stop /\ n \in pending THEN "skipped" ELSE status[n]]
    BY <1>7 DEF OrchReap, taskVars
  <2>2. \A n \in Nodes : status[n] = IF n \in raised THEN "failed" ELSE nodeStatus[n]
    BY DEF Mark
  <2>3. stop => StopFailed'
    <3> SUFFICES ASSUME stop PROVE StopFailed'
      OBVIOUS
    <3>1. PICK n \in Nodes : status[n] = "failed" /\ Strategy[n] = "stop_workflow"
      BY DEF StopFailure
    <3> HIDE DEF stop, status, raised
    <3>2. n \in raised => phase[n] = "crashed"
      BY DEF raised
    <3>3. n \notin pending
      BY <2>2, <3>1, <3>2 DEF StatusInv, IInv, TaskInv
    <3> QED
      BY <2>1, <3>1, <3>3 DEF StopFailed
  <2>4. \A n \in raised : phase[n] = "crashed"
    OBVIOUS
  <2> HIDE DEF stop, status, raised
  <2>5. \A n \in Nodes : nodeStatus'[n] = IF stop /\ n \in pending THEN "skipped"
                                         ELSE IF n \in raised THEN "failed"
                                         ELSE nodeStatus[n]
    BY <2>1, <2>2
  <2>6. \A n \in Nodes : nodeStatus'[n] \in {"completed", "failed"} => phase[n] # "none"
    BY <2>4, <2>5 DEF PathInv
  <2>7. \A n \in Nodes : nodeStatus'[n] = "skipped" => nodeStatus[n] = "skipped" \/ Interrupted'
    BY <2>3, <2>5 DEF Interrupted
  <2> QED
    BY <1>4, <2>1, <2>6, <2>7
<1>8. CASE OrchStart \/ OrchLeave \/ OrchGathered \/ OrchVerdict \/ OrchAborted
  BY <1>4, <1>8 DEF OrchStart, OrchLeave, OrchGathered, OrchVerdict, OrchAborted, Gathering,
                    PathInv, VerdictInv, taskVars, graphVars, envVars
<1>9. CASE Disrupt \/ Terminated \/ UNCHANGED vars
  BY <1>4, <1>9 DEF Disrupt, SetCancel, DeadlinePasses, CloseStream, Terminated, PathInv,
                    vars, orchVars, taskVars, graphVars, envVars
<1> QED
  BY <1>2, <1>3, <1>5, <1>6, <1>7, <1>8, <1>9 DEF Next, OrchStep, OrchRound

\* What the orchestrator knows of the graph holds in every reachable state.
LEMMA Paths == Spec => []PathInv
<1>1. Init => PathInv
  BY DEF Init, PathInv, LaunchedAfterInputs
<1> QED
  BY <1>1, PathStep, Statuses, Verdict, Invariance, PTL DEF Spec

(* On an acyclic blueprint the orchestrator never gives up on nodes as     *)
(* deadlocked: only a launched node can fail.                              *)
THEOREM NeverGivesUp == Spec => []NeverStuck
<1>1. PathInv => NeverStuck
  BY DEF PathInv, NeverStuck
<1> QED BY <1>1, Paths, PTL

(* In an undisturbed run exactly the nodes on a live path have run, each   *)
(* after its inputs were final.                                            *)
LEMMA LivePaths == Spec => [](LaunchedAfterInputs /\ LivePathsRun)
<1>1. IInv /\ PathInv => LaunchedAfterInputs /\ LivePathsRun
  <2> SUFFICES ASSUME IInv, PathInv, orch = "done", ~Interrupted, ~closed, NEW n \in Nodes
               PROVE  IF In(n) = {} \/ \E e \in In(n) : Taken(e)
                      THEN nodeStatus[n] \in {"completed", "failed"}
                      ELSE nodeStatus[n] = "skipped"
    BY DEF PathInv, LivePathsRun, Interrupted
  <2>1. \A m \in Nodes : nodeStatus[m] \in Settled
    BY DEF PathInv, Interrupted
  <2>2. \A m \in Nodes : nodeStatus[m] = "skipped" =>
          In(m) # {} /\ In(m) \cap activeEdges = {} /\ Out(m) \cap activeEdges = {}
    BY DEF PathInv, ShouldSkip
  <2>3. CASE nodeStatus[n] = "skipped"
    BY <2>2, <2>3 DEF Taken
  <2>4. CASE nodeStatus[n] # "skipped"
    <3>1. nodeStatus[n] \in {"completed", "failed"}
      BY <2>1, <2>4 DEF Settled
    <3>2. In(n) # {} => In(n) \cap activeEdges # {}
      BY <3>1 DEF PathInv, LaunchedAfterInputs
    <3>3. \A e \in In(n) \cap activeEdges : Taken(e)
      <4> SUFFICES ASSUME NEW e \in In(n), e \in activeEdges PROVE Taken(e)
        OBVIOUS
      <4>1. Source[e] \in Nodes /\ e \in Out(Source[e])
        BY BlueprintAssumption DEF ParsedBlueprint, In, Out
      <4> QED
        BY <2>1, <2>2, <4>1 DEF Taken, Settled
    <3> QED
      BY <3>1, <3>2, <3>3
  <2> QED BY <2>3, <2>4
<1> QED BY <1>1, Paths, Invariance, PTL
(* _branch_cut_off_by is computed by recursion along TopoOrder.  What it   *)
(* returns: pending nodes each of whose incoming edges is inactive or comes *)
(* from n or from another of them.                                         *)
LEMMA CutOffFacts ==
  ASSUME NEW n \in Nodes
  PROVE  \A m \in CutOffBy(n) :
           /\ m \in Nodes /\ nodeStatus[m] = "pending" /\ In(m) # {}
           /\ \A e \in In(m) : \/ e \notin activeEdges \/ Source[e] = n
                               \/ Source[e] \in CutOffBy(n)
<1> DEFINE LosesAll(m, d) ==
             /\ nodeStatus[m] = "pending" /\ In(m) # {}
             /\ \A e \in In(m) : e \notin activeEdges \/ Source[e] \in d
           N == Len(TopoOrder)
           Grow(i, d) == IF LosesAll(TopoOrder[i], d) THEN d \cup {TopoOrder[i]} ELSE d
           IsDead(f, k) == f = [i \in 0 .. k |-> IF i = 0 THEN {n} ELSE Grow(i, f[i-1])]
           dead == CHOOSE f : IsDead(f, N)
<1>1. N \in Nat /\ \A i \in 1 .. N : TopoOrder[i] \in Nodes
  BY TopologyAssumption DEF TopologicallySorted
<1>2. CutOffBy(n) = {m \in Nodes \ {n} : m \in dead[N]}
  BY DEF CutOffBy
<1> HIDE DEF N
<1>3. \A k \in Nat : \E f : IsDead(f, k)
  <2> HIDE DEF Grow
  <2> DEFINE T == {k \in Nat : ~\E f : IsDead(f, k)}
  <2> SUFFICES ASSUME T # {} PROVE FALSE
    BY Zenon
  <2>1. PICK k \in T : \A j \in T : k <= j
    BY LeastNat, Zenon
  <2>2. k \in Nat /\ ~\E f : IsDead(f, k)
    BY Zenon
  <2>3. CASE k = 0
    <3> DEFINE f == [i \in 0 .. 0 |-> {n}]
    <3>1. IsDead(f, 0)
      OBVIOUS
    <3> QED
      BY <2>3, <3>1, Zenon
  <2>4. CASE k # 0
    <3>1. k \in Nat /\ k - 1 \in Nat /\ k - 1 \notin T
      <4> HIDE DEF T
      <4> QED BY <2>1, <2>4, <2>2
    <3>2. PICK f : IsDead(f, k - 1)
      BY <3>1, Zenon
    <3> DEFINE g == [i \in 0 .. k |-> IF i = 0 THEN {n} ELSE Grow(i, f[i-1])]
    <3>3. \A i \in 0 .. k - 1 : g[i] = f[i]
      <4> SUFFICES ASSUME NEW i \in 0 .. k - 1 PROVE g[i] = f[i]
        OBVIOUS
      <4>1. f[i] = [j \in 0 .. k - 1 |-> IF j = 0 THEN {n} ELSE Grow(j, f[j-1])][i]
        BY <3>2, Zenon
      <4>2. f[i] = IF i = 0 THEN {n} ELSE Grow(i, f[i-1])
        BY <4>1
      <4>3. i \in 0 .. k
        BY <3>1
      <4> QED
        BY <4>2, <4>3
    <3>4. \A i \in 0 .. k : i # 0 => g[i-1] = f[i-1]
      <4> HIDE DEF g
      <4> QED BY <3>1, <3>3
    <3>5. g = [i \in 0 .. k |-> IF i = 0 THEN {n} ELSE Grow(i, g[i-1])]
      BY <3>4
    <3>6. IsDead(g, k)
      BY <3>5, Zenon
    <3> QED
      BY <3>6, Zenon
  <2> QED
    BY <2>3, <2>4
<1>4. IsDead(dead, N)
  BY <1>1, <1>3, Zenon
<1>5. \A i \in 0 .. N : dead[i] = IF i = 0 THEN {n} ELSE Grow(i, dead[i-1])
  <2> HIDE DEF dead, Grow
  <2> SUFFICES ASSUME NEW i \in 0 .. N
               PROVE  dead[i] = IF i = 0 THEN {n} ELSE Grow(i, dead[i-1])
    OBVIOUS
  <2>1. dead[i] = [j \in 0 .. N |-> IF j = 0 THEN {n} ELSE Grow(j, dead[j-1])][i]
    BY <1>4, Zenon
  <2> QED
    BY <2>1
<1> HIDE DEF dead
<1> DEFINE Closed(d) == \A m \in d : m = n \/ LosesAll(m, d)
           T == {i \in 0 .. N : ~Closed(dead[i])}
<1>6. T = {}
  <2> SUFFICES ASSUME T # {} PROVE FALSE
    OBVIOUS
  <2> HIDE DEF Closed
  <2>1. T \in SUBSET Nat
    BY <1>1
  <2>2. PICK i \in T : \A j \in T : i <= j
    <3> HIDE DEF T
    <3> QED BY <2>1, LeastNat
  <2>3. i \in 0 .. N /\ ~Closed(dead[i])
    OBVIOUS
  <2>4. i # 0
    BY <1>1, <1>5, <2>3 DEF Closed
  <2>5. i - 1 \in 0 .. N /\ i - 1 \notin T
    BY <1>1, <2>2, <2>3, <2>4
  <2>6. Closed(dead[i-1])
    BY <2>5
  <2>7. dead[i] = Grow(i, dead[i-1])
    BY <1>5, <2>3, <2>4
  <2>8. \A m, d, d2 : LosesAll(m, d) /\ d \subseteq d2 => LosesAll(m, d2)
    OBVIOUS
  <2> HIDE DEF LosesAll
  <2>9. CASE LosesAll(TopoOrder[i], dead[i-1])
    <3>1. dead[i] = dead[i-1] \cup {TopoOrder[i]}
      BY <2>7, <2>9
    <3> QED
      BY <2>3, <2>6, <2>8, <2>9, <3>1 DEF Closed
  <2>20. CASE ~LosesAll(TopoOrder[i], dead[i-1])
    BY <2>3, <2>6, <2>7, <2>20
  <2> QED
    BY <2>9, <2>20
<1>7. Closed(dead[N])
  BY <1>1, <1>6
<1>8. \A m \in CutOffBy(n) : m \in Nodes /\ LosesAll(m, dead[N])
  BY <1>2, <1>7
<1>9. \A m \in Nodes : \A e \in In(m) : Source[e] \in Nodes
  BY BlueprintAssumption DEF ParsedBlueprint, In
<1> QED
  BY <1>2, <1>8, <1>9

\* What the client was told is skipped has no task, is fed only by what it was
\* told as well, and a node with a task is past "pending".
AnnounceInv ==
  /\ \A m \in announced :
       /\ phase[m] = "none" /\ In(m) # {}
       /\ \A e \in In(m) : e \notin activeEdges \/ Source[e] \in announced
  /\ \A m \in Nodes : phase[m] # "none" => nodeStatus[m] # "pending"

(* A pass does not launch what was announced: the edge that would feed it  *)
(* comes from an announced node, which never ran, and so was skipped and   *)
(* has lost that edge.                                                     *)
LEMMA PassAnnounced ==
  ASSUME IInv, StatusInv, PathInv, AnnounceInv, OrchRound, OrchPass
  PROVE  Launches \cap announced = {}
<1> SUFFICES ASSUME NEW m \in Launches, m \in announced PROVE FALSE
  OBVIOUS
<1>1. m \in pending /\ CanExecute(m) /\ m \in Nodes
  BY DEF Launches, IInv, TypeOK
<1>2. ~Interrupted
  <2>1. StopFailed => pending = {}
    <3> SUFFICES ASSUME StopFailed, pending # {} PROVE FALSE
      OBVIOUS
    <3>1. StopFailure(nodeStatus) /\ InLoop
      BY DEF StopFailure, StopFailed, OrchRound
    <3>2. OrchStop
      BY <3>1 DEF OrchRound
    <3>3. phase' = phase
      BY <3>2 DEF OrchStop, taskVars
    <3>4. phase'[m] = "created"
      BY <1>1, <3>1, PassEffect
    <3> QED
      BY <3>3, <3>4 DEF AnnounceInv
  <2> QED
    BY <1>1, <2>1 DEF OrchRound, Interrupted
<1>3. PICK e \in In(m) \cap activeEdges : TRUE
  BY <1>1 DEF CanExecute, AnnounceInv
<1>4. Source[e] \in announced /\ Source[e] \in completed /\ Source[e] \in Nodes
  BY <1>1, BlueprintAssumption
  DEF CanExecute, AnnounceInv, Preds, ParsedBlueprint, In
<1>5. nodeStatus[Source[e]] = "skipped"
  BY <1>4 DEF StatusInv, Settled, PathInv, AnnounceInv
<1> QED
  BY <1>2, <1>3, <1>4, <1>5 DEF PathInv, In, Out

(* The announcement stays true.                                            *)
LEMMA AnnounceStep ==
  ASSUME IInv, StatusInv, PathInv, AnnounceInv, [Next]_vars
  PROVE  AnnounceInv'
<1>1. ASSUME UNCHANGED announced, activeEdges' \subseteq activeEdges,
             \A m \in announced : phase'[m] = "none",
             \A m \in Nodes : phase'[m] # "none" => nodeStatus'[m] # "pending"
      PROVE  AnnounceInv'
  BY <1>1 DEF AnnounceInv, In
<1>2. announced \subseteq Nodes
  BY DEF IInv, TypeOK
<1>3. ASSUME NEW n \in Nodes, NodeStep(n) PROVE AnnounceInv'
  <2>1. Live(n) /\ activeEdges' \subseteq activeEdges
    BY <1>3, NodeEffect
  <2>2. PICK x \in Phases \ {"none"}, st \in {nodeStatus[n], "completed", "failed"} :
          /\ phase' = [phase EXCEPT ![n] = x]
          /\ nodeStatus' = [nodeStatus EXCEPT ![n] = st]
    BY <1>3, NodeEffect
  <2>3. nodeStatus[n] = "running" /\ phase[n] # "none"
    BY <2>1 DEF StatusInv, Live
  <2>4. \A m \in Nodes : /\ phase'[m] = IF m = n THEN x ELSE phase[m]
                         /\ nodeStatus'[m] = IF m = n THEN st ELSE nodeStatus[m]
    BY <2>2 DEF IInv, TypeOK
  <2>5. \A m \in Nodes : phase'[m] # "none" => nodeStatus'[m] # "pending"
    BY <2>3, <2>4 DEF AnnounceInv
  <2>6. \A m \in announced : phase'[m] = "none"
    BY <1>2, <2>3, <2>4 DEF AnnounceInv
  <2>7. CASE UNCHANGED announced
    BY <1>1, <2>1, <2>5, <2>6, <2>7
  <2>8. CASE ~UNCHANGED announced
    <3>1. HandleFailure(n)
      BY <1>3, <2>8 DEF NodeStep, NodeEnter, NodeResume, NodeSucceed, NodeFail, NodeRetry,
                        NodeWake, NodeUnwind, graphVars
    <3>2. /\ announced' = announced \cup CutOffBy(n)
          /\ activeEdges' = activeEdges \ Out(n)
      BY <2>8, <3>1 DEF HandleFailure
    <3>3. \A m \in CutOffBy(n) :
            /\ m \in Nodes /\ nodeStatus[m] = "pending" /\ In(m) # {}
            /\ \A e \in In(m) : \/ e \notin activeEdges \/ Source[e] = n
                                \/ Source[e] \in CutOffBy(n)
      BY CutOffFacts
    <3>4. \A m \in CutOffBy(n) : phase'[m] = "none"
      BY <2>3, <2>4, <3>3 DEF AnnounceInv
    <3> HIDE DEF CutOffBy
    <3> QED
      BY <2>1, <2>5, <2>6, <3>2, <3>3, <3>4 DEF AnnounceInv, In, Out
  <2> QED BY <2>7, <2>8
<1>4. CASE OrchRound /\ OrchPass
  <2>1. InLoop
    BY <1>4 DEF OrchRound
  <2>2. /\ \A n \in Nodes :
             nodeStatus'[n] = IF n \in Skips THEN "skipped"
                              ELSE IF n \in Launches THEN "running"
                              ELSE IF n \in GivesUp THEN "failed" ELSE nodeStatus[n]
        /\ activeEdges' \subseteq activeEdges
        /\ \A n \in Nodes : phase'[n] = IF n \in Launches THEN "created" ELSE phase[n]
        /\ UNCHANGED announced
    BY <1>4, <2>1, PassEffect
  <2>3. Launches \cap announced = {}
    BY <1>4, PassAnnounced
  <2> QED
    BY <1>1, <1>2, <2>2, <2>3 DEF AnnounceInv
<1>5. CASE OrchTimeout \/ OrchCancel \/ (OrchRound /\ OrchStop)
  <2>1. /\ UNCHANGED <<phase, activeEdges, announced>>
        /\ nodeStatus' = Mark(pending, "skipped")
    BY <1>5 DEF OrchTimeout, OrchCancel, Abandon, OrchStop, taskVars
  <2> QED
    BY <1>1, <2>1 DEF Mark, AnnounceInv
<1>6. CASE OrchReap
  <2>1. /\ UNCHANGED <<phase, activeEdges, announced>>
        /\ \A n \in Nodes : nodeStatus'[n] \in {"skipped", "failed", nodeStatus[n]}
    BY <1>6 DEF OrchReap, Mark, taskVars
  <2> QED
    BY <1>1, <2>1 DEF AnnounceInv
<1>7. CASE UNCHANGED <<phase, activeEdges, announced, nodeStatus>>
  BY <1>1, <1>7 DEF AnnounceInv
<1>8. CASE OrchStart \/ OrchLeave \/ OrchGathered \/ OrchVerdict \/ OrchAborted
  BY <1>7, <1>8 DEF OrchStart, OrchLeave, OrchGathered, OrchVerdict, OrchAborted, taskVars,
                    graphVars
<1>9. CASE Disrupt \/ Terminated \/ UNCHANGED vars
  BY <1>7, <1>9 DEF Disrupt, SetCancel, DeadlinePasses, CloseStream, Terminated, vars,
                    taskVars, graphVars
<1>10. OrchRound => OrchStop \/ OrchPass
  BY DEF OrchRound
<1> QED
  BY <1>3, <1>4, <1>5, <1>6, <1>8, <1>9, <1>10 DEF Next, OrchStep

(* Whatever order skips, failures and branch decisions come in, in every   *)
(* blueprint: a node is launched after its inputs are final, one that was  *)
(* announced as skipped never is, and an undisturbed run follows the live  *)
(* paths and no others.                                                    *)
THEOREM PathsFollowed == Spec => []PathsRespected
<1>1. Init => AnnounceInv
  BY DEF Init, AnnounceInv
<1>2. Spec => []AnnounceInv
  BY <1>1, AnnounceStep, Statuses, Paths, Invariance, PTL DEF Spec
<1>3. AnnounceInv => AnnouncedNeverRun
  BY DEF AnnounceInv, AnnouncedNeverRun
<1> QED
  BY <1>2, <1>3, LivePaths, PTL DEF PathsRespected
-----------------------------------------------------------------------------
(* The engine runs a DagRun.                                               *)

\* Only a run that nobody closed gets the result completed or failed.
OutcomeInv == verdict \in {"completed", "failed"} => ~closed

LEMMA Outcomes == Spec => []OutcomeInv
<1>1. Init => OutcomeInv
  BY DEF Init, OutcomeInv
<1>2. ASSUME IInv, VerdictInv, OutcomeInv, [Next]_vars PROVE OutcomeInv'
  <2>1. CASE OrchStep
    BY <1>2, <2>1
    DEF OrchStep, OrchStart, OrchTimeout, OrchCancel, Abandon, InLoop, OrchRound, OrchStop,
        OrchPass, OrchLeave, OrchReap, OrchGathered, OrchVerdict, OrchAborted, Gathering,
        VerdictInv, OutcomeInv, envVars
  <2>2. ASSUME NEW n \in Nodes, NodeStep(n) PROVE UNCHANGED <<orchVars, envVars>>
    BY <1>2, <2>2, NodeEffect
  <2>3. CASE Disrupt
    BY <1>2, <2>3 DEF Disrupt, SetCancel, DeadlinePasses, CloseStream, VerdictInv, OutcomeInv,
                      orchVars
  <2> QED
    BY <1>2, <2>1, <2>2, <2>3 DEF Next, Terminated, vars, orchVars, envVars, OutcomeInv
<1> QED
  BY <1>1, <1>2, Verdict, Invariance, PTL DEF Spec

\* The steps of DagRun a node can take, in the engine's terms.
DagStep(n) ==
  \/ nodeStatus'[n] = nodeStatus[n]
  \/ /\ verdict = "none" /\ nodeStatus[n] = "pending"
     /\ \/ nodeStatus'[n] = "skipped"
        \/ nodeStatus'[n] = "running" /\ \A p \in Preds(n) : nodeStatus[p] \in Settled
  \/ /\ verdict \in {"none", "cancelled"} /\ nodeStatus[n] = "running"
     /\ nodeStatus'[n] \in {"completed", "failed"}

\* A task ends its node; only an orphan of a closed stream still does so when
\* the run has its result.
LEMMA TaskRunsDag ==
  ASSUME IInv, StatusInv, VerdictInv, OutcomeInv, NEW m \in Nodes, NodeStep(m)
  PROVE  /\ \A n \in Nodes : DagStep(n)
         /\ verdict' = verdict /\ cancelEvent' = cancelEvent
<1>1. Live(m) /\ verdict' = verdict /\ cancelEvent' = cancelEvent
  BY NodeEffect DEF orchVars, envVars
<1>2. PICK st \in {nodeStatus[m], "completed", "failed"} :
        nodeStatus' = [nodeStatus EXCEPT ![m] = st]
  BY NodeEffect
<1>3. verdict \in {"none", "cancelled"}
  BY <1>1 DEF IInv, TypeOK, VerdictInv, OutcomeInv
<1>4. nodeStatus[m] = "running" /\ nodeStatus \in [Nodes -> Settled \cup {"pending", "running"}]
  BY <1>1 DEF StatusInv, IInv, TypeOK
<1> QED
  BY <1>1, <1>2, <1>3, <1>4 DEF DagStep

\* The orchestrator starts a node after its inputs, skips what is pending and
\* fails a task that raised.
LEMMA OrchestratorRunsDag ==
  ASSUME IInv, StatusInv, VerdictInv, OrchStep, NEW n \in Nodes
  PROVE  DagStep(n)
<1>1. /\ \A p \in pending : nodeStatus[p] = "pending"
      /\ \A p \in completed : nodeStatus[p] \in Settled
  BY DEF StatusInv
<1>2. orch # "done" => verdict = "none"
  BY DEF VerdictInv
<1>3. CASE OrchStart \/ OrchLeave \/ OrchGathered \/ OrchVerdict \/ OrchAborted
  BY <1>3 DEF OrchStart, OrchLeave, OrchGathered, OrchVerdict, OrchAborted, graphVars, DagStep
<1>4. CASE OrchTimeout \/ OrchCancel \/ (InLoop /\ OrchStop)
  <2>1. orch = "top" /\ nodeStatus' = Mark(pending, "skipped")
    BY <1>4 DEF OrchTimeout, OrchCancel, InLoop, OrchStop, Abandon
  <2>2. nodeStatus'[n] = IF n \in pending THEN "skipped" ELSE nodeStatus[n]
    BY <2>1 DEF Mark
  <2> QED
    BY <1>1, <1>2, <2>1, <2>2 DEF DagStep
<1>5. CASE InLoop /\ OrchPass
  <2>1. /\ nodeStatus'[n] = IF n \in Skips THEN "skipped"
                            ELSE IF n \in Launches THEN "running" ELSE nodeStatus[n]
        /\ Skips \subseteq pending /\ Launches \subseteq pending /\ orch = "top"
    BY <1>5, PassEffect, NoneGivenUp
  <2>2. n \in Launches => \A p \in Preds(n) : nodeStatus[p] \in Settled
    BY <1>1 DEF Launches, CanExecute
  <2> QED
    BY <1>1, <1>2, <2>1, <2>2 DEF DagStep
<1>6. CASE OrchReap
  <2> DEFINE done == {m \in running : phase[m] \in Over}
             raised == {m \in done : phase[m] = "crashed"}
             stop == done # {} /\ StopFailure(Mark(raised, "failed"))
  <2>1. /\ orch = "wait"
        /\ nodeStatus' = [m \in Nodes |-> IF stop /\ m \in pending THEN "skipped"
                                          ELSE Mark(raised, "failed")[m]]
    BY <1>6 DEF OrchReap
  <2> HIDE DEF stop
  <2>2. nodeStatus'[n] = IF stop /\ n \in pending THEN "skipped"
                         ELSE IF n \in raised THEN "failed" ELSE nodeStatus[n]
    BY <2>1 DEF Mark
  <2>3. n \in raised => nodeStatus[n] = "running"
    BY DEF StatusInv
  <2> QED
    BY <1>1, <1>2, <2>1, <2>2, <2>3 DEF DagStep
<1> QED
  BY <1>3, <1>4, <1>5, <1>6 DEF OrchStep, OrchRound

\* The orchestrator gives the run its result, in a step of its own.
LEMMA OrchestratorConcludes ==
  ASSUME IInv, VerdictInv, OrchStep
  PROVE  /\ cancelEvent' = cancelEvent
         /\ verdict' = verdict \/ (Dag!Conclude /\ nodeStatus' = nodeStatus)
<1>1. CASE OrchStart \/ OrchTimeout \/ OrchCancel \/ OrchRound \/ OrchLeave \/ OrchReap
  BY <1>1 DEF OrchStart, OrchTimeout, OrchCancel, Abandon, OrchRound, OrchStop, OrchPass,
              OrchLeave, OrchReap, envVars
<1>2. CASE OrchGathered \/ OrchVerdict \/ OrchAborted
  <2>1. orch # "done" /\ cancelEvent' = cancelEvent /\ nodeStatus' = nodeStatus
    BY <1>2 DEF OrchGathered, OrchVerdict, OrchAborted, Gathering, graphVars, envVars
  <2>2. verdict = "none"
    BY <2>1 DEF VerdictInv
  <2>3. \/ verdict' \in {"none", "failed", "cancelled"}
        \/ verdict' = "completed" /\ orch = "verdict"
    BY <1>2, <2>2 DEF OrchGathered, OrchVerdict, OrchAborted
  <2>4. orch = "verdict" => cancelEvent \/ \A n \in Nodes : nodeStatus[n] \in Settled
    BY DEF VerdictInv
  <2> QED
    BY <2>1, <2>2, <2>3, <2>4 DEF Dag!Conclude, Dag!Results, Dag!Final, Settled
<1> QED
  BY <1>1, <1>2 DEF OrchStep

(* For every blueprint, whatever is retried, tolerated, cancelled, timed   *)
(* out or closed: each node is started once at most, after its inputs, its *)
(* final status stays, and the run has one result, after which nothing     *)
(* starts and which is completed only when every node is settled.          *)
THEOREM EngineRefinement == Spec => ImplementsDagRun
<1>1. Init => Dag!Init
  BY DEF Init, Dag!Init
<1>2. IInv /\ StatusInv /\ VerdictInv /\ OutcomeInv /\ [Next]_vars => Dag!Next
  <2> SUFFICES ASSUME IInv, StatusInv, VerdictInv, OutcomeInv, [Next]_vars PROVE Dag!Next
    OBVIOUS
  <2>1. /\ \A n \in Nodes : DagStep(n)
        /\ verdict' = verdict \/ (Dag!Conclude /\ nodeStatus' = nodeStatus)
        /\ cancelEvent => cancelEvent'
    <3>1. CASE OrchStep
      BY <3>1, OrchestratorRunsDag, OrchestratorConcludes
    <3>2. ASSUME NEW m \in Nodes, NodeStep(m)
          PROVE  /\ \A n \in Nodes : DagStep(n)
                 /\ verdict' = verdict /\ cancelEvent' = cancelEvent
      BY <3>2, TaskRunsDag
    <3>3. CASE Disrupt \/ Terminated \/ UNCHANGED vars
      <4>1. nodeStatus' = nodeStatus
        BY <3>3, OtherStatus
      <4>2. verdict' = verdict /\ (cancelEvent => cancelEvent')
        BY <3>3 DEF Disrupt, SetCancel, DeadlinePasses, CloseStream, Terminated, vars, orchVars,
                    envVars
      <4> QED
        BY <4>1, <4>2 DEF DagStep
    <3> QED
      BY <3>1, <3>2, <3>3 DEF Next
  <2>2. ASSUME NEW n \in Nodes
        PROVE  Dag!Start(n) \/ Dag!Skip(n) \/ Dag!End(n) \/ Dag!Stay(n)
    BY <2>1 DEF DagStep, Dag!Start, Dag!Skip, Dag!End, Dag!Stay, Dag!Final, Settled
  <2>3. nodeStatus' = nodeStatus => \A n \in Nodes : Dag!Stay(n)
    BY DEF Dag!Stay
  <2> QED
    BY <2>1, <2>2, <2>3 DEF Dag!Next
<1> QED
  BY <1>1, <1>2, Invariance, Statuses, Verdict, Outcomes, PTL
  DEF Spec, ImplementsDagRun, Dag!Spec
=============================================================================
