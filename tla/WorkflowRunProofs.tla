-------------------------- MODULE WorkflowRunProofs --------------------------
(***************************************************************************)
(* What surrounds a workflow's engine, for every value of the constants:   *)
(* the life cycle of its runs (the bound on runs served at once, what the  *)
(* handler gives back, what rows and webhooks say when it is through), the *)
(* human approval of a node (who let it through, and that an answer stays), *)
(* and the scheduler that launches runs (its semaphore; which fires can be *)
(* launched twice; at most one run waits for a slot that was believed      *)
(* free).                                                                  *)
(***************************************************************************)
EXTENDS WorkflowRunProps, ApprovalGateProps, WorkflowSchedulerProps, LibraryProofs

(* Every variable of a run's life cycle keeps its type.                    *)
THEOREM TypeCorrect == Spec => []TypeOK
<1>1. Init => TypeOK
  BY RunAssumption DEF Init, TypeOK, Stages, Terminal, Verdicts, Active
<1>2. TypeOK /\ [Next]_vars => TypeOK'
  <2> SUFFICES ASSUME TypeOK, [Next]_vars PROVE TypeOK'
    OBVIOUS
  <2> USE RunAssumption DEF TypeOK, Stages, Terminal, Verdicts, Active
  <2>1. ASSUME NEW r \in Runs, Check(r) \/ Acquire(r) PROVE TypeOK'
    BY <2>1 DEF Check, Acquire, Allowed, GoTo, processVars, clientVars
  <2>2. ASSUME NEW r \in Runs, Insert(r) \/ InsertFails(r) PROVE TypeOK'
    <3>1. CASE Insert(r)
      BY <3>1 DEF Insert, GoTo, clientVars
    <3>2. CASE InsertFails(r)
      BY <3>2 DEF InsertFails, GoTo, clientVars
    <3> QED
      BY <2>2, <3>1, <3>2
  <2>3. ASSUME NEW r \in Runs, Start(r) \/ NeverStarts(r) PROVE TypeOK'
    BY <2>3 DEF Start, NeverStarts, GoTo, processVars, clientVars
  <2>4. ASSUME NEW r \in Runs, EngineEnds(r) \/ StreamEnds(r) PROVE TypeOK'
    BY <2>4 DEF EngineEnds, StreamEnds, GoTo, processVars, clientVars
  <2>5. ASSUME NEW r \in Runs,
               Raises(r) \/ Silence(r) \/ Dropped(r) \/ ResponseCancelled(r)
        PROVE  TypeOK'
    BY <2>5 DEF Raises, Silence, Dropped, ResponseCancelled, Break, GoTo,
                processVars, clientVars
  <2>6. ASSUME NEW r \in Runs, Release(r) \/ Persist(r) \/ Notify(r)
        PROVE  TypeOK'
    BY <2>6 DEF Release, Persist, Notify, GoTo, processVars, clientVars
  <2>7. ASSUME NEW r \in Runs, ClientLeaves(r) \/ CancelWrite(r) \/ Delete(r)
        PROVE  TypeOK'
    BY <2>7 DEF ClientLeaves, CancelWrite, Delete, handlerVars, processVars,
                clientVars
  <2>8. ASSUME NEW r \in Runs, NEW w \in Workers, CancelRead(w, r)
        PROVE  TypeOK'
    BY <2>8 DEF CancelRead, handlerVars, processVars
  <2>9. ASSUME NEW w \in Workers, WindowSlides(w) PROVE TypeOK'
    BY <2>9 DEF WindowSlides, handlerVars, clientVars
  <2>10. ASSUME NEW w \in Workers, Crash(w) PROVE TypeOK'
    BY <2>10 DEF Crash, clientVars
  <2>11. CASE Clear
    BY <2>11 DEF Clear, handlerVars, processVars, clientVars
  <2>12. CASE DeleteOldRuns
    BY <2>12 DEF DeleteOldRuns, handlerVars, processVars, clientVars
  <2>13. CASE UNCHANGED vars
    BY <2>13 DEF vars, handlerVars, processVars, clientVars
  <2> QED
    BY <2>1, <2>2, <2>3, <2>4, <2>5, <2>6, <2>7, <2>8, <2>9, <2>10, <2>11,
       <2>12, <2>13 DEF Next, Serve, Outside
<1> QED
  BY <1>1, <1>2, PTL DEF Spec

\* The limiter's set covers the runs being served and stays within its limit.
SlotInv ==
  \A w \in Workers : /\ Counted(w) \subseteq slots[w]
                     /\ Cardinality(slots[w]) <= MaxConcurrentRuns

\* A part of a set within the limit is within the limit.
LEMMA FewerSlots ==
  ASSUME NEW S \in SUBSET Runs, NEW T \in SUBSET S,
         Cardinality(S) <= MaxConcurrentRuns
  PROVE  Cardinality(T) <= MaxConcurrentRuns
<1>1. IsFiniteSet(S)
  BY RunAssumption, FS_Subset
<1>2. IsFiniteSet(T) /\ Cardinality(T) <= Cardinality(S)
  BY <1>1, FS_Subset
<1> QED
  BY <1>1, <1>2, FS_CardinalityType, RunAssumption

\* One run more in a set that is not full stays within the limit.
LEMMA OneMoreSlot ==
  ASSUME NEW S \in SUBSET Runs, NEW r \in Runs,
         Cardinality(S) < MaxConcurrentRuns
  PROVE  Cardinality(S \cup {r}) <= MaxConcurrentRuns
<1>1. IsFiniteSet(S)
  BY RunAssumption, FS_Subset
<1>2. Cardinality(S \cup {r}) \in {Cardinality(S), Cardinality(S) + 1}
  BY <1>1, FS_AddElement
<1> QED
  BY <1>1, <1>2, FS_CardinalityType, RunAssumption

\* A step that serves no new run and adds nothing to any limiter.
LEMMA SlotsShrink ==
  ASSUME TypeOK, SlotInv,
         \A w \in Workers : slots'[w] \subseteq slots[w],
         \A w \in Workers : Counted(w)' \subseteq slots'[w]
  PROVE  SlotInv'
<1> SUFFICES ASSUME NEW w \in Workers
             PROVE  Cardinality(slots'[w]) <= MaxConcurrentRuns
  BY DEF SlotInv
<1>1. slots[w] \in SUBSET Runs /\ Cardinality(slots[w]) <= MaxConcurrentRuns
  BY DEF TypeOK, SlotInv
<1> QED
  BY <1>1, FewerSlots

(* However requests, disconnects, failures and crashes interleave, one     *)
(* process never has more interactive and triggered runs of a user under   *)
(* way than max_concurrent_runs; the items of a batch are not counted.     *)
THEOREM CountedBounded == Spec => []CountedRunsBounded
<1>1. Init => SlotInv
  <2> SUFFICES ASSUME Init PROVE SlotInv
    OBVIOUS
  <2>1. \A w \in Workers : slots[w] = {} /\ Counted(w) = {}
    BY DEF Init, Counted
  <2> QED
    BY <2>1, FS_EmptySet, RunAssumption DEF SlotInv
<1>2. TypeOK /\ TypeOK' /\ SlotInv /\ [Next]_vars => SlotInv'
  <2> SUFFICES ASSUME TypeOK, TypeOK', SlotInv, [Next]_vars PROVE SlotInv'
    OBVIOUS
  <2>0. \A w \in Workers : Counted(w) \subseteq slots[w]
    BY DEF SlotInv
  <2>1. ASSUME NEW r \in Runs, Acquire(r) PROVE SlotInv'
    <3> DEFINE h == Home[r]
    <3>0. h \in Workers
      BY RunAssumption
    <3>1. ASSUME NEW w \in Workers PROVE Counted(w)' \subseteq slots'[w]
      BY <2>0, <2>1, RunAssumption DEF Acquire, GoTo, Counted, TypeOK
    <3>2. ASSUME NEW w \in Workers
          PROVE  Cardinality(slots'[w]) <= MaxConcurrentRuns
      <4>1. slots[w] \in SUBSET Runs /\ slots'[w] \in SUBSET Runs
        BY DEF TypeOK
      <4>2. Cardinality(slots[w]) <= MaxConcurrentRuns
        BY DEF SlotInv
      <4>3. \/ slots'[w] = slots[w]
            \/ slots'[w] = slots[w] \cup {r} /\ Allowed(w)
        BY <2>1, <3>0 DEF Acquire, TypeOK
      <4> QED
        BY <4>1, <4>2, <4>3, OneMoreSlot DEF Allowed
    <3> QED
      BY <3>1, <3>2 DEF SlotInv
  <2>2. ASSUME NEW r \in Runs,
               \/ Check(r) \/ Insert(r) \/ Start(r) \/ NeverStarts(r)
               \/ EngineEnds(r) \/ StreamEnds(r) \/ Persist(r) \/ Notify(r)
        PROVE  SlotInv'
    <3>1. slots' = slots
      BY <2>2 DEF Check, Insert, Start, NeverStarts, EngineEnds, StreamEnds,
                  Persist, Notify, processVars
    <3>2. \A w \in Workers : Counted(w)' \subseteq Counted(w)
      BY <2>2 DEF Check, Insert, Start, NeverStarts, EngineEnds, StreamEnds,
                  Persist, Notify, GoTo, Counted, TypeOK
    <3> QED
      BY <3>1, <3>2, <2>0, SlotsShrink
  <2>3. ASSUME NEW r \in Runs,
               Raises(r) \/ Silence(r) \/ Dropped(r) \/ ResponseCancelled(r)
        PROVE  SlotInv'
    <3>1. slots' = slots
      BY <2>3 DEF Raises, Silence, Dropped, ResponseCancelled, Break, processVars
    <3>2. \A w \in Workers : Counted(w)' \subseteq Counted(w)
      BY <2>3 DEF Raises, Silence, Dropped, ResponseCancelled, Following, Break,
                  GoTo, Counted, TypeOK
    <3> QED
      BY <3>1, <3>2, <2>0, SlotsShrink
  <2>4. ASSUME NEW r \in Runs, InsertFails(r) \/ Release(r) PROVE SlotInv'
    <3>1. \A w \in Workers : slots'[w] \subseteq slots[w]
      BY <2>4 DEF InsertFails, Release, TypeOK
    <3>2. \A w \in Workers : Counted(w)' \subseteq Counted(w) \ {r}
      BY <2>4 DEF InsertFails, Release, GoTo, Counted, TypeOK
    <3>3. \A w \in Workers : slots[w] \ {r} \subseteq slots'[w]
      BY <2>4 DEF InsertFails, Release, TypeOK
    <3>4. \A w \in Workers : Counted(w)' \subseteq slots'[w]
      BY <3>2, <3>3, <2>0
    <3> QED
      BY <3>1, <3>4, SlotsShrink
  <2>5. ASSUME NEW v \in Workers, Crash(v) PROVE SlotInv'
    <3>1. \A w \in Workers : slots'[w] = IF w = v THEN {} ELSE slots[w]
      BY <2>5 DEF Crash, TypeOK
    <3>2. \A w \in Workers :
            Counted(w)' \subseteq IF w = v THEN {} ELSE Counted(w)
      BY <2>5 DEF Crash, Counted, TypeOK
    <3> QED
      BY <3>1, <3>2, <2>0, SlotsShrink
  <2>6. CASE UNCHANGED <<stage, slots>>
    <3>1. \A w \in Workers : Counted(w)' = Counted(w) /\ slots'[w] = slots[w]
      BY <2>6 DEF Counted
    <3> QED
      BY <3>1, <2>0, SlotsShrink
  <2>7. ASSUME NEW r \in Runs,
               \/ ClientLeaves(r) \/ CancelWrite(r) \/ Delete(r)
               \/ \E w \in Workers : CancelRead(w, r)
        PROVE  UNCHANGED <<stage, slots>>
    BY <2>7 DEF ClientLeaves, CancelWrite, Delete, CancelRead, handlerVars,
                processVars
  <2>8. ASSUME NEW w \in Workers, WindowSlides(w)
        PROVE  UNCHANGED <<stage, slots>>
    BY <2>8 DEF WindowSlides, handlerVars
  <2>9. (Clear \/ DeleteOldRuns \/ UNCHANGED vars) => UNCHANGED <<stage, slots>>
    BY DEF Clear, DeleteOldRuns, vars, handlerVars, processVars
  <2> QED
    BY <2>1, <2>2, <2>3, <2>4, <2>5, <2>6, <2>7, <2>8, <2>9
    DEF Next, Serve, Outside
<1>3. TypeOK /\ SlotInv => CountedRunsBounded
  <2> SUFFICES ASSUME TypeOK, SlotInv, NEW w \in Workers
               PROVE  Cardinality(Counted(w)) <= MaxConcurrentRuns
    BY DEF CountedRunsBounded
  <2>1. slots[w] \in SUBSET Runs /\ Counted(w) \in SUBSET Runs
    BY DEF TypeOK, Counted
  <2>2. Counted(w) \subseteq slots[w] /\ Cardinality(slots[w]) <= MaxConcurrentRuns
    BY DEF SlotInv
  <2> QED
    BY <2>1, <2>2, FewerSlots
<1> QED
  BY <1>1, <1>2, <1>3, TypeCorrect, PTL DEF Spec
-----------------------------------------------------------------------------
\* Only a client of an interactive run can leave.
LeaversInteractive == \A r \in gone : Mode[r] = "interactive"

\* Who has left was followed by a stream.
LEMMA OnlyClientsLeave == Spec => []LeaversInteractive
<1>1. Init => LeaversInteractive
  BY DEF Init, LeaversInteractive
<1>2. LeaversInteractive /\ [Next]_vars => LeaversInteractive'
  <2> SUFFICES ASSUME LeaversInteractive, [Next]_vars PROVE LeaversInteractive'
    OBVIOUS
  <2>1. ASSUME NEW r \in Runs, ClientLeaves(r) PROVE LeaversInteractive'
    BY <2>1 DEF ClientLeaves, LeaversInteractive
  <2>2. ASSUME NEW r \in Runs, Serve(r) PROVE UNCHANGED gone
    BY <2>2 DEF Serve, Acquire, Insert, InsertFails, Start, NeverStarts,
                EngineEnds, StreamEnds, Raises, Silence, Dropped,
                ResponseCancelled, Break, Release, Persist, Notify, clientVars
  <2>3. ASSUME NEW r \in Runs,
               \/ Check(r) \/ CancelWrite(r) \/ Delete(r)
               \/ \E w \in Workers : CancelRead(w, r)
        PROVE  UNCHANGED gone
    BY <2>3 DEF Check, CancelWrite, Delete, CancelRead, clientVars
  <2>4. ASSUME NEW w \in Workers, WindowSlides(w) \/ Crash(w) PROVE UNCHANGED gone
    BY <2>4 DEF WindowSlides, Crash, clientVars
  <2>5. (Clear \/ DeleteOldRuns \/ UNCHANGED vars) => UNCHANGED gone
    BY DEF Clear, DeleteOldRuns, vars, clientVars
  <2> QED
    BY <2>1, <2>2, <2>3, <2>4, <2>5 DEF Next, Outside, LeaversInteractive
<1> QED
  BY <1>1, <1>2, PTL DEF Spec

\* A request, a sweep or time passing leaves the handlers and what they took
\* from their process alone.
LEMMA OutsideHandlers ==
  ASSUME \/ \E r \in Runs : \/ ClientLeaves(r) \/ CancelWrite(r) \/ Delete(r)
                           \/ \E w \in Workers : CancelRead(w, r)
         \/ \E w \in Workers : WindowSlides(w)
         \/ Clear \/ DeleteOldRuns \/ UNCHANGED vars
  PROVE  UNCHANGED <<handlerVars, slots, handles>>
BY DEF ClientLeaves, CancelWrite, Delete, CancelRead, WindowSlides, Clear,
       DeleteOldRuns, vars, handlerVars, processVars

(* What a run took from its process comes back on every path, and on none  *)
(* too early, whatever fails, leaves or crashes in between.                *)
THEOREM TakenIsGivenBack == Spec => []GivenBack
<1> DEFINE Inv == /\ SlotsEndWithRuns /\ HandlesMatchStreams
<1>1. Init => Inv
  BY RunAssumption DEF Init, SlotsEndWithRuns, HandlesMatchStreams
<1>2. TypeOK /\ LeaversInteractive /\ Inv /\ [Next]_vars => Inv'
  <2> SUFFICES ASSUME TypeOK, LeaversInteractive, Inv, [Next]_vars PROVE Inv'
    OBVIOUS
  <2> USE RunAssumption DEF SlotsEndWithRuns, HandlesMatchStreams, Counted, TypeOK
  <2>1. ASSUME NEW r \in Runs, Check(r) \/ Acquire(r) PROVE Inv'
    BY <2>1 DEF Check, Acquire, GoTo, processVars
  <2>2. ASSUME NEW r \in Runs, Insert(r) \/ InsertFails(r) PROVE Inv'
    BY <2>2 DEF Insert, InsertFails, GoTo
  <2>3. ASSUME NEW r \in Runs, Start(r) \/ NeverStarts(r) PROVE Inv'
    BY <2>3 DEF Start, NeverStarts, GoTo, processVars, LeaversInteractive
  <2>4. ASSUME NEW r \in Runs, EngineEnds(r) \/ StreamEnds(r) PROVE Inv'
    BY <2>4 DEF EngineEnds, StreamEnds, GoTo, processVars
  <2>5. ASSUME NEW r \in Runs,
               Raises(r) \/ Silence(r) \/ Dropped(r) \/ ResponseCancelled(r)
        PROVE  Inv'
    BY <2>5 DEF Raises, Silence, Dropped, ResponseCancelled, Following, Break,
                GoTo, processVars
  <2>6. ASSUME NEW r \in Runs, Release(r) \/ Persist(r) \/ Notify(r) PROVE Inv'
    BY <2>6 DEF Release, Persist, Notify, GoTo, processVars
  <2>7. ASSUME NEW w \in Workers, Crash(w) PROVE Inv'
    BY <2>7 DEF Crash
  <2>8. UNCHANGED <<handlerVars, slots, handles>> => Inv'
    BY DEF handlerVars
  <2> QED
    BY <2>1, <2>2, <2>3, <2>4, <2>5, <2>6, <2>7, <2>8, OutsideHandlers
    DEF Next, Serve, Outside
<1>3. Inv => GivenBack
  BY DEF GivenBack
<1> QED
  BY <1>1, <1>2, <1>3, TypeCorrect, OnlyClientsLeave, PTL DEF Spec

\* What the handler has in hand is what the engine said, and what it has told
\* the webhook is what it had in hand when it was through.
HandInv ==
  \A r \in Runs :
    /\ stage[r] = "streaming" /\ engine[r] \in Verdicts => final[r] = engine[r]
    /\ /\ Mode[r] = "trigger" /\ final[r] = "completed"
       /\ stage[r] \in {"closing", "persisting", "notifying"}
       => engine[r] = "completed"
    /\ stage[r] = "notifying" => row[r] \in {final[r], "deleted"} \/ r \in marked \cup unsaved
    /\ hook[r] # "none" => stage[r] = "over"

\* Rows and webhooks rest on one induction: both follow what is in hand.
LEMMA RowsAndHooks == Spec => []FinishedRunSettled /\ []HookTruthful
<1> DEFINE Inv == FinishedRunSettled /\ HandInv /\ HookTruthful
<1>1. Init => Inv
  BY DEF Init, FinishedRunSettled, HandInv, HookTruthful, Verdicts
<1>2. TypeOK /\ LeaversInteractive /\ Inv /\ [Next]_vars => Inv'
  <2> SUFFICES ASSUME TypeOK, LeaversInteractive, Inv, [Next]_vars PROVE Inv'
    OBVIOUS
  <2> USE RunAssumption
      DEF FinishedRunSettled, HandInv, HookTruthful, TypeOK, Terminal, Verdicts, Active
  <2>1. ASSUME NEW r \in Runs, Check(r) \/ Acquire(r) PROVE Inv'
    BY <2>1 DEF Check, Acquire, GoTo, clientVars
  <2>2. ASSUME NEW r \in Runs, Insert(r) \/ InsertFails(r) PROVE Inv'
    BY <2>2 DEF Insert, InsertFails, GoTo, clientVars
  <2>3. ASSUME NEW r \in Runs, Start(r) \/ NeverStarts(r) PROVE Inv'
    BY <2>3 DEF Start, NeverStarts, GoTo, clientVars
  <2>4. ASSUME NEW r \in Runs, EngineEnds(r) \/ StreamEnds(r) PROVE Inv'
    BY <2>4 DEF EngineEnds, StreamEnds, Following, GoTo, clientVars
  <2>5. ASSUME NEW r \in Runs,
               Raises(r) \/ Silence(r) \/ Dropped(r) \/ ResponseCancelled(r)
        PROVE  Inv'
    BY <2>5 DEF Raises, Silence, Dropped, ResponseCancelled, Following, Break,
                GoTo, clientVars, LeaversInteractive
  <2>6. ASSUME NEW r \in Runs, Release(r) \/ Persist(r) PROVE Inv'
    BY <2>6 DEF Release, Persist, GoTo, clientVars
  <2>7. ASSUME NEW r \in Runs, Notify(r) PROVE Inv'
    BY <2>7 DEF Notify, GoTo, clientVars
  <2>8. ASSUME NEW r \in Runs, CancelWrite(r) \/ Delete(r) PROVE Inv'
    BY <2>8 DEF CancelWrite, Delete, handlerVars, clientVars
  <2>9. CASE Clear \/ DeleteOldRuns
    BY <2>9 DEF Clear, DeleteOldRuns, handlerVars, clientVars
  <2>10. ASSUME NEW w \in Workers, Crash(w) PROVE Inv'
    BY <2>10 DEF Crash, clientVars
  <2>11. CASE UNCHANGED <<handlerVars, row, marked>>
    BY <2>11 DEF handlerVars
  <2>12. ASSUME \/ \E r \in Runs : \/ ClientLeaves(r)
                                 \/ \E w \in Workers : CancelRead(w, r)
                \/ \E w \in Workers : WindowSlides(w)
                \/ UNCHANGED vars
         PROVE  UNCHANGED <<handlerVars, row, marked>>
    BY <2>12 DEF ClientLeaves, CancelRead, WindowSlides, vars, clientVars
  <2> QED
    BY <2>1, <2>2, <2>3, <2>4, <2>5, <2>6, <2>7, <2>8, <2>9, <2>10, <2>11, <2>12
    DEF Next, Serve, Outside
<1>3. Inv => FinishedRunSettled /\ HookTruthful
  OBVIOUS
<1> QED
  BY <1>1, <1>2, <1>3, TypeCorrect, OnlyClientsLeave, PTL DEF Spec

(* When a handler is through with a run and its last write succeeded, the  *)
(* row is settled: no cancel, delete, sweep or crash in between undoes it. *)
THEOREM RowsSettle == Spec => []FinishedRunSettled
BY RowsAndHooks

(* A webhook agrees with the stored row, unless a cancel request rewrote   *)
(* it or the last write failed, and that of a triggered run says completed *)
(* only when the engine did; that of an interactive run may say so without *)
(* (CompletedByEngine is violated).                                        *)
THEOREM HooksTellTruth == Spec => []HookTruthful
BY RowsAndHooks
-----------------------------------------------------------------------------
(* The human approval of a node: OneDecision, DecisionKept and GateHolds.  *)

\* The rows of attempts to come do not exist yet.
Fresh ==
  /\ \A a \in Attempts : a > attempt => approval[a] = "absent"
  /\ node = "asking" => approval[attempt] = "absent"
  /\ node = "backoff" => attempt < MaxAttempts

\* A row says approved only on somebody's word.
ApprovedRows ==
  \A a \in Attempts : approval[a] = "approved" =>
    \E q \in Requests : request[q] = "approved" /\ target[q] = a

GateInv == GateTypeOK /\ Fresh /\ DecisionKept /\ ApprovedRows /\ OneDecision /\ GateHolds

LEMMA Initially == GateInit => GateInv
<1> SUFFICES ASSUME GateInit PROVE GateInv
  OBVIOUS
<1>1. GateTypeOK
  <2>1. database \in BOOLEAN /\ deleted \in BOOLEAN
    BY GateAssumption, Zenon DEF GateInit
  <2>2. attempt \in Attempts
    BY GateAssumption DEF GateInit, Attempts
  <2> QED
    BY <2>1, <2>2 DEF GateInit, GateTypeOK
<1>2. \A q \in Requests : request[q] \notin Decisions
  BY DEF GateInit, Decisions
<1>3. Fresh /\ ApprovedRows /\ GateHolds
  BY GateAssumption DEF GateInit, Fresh, ApprovedRows, GateHolds, HumanApproved,
                        Attempts
<1>4. DecisionKept /\ OneDecision
  BY <1>2 DEF DecisionKept, OneDecision
<1> QED
  BY <1>1, <1>3, <1>4 DEF GateInv

\* Steps of the node that write no row and complete nothing.
LEMMA NodeMoves ==
  ASSUME GateInv, GateTypeOK', Fresh',
         approval' = approval, request' = request, target' = target,
         database' = database, node' # "completed"
  PROVE  GateInv'
BY DEF GateInv, DecisionKept, ApprovedRows, OneDecision, GateHolds, HumanApproved

LEMMA NodeSteps == ASSUME GateInv, Execute PROVE GateInv'
<1> USE DEF Attempts, Decisions, Over
<1>0. GateTypeOK /\ Fresh /\ DecisionKept /\ ApprovedRows /\ OneDecision /\ GateHolds
  BY DEF GateInv
<1>1. CASE Ask
  <2>1. CASE deleted
    <3>1. GateTypeOK' /\ Fresh'
      BY <1>0, <1>1, <2>1, GateAssumption DEF Ask, AttemptFailed, GateTypeOK, Fresh
    <3> QED
      BY <3>1, <1>1, <2>1, NodeMoves DEF Ask, AttemptFailed
  <2>2. CASE ~deleted
    <3>1. GateTypeOK' /\ Fresh'
      BY <1>0, <1>1, <2>2, GateAssumption DEF Ask, GateTypeOK, Fresh
    <3>2. \A q \in Requests : request[q] \in Decisions => target[q] # attempt
      BY <1>0, <1>1 DEF Ask, DecisionKept, Fresh
    <3>3. DecisionKept'
      <4>1. /\ request' = request /\ target' = target
            /\ \A a \in Attempts : a # attempt => approval'[a] = approval[a]
        BY <1>0, <1>1, <2>2 DEF Ask, GateTypeOK
      <4> QED
        BY <1>0, <3>2, <4>1 DEF DecisionKept, GateTypeOK
    <3>4. ApprovedRows'
      BY <1>0, <1>1, <2>2 DEF Ask, ApprovedRows, GateTypeOK
    <3>5. OneDecision' /\ GateHolds'
      BY <1>0, <1>1, <2>2 DEF Ask, OneDecision, GateHolds, HumanApproved
    <3> QED
      BY <3>1, <3>3, <3>4, <3>5 DEF GateInv
  <2> QED
    BY <2>1, <2>2
<1>2. CASE AutoApprove
  <2>1. GateTypeOK' /\ Fresh'
    BY <1>0, <1>2, GateAssumption DEF AutoApprove, GateTypeOK, Fresh
  <2>2. DecisionKept' /\ ApprovedRows' /\ OneDecision' /\ GateHolds'
    BY <1>0, <1>2
    DEF AutoApprove, DecisionKept, ApprovedRows, OneDecision, GateHolds
  <2> QED
    BY <2>1, <2>2 DEF GateInv
<1>3. CASE Poll
  <2>1. GateTypeOK' /\ Fresh'
    BY <1>0, <1>3, GateAssumption DEF Poll, AttemptFailed, GateTypeOK, Fresh
  <2>2. CASE approval[attempt] = "approved"
    <3>1. \E q \in Requests : request[q] = "approved" /\ target[q] = attempt
      BY <1>0, <2>2 DEF ApprovedRows, GateTypeOK
    <3>2. DecisionKept' /\ ApprovedRows' /\ OneDecision' /\ GateHolds'
      BY <1>0, <1>3, <3>1
      DEF Poll, DecisionKept, ApprovedRows, OneDecision, GateHolds, HumanApproved
    <3> QED
      BY <2>1, <3>2 DEF GateInv
  <2>3. CASE approval[attempt] # "approved"
    BY <2>1, <2>3, <1>3, NodeMoves DEF Poll, AttemptFailed
  <2> QED
    BY <2>2, <2>3
<1>4. CASE ExpireRead \/ EngineTimeout \/ Retry \/ Cancel
  <2>1. GateTypeOK' /\ Fresh'
    BY <1>0, <1>4, GateAssumption
    DEF ExpireRead, EngineTimeout, Retry, Cancel, AttemptFailed, GateTypeOK, Fresh
  <2>2. /\ UNCHANGED <<approval, request, target, database>>
        /\ node' # "completed"
    BY <1>4 DEF ExpireRead, EngineTimeout, Retry, Cancel, AttemptFailed
  <2> QED
    BY <2>1, <2>2, NodeMoves
<1>5. CASE ExpireWrite
  <2>1. GateTypeOK' /\ Fresh'
    BY <1>0, <1>5, GateAssumption DEF ExpireWrite, AttemptFailed, GateTypeOK, Fresh
  <2>2. DecisionKept' /\ ApprovedRows'
    BY <1>0, <1>5 DEF ExpireWrite, DecisionKept, ApprovedRows, GateTypeOK
  <2>3. OneDecision' /\ GateHolds'
    BY <1>0, <1>5
    DEF ExpireWrite, AttemptFailed, OneDecision, GateHolds, HumanApproved
  <2> QED
    BY <2>1, <2>2, <2>3 DEF GateInv
<1> QED
  BY <1>1, <1>2, <1>3, <1>4, <1>5 DEF Execute

LEMMA DecideStep ==
  ASSUME GateInv, NEW q \in Requests, NEW d \in Decisions, Decide(q, d)
  PROVE  GateInv'
<1> USE DEF Attempts, Decisions, Over
<1> DEFINE a == target[q]
<1>0. GateTypeOK /\ Fresh /\ DecisionKept /\ ApprovedRows /\ OneDecision /\ GateHolds
  BY DEF GateInv
<1>1. GateTypeOK' /\ Fresh'
  BY <1>0 DEF Decide, GateTypeOK, Fresh
<1>2. \A p \in Requests : request[p] \in Decisions => request'[p] = request[p]
  BY <1>0 DEF Decide, GateTypeOK
<1>3. GateHolds'
  BY <1>0, <1>2 DEF Decide, GateHolds, HumanApproved, GateTypeOK
<1>4. CASE approval[a] = "pending"
  <2>1. /\ approval' = [approval EXCEPT ![a] = d]
        /\ request' = [request EXCEPT ![q] = d]
        /\ target' = target
    BY <1>4 DEF Decide
  <2>2. \A p \in Requests : request[p] \in Decisions => target[p] # a
    BY <1>0, <1>4 DEF DecisionKept
  <2>3. OneDecision'
    BY <1>0, <2>1, <2>2 DEF OneDecision, GateTypeOK
  <2>4. DecisionKept'
    <3>1. /\ a \in Attempts /\ approval'[a] = d /\ request'[q] = d
          /\ \A b \in Attempts : b # a => approval'[b] = approval[b]
          /\ \A p \in Requests : p # q => request'[p] = request[p]
      BY <1>0, <2>1 DEF GateTypeOK
    <3> HIDE DEF a
    <3>2. \A p \in Requests : p # q /\ request'[p] \in Decisions
            => approval'[target[p]] \in {request'[p], "expired", "deleted"}
      BY <1>0, <2>2, <3>1 DEF DecisionKept, GateTypeOK
    <3> QED
      BY <2>1, <3>1, <3>2 DEF DecisionKept, a
  <2>5. ApprovedRows'
    BY <1>0, <1>2, <2>1 DEF ApprovedRows, GateTypeOK
  <2> QED
    BY <1>1, <1>3, <2>3, <2>4, <2>5 DEF GateInv
<1>5. CASE approval[a] # "pending"
  <2>1. /\ approval' = approval /\ target' = target
        /\ request' = [request EXCEPT ![q] = "conflict"]
    BY <1>5 DEF Decide
  <2>2. OneDecision' /\ DecisionKept'
    BY <1>0, <2>1 DEF OneDecision, DecisionKept, GateTypeOK
  <2>3. ApprovedRows'
    BY <1>0, <1>2, <2>1 DEF ApprovedRows, GateTypeOK
  <2> QED
    BY <1>1, <1>3, <2>2, <2>3 DEF GateInv
<1> QED
  BY <1>4, <1>5

LEMMA DeleteStep == ASSUME GateInv, DeleteRun PROVE GateInv'
<1>1. GateTypeOK' /\ Fresh'
  BY DEF GateInv, DeleteRun, GateTypeOK, Fresh, Attempts, Decisions, Over
<1>2. DecisionKept' /\ ApprovedRows' /\ OneDecision' /\ GateHolds'
  BY DEF GateInv, DeleteRun, GateTypeOK, DecisionKept, ApprovedRows, OneDecision,
         GateHolds, HumanApproved, Decisions
<1> QED
  BY <1>1, <1>2 DEF GateInv

(* The inductive invariant of the approval gate.                           *)
THEOREM GateInvariance == GateSpec => []GateInv
<1>1. GateInv /\ [GateNext]_gateVars => GateInv'
  <2> SUFFICES ASSUME GateInv, [GateNext]_gateVars PROVE GateInv'
    OBVIOUS
  <2>1. CASE UNCHANGED gateVars
    BY <2>1 DEF GateInv, gateVars, GateTypeOK, Fresh, DecisionKept, ApprovedRows,
                OneDecision, GateHolds, HumanApproved
  <2> QED
    BY <2>1, NodeSteps, DecideStep, DeleteStep DEF GateNext
<1> QED
  BY <1>1, Initially, PTL DEF GateSpec

(* At most one answer to an approval is accepted, for any number of people *)
(* answering, attempts and faults.                                         *)
THEOREM AtMostOneDecision == GateSpec => []OneDecision
BY GateInvariance, PTL DEF GateInv

(* Every variable keeps its type, for any number of requests, attempts and *)
(* faults.                                                                 *)
THEOREM GateTypeCorrect == GateSpec => []GateTypeOK
BY GateInvariance, PTL DEF GateInv

(* An accepted decision never becomes another one, for any number of       *)
(* people answering, attempts and faults.                                  *)
THEOREM NeverReversed == GateSpec => []DecisionKept
BY GateInvariance, PTL DEF GateInv

(* An approval is answered once, and for good.                             *)
THEOREM AnsweredForGood == GateSpec => []AnswerFinal
BY GateInvariance, PTL DEF GateInv, AnswerFinal

(* With a database, a human intervention node completes only on an         *)
(* accepted approval of its current attempt.                               *)
THEOREM NeverBypassed == GateSpec => []GateHolds
BY GateInvariance, PTL DEF GateInv

\* The steps of HumanGate an attempt can take, in this gate's terms.
AttemptStep(a) ==
  \/ /\ AcceptedAnswer(a) = "none" /\ AcceptedAnswer(a)' \in Decisions
     /\ GateOf(a)' = GateOf(a)
  \/ /\ AcceptedAnswer(a)' = AcceptedAnswer(a)
     /\ \/ GateOf(a) = "open" /\ GateOf(a)' = "shut"
        \/ /\ GateOf(a) = "open" /\ AcceptedAnswer(a) = "approved"
           /\ GateOf(a)' = "passed"
        \/ GateOf(a)' = GateOf(a)

\* A step of the node changes no answer; it may shut the gate of the current
\* attempt, and lets it pass only on an approval.
LEMMA NodeKeepsGates ==
  ASSUME GateInv, Execute, NEW a \in Attempts PROVE AttemptStep(a)
<1>0. GateTypeOK /\ ApprovedRows
  BY DEF GateInv
<1>1. /\ request' = request /\ target' = target /\ database' = database
  BY DEF Execute, Ask, AutoApprove, Poll, ExpireRead, ExpireWrite, EngineTimeout,
         Retry, Cancel
<1>2. AcceptedAnswer(a)' = AcceptedAnswer(a)
  BY <1>1 DEF AcceptedAnswer, Accepted
<1>3. CASE ~database
  <2>1. GateOf(a) = "open" /\ GateOf(a)' = "open"
    BY <1>1, <1>3 DEF GateOf
  <2> QED
    BY <1>2, <2>1 DEF AttemptStep
<1>4. CASE database /\ Retry
  <2>1. attempt \in Nat /\ a \in Nat /\ attempt' = attempt + 1
        /\ node = "backoff" /\ node' = "asking"
    BY <1>0, <1>4, GateAssumption DEF Retry, GateTypeOK, Attempts
  <2>2. GateOf(a)' = GateOf(a)
    BY <1>1, <1>4, <2>1 DEF GateOf
  <2> QED
    BY <1>2, <2>2 DEF AttemptStep
<1>5. CASE database /\ ~Retry /\ a # attempt
  <2>1. attempt' = attempt
    BY <1>5 DEF Execute, Ask, AutoApprove, Poll, ExpireRead, ExpireWrite,
                EngineTimeout, Retry, Cancel
  <2>2. GateOf(a)' = GateOf(a)
    BY <1>1, <1>5, <2>1 DEF GateOf
  <2> QED
    BY <1>2, <2>2 DEF AttemptStep
<1>6. CASE database /\ ~Retry /\ a = attempt
  <2>0. attempt' = attempt
    BY <1>6 DEF Execute, Ask, AutoApprove, Poll, ExpireRead, ExpireWrite,
                EngineTimeout, Retry, Cancel
  <2>1. attempt' = attempt /\ ~(a > attempt) /\ ~(a > attempt')
    BY <1>6, <2>0, GateAssumption DEF Attempts
  <2>2. \/ node \in {"asking", "polling", "expiring"} /\ GateOf(a) = "open"
        \/ node = "backoff" /\ GateOf(a) = "shut"
    BY <1>6, <2>1
    DEF GateOf, Execute, Ask, AutoApprove, Poll, ExpireRead, ExpireWrite,
        EngineTimeout, Retry, Cancel, GateInv, GateTypeOK, Over
  <2>3. CASE node' = "completed"
    <3>1. node = "polling" /\ approval[attempt] = "approved"
      BY <1>6, <2>3
      DEF Execute, Ask, AutoApprove, Poll, ExpireRead, ExpireWrite, EngineTimeout,
          Retry, Cancel, AttemptFailed
    <3>2. Accepted(a, "approved")
      BY <1>0, <1>6, <3>1 DEF ApprovedRows, Accepted
    <3>3. AcceptedAnswer(a) = "approved"
      <4>1. ~Accepted(a, "rejected")
        BY <3>2 DEF Accepted, GateInv, OneDecision, Decisions
      <4> QED
        BY <3>2, <4>1 DEF AcceptedAnswer
    <3>4. GateOf(a)' = "passed"
      BY <1>1, <1>6, <2>1, <2>3 DEF GateOf
    <3> QED
      BY <1>2, <2>2, <3>1, <3>3, <3>4 DEF AttemptStep
  <2>4. CASE node' \in {"asking", "polling", "expiring"}
    <3>1. node \in {"asking", "polling", "expiring"}
      BY <1>6, <2>4
      DEF Execute, Ask, AutoApprove, Poll, ExpireRead, ExpireWrite, EngineTimeout,
          Retry, Cancel, AttemptFailed
    <3>2. GateOf(a) = "open" /\ GateOf(a)' = "open"
      BY <1>1, <1>6, <2>1, <2>2, <2>4, <3>1 DEF GateOf
    <3> QED
      BY <1>2, <3>2 DEF AttemptStep
  <2>5. CASE node' \notin {"asking", "polling", "expiring", "completed"}
    <3>1. GateOf(a)' = "shut"
      BY <1>1, <1>6, <2>1, <2>5 DEF GateOf
    <3> QED
      BY <1>2, <2>2, <3>1 DEF AttemptStep
  <2> QED
    BY <2>3, <2>4, <2>5
<1> QED
  BY <1>3, <1>4, <1>5, <1>6 DEF GateInv, GateTypeOK

\* A request moves no gate, and is accepted only where no other was.
LEMMA RequestsKeepGates ==
  ASSUME GateInv, NEW q \in Requests, NEW d \in Decisions, Decide(q, d),
         NEW a \in Attempts
  PROVE  AttemptStep(a)
<1>0. GateTypeOK /\ DecisionKept
  BY DEF GateInv
<1>1. /\ database' = database /\ attempt' = attempt /\ node' = node
      /\ target' = target /\ request[q] = "unsent"
  BY DEF Decide
<1>2. GateOf(a)' = GateOf(a)
  BY <1>1 DEF GateOf
<1>3. CASE a = target[q] /\ approval[a] = "pending"
  <2>1. request'[q] = d
    BY <1>0, <1>3 DEF Decide, GateTypeOK
  <2>2. Accepted(a, d)'
    BY <1>1, <1>3, <2>1 DEF Accepted
  <2>3. \A p \in Requests : target[p] = a => request[p] \notin Decisions
    BY <1>0, <1>3 DEF DecisionKept, Decisions
  <2>4. AcceptedAnswer(a) = "none"
    BY <2>3 DEF AcceptedAnswer, Accepted, Decisions
  <2>5. AcceptedAnswer(a)' \in Decisions
    BY <2>2 DEF AcceptedAnswer, Decisions
  <2> QED
    BY <1>2, <2>4, <2>5 DEF AttemptStep
<1>4. CASE a # target[q] \/ approval[a] # "pending"
  <2>1. \A p \in Requests, e \in Decisions :
          target[p] = a => (request'[p] = e <=> request[p] = e)
    BY <1>0, <1>1, <1>4 DEF Decide, GateTypeOK, Decisions
  <2>2. \A e \in Decisions : Accepted(a, e)' <=> Accepted(a, e)
    BY <1>1, <2>1 DEF Accepted
  <2>3. AcceptedAnswer(a)' = AcceptedAnswer(a)
    BY <2>2 DEF AcceptedAnswer, Decisions
  <2> QED
    BY <1>2, <2>3 DEF AttemptStep
<1> QED
  BY <1>3, <1>4

(* The node, its retries and timeouts and the approve and reject endpoints *)
(* together keep what HumanGate promises, as the hook of a sensitive tool  *)
(* call does: for any number of people answering, attempts and faults.     *)
THEOREM ApprovalRefinement == GateSpec => KeepsHumanGate
<1>1. GateInit => Human!Init
  BY DEF GateInit, Human!Init, AcceptedAnswer, Accepted, GateOf, Attempts
<1>2. GateInv /\ [GateNext]_gateVars => Human!Next
  <2> SUFFICES ASSUME GateInv, [GateNext]_gateVars, NEW a \in Attempts
               PROVE  \/ Human!Accept(a) \/ Human!Pass(a)
                      \/ Human!GiveUp(a) \/ Human!Stay(a)
    BY DEF Human!Next
  <2>1. CASE DeleteRun \/ UNCHANGED gateVars
    <3>1. UNCHANGED <<node, attempt, request, target, database>>
      BY <2>1 DEF DeleteRun, gateVars
    <3> QED
      BY <3>1 DEF AttemptStep, AcceptedAnswer, Accepted, GateOf, Human!Stay
  <2>2. CASE Execute \/ \E q \in Requests, d \in Decisions : Decide(q, d)
    <3>1. AttemptStep(a)
      BY <2>2, NodeKeepsGates, RequestsKeepGates
    <3> QED
      BY <3>1 DEF AttemptStep, Decisions, Human!Accept, Human!Pass, Human!GiveUp,
                  Human!Stay, Human!Answers
  <2> QED
    BY <2>1, <2>2 DEF GateNext
<1>3. Human!Next => [Human!Next]_<<[a \in Attempts |-> AcceptedAnswer(a)],
                                  [a \in Attempts |-> GateOf(a)]>>
  OBVIOUS
<1> QED
  BY <1>1, <1>2, <1>3, GateInvariance, PTL DEF GateSpec, KeepsHumanGate, Human!Spec
-----------------------------------------------------------------------------
(* The scheduler.                                                          *)

\* The variables apart from the semaphores have their types.
Tickers == {"asleep", "ticking", "stamping", "draining", "stopped"}

PlainType ==
  /\ fired \in [Workflows -> Nat]
  /\ recent \subseteq Workflows
  /\ last \in [Workflows -> {Never} \cup Nat]
  /\ ticker \in [Processes -> Tickers]
  /\ due \in [Processes -> [Workflows -> Nat]]
  /\ stamp \in [Processes -> [Workflows -> Nat]]
  /\ task \in [Processes -> [Fires -> Places]]
  /\ launched \in [Processes -> [Fires -> Nat]]
  /\ raced \subseteq Workflows /\ setback \subseteq Workflows

RunStep(p, t) == RunEnter(p, t) \/ RunResume(p, t) \/ RunEnd(p, t)

Executing(p) == {t \in Fires : task[p][t] = "running"}
Waiting(p) == {t \in Fires : task[p][t] = "waiting"}

\* The slots of process p, one by one: a task holds one exactly while it
\* executes, and queues for one exactly while it waits.
SlotsOf(p) ==
  /\ SemaphoreOK(sem[p], Fires, MaxConcurrent)
  /\ sem[p].held = Executing(p)
  /\ Waiters(sem[p]) = Waiting(p)

SemInv ==
  /\ sem = [p \in Processes |-> sem[p]]
  /\ \A p \in Processes : SlotsOf(p)

SchedulerInv == PlainType /\ SemInv

\* A step of the clock, of a tick or of a run keeps the plain types.
LEMMA PlainStep ==
  ASSUME PlainType, [SchedulerNext]_schedulerVars
  PROVE  PlainType'
<1>1. ASSUME NEW f \in Workflows, CronFires(f) \/ FireAges(f) PROVE PlainType'
  <2>1. fired[f] + 1 \in Nat
    BY DEF PlainType
  <2>2. fired' \in [Workflows -> Nat] /\ recent' \subseteq Workflows
    BY <1>1, <2>1 DEF CronFires, FireAges, PlainType
  <2> QED
    BY <1>1, <2>2 DEF CronFires, FireAges, tickVars, history, PlainType
<1>2. ASSUME NEW p \in Processes, TickStart(p) PROVE PlainType'
  <2> DEFINE d == [f \in Workflows |-> IF Due(f, fired[f], last[f]) THEN fired[f] ELSE 0]
  <2>1. d \in [Workflows -> Nat]
    BY DEF PlainType
  <2>2. due' \in [Processes -> [Workflows -> Nat]]
    BY <1>2, <2>1 DEF TickStart, PlainType
  <2>3. raced' \subseteq Workflows
    BY <1>2 DEF TickStart, PlainType
  <2> QED
    BY <1>2, <2>2, <2>3 DEF TickStart, clockVars, Tickers, PlainType
<1>3. ASSUME NEW p \in Processes, TickEnd(p) \/ Stop(p) PROVE PlainType'
  BY <1>3 DEF TickEnd, Stop, clockVars, history, Tickers, PlainType
<1>4. ASSUME NEW p \in Processes, NEW f \in Workflows, Dispatch(p, f)
      PROVE  PlainType'
  <2>1. fired[f] \in Nat
    BY DEF PlainType
  <2>2. due' \in [Processes -> [Workflows -> Nat]]
    <3>1. due' = due \/ due' = [due EXCEPT ![p][f] = 0]
      BY <1>4 DEF Dispatch, Stamps
    <3>2. due \in [Processes -> [Workflows -> Nat]]
      BY DEF PlainType
    <3> QED
      BY <3>1, <3>2
  <2>3. stamp' \in [Processes -> [Workflows -> Nat]]
    <3>1. stamp' = stamp \/ stamp' = [stamp EXCEPT ![p][f] = fired[f]]
      BY <1>4 DEF Dispatch, Stamps
    <3>2. stamp \in [Processes -> [Workflows -> Nat]]
      BY DEF PlainType
    <3> QED
      BY <2>1, <3>1, <3>2
  <2>4. ticker' \in [Processes -> Tickers]
    BY <1>4 DEF Dispatch, Stamps, Tickers, PlainType
  <2> QED
    BY <1>4, <2>2, <2>3, <2>4 DEF Dispatch, clockVars, history, PlainType
<1>5. ASSUME NEW p \in Processes, NEW f \in Workflows, Done(p, f)
      PROVE  /\ due' \in [Processes -> [Workflows -> Nat]]
             /\ stamp' \in [Processes -> [Workflows -> Nat]]
             /\ ticker' \in [Processes -> Tickers]
  BY <1>5 DEF Done, Tickers, PlainType
<1>6. ASSUME NEW p \in Processes, NEW f \in Workflows, DispatchFails(p, f)
      PROVE  PlainType'
  BY <1>5, <1>6 DEF DispatchFails, clockVars, history, PlainType
<1>7. ASSUME NEW p \in Processes, NEW f \in Workflows, Launch(p, f) PROVE PlainType'
  <2> DEFINE t == <<f, due[p][f]>>
  <2>1. stamp[p][f] \in Nat
    BY DEF PlainType
  <2>2. last' \in [Workflows -> {Never} \cup Nat] /\ recent' \subseteq Workflows
    BY <1>7, <2>1 DEF Launch, PlainType
  <2>3. launched' = [launched EXCEPT ![p][t] = @ + 1]
    BY <1>7 DEF Launch, Creates
  <2>4. launched' \in [Processes -> [Fires -> Nat]]
    <3>1. CASE t \in Fires
      <4>1. launched[p][t] + 1 \in Nat
        BY <3>1 DEF PlainType
      <4> QED
        BY <2>3, <4>1 DEF PlainType
    <3>2. CASE t \notin Fires
      <4>1. [launched[p] EXCEPT ![t] = @ + 1] = launched[p]
        BY <3>2 DEF PlainType
      <4> QED
        BY <2>3, <4>1 DEF PlainType
    <3> QED
      BY <3>1, <3>2
  <2>5. task' \in [Processes -> [Fires -> Places]]
    BY <1>7 DEF Launch, Creates, Places, PlainType
  <2>6. setback' \subseteq Workflows
    BY <1>7 DEF Launch, PlainType
  <2> QED
    BY <1>5, <1>7, <2>2, <2>4, <2>5, <2>6 DEF Launch, PlainType
<1>8. ASSUME NEW p \in Processes, Cleanup(p) PROVE PlainType'
  <2>1. task' \in [Processes -> [Fires -> Places]]
    BY <1>8 DEF Cleanup, Places, PlainType
  <2> QED
    BY <1>8, <2>1 DEF Cleanup, clockVars, history, Tickers, PlainType
<1>9. ASSUME NEW p \in Processes, NEW t \in Fires, RunStep(p, t) PROVE PlainType'
  <2>1. PICK q \in Places : task' = [task EXCEPT ![p][t] = q]
    BY <1>9 DEF RunStep, RunEnter, RunResume, RunEnd, Places
  <2>2. task' \in [Processes -> [Fires -> Places]]
    BY <2>1 DEF PlainType
  <2>3. UNCHANGED <<fired, recent, last, ticker, due, stamp, launched, raced, setback>>
    BY <1>9 DEF RunStep, RunEnter, RunResume, RunEnd, clockVars, tickVars, history
  <2> QED
    BY <2>2, <2>3 DEF PlainType
<1>10. CASE UNCHANGED schedulerVars
  BY <1>10 DEF schedulerVars, clockVars, tickVars, history, PlainType
<1> QED
  BY <1>1, <1>2, <1>3, <1>4, <1>6, <1>7, <1>8, <1>9, <1>10
  DEF SchedulerNext, Tick, Run, RunStep, Clock, LaunchSome

\* A step that touches the semaphore and the tasks of process p only.
LEMMA OthersKeepSlots ==
  ASSUME PlainType, SemInv, NEW p \in Processes, NEW s, NEW g \in [Fires -> Places],
         sem' = [sem EXCEPT ![p] = s], task' = [task EXCEPT ![p] = g],
         SemaphoreOK(s, Fires, MaxConcurrent),
         s.held = {t \in Fires : g[t] = "running"},
         Waiters(s) = {t \in Fires : g[t] = "waiting"}
  PROVE  SemInv'
<1>1. sem' = [q \in Processes |-> sem'[q]]
  BY DEF SemInv
<1>2. sem'[p] = s /\ task'[p] = g
  BY DEF SemInv, PlainType
<1>3. SlotsOf(p)'
  BY <1>2 DEF SlotsOf, Executing, Waiting
<1>4. ASSUME NEW q \in Processes, q # p PROVE SlotsOf(q)'
  <2>1. sem'[q] = sem[q] /\ task'[q] = task[q]
    BY <1>4 DEF SemInv, PlainType
  <2> QED
    BY <2>1 DEF SemInv, SlotsOf, Executing, Waiting
<1> QED
  BY <1>1, <1>3, <1>4 DEF SemInv

\* One step of one run keeps every slot accounted for.
LEMMA RunKeepsSlots ==
  ASSUME PlainType, SemInv, NEW p \in Processes, NEW t \in Fires, RunStep(p, t)
  PROVE  SemInv'
<1> DEFINE s == sem[p]
           g == task[p]
<1>1. /\ SemaphoreOK(s, Fires, MaxConcurrent)
      /\ s.held = {u \in Fires : g[u] = "running"}
      /\ Waiters(s) = {u \in Fires : g[u] = "waiting"}
  BY DEF SemInv, SlotsOf, Executing, Waiting
<1>2. g \in [Fires -> Places]
  BY DEF PlainType
<1>3. MaxConcurrent \in Nat /\ IsFiniteSet(Fires)
  BY SchedulerAssumption
<1>4. \A q : task' = [task EXCEPT ![p][t] = q] =>
              task' = [task EXCEPT ![p] = [g EXCEPT ![t] = q]]
  OBVIOUS
<1>5. \A q \in Places : [g EXCEPT ![t] = q] \in [Fires -> Places]
  BY <1>2
<1>6. CASE RunEnter(p, t)
  <2>1. g[t] = "created" /\ t \notin s.held /\ t \notin Waiters(s)
    BY <1>1, <1>6 DEF RunEnter
  <2>2. CASE Locked(s)
    <3> DEFINE r == JoinQueue(s, t)
               h == [g EXCEPT ![t] = "waiting"]
    <3>1. sem' = [sem EXCEPT ![p] = r] /\ task' = [task EXCEPT ![p] = h]
      BY <1>4, <1>6, <2>2 DEF RunEnter
    <3>2. /\ SemaphoreOK(r, Fires, MaxConcurrent)
          /\ r.held = s.held /\ Waiters(r) = Waiters(s) \cup {t}
      BY <1>1, <1>3, <2>1, JoinQueueOK
    <3> HIDE DEF r
    <3>3. r.held = {u \in Fires : h[u] = "running"}
      BY <1>1, <1>2, <2>1, <3>2
    <3>4. Waiters(r) = {u \in Fires : h[u] = "waiting"}
      BY <1>1, <1>2, <3>2
    <3>5. h \in [Fires -> Places]
      BY <1>5 DEF Places
    <3> HIDE DEF h
    <3> QED
      BY <3>1, <3>2, <3>3, <3>4, <3>5, OthersKeepSlots
  <2>3. CASE ~Locked(s)
    <3> DEFINE r == TakeSlot(s, t)
               h == [g EXCEPT ![t] = "running"]
    <3>1. sem' = [sem EXCEPT ![p] = r] /\ task' = [task EXCEPT ![p] = h]
      BY <1>4, <1>6, <2>3 DEF RunEnter
    <3>2. /\ SemaphoreOK(r, Fires, MaxConcurrent)
          /\ r.held = s.held \cup {t} /\ Waiters(r) = Waiters(s)
      BY <1>1, <1>3, <2>1, <2>3, TakeSlotOK
    <3> HIDE DEF r
    <3>3. r.held = {u \in Fires : h[u] = "running"}
      BY <1>1, <1>2, <3>2
    <3>4. Waiters(r) = {u \in Fires : h[u] = "waiting"}
      BY <1>1, <1>2, <2>1, <3>2
    <3>5. h \in [Fires -> Places]
      BY <1>5 DEF Places
    <3> HIDE DEF h
    <3> QED
      BY <3>1, <3>2, <3>3, <3>4, <3>5, OthersKeepSlots
  <2> QED
    BY <2>2, <2>3
<1>7. CASE RunResume(p, t)
  <2> DEFINE r == ResumeWaiter(s, t)
             h == [g EXCEPT ![t] = "running"]
  <2>1. /\ sem' = [sem EXCEPT ![p] = r] /\ task' = [task EXCEPT ![p] = h]
        /\ t \in s.granted
    BY <1>4, <1>7 DEF RunResume
  <2>2. /\ SemaphoreOK(r, Fires, MaxConcurrent)
        /\ r.held = s.held \cup {t} /\ Waiters(r) = Waiters(s) \ {t}
    BY <1>1, <1>3, <2>1, ResumeWaiterOK
  <2> HIDE DEF r
  <2>3. r.held = {u \in Fires : h[u] = "running"}
    BY <1>1, <1>2, <2>2
  <2>4. Waiters(r) = {u \in Fires : h[u] = "waiting"}
    BY <1>1, <1>2, <2>2
  <2>5. h \in [Fires -> Places]
    BY <1>5 DEF Places
  <2> HIDE DEF h
  <2> QED
    BY <2>1, <2>2, <2>3, <2>4, <2>5, OthersKeepSlots
<1>8. CASE RunEnd(p, t)
  <2> DEFINE r == ReleaseSlot(s, t)
             h == [g EXCEPT ![t] = "none"]
  <2>1. sem' = [sem EXCEPT ![p] = r] /\ task' = [task EXCEPT ![p] = h]
    BY <1>4, <1>8 DEF RunEnd
  <2>2. t \in s.held
    BY <1>1, <1>8 DEF RunEnd
  <2>3. /\ SemaphoreOK(r, Fires, MaxConcurrent)
        /\ r.held = s.held \ {t} /\ Waiters(r) = Waiters(s)
    BY <1>1, <1>3, <2>2, ReleaseSlotOK
  <2> HIDE DEF r
  <2>4. r.held = {u \in Fires : h[u] = "running"}
    BY <1>1, <1>2, <1>8, <2>3 DEF RunEnd
  <2>5. Waiters(r) = {u \in Fires : h[u] = "waiting"}
    BY <1>1, <1>2, <1>8, <2>3 DEF RunEnd
  <2>6. h \in [Fires -> Places]
    BY <1>5 DEF Places
  <2> HIDE DEF h
  <2> QED
    BY <2>1, <2>3, <2>4, <2>5, <2>6, OthersKeepSlots
<1> QED
  BY <1>6, <1>7, <1>8 DEF RunStep

\* So does every other step.
LEMMA SemStep ==
  ASSUME PlainType, SemInv, [SchedulerNext]_schedulerVars
  PROVE  SemInv'
<1>1. ASSUME NEW p \in Processes, NEW f \in Workflows, Launch(p, f) PROVE SemInv'
  <2>1. sem' = sem
    BY <1>1 DEF Launch
  <2>2. \A q \in Processes : Executing(q)' = Executing(q) /\ Waiting(q)' = Waiting(q)
    BY <1>1 DEF Launch, Creates, Executing, Waiting, PlainType
  <2> QED
    BY <2>1, <2>2 DEF SemInv, SlotsOf
<1>2. ASSUME NEW p \in Processes, Cleanup(p) PROVE SemInv'
  <2> DEFINE r == NewSemaphore(MaxConcurrent)
             h == [t \in Fires |-> "none"]
  <2>1. sem' = [sem EXCEPT ![p] = r] /\ task' = [task EXCEPT ![p] = h]
    BY <1>2 DEF Cleanup
  <2>2. SemaphoreOK(r, Fires, MaxConcurrent) /\ r.held = {} /\ Waiters(r) = {}
    BY NewSemaphoreOK, SchedulerAssumption
  <2>3. h \in [Fires -> Places]
    BY DEF Places
  <2> HIDE DEF r
  <2>4. /\ r.held = {t \in Fires : h[t] = "running"}
        /\ Waiters(r) = {t \in Fires : h[t] = "waiting"}
    BY <2>2
  <2> HIDE DEF h
  <2> QED
    BY <2>1, <2>2, <2>3, <2>4, OthersKeepSlots
<1>3. ASSUME UNCHANGED <<sem, task>> PROVE SemInv'
  BY <1>3 DEF SemInv, SlotsOf, Executing, Waiting
<1>4. ASSUME NEW p \in Processes,
             TickStart(p) \/ TickEnd(p) \/ Stop(p)
      PROVE  UNCHANGED <<sem, task>>
  BY <1>4 DEF TickStart, TickEnd, Stop
<1>5. ASSUME NEW f \in Workflows, CronFires(f) \/ FireAges(f)
      PROVE  UNCHANGED <<sem, task>>
  BY <1>5 DEF CronFires, FireAges
<1>6. CASE UNCHANGED schedulerVars
  BY <1>3, <1>6 DEF schedulerVars
<1>7. ASSUME NEW p \in Processes, NEW f \in Workflows, Dispatch(p, f) \/ DispatchFails(p, f)
      PROVE  UNCHANGED <<sem, task>>
  BY <1>7 DEF Dispatch, DispatchFails
<1> QED
  BY <1>1, <1>2, <1>3, <1>4, <1>5, <1>6, <1>7, RunKeepsSlots
  DEF SchedulerNext, Tick, Run, RunStep, Clock, LaunchSome

\* The invariant is inductive.
THEOREM SchedulerInvariance == SchedulerSpec => []SchedulerInv
<1>1. SchedulerInit => SchedulerInv
  <2> SUFFICES ASSUME SchedulerInit PROVE SchedulerInv
    OBVIOUS
  <2>1. PlainType
    BY DEF SchedulerInit, Nothing, PlainType, Places, Tickers
  <2>2. /\ sem = [p \in Processes |-> NewSemaphore(MaxConcurrent)]
        /\ task = [p \in Processes |-> [t \in Fires |-> "none"]]
    BY DEF SchedulerInit
  <2>3. ASSUME NEW p \in Processes PROVE SlotsOf(p)
    <3>1. sem[p] = NewSemaphore(MaxConcurrent) /\ Executing(p) = {} /\ Waiting(p) = {}
      BY <2>2 DEF Executing, Waiting
    <3>2. MaxConcurrent \in Nat
      BY SchedulerAssumption
    <3> DEFINE s == NewSemaphore(MaxConcurrent)
    <3>3. SemaphoreOK(s, Fires, MaxConcurrent) /\ s.held = {} /\ Waiters(s) = {}
      BY <3>2, NewSemaphoreOK
    <3> HIDE DEF s
    <3>4. sem[p] = s
      BY <3>1 DEF s
    <3> QED
      BY <3>1, <3>3, <3>4 DEF SlotsOf
  <2> QED
    BY <2>1, <2>2, <2>3 DEF SchedulerInv, SemInv
<1>2. SchedulerInv /\ [SchedulerNext]_schedulerVars => SchedulerInv'
  BY PlainStep, SemStep DEF SchedulerInv
<1> QED
  BY <1>1, <1>2, PTL DEF SchedulerSpec

(* Every variable of the scheduler keeps its type, the semaphores among    *)
(* them: no slot is lost and none is handed out twice.                     *)
THEOREM SchedulerTypeCorrect == SchedulerSpec => []SchedulerTypeOK
<1>1. SchedulerInv => SchedulerTypeOK
  BY DEF SchedulerInv, PlainType, Tickers, SemInv, SlotsOf, SchedulerTypeOK
<1> QED
  BY <1>1, SchedulerInvariance, PTL

(* A scheduler never executes more runs than max_concurrent_runs.          *)
THEOREM NeverTooMany == SchedulerSpec => []RunsBounded
<1>1. SchedulerInv => RunsBounded
  <2> SUFFICES ASSUME SchedulerInv, NEW p \in Processes
               PROVE  /\ sem[p].held = Executing(p)
                      /\ Cardinality(sem[p].held) <= MaxConcurrent
    BY DEF RunsBounded, Executing
  <2>1. SemaphoreOK(sem[p], Fires, MaxConcurrent) /\ sem[p].held = Executing(p)
    BY DEF SchedulerInv, SemInv, SlotsOf
  <2>2. /\ sem[p].free \in Nat /\ Cardinality(sem[p].granted) \in Nat
        /\ Cardinality(sem[p].held) \in Nat
    BY <2>1, SemaphoreFinite, SchedulerAssumption
  <2>3. sem[p].free + Cardinality(sem[p].granted) + Cardinality(sem[p].held)
          = MaxConcurrent
    BY <2>1 DEF SemaphoreOK
  <2> QED
    BY <2>1, <2>2, <2>3, SchedulerAssumption
<1> QED
  BY <1>1, SchedulerInvariance, PTL

\* The numbers the invariants below compare.
LEMMA Numbers ==
  ASSUME PlainType
  PROVE  /\ \A f \in Workflows : fired[f] \in Nat /\ last[f] \in Int /\ last[f] >= Never
         /\ \A p \in Processes, f \in Workflows : due[p][f] \in Nat /\ stamp[p][f] \in Nat
         /\ \A p \in Processes, t \in Fires : launched[p][t] \in Nat
         /\ \A t \in Fires : /\ t[1] \in Workflows /\ t[2] \in Nat \ {0}
                             /\ t = <<t[1], t[2]>>
<1>1. \A f \in Workflows : fired[f] \in Nat /\ last[f] \in Int /\ last[f] >= Never
  <2> SUFFICES ASSUME NEW f \in Workflows
               PROVE  fired[f] \in Nat /\ last[f] \in Int /\ last[f] >= Never
    OBVIOUS
  <2>1. fired[f] \in Nat /\ last[f] \in {Never} \cup Nat
    BY DEF PlainType
  <2> QED
    BY <2>1 DEF Never
<1>2. \A t \in Fires : t \in Workflows \X (Nat \ {0})
  BY SchedulerAssumption
<1> QED
  BY <1>1, <1>2 DEF PlainType

\* What a process has in hand fired before, the stamp it is writing is one, and
\* not older than the fire it is written for; nothing is in hand between ticks.
TickInv(p) ==
  /\ \A f \in Workflows : due[p][f] <= fired[f]
  /\ \A f \in Workflows :
       stamp[p][f] > 0 =>
         ticker[p] = "stamping" /\ InHand(p, f) /\ stamp[p][f] >= due[p][f]
  /\ \A f, g \in Workflows : stamp[p][f] > 0 /\ stamp[p][g] > 0 => f = g
  /\ ticker[p] \in {"asleep", "draining", "stopped"} =>
       \A f \in Workflows : ~InHand(p, f)

\* A step that leaves what a process has in hand alone.
LEMMA QuietKeepsHand ==
  ASSUME PlainType, NEW p \in Processes, TickInv(p),
         \A f \in Workflows : fired'[f] \in Nat /\ fired'[f] >= fired[f],
         due'[p] = due[p], stamp'[p] = stamp[p], ticker'[p] = ticker[p]
  PROVE  TickInv(p)'
<1>1. \A f \in Workflows : due'[p][f] <= fired'[f]
  BY Numbers DEF TickInv
<1> QED
  BY <1>1 DEF TickInv, InHand

\* A workflow is dealt with.
LEMMA DoneKeepsHand ==
  ASSUME PlainType, NEW p \in Processes, TickInv(p), fired' = fired,
         NEW f \in Workflows, stamp[p][f] > 0, Done(p, f)
  PROVE  TickInv(p)'
<1>1. \A g \in Workflows : /\ due'[p][g] = IF g = f THEN 0 ELSE due[p][g]
                           /\ stamp'[p][g] = IF g = f THEN 0 ELSE stamp[p][g]
  BY DEF Done, PlainType
<1>2. ticker'[p] = "ticking"
  BY DEF Done, PlainType
<1>3. \A g \in Workflows : g # f => ~(stamp[p][g] > 0)
  BY DEF TickInv
<1>4. \A g \in Workflows : ~(stamp'[p][g] > 0)
  BY <1>1, <1>3
<1>5. \A g \in Workflows : due'[p][g] <= fired'[g]
  BY <1>1, Numbers DEF TickInv
<1> QED
  BY <1>2, <1>4, <1>5 DEF TickInv

\* What every process has in hand is so throughout.
LEMMA TickInvariance == SchedulerSpec => [](\A p \in Processes : TickInv(p))
<1> DEFINE H == \A p \in Processes : TickInv(p)
<1>1. SchedulerInit => H
  BY DEF SchedulerInit, Nothing, TickInv, InHand
<1>2. SchedulerInv /\ H /\ [SchedulerNext]_schedulerVars => H'
  <2> SUFFICES ASSUME PlainType, H, [SchedulerNext]_schedulerVars, NEW p \in Processes
               PROVE  TickInv(p)'
    BY DEF SchedulerInv
  <2>0. TickInv(p) /\ \A f \in Workflows : fired[f] >= fired[f]
    BY Numbers
  <2>1. ASSUME NEW f \in Workflows, CronFires(f) \/ FireAges(f) PROVE TickInv(p)'
    <3>1. \A g \in Workflows : fired'[g] = fired[g] \/ fired'[g] = fired[g] + 1
      BY <2>1 DEF CronFires, FireAges, PlainType
    <3>2. \A g \in Workflows : fired'[g] \in Nat /\ fired'[g] >= fired[g]
      BY <3>1, Numbers
    <3> QED
      BY <2>0, <2>1, <3>2, QuietKeepsHand DEF CronFires, FireAges, tickVars
  <2>2. ASSUME NEW q \in Processes, TickStart(q) PROVE TickInv(p)'
    <3>1. CASE q = p
      <4>1. \A f \in Workflows : due'[p][f] \in {0, fired[f]}
        BY <2>2, <3>1 DEF TickStart, PlainType
      <4>2. ticker[p] = "asleep" /\ ticker'[p] = "ticking" /\ UNCHANGED <<fired, stamp>>
        BY <2>2, <3>1 DEF TickStart, clockVars, PlainType
      <4>3. \A f \in Workflows : ~(stamp'[p][f] > 0)
        BY <2>0, <4>2 DEF TickInv
      <4>4. \A f \in Workflows : due'[p][f] <= fired'[f]
        BY <4>1, <4>2, Numbers
      <4> QED
        BY <4>2, <4>3, <4>4 DEF TickInv
    <3>2. CASE q # p
      BY <2>0, <2>2, <3>2, Numbers, QuietKeepsHand DEF TickStart, clockVars, PlainType
    <3> QED
      BY <3>1, <3>2
  <2>3. ASSUME NEW q \in Processes, NEW f \in Workflows, Dispatch(q, f)
        PROVE  TickInv(p)'
    <3>0. UNCHANGED fired
      BY <2>3 DEF Dispatch, clockVars
    <3>1. CASE q = p /\ Locked(sem[q])
      <4>1. ticker[p] = "ticking" /\ UNCHANGED <<ticker, stamp>>
        BY <2>3, <3>1 DEF Dispatch
      <4>2. \A g \in Workflows : due'[p][g] = IF g = f THEN 0 ELSE due[p][g]
        BY <2>3, <3>1 DEF Dispatch, PlainType
      <4>3. \A g \in Workflows : ~(stamp'[p][g] > 0)
        BY <2>0, <4>1 DEF TickInv
      <4>4. \A g \in Workflows : due'[p][g] <= fired'[g]
        BY <2>0, <3>0, <4>2, Numbers DEF TickInv
      <4> QED
        BY <4>1, <4>3, <4>4 DEF TickInv
    <3>2. CASE q = p /\ ~Locked(sem[q])
      <4>1. ticker[p] = "ticking" /\ InHand(p, f) /\ due' = due
        BY <2>3, <3>2 DEF Dispatch, Stamps
      <4>2. /\ ticker'[p] = "stamping"
            /\ \A g \in Workflows : stamp'[p][g] = IF g = f THEN fired[f] ELSE stamp[p][g]
        BY <2>3, <3>2 DEF Dispatch, Stamps, PlainType
      <4>3. \A g \in Workflows : ~(stamp[p][g] > 0)
        BY <2>0, <4>1 DEF TickInv
      <4>4. \A g \in Workflows : stamp'[p][g] > 0 => g = f
        BY <4>2, <4>3
      <4>5. stamp'[p][f] >= due'[p][f] /\ InHand(p, f)'
        BY <2>0, <4>1, <4>2 DEF TickInv, InHand
      <4> QED
        BY <2>0, <3>0, <4>1, <4>2, <4>4, <4>5 DEF TickInv
    <3>3. CASE q # p
      BY <2>0, <2>3, <3>0, <3>3, Numbers, QuietKeepsHand DEF Dispatch, Stamps, PlainType
    <3> QED
      BY <3>1, <3>2, <3>3
  <2>4. ASSUME NEW q \in Processes, NEW f \in Workflows, stamp[q][f] > 0, Done(q, f),
               UNCHANGED fired
        PROVE  TickInv(p)'
    <3>1. CASE q = p
      BY <2>0, <2>4, <3>1, DoneKeepsHand
    <3>2. CASE q # p
      BY <2>0, <2>4, <3>2, Numbers, QuietKeepsHand DEF Done, PlainType
    <3> QED
      BY <3>1, <3>2
  <2>5. ASSUME NEW q \in Processes, TickEnd(q) \/ Stop(q) \/ Cleanup(q) PROVE TickInv(p)'
    <3>1. UNCHANGED <<fired, due, stamp>>
      BY <2>5 DEF TickEnd, Stop, Cleanup, clockVars
    <3>2. CASE q = p
      <4>1. \A f \in Workflows : ~InHand(p, f)
        BY <2>0, <2>5, <3>2 DEF TickEnd, Stop, Cleanup, TickInv
      <4>2. \A f \in Workflows : ~(stamp[p][f] > 0)
        BY <2>0, <4>1 DEF TickInv
      <4> QED
        BY <2>0, <3>1, <4>1, <4>2 DEF TickInv, InHand
    <3>3. CASE q # p
      BY <2>0, <2>5, <3>1, <3>3, Numbers, QuietKeepsHand DEF TickEnd, Stop, Cleanup, PlainType
    <3> QED
      BY <3>2, <3>3
  <2>6. ASSUME UNCHANGED <<fired, tickVars>> PROVE TickInv(p)'
    BY <2>0, <2>6, Numbers, QuietKeepsHand DEF tickVars
  <2>7. ASSUME NEW q \in Processes, NEW t \in Fires, RunStep(q, t)
        PROVE  UNCHANGED <<fired, tickVars>>
    BY <2>7 DEF RunStep, RunEnter, RunResume, RunEnd, clockVars
  <2>8. UNCHANGED schedulerVars => UNCHANGED <<fired, tickVars>>
    BY DEF schedulerVars, clockVars
  <2>9. ASSUME NEW q \in Processes, NEW f \in Workflows, Launch(q, f) \/ DispatchFails(q, f)
        PROVE  TickInv(p)'
    BY <2>4, <2>9 DEF Launch, DispatchFails, clockVars
  <2> QED
    BY <2>1, <2>2, <2>3, <2>5, <2>6, <2>7, <2>8, <2>9
    DEF SchedulerNext, Tick, Run, RunStep, Clock, LaunchSome
<1> QED
  BY <1>1, <1>2, SchedulerInvariance, PTL DEF SchedulerSpec

\* As long as no stamp was replaced by an older one, what a process launched is
\* not after the stamp, so what a tick finds due it has not launched yet.
OwnInv(p, t) ==
  t[1] \notin setback =>
    /\ launched[p][t] <= 1
    /\ launched[p][t] > 0 => t[2] <= last[t[1]]
    /\ t[2] = due[p][t[1]] => launched[p][t] = 0

\* A workflow that two processes never had in hand at once is in one hand at
\* most, and its stamp is older than the fire in that hand.
HandsInv(p, q, f) ==
  f \notin raced =>
    /\ f \notin setback
    /\ InHand(p, f) => due[p][f] > last[f]
    /\ InHand(p, f) /\ InHand(q, f) => p = q

OneLaunches(p, q, t) ==
  t[1] \notin raced /\ p # q => launched[p][t] = 0 \/ launched[q][t] = 0

LaunchInv ==
  /\ \A p \in Processes, t \in Fires : OwnInv(p, t)
  /\ \A p, q \in Processes, f \in Workflows : HandsInv(p, q, f)
  /\ \A p, q \in Processes, t \in Fires : OneLaunches(p, q, t)

\* A tick takes in hand what has fired since its stamp.
LEMMA TickKeepsLaunches ==
  ASSUME PlainType, LaunchInv, \A q \in Processes : TickInv(q),
         NEW r \in Processes, TickStart(r)
  PROVE  LaunchInv'
<1>1. UNCHANGED <<fired, last, launched, setback>>
  BY DEF TickStart, clockVars
<1>2. /\ \A f \in Workflows :
           due'[r][f] = IF Due(f, fired[f], last[f]) THEN fired[f] ELSE 0
      /\ \A q \in Processes : q # r => due'[q] = due[q]
  BY DEF TickStart, PlainType
<1>3. \A f \in Workflows : Due(f, fired[f], last[f]) => fired[f] > last[f]
  BY Numbers DEF Due, Never
<1>4. \A f \in Workflows : InHand(r, f)' => due'[r][f] > last[f]
  BY <1>2, <1>3 DEF InHand
<1>5. \A f \in Workflows : f \notin raced' =>
        f \notin raced /\ (InHand(r, f)' => \A q \in Processes : ~InHand(q, f))
  BY <1>2 DEF TickStart, InHand
<1>6. ASSUME NEW p \in Processes, NEW t \in Fires PROVE OwnInv(p, t)'
  <2>1. OwnInv(p, t)
    BY DEF LaunchInv
  <2>2. CASE p # r
    BY <1>1, <1>2, <2>1, <2>2 DEF OwnInv
  <2>3. CASE p = r
    <3>1. t[1] \in Workflows /\ t[2] \in Nat \ {0} /\ launched[p][t] \in Nat
      BY Numbers
    <3>2. t[2] = due'[p][t[1]] => t[2] > last[t[1]]
      BY <1>4, <2>3, <3>1 DEF InHand
    <3>3. last[t[1]] \in Int
      BY <3>1, Numbers
    <3> QED
      BY <1>1, <2>1, <3>1, <3>2, <3>3 DEF OwnInv
  <2> QED
    BY <2>2, <2>3
<1>7. ASSUME NEW p \in Processes, NEW q \in Processes, NEW f \in Workflows
      PROVE  HandsInv(p, q, f)'
  <2>1. HandsInv(p, q, f)
    BY DEF LaunchInv
  <2>2. \A s \in Processes : s # r => (InHand(s, f)' <=> InHand(s, f))
    BY <1>2 DEF InHand
  <2>3. f \notin raced' /\ InHand(p, f)' => due'[p][f] > last'[f]
    BY <1>1, <1>2, <1>4, <1>5, <2>1, <2>2 DEF HandsInv
  <2>4. f \notin raced' /\ InHand(p, f)' /\ InHand(q, f)' => p = q
    BY <1>5, <2>1, <2>2 DEF HandsInv
  <2> QED
    BY <1>1, <1>5, <2>1, <2>3, <2>4 DEF HandsInv
<1>8. ASSUME NEW p \in Processes, NEW q \in Processes, NEW t \in Fires
      PROVE  OneLaunches(p, q, t)'
  <2>1. t[1] \in Workflows
    BY Numbers
  <2> QED
    BY <1>1, <1>5, <2>1 DEF LaunchInv, OneLaunches
<1> QED
  BY <1>6, <1>7, <1>8 DEF LaunchInv

\* A launch moves the stamp to the fire it launches, or past it.
LEMMA LaunchKeepsLaunches ==
  ASSUME PlainType, LaunchInv, NEW r \in Processes, NEW g \in Workflows,
         TickInv(r), Launch(r, g)
  PROVE  LaunchInv'
<1> DEFINE u == <<g, due[r][g]>>
<1>1. /\ stamp[r][g] > 0 /\ InHand(r, g) /\ stamp[r][g] >= due[r][g]
      /\ due[r][g] \in Nat /\ stamp[r][g] \in Nat /\ last[g] \in Int
  BY Numbers DEF Launch, TickInv
<1>2. last'[g] = stamp[r][g] /\ \A f \in Workflows : f # g => last'[f] = last[f]
  BY DEF Launch, PlainType
<1>3. /\ \A f \in Workflows : due'[r][f] = IF f = g THEN 0 ELSE due[r][f]
      /\ \A q \in Processes : q # r => due'[q] = due[q]
  BY DEF Launch, Done, PlainType
<1>4. /\ raced' = raced /\ setback \subseteq setback'
      /\ \A f \in Workflows : f # g => (f \in setback' <=> f \in setback)
      /\ g \notin setback' => stamp[r][g] >= last[g]
  BY <1>1 DEF Launch
<1>5. /\ \A q \in Processes, t \in Fires :
           q # r \/ t # u => launched'[q][t] = launched[q][t]
      /\ u \in Fires => launched'[r][u] = launched[r][u] + 1
  BY DEF Launch, Creates, PlainType
<1>6. g \notin raced => stamp[r][g] >= last[g] /\ due[r][g] > last[g]
  BY <1>1 DEF LaunchInv, HandsInv
<1>7. \A f \in Workflows : f \notin raced => f \notin setback'
  BY <1>1, <1>4, <1>6 DEF LaunchInv, HandsInv, Launch
<1>8. ASSUME NEW p \in Processes, NEW t \in Fires PROVE OwnInv(p, t)'
  <2>1. OwnInv(p, t) /\ (t[1] \notin setback' => t[1] \notin setback)
    BY <1>4 DEF LaunchInv
  <2>2. /\ t[1] \in Workflows /\ t[2] \in Nat \ {0} /\ t = <<t[1], t[2]>>
        /\ launched[p][t] \in Nat
    BY Numbers
  <2>3. last[t[1]] \in Int /\ (t[1] \notin setback' => last'[t[1]] >= last[t[1]])
    BY <1>1, <1>2, <1>4, <2>2, Numbers
  <2>4. last'[t[1]] \in Int
    BY <1>1, <1>2, <2>2, <2>3
  <2>5. CASE p = r /\ t = u
    <3>1. t[1] = g /\ t[2] = due[r][g]
      BY <2>5
    <3>2. t[1] \notin setback' => launched[p][t] = 0
      BY <2>1, <2>5, <3>1 DEF OwnInv
    <3>3. t[1] \notin setback' => launched'[p][t] = 1 /\ t[2] <= last'[t[1]]
      BY <1>1, <1>2, <1>5, <2>5, <3>1, <3>2
    <3>4. t[2] # due'[p][t[1]]
      BY <1>3, <2>2, <2>5, <3>1
    <3> QED
      BY <3>3, <3>4 DEF OwnInv
  <2>6. CASE p # r \/ t # u
    <3>1. launched'[p][t] = launched[p][t]
      BY <1>5, <2>6
    <3>2. t[2] = due'[p][t[1]] => t[2] = due[p][t[1]]
      BY <1>3, <2>2
    <3>3. t[1] \notin setback' => (launched[p][t] > 0 => t[2] <= last'[t[1]])
      BY <2>1, <2>2, <2>3, <2>4 DEF OwnInv
    <3> QED
      BY <2>1, <3>1, <3>2, <3>3 DEF OwnInv
  <2> QED
    BY <2>5, <2>6
<1>9. ASSUME NEW p \in Processes, NEW q \in Processes, NEW f \in Workflows
      PROVE  HandsInv(p, q, f)'
  <2>1. HandsInv(p, q, f) /\ HandsInv(p, r, f)
    BY DEF LaunchInv
  <2>2. \A s \in Processes : InHand(s, f)' => InHand(s, f) /\ due'[s][f] = due[s][f]
    BY <1>3 DEF InHand
  <2>3. f = g => ~InHand(r, f)'
    BY <1>3 DEF InHand
  <2>4. f \notin raced /\ InHand(p, f)' => due'[p][f] > last'[f]
    BY <1>1, <1>2, <2>1, <2>2, <2>3 DEF HandsInv
  <2> QED
    BY <1>4, <1>7, <2>1, <2>2, <2>4 DEF HandsInv
<1>10. ASSUME NEW p \in Processes, NEW q \in Processes, NEW t \in Fires
       PROVE  OneLaunches(p, q, t)'
  <2>1. OneLaunches(p, q, t)
    BY DEF LaunchInv
  <2>2. CASE t # u
    BY <1>4, <1>5, <2>1, <2>2 DEF OneLaunches
  <2>3. CASE t = u
    <3>1. t[1] = g /\ t[2] = due[r][g]
      BY <2>3
    <3>2. g \notin raced => \A s \in Processes : launched[s][t] = 0
      <4> SUFFICES ASSUME g \notin raced, NEW s \in Processes PROVE launched[s][t] = 0
        OBVIOUS
      <4>1. g \notin setback /\ due[r][g] > last[g] /\ OwnInv(s, t)
        BY <1>1 DEF LaunchInv, HandsInv
      <4>2. launched[s][t] \in Nat
        BY Numbers
      <4> QED
        BY <1>1, <3>1, <4>1, <4>2 DEF OwnInv
    <3>3. \A s \in Processes : s # r => launched'[s][t] = launched[s][t]
      BY <1>5
    <3> QED
      BY <1>4, <3>1, <3>2, <3>3 DEF OneLaunches
  <2> QED
    BY <2>2, <2>3
<1> QED
  BY <1>8, <1>9, <1>10 DEF LaunchInv

\* A step that launches nothing and takes nothing new in hand.
LEMMA QuietKeepsLaunches ==
  ASSUME PlainType, LaunchInv, UNCHANGED <<last, launched, raced, setback>>,
         \A p \in Processes, f \in Workflows : due'[p][f] \in {0, due[p][f]}
  PROVE  LaunchInv'
<1>1. ASSUME NEW p \in Processes, NEW t \in Fires PROVE OwnInv(p, t)'
  <2>1. t[1] \in Workflows /\ t[2] # 0 /\ OwnInv(p, t)
    BY Numbers DEF LaunchInv
  <2> QED
    BY <2>1 DEF OwnInv
<1>2. ASSUME NEW p \in Processes, NEW q \in Processes, NEW f \in Workflows
      PROVE  HandsInv(p, q, f)'
  <2>1. HandsInv(p, q, f)
    BY DEF LaunchInv
  <2>2. \A s \in Processes : InHand(s, f)' => InHand(s, f) /\ due'[s][f] = due[s][f]
    BY DEF InHand
  <2> QED
    BY <2>1, <2>2 DEF HandsInv
<1>3. \A p, q \in Processes, t \in Fires : OneLaunches(p, q, t)'
  BY DEF LaunchInv, OneLaunches
<1> QED
  BY <1>1, <1>2, <1>3 DEF LaunchInv

(* The stamp prevents duplicate triggers, for any number of processes: one *)
(* process launches a fire once as long as no stamp is replaced by an      *)
(* older one, and two processes launch the same fire only when both had    *)
(* judged the row before either stamped it.                                *)
THEOREM LaunchedOnceHolds == SchedulerSpec => []LaunchedOnce
<1> DEFINE H == \A p \in Processes : TickInv(p)
<1>1. SchedulerInit /\ SchedulerInv => LaunchInv
  <2> SUFFICES ASSUME SchedulerInit, PlainType PROVE LaunchInv
    BY DEF SchedulerInv
  <2>1. /\ \A p \in Processes, t \in Fires : launched[p][t] = 0
        /\ \A p \in Processes, f \in Workflows : ~InHand(p, f)
        /\ setback = {}
    BY DEF SchedulerInit, Nothing, InHand
  <2>2. \A p \in Processes, t \in Fires : OwnInv(p, t)
    BY <2>1 DEF OwnInv
  <2>3. \A p, q \in Processes, f \in Workflows : HandsInv(p, q, f)
    BY <2>1 DEF HandsInv
  <2>4. \A p, q \in Processes, t \in Fires : OneLaunches(p, q, t)
    BY <2>1 DEF OneLaunches
  <2> QED
    BY <2>2, <2>3, <2>4 DEF LaunchInv
<1>2. SchedulerInv /\ H /\ LaunchInv /\ [SchedulerNext]_schedulerVars => LaunchInv'
  <2> SUFFICES ASSUME PlainType, H, LaunchInv, [SchedulerNext]_schedulerVars
               PROVE  LaunchInv'
    BY DEF SchedulerInv
  <2>1. ASSUME NEW p \in Processes, TickStart(p) PROVE LaunchInv'
    BY <2>1, TickKeepsLaunches
  <2>2. ASSUME NEW p \in Processes, NEW f \in Workflows, Launch(p, f) PROVE LaunchInv'
    BY <2>2, LaunchKeepsLaunches
  <2>3. ASSUME NEW p \in Processes, NEW f \in Workflows, Dispatch(p, f) PROVE LaunchInv'
    <3>1. \A q \in Processes, h \in Workflows : due'[q][h] \in {0, due[q][h]}
      <4>1. due' = due \/ due' = [due EXCEPT ![p][f] = 0]
        BY <2>3 DEF Dispatch, Stamps
      <4>2. due \in [Processes -> [Workflows -> Nat]]
        BY DEF PlainType
      <4> QED
        BY <4>1, <4>2
    <3> QED
      BY <2>3, <3>1, QuietKeepsLaunches DEF Dispatch, history
  <2>4. ASSUME NEW p \in Processes, NEW f \in Workflows, DispatchFails(p, f)
        PROVE  LaunchInv'
    <3>1. \A q \in Processes, h \in Workflows : due'[q][h] \in {0, due[q][h]}
      BY <2>4 DEF DispatchFails, Done, PlainType
    <3> QED
      BY <2>4, <3>1, QuietKeepsLaunches DEF DispatchFails, history
  <2>5. CASE UNCHANGED <<last, due, history>>
    BY <2>5, QuietKeepsLaunches DEF history
  <2>6. ASSUME NEW p \in Processes, TickEnd(p) \/ Stop(p) \/ Cleanup(p)
        PROVE  UNCHANGED <<last, due, history>>
    BY <2>6 DEF TickEnd, Stop, Cleanup
  <2>7. ASSUME NEW p \in Processes, NEW t \in Fires, RunStep(p, t)
        PROVE  UNCHANGED <<last, due, history>>
    BY <2>7 DEF RunStep, RunEnter, RunResume, RunEnd, tickVars
  <2>8. Clock \/ UNCHANGED schedulerVars => UNCHANGED <<last, due, history>>
    BY DEF Clock, CronFires, FireAges, schedulerVars, tickVars
  <2> QED
    BY <2>1, <2>2, <2>3, <2>4, <2>5, <2>6, <2>7, <2>8
    DEF SchedulerNext, Tick, Run, RunStep, LaunchSome
<1>3. LaunchInv => LaunchedOnce
  BY DEF LaunchInv, OwnInv, OneLaunches, LaunchedOnce
<1> QED
  BY <1>1, <1>2, <1>3, TickInvariance, SchedulerInvariance, PTL DEF SchedulerSpec
-----------------------------------------------------------------------------
(* The check of the semaphore before a dispatch.                           *)

Created(p) == {t \in Fires : task[p][t] = "created"}

\* The check lags one task behind: while a stamp is written nobody waits, and
\* the task that was created before it finds a free slot; so the next one is
\* the only one that may have to wait.
LagInv(p) ==
  /\ \A t, u \in Created(p) : t = u
  /\ \A t, u \in Waiting(p) : t = u
  /\ Created(p) # {} => Waiting(p) = {}
  /\ ticker[p] = "stamping" =>
       /\ Waiting(p) = {}
       /\ Created(p) # {} => ~Locked(sem[p])

\* Nobody waits for a semaphore that is not locked.
LEMMA UnlockedNobodyWaits ==
  ASSUME NEW p \in Processes, SlotsOf(p), ~Locked(sem[p])
  PROVE  Waiting(p) = {}
BY DEF SlotsOf, Locked, Waiters, SemaphoreOK, SemaphoreType

\* A slot that is given back does not lock a semaphore.
LEMMA ReleaseKeepsUnlocked ==
  ASSUME NEW s, SemaphoreOK(s, Fires, MaxConcurrent), NEW t, ~Locked(s)
  PROVE  ~Locked(ReleaseSlot(s, t))
<1>1. /\ s \in [free : Nat, queue : Seq(Fires), granted : SUBSET Fires, held : SUBSET Fires]
      /\ s.free # 0 /\ s.queue = << >> /\ s.granted = {}
  BY DEF SemaphoreOK, SemaphoreType, Locked
<1> DEFINE r == [s EXCEPT !.free = @ + 1, !.held = @ \ {t}]
<1>2. r.free = s.free + 1 /\ r.queue = << >> /\ r.granted = {}
  BY <1>1
<1>3. ReleaseSlot(s, t) = r
  BY <1>2 DEF ReleaseSlot, WakeNext
<1> QED
  BY <1>1, <1>2, <1>3 DEF Locked

\* One step of one run.
LEMMA RunKeepsLag ==
  ASSUME SchedulerInv, NEW p \in Processes, NEW t \in Fires, RunStep(p, t), LagInv(p)
  PROVE  LagInv(p)'
<1>1. /\ task \in [Processes -> [Fires -> Places]] /\ sem = [q \in Processes |-> sem[q]]
      /\ SlotsOf(p)
  BY DEF SchedulerInv, PlainType, SemInv
<1>2. ticker' = ticker
  BY DEF RunStep, RunEnter, RunResume, RunEnd, tickVars
<1>3. CASE RunEnter(p, t)
  <2>1. t \in Created(p) /\ Created(p) = {t} /\ Waiting(p) = {}
    BY <1>3 DEF RunEnter, LagInv, Created
  <2>2. Created(p)' = {}
    BY <1>1, <1>3, <2>1 DEF RunEnter, Created
  <2>3. Waiting(p)' \subseteq {t}
    BY <1>1, <1>3, <2>1 DEF RunEnter, Waiting
  <2>4. ticker[p] = "stamping" => Waiting(p)' = {}
    <3> SUFFICES ASSUME ticker[p] = "stamping" PROVE Waiting(p)' = {}
      OBVIOUS
    <3>1. ~Locked(sem[p])
      BY <2>1 DEF LagInv
    <3>2. task'[p][t] = "running"
      BY <1>1, <1>3, <3>1 DEF RunEnter
    <3> QED
      BY <2>3, <3>2 DEF Waiting
  <2> QED
    BY <1>2, <2>2, <2>3, <2>4 DEF LagInv
<1>4. CASE RunResume(p, t)
  <2>0. Waiting(p) # {}
    BY <1>4 DEF RunResume, Waiting
  <2>1. Created(p) = {} /\ ticker[p] # "stamping"
    BY <2>0 DEF LagInv
  <2>3. \A u, v \in Waiting(p) : u = v
    BY DEF LagInv
  <2>2. Created(p)' = {} /\ Waiting(p)' \subseteq Waiting(p)
    BY <1>1, <1>4, <2>1 DEF RunResume, Created, Waiting
  <2> QED
    BY <1>2, <2>1, <2>2, <2>3 DEF LagInv
<1>5. CASE RunEnd(p, t)
  <2>1. Created(p)' = Created(p) /\ Waiting(p)' = Waiting(p)
    BY <1>1, <1>5 DEF RunEnd, Created, Waiting
  <2>2. sem'[p] = ReleaseSlot(sem[p], t)
    BY <1>1, <1>5 DEF RunEnd
  <2>3. ~Locked(sem[p]) => ~Locked(sem'[p])
    BY <1>1, <2>2, ReleaseKeepsUnlocked DEF SlotsOf
  <2> QED
    BY <1>2, <2>1, <2>3 DEF LagInv
<1> QED
  BY <1>3, <1>4, <1>5 DEF RunStep

\* A step that leaves the runs of a process alone.
LEMMA QuietKeepsLag ==
  ASSUME NEW p \in Processes, LagInv(p),
         task'[p] = task[p], sem'[p] = sem[p],
         ticker'[p] = "stamping" => ticker[p] = "stamping"
  PROVE  LagInv(p)'
<1>1. Created(p)' = Created(p) /\ Waiting(p)' = Waiting(p)
  BY DEF Created, Waiting
<1> QED
  BY <1>1 DEF LagInv

(* At most one run is ever launched into a full scheduler.                 *)
THEOREM OneWaits == SchedulerSpec => []OneWaiterAtMost
<1> DEFINE J == \A p \in Processes : LagInv(p)
           H == \A p \in Processes : TickInv(p)
<1>1. SchedulerInit => J
  BY DEF SchedulerInit, LagInv, Created, Waiting
<1>2. SchedulerInv /\ H /\ J /\ [SchedulerNext]_schedulerVars => J'
  <2> SUFFICES ASSUME SchedulerInv, H, J, [SchedulerNext]_schedulerVars, NEW p \in Processes PROVE LagInv(p)'
    OBVIOUS
  <2>0. /\ task \in [Processes -> [Fires -> Places]] /\ sem = [q \in Processes |-> sem[q]]
        /\ ticker \in [Processes -> Tickers]
        /\ SlotsOf(p) /\ LagInv(p)
    BY DEF SchedulerInv, PlainType, SemInv
  <2>1. ASSUME NEW q \in Processes, NEW t \in Fires, RunStep(q, t) PROVE LagInv(p)'
    <3>1. CASE q = p
      BY <2>0, <2>1, <3>1, RunKeepsLag
    <3>2. CASE q # p
      <4>1. task'[p] = task[p] /\ sem'[p] = sem[p] /\ ticker' = ticker
        BY <2>0, <2>1, <3>2 DEF RunStep, RunEnter, RunResume, RunEnd, tickVars
      <4> QED
        BY <2>0, <4>1, QuietKeepsLag
    <3> QED
      BY <3>1, <3>2
  <2>2. ASSUME NEW q \in Processes, NEW f \in Workflows, Dispatch(q, f)
        PROVE  LagInv(p)'
    <3>1. task' = task /\ sem' = sem
      BY <2>2 DEF Dispatch
    <3>2. CASE q = p /\ ~Locked(sem[p])
      <4>1. Waiting(p) = {} /\ Waiting(p)' = {} /\ Created(p)' = Created(p)
        BY <2>0, <3>1, <3>2, UnlockedNobodyWaits DEF Waiting, Created
      <4> QED
        BY <2>0, <3>1, <3>2, <4>1 DEF LagInv
    <3>3. CASE q # p \/ Locked(sem[p])
      <4>1. ticker'[p] = ticker[p]
        BY <2>0, <2>2, <3>3 DEF Dispatch, Stamps
      <4> QED
        BY <2>0, <3>1, <4>1, QuietKeepsLag
    <3> QED
      BY <3>2, <3>3
  <2>3. ASSUME NEW q \in Processes, NEW f \in Workflows, Launch(q, f) PROVE LagInv(p)'
    <3>1. CASE q = p
      <4> DEFINE c == <<f, due[p][f]>>
      <4>0. ticker[p] = "stamping" /\ Created(p) = {}
        BY <2>0, <2>3, <3>1 DEF Launch, Creates, Created, TickInv
      <4>1. Waiting(p) = {}
        BY <2>0, <4>0 DEF LagInv
      <4>3. ticker'[p] = "ticking"
        BY <2>0, <2>3, <3>1 DEF Launch, Done
      <4>2. Created(p)' \subseteq {c} /\ Waiting(p)' = {}
        BY <2>0, <2>3, <3>1, <4>0, <4>1 DEF Launch, Creates, Created, Waiting
      <4> QED
        BY <4>2, <4>3 DEF LagInv
    <3>2. CASE q # p
      BY <2>0, <2>3, <3>2, QuietKeepsLag DEF Launch, Creates, Done
    <3> QED
      BY <3>1, <3>2
  <2>4. ASSUME NEW q \in Processes, Cleanup(q) PROVE LagInv(p)'
    <3>1. CASE q = p
      <4>1. \A t \in Fires : task'[p][t] \notin {"created", "waiting"}
        BY <2>0, <2>4, <3>1 DEF Cleanup
      <4>2. Created(p)' = {} /\ Waiting(p)' = {}
        BY <4>1 DEF Created, Waiting
      <4> QED
        BY <4>2 DEF LagInv
    <3>2. CASE q # p
      BY <2>0, <2>4, <3>2, QuietKeepsLag DEF Cleanup
    <3> QED
      BY <3>1, <3>2
  <2>5. ASSUME NEW q \in Processes, TickStart(q) \/ TickEnd(q) \/ Stop(q)
        PROVE  LagInv(p)'
    <3>1. /\ task' = task /\ sem' = sem
          /\ ticker'[p] = "stamping" => ticker[p] = "stamping"
      BY <2>0, <2>5 DEF TickStart, TickEnd, Stop
    <3> QED
      BY <2>0, <3>1, QuietKeepsLag
  <2>8. ASSUME NEW q \in Processes, NEW f \in Workflows, DispatchFails(q, f)
        PROVE  LagInv(p)'
    <3>1. /\ task' = task /\ sem' = sem
          /\ ticker'[p] = "stamping" => ticker[p] = "stamping"
      BY <2>0, <2>8 DEF DispatchFails, Done
    <3> QED
      BY <2>0, <3>1, QuietKeepsLag
  <2>6. ASSUME UNCHANGED <<task, sem, ticker>> PROVE LagInv(p)'
    BY <2>0, <2>6, QuietKeepsLag
  <2>7. Clock \/ UNCHANGED schedulerVars => UNCHANGED <<task, sem, ticker>>
    BY DEF Clock, CronFires, FireAges, schedulerVars, tickVars
  <2> QED
    BY <2>1, <2>2, <2>3, <2>4, <2>5, <2>6, <2>7, <2>8 DEF SchedulerNext, Tick, Run, RunStep, LaunchSome
<1>3. J => OneWaiterAtMost
  <2> SUFFICES ASSUME J, NEW p \in Processes PROVE Cardinality(Waiting(p)) <= 1
    BY DEF OneWaiterAtMost, Waiting
  <2>1. \A t, u \in Waiting(p) : t = u
    BY DEF LagInv
  <2>2. CASE Waiting(p) = {}
    BY <2>2, FS_EmptySet
  <2>3. CASE Waiting(p) # {}
    <3>1. PICK t : Waiting(p) = {t}
      BY <2>1, <2>3
    <3>2. Cardinality({t}) = 1
      BY FS_Singleton
    <3> QED
      BY <3>1, <3>2
  <2> QED
    BY <2>2, <2>3
<1> QED
  BY <1>1, <1>2, <1>3, TickInvariance, SchedulerInvariance, PTL DEF SchedulerSpec
=============================================================================
