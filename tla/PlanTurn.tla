-------------------------------- MODULE PlanTurn --------------------------------
(***************************************************************************)
(* A turn of the chat that plans: the loop of rounds (the DAG endpoint of  *)
(* web/api/chat.py), the plan executor and its step tasks                  *)
(* (core/planner/executor.py), the carryover of completed steps            *)
(* (core/planner/planner.py) and the checkpoint file that lets a repeated  *)
(* request resume them (core/planner/checkpoint.py).                       *)
(*                                                                         *)
(* The steps of a plan are numbered in an order that respects their        *)
(* dependencies, which _validate_dag ensures exists.  Their models, tools  *)
(* and results are left out.                                               *)
(***************************************************************************)
EXTENDS Naturals, FiniteSets

CONSTANTS
  MaxSteps,       \* steps of a plan and of an abandoned one together (bound)
  MaxAbandoned,   \* steps of a plan that is abandoned (bound)
  Goals,          \* requests the user may make
  MaxConcurrency, \* step tasks that execute at once
  MaxRounds,      \* get_dag_max_replan_rounds
  MaxInjects,     \* messages the user injects into a turn (bound)
  Verify,         \* what is verified: "steps", "citations"
  Faults,         \* what may go wrong: "drop": the client leaves or a phase
                  \* raises; "disk": the checkpoint cannot be written or
                  \* removed; "crash": the process dies
  MaxFaults       \* how often the disk fails or a plan is abandoned (bound)

ASSUME PlanAssumption ==
  /\ MaxSteps \in Nat /\ MaxAbandoned \in Nat
  /\ MaxConcurrency \in Nat \ {0}
  /\ MaxRounds \in Nat /\ MaxInjects \in Nat
  /\ Verify \subseteq {"steps", "citations"}
  /\ Faults \subseteq {"drop", "disk", "crash"} /\ MaxFaults \in Nat

Steps == 1 .. MaxSteps

VARIABLES
  phase,    \* where the turn is; "idle" between turns
  goal,     \* what the turn is about
  carry,    \* carryover_steps
  plan,     \* ids of the plan's steps
  deps,     \* PlanStep.dependencies
  status,   \* PlanStep.status
  task,     \* where the task of each step is
  settled,  \* completed_ids of the executor, failed steps included
  stop,     \* exec_stop_event
  injected, \* inject_in_round
  injects,  \* messages injected into the turn
  replans,  \* autonomous_replans
  file,     \* the checkpoint
  ghost,    \* what an executor that outlived its turn is at
  faults,   \* how often the disk failed or a plan was abandoned
  spoiled   \* history: the last save failed, or the ghost has saved since

turnVars == <<phase, goal, carry, injected, injects, replans>>
planVars == <<plan, deps>>
vars == <<turnVars, planVars, status, task, settled, stop, file, ghost, faults,
          spoiled>>

NoDeps == [s \in Steps |-> {}]

\* Half a file is as good as none.
NoFile == [goal |-> "none", done |-> {}, deps |-> NoDeps]
NoGhost == [goal |-> "none", done |-> {}, left |-> {}, deps |-> NoDeps]

Executing == {"running", "checking", "retrying", "citing"}
Active == Executing \cup {"queued", "finished"}
Terminal == {"completed", "failed", "skipped"}

TypeOK ==
  /\ phase \in {"idle", "planning", "executing", "analyzing", "answering"}
  /\ goal \in Goals
  /\ carry \subseteq Steps /\ plan \subseteq Steps /\ settled \subseteq plan
  /\ deps \in [Steps -> SUBSET Steps]
  /\ status \in [Steps -> Terminal \cup {"none", "pending", "running"}]
  /\ task \in [Steps -> Active \cup {"none"}]
  /\ stop \in BOOLEAN /\ injected \in BOOLEAN
  /\ injects \in 0 .. MaxInjects /\ replans \in Nat
  /\ file \in [goal : Goals \cup {"none"}, done : SUBSET Steps,
               deps : [Steps -> SUBSET Steps]]
  /\ ghost \in [goal : Goals \cup {"none"}, done : SUBSET Steps,
                left : SUBSET Steps, deps : [Steps -> SUBSET Steps]]
  /\ faults \in 0 .. MaxFaults /\ spoiled \in BOOLEAN

Init ==
  /\ phase = "idle" /\ goal \in Goals /\ carry = {} /\ plan = {}
  /\ deps = NoDeps
  /\ status = [s \in Steps |-> "none"]
  /\ task = [s \in Steps |-> "none"]
  /\ settled = {} /\ stop = FALSE /\ injected = FALSE
  /\ injects = 0 /\ replans = 0 /\ file = NoFile
  /\ ghost = NoGhost /\ faults = 0 /\ spoiled = FALSE

Completed == {s \in plan : status[s] = "completed"}
Pending == {s \in plan : status[s] = "pending"}

\* A step is recorded with its dependencies; of those that have not completed
\* nothing is ever read.
Record(g, done, d) ==
  [goal |-> g, done |-> done,
   deps |-> [s \in Steps |-> IF s \in done THEN d[s] ELSE {}]]

GoesWrong(what) == what \in Faults /\ faults < MaxFaults /\ faults' = faults + 1

\* DAGCheckpoint.save: a failure, which may leave half a file, is only logged.
Saves(f) ==
  \/ file' = f /\ spoiled' = FALSE /\ UNCHANGED faults
  \/ GoesWrong("disk") /\ file' \in {file, NoFile} /\ spoiled' = TRUE
-----------------------------------------------------------------------------
(* The rounds of the turn.                                                 *)

\* load_completed_steps: a torn file, another goal's or an old one is ignored.
Loadable(g) == IF file.goal = g THEN file.done ELSE {}

Request(g) ==
  /\ phase = "idle"
  /\ phase' = "planning" /\ goal' = g
  /\ carry' \in {Loadable(g), {}}
  /\ deps' = [s \in Steps |-> IF s \in carry' THEN file.deps[s] ELSE {}]
  /\ UNCHANGED <<injected, injects, replans, plan, status, task, settled>>
  /\ UNCHANGED <<stop, file, ghost, faults, spoiled>>

\* Carried steps count as satisfied dependencies.
Seeded == carry

\* The planner adds steps to those carried over, and the plan is saved.
Plan(new, d) ==
  /\ plan' = carry \cup new
  /\ deps' = [s \in Steps |-> IF s \in new THEN d[s] ELSE deps[s]]
  /\ status' = [s \in Steps |-> CASE s \in new -> "pending"
                                  [] s \in carry -> "completed"
                                  [] OTHER -> "none"]
  /\ task' = [s \in Steps |-> "none"]
  /\ settled' = Seeded /\ stop' = FALSE
  /\ Saves(Record(goal, carry, deps))
  /\ UNCHANGED <<goal, carry, injected, injects, replans, ghost>>

\* Mutant of Carryover: only what this round added.
CarryoverOfRound == Completed \ carry

\* What completed survives into the next round.
Carryover == Completed

\* Mutant of Counted: replans of the turn's own are free.
CountedNever(achieved) == replans

\* Replans that the user asked for are free.
Counted(achieved) == IF achieved \/ injected THEN replans ELSE replans + 1

\* PlanAnalyzer's verdict, and the decision to plan again.
Analyze(achieved, unreachable) ==
  LET again == /\ ~achieved
               /\ injected \/ (replans + 2 < MaxRounds /\ ~unreachable)
  IN  /\ phase = "analyzing"
      /\ phase' = IF again THEN "planning" ELSE "answering"
      /\ carry' = Carryover
      /\ replans' = Counted(achieved)
      /\ injected' = (injected /\ ~again)
      /\ UNCHANGED <<planVars, status, task, settled, stop, goal, injects>>
      /\ UNCHANGED <<file, ghost, faults, spoiled>>

\* A drain of the interrupt queue finds a message of the user's.
Inject ==
  /\ phase \in {"planning", "executing", "analyzing"} /\ injects < MaxInjects
  /\ injects' = injects + 1 /\ injected' = TRUE
  /\ stop' = (stop \/ phase = "executing")
  /\ UNCHANGED <<phase, goal, carry, replans, planVars, status, task, settled>>
  /\ UNCHANGED <<file, ghost, faults, spoiled>>

\* The turn is over: what is left of its steps is what the file holds.
Over ==
  /\ phase' = "idle" /\ carry' = {} /\ plan' = {} /\ settled' = {}
  /\ deps' = NoDeps
  /\ status' = [s \in Steps |-> "none"]
  /\ task' = [s \in Steps |-> "none"]
  /\ injected' = FALSE /\ injects' = 0 /\ replans' = 0 /\ stop' = FALSE
  /\ spoiled' = FALSE
  /\ UNCHANGED goal

\* The answer is persisted and the checkpoint cleared.
Answer ==
  /\ phase = "answering" /\ Over
  /\ \/ file' = NoFile /\ UNCHANGED faults
     \/ GoesWrong("disk") /\ UNCHANGED file
  /\ UNCHANGED ghost

\* A poll finds that the client has left, and cancels the executor with its
\* steps; or a phase raises, or the response is cancelled while no plan is
\* executed.
Drop ==
  /\ "drop" \in Faults /\ phase # "idle"
  /\ UNCHANGED <<file, ghost, faults>> /\ Over

\* The process dies, perhaps while write_text is at work on the file itself.
Crash ==
  /\ "crash" \in Faults /\ (phase # "idle" \/ ghost # NoGhost)
  /\ \/ UNCHANGED file
     \/ /\ \/ phase = "planning" \/ ghost # NoGhost
           \/ phase = "executing" /\ \E s \in plan : task[s] = "finished"
        /\ file' = NoFile
  /\ ghost' = NoGhost /\ UNCHANGED faults /\ Over
-----------------------------------------------------------------------------
(* The executor.                                                           *)

\* The least set of pending steps that a failure reaches.
Cascade(pend, failed) ==
  LET closed(C) == \A s \in pend : deps[s] \cap (failed \cup C) # {} => s \in C
  IN  {s \in pend : \A C \in SUBSET pend : closed(C) => s \in C}

\* Mutants of Ready: a status is enough; carried steps satisfy nothing.
ReadyEarly(left, over) == {s \in left : deps[s] \subseteq over \cup Completed}
ReadyWithoutCarry(left, over) == {s \in left : deps[s] \subseteq over \ carry}

Ready(left, over) == {s \in left : deps[s] \subseteq over}

\* What the checkpoint's save writes, by the status of the plan's steps.
Snapshot == Record(goal, Completed, deps)

\* One round of execute(): from asyncio.wait, or the start, to the next wait.
Round ==
  LET done    == {s \in plan : task[s] = "finished"}
      reaped  == settled \cup done
      skipped == IF stop THEN Pending ELSE {}
      cascade == Cascade(Pending \ skipped, {s \in reaped : status[s] = "failed"})
      left    == Pending \ (skipped \cup cascade)
      ready   == Ready(left, reaped \cup cascade)
      running == {s \in plan : task[s] \in Active \ {"finished"}} \cup ready
      stuck   == IF running = {} THEN left ELSE {}
  IN  /\ phase = "executing"
      /\ done # {} \/ \A s \in plan : task[s] \notin Active
      /\ UNCHANGED <<goal, carry, injected, injects, replans, planVars, stop, ghost>>
      /\ status' = [s \in Steps |-> CASE s \in skipped -> "skipped"
                                      [] s \in cascade \cup stuck -> "failed"
                                      [] s \in ready -> "running"
                                      [] OTHER -> status[s]]
      /\ task' = [s \in Steps |-> CASE s \in ready -> "queued"
                                    [] s \in done -> "none"
                                    [] OTHER -> task[s]]
      /\ settled' = reaped \cup cascade \cup stuck
      /\ IF done \cup skipped \cup cascade \cup stuck = {}
         THEN UNCHANGED <<file, faults, spoiled>>
         ELSE Saves(Snapshot)
      /\ phase' = IF running = {} THEN "analyzing" ELSE "executing"

\* A step's task: what becomes of it and of the step's status.
Step(s, from, to, st) ==
  /\ task[s] = from /\ phase = "executing"
  /\ task' = [task EXCEPT ![s] = to]
  /\ status' = [status EXCEPT ![s] = st]
  /\ UNCHANGED <<turnVars, planVars, settled, stop>>
  /\ UNCHANGED <<file, ghost, faults, spoiled>>

Begin(s) ==
  /\ Step(s, "queued", "running", "running")
  /\ Cardinality({t \in plan : task[t] \in Executing}) < MaxConcurrency

\* The agent answers a step that is not verified, llm_direct ones among them...
Answers(s) == Step(s, "running", "finished", "completed")

\* ... or one that is: it counts as completed while it is being verified.
AnswersToVerify(s) ==
  "steps" \in Verify /\ Step(s, "running", "checking", "completed")

Passes(s) ==
  task[s] \in {"checking", "retrying"} /\ Step(s, task[s], "finished", "completed")

\* One more try, with the verifier's reasons, to be verified again.
Refused(s) == Step(s, "checking", "retrying", "completed")

\* Only when it would be finished are the citations of an answer verified.
Cites(s) ==
  /\ "citations" \in Verify
  /\ task[s] \in {"running", "checking", "retrying"}
  /\ task[s] = "running" <=> "steps" \notin Verify
  /\ Step(s, task[s], "citing", "completed")

\* They are right; or there is one more try, which nobody verifies; or that try
\* raises, and the answer with the wrong citations is kept.
Cited(s) == Step(s, "citing", "finished", "completed")

\* An exception, the step's timeout or a second refusal.
Fails(s) == task[s] \in Executing /\ Step(s, task[s], "finished", "failed")

Proceed(s) == \/ Begin(s) \/ Answers(s) \/ AnswersToVerify(s) \/ Passes(s)
              \/ Refused(s) \/ Cites(s) \/ Cited(s) \/ Fails(s)
-----------------------------------------------------------------------------
(* An executor that outlives its turn.                                     *)

CanCollect(g) == {s \in g.left : g.deps[s] \subseteq g.done}

\* Once all that is left depends on a step that failed, it ends.
Lasting(g) == IF CanCollect(g) = {} THEN NoGhost ELSE g

\* The response is cancelled while its plan is executed: nobody cancels the
\* task of the executor.  (Bound: one such executor at a time.)
Abandon ==
  /\ GoesWrong("drop") /\ phase = "executing"
  /\ ghost = NoGhost /\ Cardinality(plan) <= MaxAbandoned
  /\ ghost' = Lasting([goal |-> goal,
                       done |-> settled \cap Completed,
                       left |-> {s \in plan \ settled :
                                   \/ status[s] \in {"running", "completed"}
                                   \/ status[s] = "pending" /\ ~stop},
                       deps |-> deps])
  /\ UNCHANGED file /\ Over

\* It collects a step whose dependencies it has collected, completed or failed,
\* and saves; others that were ready with it may have completed and not been
\* collected, or be verified still.
GhostCollects ==
  \E s \in CanCollect(ghost), completed \in BOOLEAN :
    LET done == ghost.done \cup (IF completed THEN {s} ELSE {})
    IN  /\ \E early \in SUBSET (CanCollect(ghost) \ {s}) :
             LET f == Record(ghost.goal, done \cup early, ghost.deps)
             IN  \/ file' = f /\ UNCHANGED faults
                 \/ GoesWrong("disk") /\ file' \in {file, NoFile}
        /\ spoiled' = (phase # "idle")
        /\ ghost' = Lasting([ghost EXCEPT !.done = done, !.left = @ \ {s}])
        /\ UNCHANGED <<turnVars, planVars, status, task, settled, stop>>
-----------------------------------------------------------------------------
\* What a new step may be built on: steps carried over, and earlier ones.
Edges(new) == {e \in (carry \cup new) \X new : e[1] \in carry \/ e[1] < e[2]}

\* New steps are numbered from the least number that is free.
Planning ==
  /\ phase = "planning" /\ phase' = "executing"
  /\ \E new \in SUBSET (Steps \ carry) :
       /\ \A s \in Steps \ carry : (\E n \in new : s <= n) => s \in new
       /\ new # {} => Cardinality(carry \cup new) + Cardinality(ghost.left)
                        + Cardinality(ghost.done) <= MaxSteps
       /\ \E edges \in SUBSET Edges(new) :
            Plan(new, [s \in new |-> {t \in carry \cup new : <<t, s>> \in edges}])

Analysis ==
  \E achieved, unreachable \in BOOLEAN : Analyze(achieved, unreachable)

Work == Planning \/ Round \/ Analysis \/ Answer \/ \E s \in plan : Proceed(s)

Next == \/ (\E g \in Goals : Request(g)) \/ Work \/ Inject
        \/ Drop \/ Crash \/ Abandon \/ GhostCollects

Spec == Init /\ [][Next]_vars

\* The turn's own work goes on: a step ends within its timeout.
FairSpec == Spec /\ WF_vars(Work)
=============================================================================
