----------------------------- MODULE PlanTurnProps -----------------------------
(***************************************************************************)
(* What a planned turn promises.                                           *)
(***************************************************************************)
EXTENDS PlanTurn

(* A step is at work only on results that are final: every step it depends *)
(* on has completed and its task is over, with all its verifications and   *)
(* retries (execute, _execute_step).  The result need not have passed: the *)
(* retry for wrong citations is verified by nobody.                        *)
BuiltOnFinished ==
  \A s \in plan : task[s] \in Active =>
    \A d \in deps[s] : status[d] = "completed" /\ task[d] \notin Active

(* What is kept for a later round or a later request can be planned on: a  *)
(* completed step comes with everything it was built on, whoever wrote the *)
(* checkpoint last.                                                        *)
CarriedClosed ==
  /\ \A s \in Completed : deps[s] \subseteq Completed
  /\ \A s \in carry : deps[s] \subseteq carry
  /\ \A s \in file.done : file.deps[s] \subseteq file.done

(* A step fails without having run only because a step it depends on has   *)
(* failed: the branch that execute() calls a deadlock is never needed.     *)
CascadesHaveCauses ==
  [][\A s \in plan : status[s] = "pending" /\ status'[s] = "failed" =>
       \E d \in deps[s] : status'[d] = "failed"]_vars

(* While a plan executes, the file holds every step that has completed and *)
(* been reported: a crash loses the steps in flight and no other (chat.py  *)
(* on_step_progress).  Excused is a file whose last save failed, or that   *)
(* an executor which outlived an earlier turn has overwritten.             *)
CheckpointCurrent ==
  phase = "executing" /\ ~spoiled =>
    /\ file.goal = goal
    /\ {s \in settled : status[s] = "completed"} \subseteq file.done

(* What has completed survives every replan of the turn.                   *)
ProgressKept ==
  [][\A s \in settled \cap Completed :
       phase' # "idle" => status'[s] = "completed" /\ s \in plan']_vars

(* Every turn ends, however often its plans fail and its goal is missed.   *)
TurnEnds == phase # "idle" ~> phase = "idle"

=============================================================================
