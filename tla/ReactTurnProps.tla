--------------------------- MODULE ReactTurnProps ---------------------------
(***************************************************************************)
(* What a turn promises the user who watches it and writes to it.          *)
(***************************************************************************)
EXTENDS ReactTurn

Answered(t) == phase[t] = "done"

(* A message that was accepted while a turn ran is read by the model       *)
(* before the turn has its answer, or given back to the user with it, or   *)
(* dropped because it was recalled.  Three are excused: one that came      *)
(* after the queue was drained for the last time, one that was drained in  *)
(* the last iteration, and one whose turn ran out of budget or iterations. *)
(* And none is accepted for a turn that is over.                           *)
InterruptsAnswered ==
  /\ \A t \in Turns, m \in Messages \ late :
       Answered(t) /\ owner[m] = t =>
         \/ at[m] \in {"seen", "returned"}
         \/ at[m] = "dropped" /\ m \in recalled
         \/ at[m] = "drained" /\ (loop[t].it = Last(t) \/ answer[t].kind = "summary")
  /\ queues # NoTurn => phase[queues] # "over"

(* A message recalled while it waited in the queue the recall was sent to  *)
(* reaches neither the model nor the answer, whichever turn drains it and  *)
(* at whatever point.                                                      *)
RecallHolds == \A m \in recalled : at[m] \in {"queued", "dropped"}

(* What the model writes in reply to the completion checklist is not given *)
(* to the user, neither as the answer nor stitched into it, however many   *)
(* tool calls, truncated segments and injected messages lie between; only  *)
(* the last iteration has nothing else to give.                            *)
VerificationInternal ==
  \A t \in Turns :
    answer[t].kind = "inline" /\ loop[t].it < Last(t) =>
      answer[t].text \cap loop[t].checks = {}

(* A turn that ends before its last iteration waited for every tool it had *)
(* sent to the background, and the model was told of each: none is         *)
(* cancelled silently and no result is left unread.  No tool outlives the  *)
(* loop that started it, however the loop ends.  The turn it may outlive:  *)
(* a loop whose response was cancelled goes on with its tools (Abandon).   *)
AnswerAwaitsTasks ==
  \A t \in Turns :
    /\ answer[t].kind \in {"inline", "finish"} /\ answer[t].cut => loop[t].it = Last(t)
    /\ HasTasks(t) => phase[t] \in InLoop

(* A turn stays within its limits: no call is run BlockAt times and no     *)
(* endpoint is reached EndpointBlockAt times, also when one batch holds    *)
(* the same call twice, and what the state's type bounds (iterations,      *)
(* continuations) is bounded.                                              *)
WithinLimits ==
  /\ TypeOK
  /\ \A t \in Turns, c \in Calls :
       /\ ran[t][c] < BlockAt
       /\ SumOver(ran[t], SameEndpoint(c)) < EndpointBlockAt

(* A turn ends, whatever the model replies, however often it is asked      *)
(* again and however long a background task takes.                         *)
TurnEnds == \A t \in Turns : phase[t] = "begin" ~> phase[t] = "over"

=============================================================================
