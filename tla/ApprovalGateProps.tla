-------------------------- MODULE ApprovalGateProps --------------------------
(***************************************************************************)
(* What a human approval promises.                                         *)
(***************************************************************************)
EXTENDS ApprovalGate

(* The executor's "wait for external human approval": the node completes   *)
(* only when somebody's approval of its current attempt was accepted.      *)
HumanApproved ==
  node = "completed" =>
    \E q \in Requests : request[q] = "approved" /\ target[q] = attempt

(* The same of a run whose context has a database: neither a decision on   *)
(* an earlier attempt, a timeout, a deletion nor a race lets the node pass. *)
GateHolds == database => HumanApproved

(* Of the people who answer one approval, at most one is told that the     *)
(* answer was accepted.                                                    *)
OneDecision ==
  \A q, p \in Requests :
    /\ request[q] \in Decisions /\ request[p] \in Decisions
    /\ target[q] = target[p]
    => q = p

(* No second answer, retry or timeout turns an accepted decision into      *)
(* another: its row keeps it, unless it expires or goes with the run.      *)
DecisionKept ==
  \A q \in Requests :
    request[q] \in Decisions
      => approval[target[q]] \in {request[q], "expired", "deleted"}

(* An approval is answered once, and for good.                             *)
AnswerFinal == OneDecision /\ DecisionKept

\* The accepted answer to attempt a, in the terms of HumanGate.
Accepted(a, d) == \E q \in Requests : target[q] = a /\ request[q] = d

AcceptedAnswer(a) == CASE Accepted(a, "approved") -> "approved"
                       [] Accepted(a, "rejected") -> "rejected"
                       [] OTHER -> "none"

\* What the node's current attempt waits for, an attempt to come waits for
\* too; without a database there is nobody to ask and no gate.
GateOf(a) ==
  CASE ~database \/ a > attempt -> "open"
    [] database /\ a = attempt /\ node \in {"asking", "polling", "expiring"} -> "open"
    [] database /\ a = attempt /\ node = "completed" -> "passed"
    [] OTHER -> "shut"

Human == INSTANCE HumanGate WITH
  Gates <- Attempts,
  answer <- [a \in Attempts |-> AcceptedAnswer(a)],
  gate <- [a \in Attempts |-> GateOf(a)]

(* In a run whose context has a database each attempt of the node is one   *)
(* of HumanGate's gates: one answer to it at most is accepted, for good,   *)
(* and the node goes on only after its approval, whatever times out, is    *)
(* retried, cancelled or deleted.                                          *)
KeepsHumanGate == Human!Spec

(* Whatever nobody decides and whatever strikes, the node comes to an end. *)
GateEnds == <>(node \in Over)
=============================================================================
