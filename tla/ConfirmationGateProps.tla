------------------------- MODULE ConfirmationGateProps -------------------------
(***************************************************************************)
(* What the confirmation gate promises.                                    *)
(***************************************************************************)
EXTENDS ConfirmationGate

\* The accepted click about call c, in the terms of HumanGate.
Accepted(c, d) == \E q \in Replies : target[q] = c /\ reply[q] = d

AcceptedAnswer(c) == CASE Accepted(c, "approved") -> "approved"
                       [] Accepted(c, "rejected") -> "rejected"
                       [] OTHER -> "none"

GateOf(c) == CASE call[c] = "allowed" -> "passed"
               [] call[c] \in {"denied", "aborted"} -> "shut"
               [] OTHER -> "open"

Human == INSTANCE HumanGate WITH
  Gates <- Sensitive,
  answer <- [c \in Sensitive |-> AcceptedAnswer(c)],
  gate <- [c \in Sensitive |-> GateOf(c)]

(* A sensitive call runs only on an approval that was accepted, of the     *)
(* people who answer it one at most is told that the answer counts, and    *)
(* that answer is never taken back: whatever races, fails or is aborted.   *)
Implements == Human!Spec

(* No second answer and no sweep turns a recorded answer into another: the *)
(* row keeps it, unless the hook's own timeout marked it expired.          *)
AnswerKept ==
  \A q \in Replies : reply[q] \in Decisions =>
    \/ row[target[q]] = reply[q]
    \/ row[target[q]] = "expired" /\ call[target[q]] = "denied"

(* Every call is let through, blocked or aborted in the end, although      *)
(* nobody may answer.                                                      *)
CallsEnd == \A c \in Calls : <>(call[c] \in Over)

(* No request outlives its call for ever: "a click days later" finds it    *)
(* answered or expired.                                                    *)
RequestsClosed ==
  \A c \in Calls : row[c] = "pending" ~> row[c] \in Decisions \cup {"expired"}
=============================================================================
