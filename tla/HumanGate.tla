------------------------------- MODULE HumanGate -------------------------------
(***************************************************************************)
(* What gates that wait for a person promise, whatever their timeouts,     *)
(* races and failures: one answer is accepted at most, it is never taken   *)
(* back, and the work behind a gate goes on only after an approval.  A     *)
(* gate may give up at any time, even when an approval has been accepted,  *)
(* and several gates may move at once.                                     *)
(*                                                                         *)
(* Abstract specification of two parts of the code: of                     *)
(* core/hooks/feishu_gate_hook.py, which ConfirmationGate models (a gate   *)
(* is a sensitive tool call), and of the human intervention node in        *)
(* core/workflow/nodes.py, which ApprovalGate models (a gate is an         *)
(* attempt of the node).                                                   *)
(***************************************************************************)
CONSTANT Gates

VARIABLES
  answer, \* the accepted answer of each gate
  gate    \* "open" while the work behind it waits

Answers == {"approved", "rejected"}

Init ==
  /\ answer = [g \in Gates |-> "none"]
  /\ gate = [g \in Gates |-> "open"]

Accept(g) == answer[g] = "none" /\ answer'[g] \in Answers /\ gate'[g] = gate[g]

Pass(g) ==
  /\ gate[g] = "open" /\ answer[g] = "approved"
  /\ gate'[g] = "passed" /\ answer'[g] = answer[g]

GiveUp(g) == gate[g] = "open" /\ gate'[g] = "shut" /\ answer'[g] = answer[g]

Stay(g) == gate'[g] = gate[g] /\ answer'[g] = answer[g]

Next == \A g \in Gates : Accept(g) \/ Pass(g) \/ GiveUp(g) \/ Stay(g)

Spec == Init /\ [][Next]_<<answer, gate>>
=============================================================================
