---------------------------- MODULE MCApprovalGate ----------------------------
(***************************************************************************)
(* Small instances of ApprovalGate for TLC.                                *)
(***************************************************************************)
EXTENDS ApprovalGateProps

CONSTANTS q1, q2, q3

ThreeRequests == {q1, q2, q3}

AnyContext == BOOLEAN

AllFaults == {"expire", "timeout", "cancel", "delete"}
=============================================================================
