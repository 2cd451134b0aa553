-------------------------- MODULE MCConfirmationGate --------------------------
(***************************************************************************)
(* Small instances of ConfirmationGate for TLC.                            *)
(***************************************************************************)
EXTENDS ConfirmationGateProps

TurnCalls == {"c1", "c2", "c3"}
SensitiveCalls == {"c1", "c2"}
TurnReplies == {"p1", "f1"}
PortalReplies == {"p1"}
AllSettings ==
  [mode : {"channel_only", "inline_only", "auto"}, channel : BOOLEAN]
AllFaults == {"raise", "undelivered", "abort"}
=============================================================================
