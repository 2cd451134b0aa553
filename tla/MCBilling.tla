----------------------------- MODULE MCBilling -----------------------------
(***************************************************************************)
(* Small instances of Billing for TLC.                                     *)
(***************************************************************************)
EXTENDS BillingProps

OneUser == {"u1"}
OneSub == {"s1"}
OneEach == "s1" :> "u1"
TwoSubs == {"s1", "s2"}
BothHis == "s1" :> "u1" @@ "s2" :> "u1"
=============================================================================
