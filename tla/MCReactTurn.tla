---------------------------- MODULE MCReactTurn ----------------------------
(***************************************************************************)
(* Small instances of ReactTurn for TLC.                                   *)
(***************************************************************************)
EXTENDS ReactTurnProps, TLC

\* A long native turn with the finish tool; a brief one that is followed or
\* preceded by a short turn; or a turn in json mode with the short one beside it.
FourTurns == {"long", "brief", "json", "short"}
BothModes == [t \in FourTurns |-> IF t \in {"long", "brief"} THEN "native" ELSE "json"]
NativeFinishes == {"long", "brief"}
Lengths == "long" :> 4 @@ "brief" :> 2 @@ "json" :> 3 @@ "short" :> 1
InPairs == {{"long"}, {"brief", "short"}, {"json", "short"}}
Overlapping ==
  "long" :> {} @@ "brief" :> {} @@ "json" :> {"short"} @@ "short" :> {"json"}

\* Two calls of one endpoint, one of them in the background.
TwoCalls == {"search", "report"}
SameHost == [c \in TwoCalls |-> "host"]
InBackground == {"report"}
SomeBatches == {<<"search">>, <<"search", "search">>, <<"report">>}
=============================================================================
