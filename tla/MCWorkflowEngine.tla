-------------------------- MODULE MCWorkflowEngine --------------------------
(***************************************************************************)
(* A small blueprint for TLC.                                              *)
(*                                                                         *)
(*   mixed    s -> c -t-> a -> j      s -> x -> j      s -> h -> j         *)
(*                 c -f-> b -> j                                           *)
(*            c branches on t / f; x retries once; h is a human node; the  *)
(*            retry settings of b are unreadable; j is the End node        *)
(***************************************************************************)
EXTENDS WorkflowEngineProps

Arrow(from, handle, to) == <<from, handle, to>>
EdgeSource(edges) == [e \in edges |-> e[1]]
EdgeHandle(edges) == [e \in edges |-> e[2]]
EdgeTarget(edges) == [e \in edges |-> e[3]]
AllHandles(edges) == {e[2] : e \in edges}

MixedNodes == {"s", "c", "a", "b", "x", "h", "j"}
MixedEdges ==
  {Arrow("s", "out", "c"), Arrow("s", "out", "x"), Arrow("s", "out", "h"),
   Arrow("c", "t", "a"), Arrow("c", "f", "b"), Arrow("a", "out", "j"),
   Arrow("b", "out", "j"), Arrow("x", "out", "j"), Arrow("h", "out", "j")}
MixedSource == EdgeSource(MixedEdges)
MixedTarget == EdgeTarget(MixedEdges)
MixedHandle == EdgeHandle(MixedEdges)
MixedOrder == <<"s", "c", "x", "h", "a", "b", "j">>
MixedEnds == {"j"}
MixedHumans == {"h"}
MixedStrategy ==
  [n \in MixedNodes |-> CASE n \in {"c", "j"} -> "continue"
                          [] n \in {"a", "b", "x"} -> "fail_branch"
                          [] OTHER -> "stop_workflow"]
MixedRetries == [n \in MixedNodes |-> IF n = "x" THEN 1 ELSE 0]
MixedMisconfigured == {"b"}
MixedFallible == {"c", "a", "x", "h", "j"}
MixedChoices ==
  [n \in MixedNodes |-> IF n = "c" THEN {{"t"}, {"f"}}
                        ELSE {AllHandles(MixedEdges)}]

AllDisruptions == {"cancel", "deadline", "close"}
=============================================================================
