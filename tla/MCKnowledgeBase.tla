-------------------------- MODULE MCKnowledgeBase --------------------------
(***************************************************************************)
(* Small instances of KnowledgeBase for TLC.                               *)
(***************************************************************************)
EXTENDS KnowledgeBaseProps

TwoDocuments == {"d1", "d2"}
AllOrNone == {{}, TwoDocuments}
OneText == {"a"}
\* The second document says the same thing twice.
Repeats == "d1" :> <<"a">> @@ "d2" :> <<"a", "a">>
=============================================================================
