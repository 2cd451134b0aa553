-------------------------------- MODULE Sums --------------------------------
(***************************************************************************)
(* The sum of the counts f has for the members of S.                       *)
(***************************************************************************)
EXTENDS Integers, FiniteSets, Functions

SumOver(f, S) == FoldFunctionOnSet(+, 0, f, S)
=============================================================================
