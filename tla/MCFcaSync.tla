----------------------------- MODULE MCFcaSync -----------------------------
(***************************************************************************)
(* Model-checking instances of FcaSync: two datasets imported in another   *)
(* order than they are fetched in, or one dataset and a source without one.*)
(***************************************************************************)
EXTENDS FcaSync, TLC

CONSTANTS s1, s2, r1, r2

FirstThenSecond == <<s1, s2>>
SecondThenFirst == <<s2, s1>>
FirstOnly == <<s1>>

Symmetry == Permutations(RunIds)
=============================================================================
