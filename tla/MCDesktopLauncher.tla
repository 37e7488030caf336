-------------------------- MODULE MCDesktopLauncher --------------------------
(***************************************************************************)
(* Model-checking instance of DesktopLauncher: nothing in it counts, so it *)
(* is finite without a bound.                                              *)
(***************************************************************************)
EXTENDS DesktopLauncher, TLC

Symmetry == Permutations(Launchers) \union Permutations(Tokens)
=============================================================================
