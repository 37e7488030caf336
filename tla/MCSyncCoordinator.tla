------------------------- MODULE MCSyncCoordinator -------------------------
(***************************************************************************)
(* Model-checking instance of SyncCoordinator.  Nothing in it counts, so   *)
(* the state space is finite without a bound.                              *)
(***************************************************************************)
EXTENDS SyncCoordinator, TLC

Symmetry ==
  Permutations(Procs) \union Permutations(Workers) \union Permutations(Closers)
=============================================================================
