------------------------ MODULE MCAutoSyncScheduler ------------------------
(***************************************************************************)
(* Model-checking instances of AutoSyncScheduler.                          *)
(***************************************************************************)
EXTENDS AutoSyncScheduler, TLC

Symmetry == Permutations(Workers) \union Permutations(Updaters)
=============================================================================
