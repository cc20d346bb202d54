---------------------------- MODULE MCStatusList ----------------------------
(***************************************************************************)
(* Model checking of StatusList: handlers of one kind are symmetric.       *)
(***************************************************************************)
EXTENDS StatusList, TLC

Symmetry == Permutations(Issues) \cup Permutations(Updates) \cup Permutations(Calls)
=============================================================================
