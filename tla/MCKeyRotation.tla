--------------------------- MODULE MCKeyRotation ---------------------------
(***************************************************************************)
(* Model checking of KeyRotation.  Instances and calls are interchangeable *)
(* in the runs that check no liveness.                                     *)
(***************************************************************************)
EXTENDS KeyRotation, TLC

Symmetry == Permutations(Instances) \cup Permutations(Calls)
============================================================================
