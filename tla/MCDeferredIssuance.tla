------------------------- MODULE MCDeferredIssuance -------------------------
(***************************************************************************)
(* Model checking of DeferredIssuance: requests of one kind are symmetric. *)
(***************************************************************************)
EXTENDS DeferredIssuance, TLC

Symmetry == Permutations(Completes) \cup Permutations(Fails) \cup Permutations(Polls)
=============================================================================
