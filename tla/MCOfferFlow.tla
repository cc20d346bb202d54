---------------------------- MODULE MCOfferFlow ----------------------------
(***************************************************************************)
(* Model checking of OfferFlow: the handlers of one kind are symmetric.    *)
(***************************************************************************)
EXTENDS OfferFlow, TLC

Symmetry == Permutations(Retrievals) \cup Permutations(Pushes)
                \cup Permutations(Authorizations) \cup Permutations(Exchanges)
                \cup Permutations(Cancels)
=============================================================================
