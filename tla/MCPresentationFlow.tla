------------------------- MODULE MCPresentationFlow -------------------------
(***************************************************************************)
(* Model checking of PresentationFlow: the handlers of one kind only       *)
(* differ in their name, so their sets are symmetric.                      *)
(***************************************************************************)
EXTENDS PresentationFlow, TLC

Symmetry == Permutations(Fetches) \cup Permutations(Responses)
                \cup Permutations(Cancels) \cup Permutations(Jobs)
=============================================================================
