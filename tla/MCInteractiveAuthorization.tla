--------------------- MODULE MCInteractiveAuthorization ---------------------
(***************************************************************************)
(* Model checking of InteractiveAuthorization.  In a mixed plan each kind  *)
(* of interaction occurs once.                                             *)
(***************************************************************************)
EXTENDS InteractiveAuthorization, TLC

CONSTANTS s1, s2

Present == "openid4vp_presentation"
Page == "redirect_to_web"
MixedPlans == [s \in {s1, s2} |-> IF s = s1 THEN {<<Page, Present>>} ELSE {<<Present>>}]
TwoPresentations == [s \in {s1} |-> {<<Present, Present>>}]
Symmetry == Permutations(FollowUps) \cup Permutations(Exchanges)
=============================================================================
