------------------------ MODULE MCCredentialEndpoint ------------------------
(***************************************************************************)
(* Model checking of CredentialEndpoint: nonces are symmetric, and so are  *)
(* the requests of one kind.                                               *)
(***************************************************************************)
EXTENDS CredentialEndpoint, TLC

Symmetry == Permutations(Requests) \cup Permutations(Notices) \cup Permutations(Nonces)
=============================================================================
