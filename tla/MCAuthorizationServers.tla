---------------------- MODULE MCAuthorizationServers ----------------------
(***************************************************************************)
(* Model checking of AuthorizationServers: handlers of one kind and the    *)
(* rows are symmetric.                                                     *)
(***************************************************************************)
EXTENDS AuthorizationServers, TLC

Symmetry == Permutations(Pushes) \cup Permutations(Authorizations)
                \cup Permutations(Callbacks) \cup Permutations(Exchanges)
===========================================================================
