-------------------------- MODULE MCActiveIssuance --------------------------
(***************************************************************************)
(* Model checking of ActiveIssuance: a1 and a2 are requests of one access  *)
(* token, b1 and c1 of two others; a configuration takes some of them.     *)
(***************************************************************************)
EXTENDS ActiveIssuance

CONSTANTS a1, a2, b1, c1, A, B, C

SomeTokens == [q \in Issuances |-> CASE q \in {a1, a2} -> A [] q = b1 -> B [] OTHER -> C]
=============================================================================
