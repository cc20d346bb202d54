--------------------------- MODULE MCConfigImport ---------------------------
(***************************************************************************)
(* Model checking of ConfigImport: two versions of each document; the      *)
(* folder has the first resource in either version, and the second one or  *)
(* not; the bundle brings the newer version of the second.                 *)
(***************************************************************************)
EXTENDS ConfigImport, TLC

CONSTANTS Old, New

First == [gen |-> 1, text |-> Old]
Second == [gen |-> 2, text |-> New]
SomeDocs == {First, Second}
SomeFolders == {[r \in Resources |-> First],
                [r \in Resources |-> IF r = 1 THEN Second ELSE None]}
SomeBundle == [r \in Resources |-> IF r = 1 THEN None ELSE Second]

\* The first resource is missing or was imported; the second one in any state.
MCInit ==
    /\ Init
    /\ resource[1] # None => meta[1].own = "file-managed" /\ meta[1].gen = 1
MCSpec == MCInit /\ [][Next]_vars

Symmetry == Permutations(Runs)
=============================================================================
