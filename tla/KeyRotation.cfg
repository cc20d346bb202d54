\* An instance, a call, a regeneration, a deletion, an enrolment and a signer
\* interleave over one chain.  The bounds end the work.
SPECIFICATION FairSpec
CONSTANTS
    NoKey = NoKey
    Registrar = Registrar
    Instances = {i1}
    Calls = {c1}
    Regenerations = {r1}
    Deletions = {d1}
    Enrolments = {e1}
    Signers = {s1}
    InternalCA = TRUE
    MaxDue = 1
    MaxFailures = 1
CHECK_DEADLOCK FALSE
INVARIANTS
    SignaturesVerify
    ActiveKeyExists
PROPERTY
    DueIsRotated
