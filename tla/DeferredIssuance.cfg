\* Polls, two completions and a failing request of one transaction in any order;
\* only the cleanup is fair.
SPECIFICATION DeferredFairSpec
CONSTANTS
    NoCredential = NoCredential
    Completes = {c1, c2}
    Fails = {f1}
    Polls = {p1, p2}
INVARIANTS
    RetrievalsMatchCompletions
    ReadyUntilRetrieved
PROPERTIES
    OverdueIsDeleted
