\* One Multica row, a poller and an inline caller under the pollers' fairness;
\* both may stall past the lease.
CONSTANTS
    Typed = {1}
    Untyped = {}
    Pollers = {p1}
    Callers = {c1}
    Limit = 2
    MaxAttempts = 2
    Lease = 2
    Backoffs = {1}
    MaxStall = 3
    MaxFailures = 1
SPECIFICATION FairSpec
INVARIANTS
    LeaseExclusive
    SettledTruthfully
    OverrunBounded
PROPERTIES
    SettledIsFinal
    TypedSettles
