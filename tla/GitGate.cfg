\* Two pushes, a service call with nested work, a capture and the maintenance worker
\* over two repositories.
CONSTANTS
    Pushes = {p1, p2}
    Calls = {w1}
    Captures = {c1}
    Maintainer = gc
    r1 = r1
    r2 = r2
    Repos <- TwoRepos
    NoRepo = none
    NoTask = nobody
    Scopes <- KnownScopes
SPECIFICATION FairSpec
INVARIANTS
    TypeOK
    CaptureAlone
    MaintenanceAlone
    AccessExact
PROPERTY EveryoneLeaves
