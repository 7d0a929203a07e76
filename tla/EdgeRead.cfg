\* Two requests at a time, a forced push, a permission lost and regained.
CONSTANTS
    Snapshots <- TwoSnapshots
    First = 1
    Contains <- Tips
    Objects <- TwoTips
    Requests = {r1, r2}
    Concurrency = 1
    Backlog = 1
    RecentViews = 2
    RecentWindow = 2
    TTL = 2
    Margin = 1
    MaxPushes = 1
    MaxRevokes = 2
    MaxTime = 3
    NoView = none
    NoObject = nothing
SPECIFICATION Spec
SYMMETRY Symmetry
INVARIANTS
    AuthorizedAfterCopy
    DiscoveryCurrent
    ServedExactly
    NoLeaseLeft
PROPERTY RevocationBounded
