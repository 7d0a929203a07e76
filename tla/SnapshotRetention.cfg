\* Leases and retention across clean restarts and crashes: three views, room for
\* two small ones or a large one, a reader, an import that may borrow a base, and
\* a capture.
CONSTANTS
    Views <- ThreeViews
    Bytes <- SizesOfThree
    Holders = {h1}
    Importers = {i1}
    Captures = {c1}
    MaxBytes = 2
    MaxViews = 2
    MinAge = 1
    MaxAge = 2
    MaxTime = 3
    Faults = {"publish_sync"}
SPECIFICATION Spec
INVARIANTS
    LeasedViewIntact
    RecentUseProtected
    BudgetRespected
PROPERTY ImplementsViewStore
CHECK_DEADLOCK FALSE
