\* Two callers, three views of two repositories, two pending jobs and one
\* transfer at a time.
CONSTANTS
    v1 = v1
    v2 = v2
    v3 = v3
    s1 = s1
    s2 = s2
    Views <- ThreeViews
    Stores <- TwoStores
    StoreOf <- StoreOfThree
    Callers = {a, b}
    Jobs <- ThreeObjects
    Queues <- ThreeObjects
    MaxPending = 2
    Concurrency = 1
    NoView = none
SPECIFICATION Spec
SYMMETRY Symmetry
INVARIANTS
    TypeOK
    OneTransferPerStore
    SingleFlight
    QuietWhenClosed
    WaiterServed
CHECK_DEADLOCK FALSE
