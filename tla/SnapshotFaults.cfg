\* Two imports, a reader and a capture, room for one of two views; every call may
\* fail.
CONSTANTS
    Views <- TwoViews
    Bytes <- SizesOfTwo
    Holders = {h1}
    Importers = {i1, i2}
    Captures = {c1}
    MaxBytes = 3
    MaxViews = 1
    MinAge = 1
    MaxAge = 2
    MaxTime = 3
    Faults = {"remove", "publish_sync", "close_sync"}
SPECIFICATION Spec
SYMMETRY Symmetry
INVARIANTS
    RefsMatchLeases
    DrainedWhenDown
PROPERTY PinnedViewUntouched
CHECK_DEADLOCK FALSE
