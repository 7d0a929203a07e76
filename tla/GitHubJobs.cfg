\* A request, the scheduler it leaves behind and a watch round under their fairness;
\* the pull request is closed, reopened and edited twice, a call or a process fails
\* once, and an attempt may be followed by a second one.
CONSTANTS
    Requests = {r1}
    Watchers = {w1}
    Schedulers = {r1}
    Facts = {f1, f2}
    FirstFact = f1
    MaxAttempts = 2
    MaxShadows = 2
    MaxChanges = 2
    MaxFailures = 1
SPECIFICATION FairSpec
INVARIANT CloseReceipt
PROPERTIES
    BackoffKept
    ClosedRetires
    OpenMapped
