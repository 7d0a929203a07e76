\* A watch round that looked at GitHub before a close.
CONSTANTS
    Requests = {r1}
    Watchers = {w1}
    Schedulers = {}
    Facts = {f1}
    FirstFact = f1
    MaxAttempts = 2
    MaxShadows = 1
    MaxChanges = 1
    MaxFailures = 2
SPECIFICATION FairSpec
PROPERTY NoStaleOpen
