\* Two dispatches of one changed fact.
CONSTANTS
    Requests = {r1, r2}
    Watchers = {}
    Schedulers = {r1, r2}
    Facts = {f1, f2}
    FirstFact = f1
    MaxAttempts = 2
    MaxShadows = 1
    MaxChanges = 1
    MaxFailures = 2
SPECIFICATION FairSpec
PROPERTY DuplicateKeeps
