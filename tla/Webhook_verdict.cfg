CONSTANTS
    d1 = d1  d2 = d2  j1 = j1  j2 = j2  j3 = j3  j4 = j4
    None = None
    Delivery = {d1}
    JobId = {j1, j2, j3}
    MaxTries = 3
    Concurrency = 2
    MaxCuts = 1
    Events = {"crash", "throw", "hook"}
SPECIFICATION FairSpec
INVARIANTS AttemptCountTruthful
PROPERTIES ImplementsDelivery EventuallyVerdict
CHECK_DEADLOCK FALSE
