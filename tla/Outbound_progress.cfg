CONSTANTS
    m1 = m1  m2 = m2  a1 = a1  a2 = a2  c1 = c1
    j1 = j1  j2 = j2  j3 = j3  j4 = j4  o1 = o1
    None = None
    Orphan = Orphan
    Message = {m1}
    Contact = {c1}
    Account = {a1}
    JobId = {j1, j2, j3}
    Operator = {}
    To <- OneContact
    Preferred <- NoPreference
    Limit <- LimitTwo
    Concurrency = 2
    MaxAttempts = 3
    MaxCuts = 1
    Failures <- TimeoutOrNetwork
    Events = {"crash", "throw", "age"}
SPECIFICATION FairSpec
PROPERTIES EventuallySettled
CHECK_DEADLOCK FALSE
