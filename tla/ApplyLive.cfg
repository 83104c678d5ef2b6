SPECIFICATION FairSpec
CONSTANTS
    r1 = r1
    r2 = r2
    r3 = r3
    r4 = r4
    j1 = j1
    j2 = j2
    j3 = j3
    j4 = j4
    w1 = w1
    w2 = w2
    NoRun = NoRun
    Runs = {r1}
    Jobs <- OneJob
    JobOf <- BothForOneJob
    Title <- OneTitle
    Adapter <- OnGeneric
    Requests = {1}
    Workers = {w1, w2}
    Ops = {"create", "answer", "approve", "cancel", "paused", "flag", "account", "generic", "resume"}
    DailyCap = 1
    PlatformCap = 1
    GenericCap = 1
    FastCap = 2
    GenericSubmit = TRUE
    LocalBrowser = FALSE
    MayCrash = FALSE
    MaxPlan = 3
    MaxApprovals = 2
INVARIANT WorkedAsApproved
PROPERTY RunsMoveOn
