SPECIFICATION Spec
CONSTANTS
    r1 = r1
    r2 = r2
    r3 = r3
    r4 = r4
    j1 = j1
    j2 = j2
    j3 = j3
    j4 = j4
    w1 = w1
    w2 = w2
    NoRun = NoRun
    Runs = {r1, r2}
    Jobs <- OneJob
    JobOf <- BothForOneJob
    Title <- OneTitle
    Adapter <- OnGreenhouse
    Requests = {1}
    Workers = {w1, w2}
    Ops = {"create", "approve", "cancel"}
    DailyCap = 2
    PlatformCap = 2
    GenericCap = 1
    FastCap = 2
    GenericSubmit = TRUE
    LocalBrowser = FALSE
    MayCrash = FALSE
    MaxPlan = 2
    MaxApprovals = 2
INVARIANT NeverSameJobTwice
CHECK_DEADLOCK FALSE
