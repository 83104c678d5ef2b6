SPECIFICATION Spec
CONSTANTS
    r1 = r1
    r2 = r2
    r3 = r3
    r4 = r4
    j1 = j1
    j2 = j2
    j3 = j3
    j4 = j4
    w1 = w1
    w2 = w2
    NoRun = NoRun
    Runs = {r1, r2}
    Jobs <- OneJob
    JobOf <- BothForOneJob
    Title <- OneTitle
    Adapter <- OnGreenhouse
    Requests = {1}
    Workers = {w1, w2}
    Ops = {"create", "approve", "cancel", "done", "browser"}
    DailyCap = 1
    PlatformCap = 1
    GenericCap = 1
    FastCap = 2
    GenericSubmit = TRUE
    LocalBrowser = FALSE
    MayCrash = TRUE
    MaxPlan = 0
    MaxApprovals = 2
SYMMETRY AllAlike
PROPERTY GateKept
INVARIANT KeyFollowsRun
CHECK_DEADLOCK FALSE
