SPECIFICATION Spec
CONSTANTS
    r1 = r1
    r2 = r2
    r3 = r3
    r4 = r4
    j1 = j1
    j2 = j2
    j3 = j3
    j4 = j4
    w1 = w1
    w2 = w2
    NoRun = NoRun
    Runs = {r1, r2, r3, r4}
    Jobs <- FourJobs
    JobOf <- OneRunEach
    Title <- JobsUnrelated
    Adapter <- LastOnLinkedIn
    Requests = {1}
    Workers = {w1, w2}
    Ops = {"create", "approve", "assist", "closed"}
    DailyCap = 1
    PlatformCap = 1
    GenericCap = 1
    FastCap = 2
    GenericSubmit = TRUE
    LocalBrowser = TRUE
    MayCrash = FALSE
    MaxPlan = 0
    MaxApprovals = 1
SYMMETRY RunsWithJobs
INVARIANT FastNeverSubmits
INVARIANT CapOvershootIsBounded
CHECK_DEADLOCK FALSE
