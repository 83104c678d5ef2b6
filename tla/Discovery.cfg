SPECIFICATION FairSpec
CONSTANTS
    j1 = j1
    j2 = j2
    c1 = c1
    c2 = c2
    k1 = k1
    u1 = u1
    u2 = u2
    l1 = l1
    l2 = l2
    d1 = d1
    d2 = d2
    a1 = a1
    a2 = a2
    b1 = b1
    b2 = b2
    w1 = w1
    w2 = w2
    Jobs = {j1, j2}
    Crawlers = {c1, c2}
    Checks = {k1}
    Users = {u1, u2}
    Lookers = {l1, l2}
    Digests = {d1, d2}
    Offers = {j1}
    AlertScenes <- MCAlertScenes
    Alerts = {a1, a2}
    Beats = {b1, b2}
    Workers = {w1, w2}
    HostSlots = 1
    LiveSlots = 1
    GoneAfter = 2
    MaxJobs = 2
    MaxChanges = 4
    MaxDeaths = 1
    MaxAsks = 3
    MaxDay = 2
    MaxRuns = 2
    MaxFaults = 1
    Quota = 2
    CrawlScenes <- MCCrawlScenes
    FollowScenes <- MCFollowScenes
    Wanted <- MCWanted
    s1 = s1
    s2 = s2
    p1 = p1
    p2 = p2
    p3 = p3
    Searches = {s1, s2}
    Askers = {u1, u2}
    SourceScenes <- MCSourceScenes
    ScoringScenes <- MCScoringScenes
    Scopes <- MCScopes
    Retries = 1
    OwnCap = 2
    SharedCap = 1
    TotalCap = 1
    BreakerFailures = 2
    MaxDays = 2
    Postings = {p1, p2, p3}
    Tries = 2
    TopScore = 1
INVARIANT TypesOK
 
INVARIANT NeverStuck
INVARIANT EachJudged
INVARIANT MailsOnce
PROPERTY IndexSettles
 
 
CHECK_DEADLOCK FALSE
