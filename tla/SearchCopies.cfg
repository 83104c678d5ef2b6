SPECIFICATION Spec
CONSTANTS
    j1 = j1
    j2 = j2
    t1 = t1
    t2 = t2
    t3 = t3
    NoJob = NoJob
    Jobs = {j1, j2}
    Titles <- TwoTitles
    AtOnce = 2
    ScoreBatch = 1
    Places = 1
    Found <- TwoJobs
    Stored <- SecondStored
    FirstRow <- SecondMet
    IncludeSeen = TRUE
    CountApplicants = TRUE
    MaxFaults = 0
    MayCancel = TRUE
    UserStates = {"hidden", "seen"}
INVARIANT ScoredOnce
INVARIANT FeedSettles
CHECK_DEADLOCK FALSE
