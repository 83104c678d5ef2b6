SPECIFICATION FairSpec
CONSTANTS
    j1 = j1
    j2 = j2
    t1 = t1
    t2 = t2
    t3 = t3
    NoJob = NoJob
    Jobs = {j1}
    Titles <- ThreeTitles
    AtOnce = 2
    ScoreBatch = 1
    Places = 1
    Found <- OneJob
    Stored <- OneNotStored
    FirstRow <- JobIsNew
    IncludeSeen = FALSE
    CountApplicants = FALSE
    MaxFaults = 1
    MayCancel = TRUE
    UserStates = {}
INVARIANT TypeOK
 
PROPERTY RunCompletes
CHECK_DEADLOCK FALSE
