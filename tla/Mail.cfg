SPECIFICATION FairSpec
CONSTANTS
    a1 = a1
    w1 = w1
    w2 = w2
    q1 = q1
    b1 = b1
    b2 = b2
    MaxMessages = 2
    Apps = {a1}
    Workers = {w1, w2}
    Requests = {q1}
    Beats = {b1, b2}
    Categories = {"interview_invite"}
    UserStatuses = {"submitted"}
    MaxPerSync = 1
    MaxGrants = 2
    MaxQueue = 1
    Scenes <- MCScenes
INVARIANT TypeOK
INVARIANT NothingMissed
INVARIANT AppliedOnce
PROPERTY ClaimsOnce
 
CHECK_DEADLOCK FALSE
