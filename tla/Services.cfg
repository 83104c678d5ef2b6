SPECIFICATION MCSpec
CONSTANTS
    u1 = u1
    u2 = u2
    u3 = u3
    h1 = h1
    h2 = h2
    m1 = m1
    m2 = m2
    m3 = m3
    p1 = p1
    p2 = p2
    k1 = k1
    k2 = k2
    j1 = j1
    j2 = j2
    t1 = t1
    t2 = t2
    w1 = w1
    w2 = w2
    q1 = q1
    q2 = q2
    q3 = q3
    r1 = r1
    r2 = r2
    r3 = r3
    f1 = f1
    f2 = f2
    x1 = x1
    x2 = x2
    s1 = s1
    s2 = s2
    b1 = b1
    b2 = b2
    o1 = o1
    o2 = o2
    a1 = a1
    a2 = a2
    a3 = a3
    v1 = v1
    v2 = v2
    Users = {u1, u2, u3}
    Owners = {u3}
    Handlers = {h1, h2}
    MaxAttempts = 2
    MaxCodes = 2
    DefaultUses = 2
    MaxTokens = 3
    MaxCalls = 7
    AccountScenes <- MCAccountScenes
    Models = {m1, m2, m3}
    Providers = {p1, p2}
    Rank <- MCRank
    Provider <- MCProvider
    Tasks <- MCTasks
    SpeechOnly = {p2}
    KeyRequired = {p1}
    EnvKeys = {}
    Calls = {k1, k2}
    Slots = 1
    BreakerFailures = 2
    BreakerPause = 2
    RatePause = 1
    MaxPause = 2
    BrokenPause = 3
    MaxEdits = 2
    MaxChunks = 1
    MaxTicks = 2
    RouterScenes <- MCRouterScenes
    PackJobs = {j1, j2}
    Tabs = {t1, t2}
    Hands = {w1, w2}
    MaxRows = 4
    MaxPacks = 2
    MaxQueued = 1
    MaxUploads = 3
    Versions = 2
    PackScenes <- MCPackScenes
    Questions = {q1, q2, q3}
    ProfileQuestions = {}
    PrivateQuestions = {q3}
    Alike <- MCAlike
    Forms = {r1, r2, r3}
    BrowserForms = {r2}
    Fillers = {f1, f2}
    TypedTexts = {"typed"}
    DraftTexts = {"draft", "other"}
    MaxBank = 2
    BankScenes <- MCBankScenes
    Links = {x1, x2}
    Saves = {s1, s2}
    Browsers = {b1, b2}
    MaxConnections = 2
    MaxPaired = 3
    LinkScenes <- MCLinkScenes
    Processes = {o1, o2}
    MaxHours = 3
    RepeatWindow = 3
    BlockScenes <- MCBlockScenes
    Controls = {a1, a2, a3}
    KeyOf <- Same
    Walkers = {v1, v2}
    StepLimit = 3
    MaxLooks = 3
    FormScenes <- MCFormScenes
SYMMETRY Interchangeable
INVARIANT TypesOK
INVARIANT SignInHolds
INVARIANT SomeAdmin
 
INVARIANT PacksHold
 
INVARIANT PageKept
 
 
CHECK_DEADLOCK FALSE
