SPECIFICATION ServicesSpec
CONSTANTS
    w1 = w1
    w2 = w2
    flow1 = flow1
    flow2 = flow2
    editor = editor
    tg = tg
    fs = fs
    Nobody = Nobody
    NumTasks = 3
    KeyOf <- SharedKey
    Owners = {w1, w2}
    MaxReports = 2
    MaxTaskFaults = 1
    ReminderLimit = 1
    PageSize = 1
    Flows = {flow1, flow2}
    Editors = {editor}
    MaxFlowRuns = 3
    MaxEdits = 1
    MaxFlowStops = 1
    MaxParallel = 1
    Threshold = 2
    Rounds <- TheRounds
    Limit = 1
    MaxRows = 6
    MaxTurns = 2
    MaxCompacts = 2
    MaxMishaps = 1
    MaxSubs = 2
    MaxDepth = 2
    MaxSpend = 1
    MaxInputs = 1
    MaxFailures = 1
    Group <- TheGroup
    MaxAttempts = 2
    MaxModelRounds = 2
    Chats = {tg, fs}
    ReplyBuffer = 1
    MaxTalks = 2
    MaxSessions = 2
    MaxQuestions = 1
    MaxAsks = 3
    MaxConnections = 3
    MaxContinuations = 2
    MaxPolls = 2
    MaxReconnects = 1
    Callers = {w1, w2}
    NoCaller = Nobody
    TimeoutLimit = 2
    MaxProcesses = 2
    MaxIds = 5
    b1 = b1
    b2 = b2
    ag = ag
    sk = sk
    sv = sv
    BundleNames = {b1, b2}
    Agents = {}
    Skills = {sk}
    Servers = {sv}
    NoBundle = Nobody
    MaxTexts = 4
    MaxServed = 4
    MaxSetbacks = 1
SYMMETRY Twins
INVARIANTS
    ServicesTypeOK
    GateHolds
    BreakerNotMissed
    RequestsPaired
    VerdictsTrue
    ContextSurvives
    NothingOutlives
    CountedOnce
    SeenIsStored
    NewestIsHeard
    ContinuedOnce
    AnswerIsOwn
    UsersStateReturns
PROPERTIES
    ObservationsAdvance
CHECK_DEADLOCK FALSE
