SPECIFICATION RuntimeSpec
CONSTANTS
    r1 = r1
    r2 = r2
    r3 = r3
    a1 = a1
    a2 = a2
    k1 = k1
    k2 = k2
    NoKey = NoKey
    Runs = {r1, r2, r3}
    Apps = {a1, a2}
    AppOf <- TwoApps
    Keys = {k1, k2}
    ServiceOf <- OwnService
    MaxEntry = 4
    MaxFaults = 1
    Parts = {"workspace", "hub", "view"}
    Talks <- OneBelow
    MaxSteps <- OneRound
    MaxTries = 1
    MaxTexts = 1
    MaxTools = 1
    Cuts = {"cancelled", "timeout"}
    h1 = h1
    h2 = h2
    h3 = h3
    NoCall = NoCall
    Asks = {h1, h2}
    Confirms = {h3}
    MaxRun = 1
    RunOf <- OneHub
    Timed = {h1, h2, h3}
    InboxCap = 2
    PendingCap = 1
    MaxAnswers = 1
    MaxCancels = 1
INVARIANTS
    RuntimeTypeOK
    NoCrossTalk
    AnswersConserved
    NobodyForgotten
    CountsRight
    HeldIsIndexed
    NothingLeft
    ShownAsStored
CHECK_DEADLOCK FALSE
