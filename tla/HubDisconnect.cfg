SPECIFICATION HubFairSpec
CONSTANTS
    a1 = a1
    k1 = k1
    NoCall = NoCall
    Asks = {a1}
    Confirms = {k1}
    MaxRun = 1
    RunOf <- OneRun
    Timed = {}
    InboxCap = 2
    PendingCap = 1
    MaxAnswers = 1
    MaxCancels = 0
PROPERTIES
    AllReleased
CHECK_DEADLOCK FALSE
