SPECIFICATION LiveSpec
CONSTANTS
    c1 = c1
    c2 = c2
    a1 = a1
    a2 = a2
    a3 = a3
    w1 = w1
    w2 = w2
    flow1 = flow1
    editor = editor
    NoCall = NoCall
    NoConn = NoConn
    Nobody = Nobody
    Conns = {c1, c2}
    MaxRow = 3
    MaxRun = 4
    MaxInput = 4
    MaxRestart = 0
    QueueEnabled = TRUE
    AutoDrain = TRUE
    Flavors = {"text","later"}
    Ops = {"landing","wait","fail","delete","delegate"}
INVARIANTS
    OneActiveRun
    FirstInFirstOut
    DeliveredOnce
PROPERTIES
    LiveRunsEnd
    LiveQueueDrains
    WorkEnds
CHECK_DEADLOCK FALSE
