SPECIFICATION PartsSpec
CONSTANTS
    c1 = c1
    c2 = c2
    NoConn = NoConn
    Conns = {c1, c2}
    MaxRow = 2
    MaxRun = 2
    MaxInput = 3
    MaxRestart = 1
    QueueEnabled = TRUE
    AutoDrain = TRUE
    Flavors = {"text","later","files"}
    Ops = {"landing","wait","fail","cancel","delegate","queue_send","inject","reorder","delete","restart","shutdown"}
INVARIANTS
    TypeOK
    OneEngine
    PromoteAtomic
PROPERTIES
    NoMessageAfterEnd
    QueuedSurvives
    LedgerSpec
CHECK_DEADLOCK FALSE
