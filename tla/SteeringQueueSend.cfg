SPECIFICATION Spec
CONSTANTS
    c1 = c1
    NoConn = NoConn
    Conns = {c1}
    MaxRow = 2
    MaxRun = 4
    MaxInput = 3
    MaxRestart = 0
    QueueEnabled = TRUE
    AutoDrain = TRUE
    Flavors = {"text","later"}
    Ops = {"queue_send"}
INVARIANTS
    DeliveredOnce
CHECK_DEADLOCK FALSE
