SPECIFICATION CommandSpec
CONSTANTS
    c1 = c1
    c2 = c2
    c3 = c3
    Nobody = Nobody
    Callers = {c1, c2, c3}
    Runner = c1
    NumSteps = 3
    Kind <- Kinds
    Optional = {2}
    MaxAttempts <- Attempts
    MaxFaults = 1
    Ops = {"resume","retry","skip","cancel","message","hangup"}
SYMMETRY CallerSymmetry
INVARIANTS
    TypeOK
    OnlySkipOverlaps
    SucceedsOnce
    AnsweredOnce
PROPERTIES
    InOrder
    ClosedWhenDone
CHECK_DEADLOCK FALSE
