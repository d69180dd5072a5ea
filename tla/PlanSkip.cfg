SPECIFICATION Spec
CONSTANTS
    c1 = c1
    c2 = c2
    c3 = c3
    Nobody = Nobody
    Callers = {c1, c2}
    Runner = c1
    NumSteps = 3
    Kind <- Kinds
    Optional = {2}
    MaxAttempts <- Attempts
    MaxFaults = 0
    Ops = {"skip"}
INVARIANTS
    OneRunningStep
CHECK_DEADLOCK FALSE
