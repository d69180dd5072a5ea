SPECIFICATION WebSpec
CONSTANTS
    MaxAsks = 2
    MaxConnections = 2
    MaxContinuations = 1
    MaxPolls = 2
    MaxReconnects = 1
INVARIANTS
    SentOnce
CHECK_DEADLOCK FALSE
