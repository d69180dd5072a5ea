SPECIFICATION GatewaySpec
CONSTANTS
    Chats = {"tg","fs"}
    ReplyBuffer = 1
    MaxTalks = 2
    MaxSessions = 2
    MaxQuestions = 1
INVARIANTS
    ReplyContinues
CHECK_DEADLOCK FALSE
