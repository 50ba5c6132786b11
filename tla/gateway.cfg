CONSTANTS
    ChatConns = {"gpt", "claude"}
    EmbedConns = {"embed"}
    RerankConns = {"cohere"}
    MaxRetries = 1
    ToolNames = {"t1", "t2"}
    MaxChunks = 3
    ChanCap = 1
    Slots = {s1, s2}
    Plans <- Deployments
    MaxMinute = 1
    MaxRequests = 3
    Kinds = {"openai", "azure", "anthropic", "gemini", "ollama"}
    MaxEvents <- EventsOf
    Inputs <- AnswerInputs
    TurnBound <- TurnsOf
    Asks <- TypicalAsks
SPECIFICATION GatewaySpec
SYMMETRY SlotSymmetry
CHECK_DEADLOCK FALSE
INVARIANTS
    Accounting
    AnsweredAndLoggedOnce
    ToolMeaningKept
    CountersExplained
    CapsHold
    RowTellsTheTruth
    ErrorIsClean
    BlocksNest
    StreamIsWhole
    NothingIsLost
    PlanIsAccepted
    ThinkingGoesBack
PROPERTY ImplementsMeter
