SPECIFICATION WaitsSpec
CONSTANTS
    k1 = k1  k2 = k2
    r1 = r1  r2 = r2
    c1 = c1  c2 = c2
    Keys = {k1, k2}
    Requests = {r1, r2}
    Profiles <- Shared
    Chain <- TwoModels
    Starts = {0}
    MaxRetryAttempts = 0
    AgentCooldown = 1
    ConcLimit = 3
    StreamAttempts = 2
    Retryable = {429, 500}
    Faults = {"network", "stream", "cut"}
    Replies <- ServerError
    FailureThreshold = 1
    SuccessThreshold = 1
    ThresholdLookup <- NoOverrides
    HalfOpenMaxRequests = 1
    Cooldown = 1
    CooldownOverrides = {1}
    MinQuotaCooldown = 0
    MaxBackoffLevel = 1
    LevelCap = 1
    Classifier <- classifyHTTPError
    MaxCircuits = 5
    IdleTTL = 9
    MaxTime = 3
    AuthCooldown = 1
    ServerCooldown = 1
    UnknownCooldown = 1
    OpaqueCooldown = 1
    ModelNotFoundCooldown = 1
    RateLimitBase = 1
    QuotaBase = 1
    CapacityBase = 1
    None = None
    Connectors = {c1, c2}
    Calls = {r1}
    EventCap = 1
INVARIANTS NothingLeaks OneStream
PROPERTIES Terminates ProbesReturn CallersReleased TearsDown
CHECK_DEADLOCK FALSE
