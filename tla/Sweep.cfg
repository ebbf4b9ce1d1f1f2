SPECIFICATION DSpec
CONSTANTS
    k1 = k1  k2 = k2
    r1 = r1  r2 = r2
    Keys = {k1, k2}
    Requests = {r1}
    Profiles <- EveryAgent
    Chain <- SharedAccount
    Starts = {0}
    MaxRetryAttempts = 1
    AgentCooldown = 1
    ConcLimit = 0
    StreamAttempts = 2
    Retryable = {429, 500}
    Faults = {"cancel", "guard", "key_budget", "provider_budget", "build", "network", "html", "error", "stream", "body", "head", "refusal", "copy", "cut", "stream_error", "slow", "block"}
    Replies <- EveryReply
    FailureThreshold = 2
    SuccessThreshold = 1
    ThresholdLookup <- NoOverrides
    HalfOpenMaxRequests = 1
    Cooldown = 1
    CooldownOverrides = {1}
    MinQuotaCooldown = 0
    MaxBackoffLevel = 1
    LevelCap = 1
    Classifier <- classifyHTTPError
    MaxCircuits = 5
    IdleTTL = 9
    MaxTime = 2
    AuthCooldown = 1
    ServerCooldown = 1
    UnknownCooldown = 1
    OpaqueCooldown = 1
    ModelNotFoundCooldown = 1
    RateLimitBase = 1
    QuotaBase = 1
    CapacityBase = 1
INVARIANTS AnsweredOnce RetryBudget ReportHonest EveryPairTried
PROPERTIES ByokNeverCharged
CHECK_DEADLOCK FALSE
