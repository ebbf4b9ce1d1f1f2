SPECIFICATION Spec
CONSTANTS
    k1 = k1  k2 = k2  k3 = k3
    Keys = {k1, k2, k3}
    FailureThreshold = 2
    SuccessThreshold = 1
    ThresholdLookup <- StrictK1
    HalfOpenMaxRequests = 2
    Cooldown = 1
    CooldownOverrides = {0, 1, 2}
    MinQuotaCooldown = 2
    MaxBackoffLevel = 1
    LevelCap = 1
    Replies <- FourReplies
    Classifier <- classifyHTTPError
    MaxCircuits = 2
    IdleTTL = 1
    MaxTime = 3
    AuthCooldown = 2
    ServerCooldown = 1
    UnknownCooldown = 2
    OpaqueCooldown = 1
    ModelNotFoundCooldown = 1
    RateLimitBase = 1
    QuotaBase = 1
    CapacityBase = 1
SYMMETRY Symmetry
INVARIANTS CircuitCoherent
PROPERTIES DeadlinesOnlyExtend TrippedNeverShed
