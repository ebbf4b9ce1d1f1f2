SPECIFICATION RequestsSpec
CONSTANTS
    r1 = r1  r2 = r2  s1 = s1  s2 = s2  s3 = s3
    Topics <- MCTopics
    Given <- MCGiven
    Vaults <- MCVaults
    MaxEdits = 2
    Requests = {r1, r2}
    Inputs <- MCInputs
    ApiKeys <- MCApiKeys
    Providers <- MCProviders
    ByokOn = TRUE
    MaxTime = 1  DayLength = 1  MaxGens = 2  MaxTurns = 1  MaxVariants = 1  MaxDispatches = 2
    Dispatches = {"d", "e"}
    Keys = {"a", "b"}
    Costs = {0, 4}
    MaxChunks = 2
    QuotaSource <- MCQuotaSource
    Balances <- MCBalances
    MaxBackoff = 1  MaxMarks = 1
    SessionKeys = {s1, s2, s3}
    Targets = {1, 2}  Pool = {1}  OptedOut = {}
    SessionCap = 2  SessionTtl = 1  Reorder = TRUE  CacheAware = TRUE
    Chats = {r1, r2}
    MaxFaults = 1
    Conversations <- MCConversations
    Depth = 64  AffinityCap = 2  AffinityTtl = 1
    N = 3  Unit = 2  Disabled = {}  MaxBackoffLevel = 1  Sessions = {"r"}  MaxBenches = 1
    Models = {"m"}
    Weight <- MCWeight
    Tokens = {r1, r2}  Policies = {"g"}  PipelineEngines = {"e", "f"}
    Payloads <- MCPayloads
    MaxSize = 2  IndexMax = 1  Threshold = 9  Readers = {"r"}  MaxStores = 3
    Streams <- MCStreams
    Prompts <- MCPrompts
    MaxOutput = 2  MaxParts = 2
SYMMETRY Symmetry
INVARIANTS ServedSound ClaimedOnce FairRotation NeverStarved CacheSound TextSound MeterSound ReservedOnce OneKeyOneBody
PROPERTIES CapacityKept WrittenSecretServes WarmKept OpenerOwned
CHECK_DEADLOCK FALSE
