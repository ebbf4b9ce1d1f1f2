SPECIFICATION RuntimeSpec
CONSTANTS
    r1 = r1  r2 = r2
    s1 = s1  s2 = s2  tA = tA  tB = tB  tX = tX  tC = tC
    None = None
    Callers = {r1, r2}
    Keys = {"k", "l"}
    Slots = {1, 2, 3}
    Limits = {1, 2}
    MaxKeys = 1
    IdleThreshold = 0
    MaxTime = 1
    ToolCallers = {r1, r2}
    MaxSessions = 4
    Requests = {r1, r2}
    MaxGateways = 2
    Sizes = {1, 2}  Rooms = {1, 2}  MaxReads = 3
    Servers = {s1, s2}
    Tools = {tA, tB, tX, tC}
    Absent = Absent
    Registry <- ToolServer
    AgentServers = {s1, s2}
    Granted = {tA, tB, tX}  Allowed = {tA, tB, tC}
    Ranked <- ToolRanking
    TopN = 1  Floor = {tA}
    Named = TRUE
    MaxIterations = 2  DefaultIterations = 10  IterationCeiling = 50
    Targets = 2  MaxRetries = 0  GovernanceRetries = 1
    Answers <- UpstreamAnswers
    Strict = TRUE
INVARIANTS NoUseAfterClose StreamSound CapacityReturns NoSessionLeft ToolTurnsSound
PROPERTIES BoundedInFlight ReplacedCloses StopEnds BothSidesEnd FreshRejectionSurvives ToolLoopEnds
CHECK_DEADLOCK FALSE
