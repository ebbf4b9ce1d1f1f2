SPECIFICATION MCFairSpec
CONSTANTS
    p1 = p1 p2 = p2
    ToolCallers = {p1, p2}
    MaxSessions = 2
PROPERTIES RecoversAtRequestTime
CHECK_DEADLOCK FALSE
