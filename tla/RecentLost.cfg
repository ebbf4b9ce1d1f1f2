SPECIFICATION HSpec
CONSTANTS
    r1 = r1
    Requests = {r1}
    Inputs <- MCInputs
    Settings <- BothStages
    CacheCap = 1
    ActiveMessages = 2
    TriggerTokens = 3
    Regen <- MCRegen
    ToolProtectionWindow = 2
    MutationWindow = 64
    HardLimit = 9
    Targets <- MCTargets
    KeepPct <- MCKeepPct
    ToolOutputClamp = 9
INVARIANTS RecentKept
CHECK_DEADLOCK FALSE
