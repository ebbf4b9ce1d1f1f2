SPECIFICATION FixedSpec
CONSTANTS
    h1 = h1  h2 = h2
    Hosts = {h1}
    Limits = {1}
    Sizes = {1}
    TicksPerMinute = 3
    StaleThreshold = 9
    MaxHosts = 1
    MaxTime = 4
    MaxAdmitted = 4
INVARIANTS RateHonoured
CHECK_DEADLOCK FALSE
