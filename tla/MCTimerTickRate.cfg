CONSTANTS
    W = 12
    HZ = 100
    Timeouts = {0, 30}
    SleepRequests = {}
    MaxCutdowns = 1
    None = None
SPECIFICATION Spec
INVARIANTS
    ExpiresOnTime
