CONSTANTS
    W = 12
    HZ = 1000
    Timeouts = {}
    SleepRequests = {1}
    MaxCutdowns = 0
    None = None
SPECIFICATION Spec
INVARIANTS
    SleepHasRequestedLength
