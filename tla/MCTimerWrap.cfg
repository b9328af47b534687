CONSTANTS
    W = 6
    HZ = 1000
    Timeouts = {0, 3, 20}
    SleepRequests = {1}
    MaxCutdowns = 2
    None = None
SPECIFICATION Spec
INVARIANT NeverExpiredEarly
