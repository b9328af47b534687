CONSTANTS
    W = 6
    HZ = 1000
    Timeouts = {0, 3, 20}
    SleepRequests = {}
    MaxCutdowns = 2
    None = None
SPECIFICATION FairSpec
PROPERTIES
    DeadlineExpires
