CONSTANTS
    u1 = u1
    u2 = u2
    t1 = t1
    t2 = t2
    None = None
    Users <- MCUsers1
    Topics <- MCTopics1
    MAX_PACKET_ID = 2
    ACK_HANDLER_NUM_MAX = 2
    CleanSession = TRUE
    BrokerQos = {2}
    UserQos = {1}
    MaxCalls = 3
    MaxBrokerMsgs = 1
    MaxDrops = 1
    MaxExpiries = 1
    DeadLinkExpires = FALSE
    MaxChan = 2
    AllocFailSites = {"subscribe", "unsubscribe", "publish"}
SPECIFICATION Spec
INVARIANT
    AckCountMatches
