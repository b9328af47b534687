CONSTANTS
    u1 = u1
    u2 = u2
    t1 = t1
    t2 = t2
    None = None
    Users <- MCUsers1
    Topics <- MCTopics1
    MAX_PACKET_ID = 3
    ACK_HANDLER_NUM_MAX = 2
    CleanSession = TRUE
    BrokerQos = {2}
    UserQos = {}
    MaxCalls = 2
    MaxBrokerMsgs = 2
    MaxDrops = 1
    MaxExpiries = 2
    DeadLinkExpires = FALSE
    MaxChan = 2
    AllocFailSites = {}
SPECIFICATION Spec
INVARIANT CompletedQos2WasDelivered
