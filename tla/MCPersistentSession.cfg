CONSTANTS
    u1 = u1
    u2 = u2
    t1 = t1
    t2 = t2
    None = None
    Users <- MCUsers1
    Topics <- MCTopics1
    MAX_PACKET_ID = 2
    ACK_HANDLER_NUM_MAX = 2
    CleanSession = FALSE
    BrokerQos = {2}
    UserQos = {2}
    MaxCalls = 3
    MaxBrokerMsgs = 1
    MaxDrops = 0
    MaxExpiries = 0
    DeadLinkExpires = FALSE
    MaxChan = 1
    AllocFailSites = {"pubcomp"}
SPECIFICATION FairSpec
PROPERTY
    AckTableDrains
INVARIANT
    Qos2PublishedAtMostOnce
