\* A CTL frame that arrives in two reads is acted on with the code the client sent.
CONSTANTS
    c1 = c1
    c2 = c2
    Names <- MCNames
    MaxFd = 3
    PacketInterval = 1
    PruneInterval = 2
    UnicastEnable = TRUE
    MulticastEnable = TRUE
    BroadcastEnable = FALSE
    MaxConnects = 3
    NULL = NULL
    NoName = NoName
SPECIFICATION Spec
INVARIANT CtlActedAsSent
