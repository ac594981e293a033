\* unicast-enable off, multicast-enable on: a client whose ONLINE is
\* recorded is never sent a TGR, because only sinks are ever triggered.
CONSTANTS
    c1 = c1
    c2 = c2
    Names <- MCNames
    MaxFd = 3
    PacketInterval = 1
    PruneInterval = 2
    UnicastEnable = FALSE
    MulticastEnable = TRUE
    BroadcastEnable = FALSE
    MaxConnects = 3
    NULL = NULL
    NoName = NoName
SPECIFICATION Spec
PROPERTY RegisteredIsTriggered
