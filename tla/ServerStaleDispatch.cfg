\* An OFFLINE handled at a low descriptor frees a sink whose stale read-set bit is still set.
CONSTANTS
    c1 = c1
    c2 = c2
    Names <- MCNames
    MaxFd = 3
    PacketInterval = 1
    PruneInterval = 2
    UnicastEnable = TRUE
    MulticastEnable = TRUE
    BroadcastEnable = FALSE
    MaxConnects = 3
    NULL = NULL
    NoName = NoName
SPECIFICATION Spec
INVARIANT NoFreedDispatch
