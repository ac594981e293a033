\* The server loop with unicast and multicast triggers: sink uniqueness,
\* the event table against the sink table, and pruning of silent sinks.
CONSTANTS
    c1 = c1
    c2 = c2
    Names <- MCNames
    MaxFd = 3
    PacketInterval = 1
    PruneInterval = 2
    UnicastEnable = TRUE
    MulticastEnable = TRUE
    BroadcastEnable = FALSE
    MaxConnects = 3
    NULL = NULL
    NoName = NoName
SPECIFICATION Spec
INVARIANT TypeOK
INVARIANT OneSinkPerName
INVARIANT EventLogMirrorsSinks
PROPERTY SilentSinkPruned
PROPERTY RegisteredIsTriggered
