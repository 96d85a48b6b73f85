SPECIFICATION ChannelFairSpec
CONSTANTS
    c1 = c1
    c2 = c2
    k1 = k1
    k2 = k2
    k3 = k3
    NoConn = NoConn
    End = End
    Client <- MCClient
    Conn <- MCConn
    Fd = {4, 5, 6}
    MaxStatus = 1
    MaxCrashes = 1
    MaxEvents = 1
INVARIANTS
    UpToDate
    CommandsAreKnown
    RetryIsScheduled
PROPERTIES
    CatchesUp
    IsStatusView
CHECK_DEADLOCK FALSE
