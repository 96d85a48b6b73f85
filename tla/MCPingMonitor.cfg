SPECIFICATION ObservedSpec
CONSTANTS
    a = a
    b = b
    pub = pub
    prv = prv
    s1 = s1
    NoSnapshot = NoSnapshot
    Node <- MCNode
    Link <- BothLinks
    Snapshot <- MCSnapshot
    ReplTime <- MCReplTime
    Report <- TwoReports
    InFlight = 1
INVARIANTS
    UnreachableIsDown
    LossIsAnnounced
    RecoveryIsAnnounced
PROPERTIES
    IsStatusExchange
    CacheConverges
