SPECIFICATION Spec
CONSTANTS
    a = a
    b = b
    pub = pub
    prv = prv
    s1 = s1
    NoSnapshot = NoSnapshot
    Node <- MCNode
    Link <- OneLink
    Snapshot <- MCSnapshot
    ReplTime <- MCReplTime
    Report <- MoreReports
    InFlight = 1
INVARIANT TimeIsPassedOn
