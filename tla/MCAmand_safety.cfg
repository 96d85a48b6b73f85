SPECIFICATION ClusterSpec
CONSTANTS
    a = a
    b = b
    pub = pub
    NoSnapshot = NoSnapshot
    Node <- MCNode
    Link <- OneLink
    Snapshot <- TwoNames
    ReplTime <- NoTime
    Report <- Advert
    InFlight = 1
    Clients = {"raw"}
    Commands = {"MM", "MS", "MI"}
    MayFail = TRUE
    Outages = TRUE
    MaxInputs = 2
    MaxCrashes = 1
    MaxLosses = 1
SYMMETRY Swap
INVARIANTS
    ClusterTypeOK
    AdvertisedIsDurable
    RestoresPeersSnapshot
