SPECIFICATION ClusterSpec
CONSTANTS
    a = a
    b = b
    pub = pub
    NoSnapshot = NoSnapshot
    Node <- MCNode
    Link <- OneLink
    Snapshot <- OneName
    ReplTime <- SomeTimes
    Report <- Advert
    InFlight = 1
    Clients = {"raw"}
    Commands = {"SM", "AS", "AI"}
    MayFail = TRUE
    Outages = TRUE
    MaxInputs = 1
    MaxCrashes = 0
    MaxLosses = 0
SYMMETRY Swap
INVARIANT AdvertisedIsDurable
