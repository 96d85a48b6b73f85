SPECIFICATION ClusterFairSpec
CONSTANTS
    a = a
    b = b
    pub = pub
    NoSnapshot = NoSnapshot
    Node <- MCNode
    Link <- OneLink
    Snapshot <- ThreeNames
    ReplTime <- NoTime
    Report <- Advert
    InFlight = 1
    Clients = {"aman", "amanctl"}
    Commands = {"MM", "MS", "MI"}
    MayFail = FALSE
    Outages = FALSE
    MaxInputs = 3
    MaxCrashes = 0
    MaxLosses = 1
PROPERTIES
    DualMasterResolves
    SlaveHasMaster
INVARIANTS
    ConflictIsNews
    RoleIsReplication
