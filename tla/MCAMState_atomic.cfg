SPECIFICATION Spec
CONSTANTS
    s1 = s1
    s2 = s2
    NoSnapshot = NoSnapshot
    Stump = Stump
    Snapshot <- TwoNames
    Faults = {}
PROPERTY IsDurableRecord
