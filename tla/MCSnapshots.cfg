SPECIFICATION SnapSpec
CONSTANTS
    a = a
    b = b
    s1 = s1
    s2 = s2
    NoSnapshot = NoSnapshot
    Node <- MCNode
    Snapshot <- MCSnapshot
    Given = {"MM", "MS", "MI", "GS", "PG", "AR"}
    MayFail = TRUE
    MaxLog = 3
    MaxCrashes = 1
SYMMETRY Alike
INVARIANTS
    SnapTypeOK
    OwnSnapshotKept
PROPERTIES
    SlaveNotCutOff
    SnapshotUsable
