SPECIFICATION RmtFairSpec
CONSTANTS
    MaxEvents = 4
INVARIANTS
    FollowsItsSnapshot
    ActiveIsScheduled
    IdleCopiesOnce
    ClosedCopiesNothing
    DiesOfChangesOnly
PROPERTIES
    RemoteStopIsShown
CHECK_DEADLOCK FALSE
