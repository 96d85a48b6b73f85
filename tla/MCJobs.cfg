SPECIFICATION JobsFairSpec
CONSTANTS
    TickInterval = 10
    ConfTimeout = 30
INVARIANTS
    SlaveIsScheduled
    IdleCopiesNothing
    FailureIsMailed
PROPERTIES
    IdleStaysIdle
    SlaveKeepsCopying
    StopIsShown
    StopIsMailed
