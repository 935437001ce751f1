SPECIFICATION FairSpec
CONSTANTS
    of = of
    router = router
    Callbacks <- MCOneCallback
    EndTime = 3
    IdleInterval = 1
    StatsInterval = 2
    WrtInterval = 1
    Horizon = 3
    MaxEvents = 2
    MaxSem = 1
    MaxDelta = 2
INVARIANTS ReportsFresh
PROPERTIES Termination
CHECK_DEADLOCK FALSE
