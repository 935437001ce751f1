SPECIFICATION Spec
CONSTANTS
    of = of
    router = router
    Callbacks <- MCCallbacks
    EndTime = 2
    IdleInterval = 1
    StatsInterval = 9
    WrtInterval = 9
    Horizon = 3
    MaxEvents = 3
    MaxSem = 1
    MaxDelta = 2
INVARIANTS
    MutualExclusion
    NoLostWakeup
    HeadNeverNull
    EachEventOnce
    IdleTestDoesNotWrap
    EndLeavesOnlyMessages
PROPERTIES
    
    LoopSpec
CHECK_DEADLOCK FALSE
