SPECIFICATION LinkSpec
CONSTANTS
    Ids <- MCIds
    RouteChanges <- OtherChanges
    MaxSends = 2
    MaxClock = 1
    Split = FALSE
CHECK_DEADLOCK FALSE
INVARIANT WholeHandledWasSent
INVARIANT NothingHalfRead
PROPERTY WholeHandled
