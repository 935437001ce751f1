SPECIFICATION PartSpec
CONSTANTS
    Neighbors = {1, 2, 3}
    MaxUpdates = 3
    Nets = {p1, p2}
    asn = 10
    AllowAsIn = FALSE
    NoMax = NoMax
    MaxPaths = 2
    Attributes <- Mixed
CHECK_DEADLOCK FALSE
INVARIANT OutputFollowsLocal
INVARIANT BestInUse
INVARIANT NotToldBack
INVARIANT SelectsBest
