SPECIFICATION UseSpec
CONSTANTS
    Bits <- MCBits
    Matches <- NestedMatches
    Priorities = {1, 2}
    Timeouts = {0, 1}
    Instructions = {"a"}
    MaxTime = 2
    MaxFlows = 2
INVARIANTS
    LookupBest
    NonStrictExact
    OnlyExpiredDeleted
    
