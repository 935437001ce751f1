SPECIFICATION Spec
CONSTANTS
    Bits <- MCBits
    Matches <- MCMatches
    Priorities = {1, 2}
    Timeouts = {0}
    Instructions = {"a", "b"}
    MaxTime = 0
    MaxFlows = 2
INVARIANT LookupHighestPriority
