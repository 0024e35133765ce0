CONSTANTS
    c1 = c1
    c2 = c2
    c3 = c3
    c4 = c4
    Callers <- MCTwoCallers
    Builds = {FALSE}
    MaxDrift = 2

SPECIFICATION Spec

INVARIANT UsageCountMatchesHolders
