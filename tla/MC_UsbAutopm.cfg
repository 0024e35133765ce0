CONSTANTS
    c1 = c1
    c2 = c2
    c3 = c3
    c4 = c4
    Callers <- MCCallers
    Builds = {TRUE, FALSE}
    MaxDrift = 4

SYMMETRY CallerSymmetry

SPECIFICATION Spec

INVARIANT TypeOK
INVARIANT UsageCountMatchesHoldersWhenAtomic
INVARIANT RuntimeCountMatchesHolders
