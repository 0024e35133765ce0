CONSTANTS
    x1 = x1
    x2 = x2
    n1 = n1
    Tasks <- MCTasks
    Excl <- MCExcl
    Nrs = {0, 1, 2}
    MaxWakes = 3
SPECIFICATION Spec
INVARIANT StopsOnlyAfterNrExclusive
PROPERTY WalkEnds
