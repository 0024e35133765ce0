CONSTANTS
    s1 = s1
    s2 = s2
    Senders <- MCSenders
    NumTx = 3
    QLimit = 2
    NumRx = 2

SYMMETRY Symmetry

SPECIFICATION Spec

INVARIANT NoStaleSkbs
