CONSTANTS
    JiffyBits = 4
    Timeout = 3
    MaxElapsed = 6

SPECIFICATION Spec

INVARIANT TypeOK
INVARIANT TimeoutIsGenuine
PROPERTY SclHiReturns
