CONSTANTS
    Transactions <- MCTransactions
    ReadVals <- MCReadVals
    Retries = 1
    BlockMax = 32
    HasPreXfer = TRUE
    HasPostXfer = TRUE

SPECIFICATION Spec

INVARIANT SingleStartStop
