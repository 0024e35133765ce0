CONSTANTS
    Transactions <- MCTransactions
    ReadVals <- MCReadVals
    Retries = 1
    BlockMax = 32
    HasPreXfer = TRUE
    HasPostXfer = TRUE

SPECIFICATION Spec

INVARIANT TypeOK
INVARIANT BusFraming
INVARIANT ResultMatchesTransfer
INVARIANT AddressBeforeData
INVARIANT MasterAckDiscipline
INVARIANT RetryBound
 
