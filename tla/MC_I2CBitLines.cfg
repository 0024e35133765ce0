CONSTANTS
    Addrs <- MCAddrs
    Data <- MCData
    SlaveBytes <- MCSlaveBytes
    MaxCalls <- MCMaxCalls
SPECIFICATION FairSpec
INVARIANT TypeOK
PROPERTY  CallsReturn
CHECK_DEADLOCK FALSE
