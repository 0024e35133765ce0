CONSTANTS
    Addrs <- MCAddrs
    Data <- MCData
    SlaveBytes <- MCSlaveBytes
    MaxCalls <- MCMaxCalls
SPECIFICATION Spec
PROPERTY ConditionsOnlyFromTheirCalls
CHECK_DEADLOCK FALSE
