--------------------------- MODULE MC_I2CBitXfer ---------------------------
(* Bounds for checking I2CBitXfer: one slave at 7-bit address 0x50 and one  *)
(* at 10-bit address 0x2A5, a message of each kind bit_xfer treats apart,  *)
(* and transactions of one message or of two (to reach Sr, NOSTART chains  *)
(* and a failure in the second message).                                   *)
EXTENDS I2CBitXfer

W7     == [addr |-> 80,  flags |-> {},                            len |-> 1]
W7Nak  == [addr |-> 80,  flags |-> {"IGNORE_NAK"},                len |-> 1]
R7     == [addr |-> 80,  flags |-> {"RD"},                        len |-> 2]
R7Rev  == [addr |-> 80,  flags |-> {"RD", "REV_DIR_ADDR"},        len |-> 1]
Blk    == [addr |-> 80,  flags |-> {"RD", "RECV_LEN"},            len |-> 1]
BlkNA  == [addr |-> 80,  flags |-> {"RD", "RECV_LEN", "NO_RD_ACK"}, len |-> 1]
R10    == [addr |-> 677, flags |-> {"TEN", "RD"},                 len |-> 1]
W10Nak == [addr |-> 677, flags |-> {"TEN", "IGNORE_NAK"},         len |-> 1]
WCont  == [addr |-> 80,  flags |-> {"NOSTART"},                   len |-> 1]

MCTransactions ==
    {<<x>> : x \in {W7, W7Nak, R7, R7Rev, Blk, BlkNA, R10, W10Nak, WCont}}
    \cup {<<W7, R7>>, <<W7, Blk>>, <<W7, WCont>>, <<W7Nak, R10>>, <<R7, W7>>}

MCReadVals == {0, 1, 2, 33}
=============================================================================
