---------------------------- MODULE MC_I2CBitLines ----------------------------
(* I2CBitLines for TLC: a write address and a read address, one data byte  *)
(* and one slave byte whose bit patterns are not palindromes, so a byte    *)
(* sent or read in the wrong bit order is told apart.                      *)
EXTENDS I2CBitLines

MCAddrs == {160, 161}       \* 0x50 << 1, write and read
MCData == {197}             \* 0xc5 = 11000101
MCSlaveBytes == {53}        \* 0x35 = 00110101
MCMaxCalls == 7
=============================================================================
