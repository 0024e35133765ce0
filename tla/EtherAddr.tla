------------------------------ MODULE EtherAddr ------------------------------
(***************************************************************************)
(* The Ethernet address setters of the backport: eth_zero_addr            *)
(* (compat-3.7.h), eth_broadcast_addr and eth_random_addr (compat-3.6.h)   *)
(* and, before 2.6.31, eth_hw_addr_random on dev->dev_addr (compat-3.4.h).  *)
(* A state is the last call: which setter, the bytes get_random_bytes gave *)
(* it and the six bytes it left in the address.  get_random_bytes gives   *)
(* any byte; the first, which the setters change, ranges over all 256, the *)
(* other five over 0x00 and 0xff.                                          *)
(***************************************************************************)
EXTENDS Integers, Bitwise

ETH_ALEN == 6

Ops == {"eth_zero_addr", "eth_broadcast_addr", "eth_random_addr", "eth_hw_addr_random"}
RandomBytes == [1..ETH_ALEN -> {0, 255}] \cup
               {[r EXCEPT ![1] = b] : r \in [1..ETH_ALEN -> {0}], b \in 0..255}
Addresses == [1..ETH_ALEN -> 0..255]

VARIABLES op, rnd, addr
vars == <<op, rnd, addr>>

\* memset(addr, c, ETH_ALEN)
Memset(c) == [i \in 1..ETH_ALEN |-> c]

\* fault: the mask of the local assignment bit, 0xfd, for the multicast one
ClearMulticastWrongBit(b) == b & 253

\* addr[0] &= 0xfe;  /* clear multicast bit */
ClearMulticast(b) == b & 254

\* addr[0] |= 0x02;  /* set local assignment bit (IEEE802) */
SetLocal(b) == b | 2

\* get_random_bytes(addr, ETH_ALEN); then the two lines above on addr[0]
RandomAddr(r) == [r EXCEPT ![1] = SetLocal(ClearMulticast(@))]

TypeOK == op \in Ops /\ rnd \in Addresses /\ addr \in Addresses

Init == op = "eth_zero_addr" /\ rnd = Memset(0) /\ addr = Memset(0)

\* eth_zero_addr: memset(addr, 0x00, ETH_ALEN);
EthZeroAddr == op' = "eth_zero_addr" /\ addr' = Memset(0) /\ UNCHANGED rnd

\* eth_broadcast_addr: memset(addr, 0xff, ETH_ALEN);
EthBroadcastAddr == op' = "eth_broadcast_addr" /\ addr' = Memset(255) /\ UNCHANGED rnd

\* eth_random_addr(addr)
EthRandomAddr ==
    \E r \in RandomBytes : op' = "eth_random_addr" /\ rnd' = r /\ addr' = RandomAddr(r)

\* eth_hw_addr_random(dev) before 2.6.31: the same three lines on dev_addr
EthHwAddrRandom ==
    \E r \in RandomBytes :
        op' = "eth_hw_addr_random" /\ rnd' = r
        /\ addr' = [r EXCEPT ![1] = SetLocal(ClearMulticast(@))]

Next == EthZeroAddr \/ EthBroadcastAddr \/ EthRandomAddr \/ EthHwAddrRandom

Spec == Init /\ [][Next]_vars
-----------------------------------------------------------------------------
\* <linux/etherdevice.h>: the I/G bit (multicast) and U/L bit (local) of
\* the first byte, and the addresses is_valid_ether_addr accepts
IsMulticast(a) == a[1] % 2 = 1
IsLocal(a) == (a[1] \div 2) % 2 = 1
IsZero(a) == a = Memset(0)
IsValid(a) == ~IsMulticast(a) /\ ~IsZero(a)

\* What the comments promise and drivers rely on before register_netdev:
\* eth_zero_addr leaves the zero address, eth_broadcast_addr the broadcast
\* one; eth_random_addr and eth_hw_addr_random a valid unicast, locally
\* administered address that keeps the other 46 bits get_random_bytes
\* drew, so two such devices collide no more often than their draws.
AddressAsDocumented ==
    CASE op = "eth_zero_addr" -> IsZero(addr)
      [] op = "eth_broadcast_addr" -> addr = Memset(255)
      [] OTHER -> /\ IsValid(addr) /\ IsLocal(addr)
                  /\ \A i \in 2..ETH_ALEN : addr[i] = rnd[i]
                  /\ addr[1] \div 4 = rnd[1] \div 4
=============================================================================
