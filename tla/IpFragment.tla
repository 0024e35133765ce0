----------------------------- MODULE IpFragment -----------------------------
(***************************************************************************)
(* ip_is_fragment of compat-3.1.h: is the IPv4 datagram a fragment?  The   *)
(* header's frag_off is a __be16 kept as the wire carries it, flags and    *)
(* offset in its first byte's top bits, so the mask is put in network      *)
(* order with htons before the AND.  The host is little- or big-endian     *)
(* (x86, ARM; MIPS, PowerPC), the header any two bytes a frame carries.    *)
(* A state is one call: the host, the two bytes and the result.            *)
(***************************************************************************)
EXTENDS Integers, Bitwise

\* <net/ip.h>
IP_MF == 8192       \* 0x2000, more fragments
IP_OFFSET == 8191   \* 0x1FFF, the fragment offset in 8-byte units

Hosts == {"le", "be"}
\* the first byte of frag_off: every value (flags, top offset bits); the
\* second: the offset's lowest bits zero, one, and set
FirstBytes == 0..255
SecondBytes == {0, 1, 128, 255}

VARIABLES host, b0, b1, res
vars == <<host, b0, b1, res>>

\* the u16 a host loads from the two bytes at iph->frag_off
Load16(h, x0, x1) == IF h = "le" THEN x1 * 256 + x0 ELSE x0 * 256 + x1

\* __swab16
Swab16(x) == (x % 256) * 256 + x \div 256

\* fault: the mask left in host order
HtonsMissing(h, x) == x

\* htons: the byte swap on a little-endian host, nothing on a big-endian one
Htons(h, x) == IF h = "le" THEN Swab16(x) ELSE x

\* return (iph->frag_off & htons(IP_MF | IP_OFFSET)) != 0;
IpIsFragment(h, x0, x1) == (Load16(h, x0, x1) & Htons(h, IP_MF | IP_OFFSET)) # 0

TypeOK == host \in Hosts /\ b0 \in FirstBytes /\ b1 \in SecondBytes /\ res \in BOOLEAN

Init == host = "le" /\ b0 = 0 /\ b1 = 0 /\ res = IpIsFragment("le", 0, 0)

\* a call on any header, on either kind of host
Call ==
    \E h \in Hosts, x0 \in FirstBytes, x1 \in SecondBytes :
        host' = h /\ b0' = x0 /\ b1' = x1 /\ res' = IpIsFragment(h, x0, x1)

Next == Call

Spec == Init /\ [][Next]_vars
-----------------------------------------------------------------------------
\* RFC 791 on the wire: bit 2 of the first byte is MF, the low 5 bits of it
\* and the second byte the offset; bit 0 is reserved (CE) and bit 1 DF.
WireMF == (b0 \div 32) % 2 = 1
WireOffset == (b0 % 32) * 256 + b1

\* What ip_is_fragment's callers (defragmentation, GRO, netfilter) rely on:
\* true exactly when the datagram is a fragment, the first (MF set, offset
\* 0), a middle or the last one (offset not 0), whatever DF and the
\* reserved bit say, on a host of either byte order.  The htons of the mask
\* is what this is about.
FragmentAsOnWire == res <=> (WireMF \/ WireOffset # 0)
=============================================================================
