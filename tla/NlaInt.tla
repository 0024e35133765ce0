------------------------------- MODULE NlaInt -------------------------------
(***************************************************************************)
(* The netlink integer attribute wrappers of the backport: nla_put_s8..s64 *)
(* and nla_get_s8..s64 (compat-3.7.h), nla_put_be16/32/64 (compat-3.5.h).  *)
(* A put hands nla_put sizeof(value) bytes of the value as they lie in the *)
(* host's memory; nla_put reserves the attribute or, when the skb has no   *)
(* room, fails with -EMSGSIZE.  A get dereferences nla_data as the signed  *)
(* type, or for s64 copies it with nla_memcpy, whose bytes beyond the      *)
(* attribute leave tmp as it was.  Values are kept as their two's          *)
(* complement bytes, least significant first; the host is little- or       *)
(* big-endian.  A state is the last put and the get of its attribute.      *)
(***************************************************************************)
EXTENDS Integers, Sequences, SequencesExt

EMSGSIZE == -90
NoRet == 1

Hosts == {"le", "be"}
Widths == {1, 2, 4, 8}      \* sizeof(s8), sizeof(s16), sizeof(s32), sizeof(s64)
BeWidths == {2, 4, 8}

\* the extremes of s8, s16 and s32, with -1, 0 and 1; TLC's integers end
\* with s32, so s64 takes s32's extremes, whose upper four bytes are the
\* sign extension
IntMin(w) == CASE w = 1 -> -128 [] w = 2 -> -32768 [] OTHER -> -2147483647 - 1
IntMax(w) == CASE w = 1 -> 127 [] w = 2 -> 32767 [] OTHER -> 2147483647
Values(w) == {IntMin(w), -1, 0, 1, IntMax(w)}
\* a __be value's bytes, least significant first: all different, so any
\* byte out of place shows, and one byte set
BeValues(w) == {[i \in 1..w |-> i], [i \in 1..w |-> IF i = 1 THEN 1 ELSE 0]}

VARIABLES host, kind, width, val, attr, ret,
    got   \* <<>> until the get, then <<what it returned>>
vars == <<host, kind, width, val, attr, ret, got>>

RECURSIVE LeBytes(_, _)
\* the w bytes of v in two's complement, least significant first
LeBytes(v, w) == IF w = 0 THEN <<>> ELSE <<v % 256>> \o LeBytes(v \div 256, w - 1)

\* the bytes of an integer (least significant first) as they lie in memory
Store(h, s) == IF h = "le" THEN s ELSE Reverse(s)

\* __cpu_to_beN: a byte swap on a little-endian host
CpuToBe(h, s) == IF h = "le" THEN Reverse(s) ELSE s

\* a load of the signed type from the bytes m in memory
SignedByte(b) == IF b > 127 THEN b - 256 ELSE b
LoadSigned(h, m) ==
    LET msb == IF h = "le" THEN Reverse(m) ELSE m
    IN  FoldLeft(LAMBDA acc, b : acc * 256 + b, SignedByte(Head(msb)), Tail(msb))

\* nla_put(skb, attrtype, sizeof(sN), &value)
PutSize(w) == w

\* fault: the payload read through an (s8 *)
GetSizeS8(w) == 1

\* *(sN *) nla_data(nla)
GetSize(w) == w

\* nla_memcpy(&tmp, nla, count): min(count, nla_len) bytes, the rest of
\* tmp untouched (any bytes)
Memcpy(m, count, fill) == [i \in 1..count |-> IF i <= Len(m) THEN m[i] ELSE fill]

TypeOK ==
    /\ host \in Hosts /\ kind \in {"s", "be"} /\ width \in Widths
    /\ kind = "s" => val \in Values(width)
    /\ kind = "be" => val \in BeValues(width)
    /\ attr \in Seq(0..255) /\ ret \in {0, EMSGSIZE, NoRet}
    /\ got \in Seq(Int) /\ Len(got) <= 1

Init == /\ host = "le" /\ kind = "s" /\ width = 1 /\ val = 0
        /\ attr = <<>> /\ ret = NoRet /\ got = <<>>

\* nla_put_sN(skb, attrtype, value): the attribute, or -EMSGSIZE
NlaPutS ==
    \E h \in Hosts, w \in Widths, r \in {0, EMSGSIZE} :
    \E v \in Values(w) :
        /\ host' = h /\ kind' = "s" /\ width' = w /\ val' = v /\ ret' = r
        /\ attr' = IF r = 0 THEN Store(h, LeBytes(v, PutSize(w))) ELSE <<>>
        /\ got' = <<>>

\* nla_put_beN(skb, attrtype, cpu_to_beN(x))
NlaPutBe ==
    \E h \in Hosts, w \in BeWidths, r \in {0, EMSGSIZE} :
    \E x \in BeValues(w) :
        /\ host' = h /\ kind' = "be" /\ width' = w /\ val' = x /\ ret' = r
        /\ attr' = IF r = 0 THEN Store(h, CpuToBe(h, x)) ELSE <<>>
        /\ got' = <<>>

\* nla_get_sN of the attribute nla_put_sN added
NlaGetS ==
    /\ kind = "s" /\ ret = 0 /\ got = <<>>
    /\ IF width = 8
       THEN \E fill \in {0, 255} : got' = <<LoadSigned(host, Memcpy(attr, GetSize(8), fill))>>
       ELSE got' = <<LoadSigned(host, SubSeq(attr, 1, GetSize(width)))>>
    /\ UNCHANGED <<host, kind, width, val, attr, ret>>

Next == NlaPutS \/ NlaPutBe \/ NlaGetS

Spec == Init /\ [][Next]_vars
-----------------------------------------------------------------------------
\* What a netlink peer relies on, on a host of either byte order: the
\* nla_get_sN of an attribute nla_put_sN added returns the value put, its
\* sign and the extremes of the type included; an nla_put_beN attribute
\* carries x most significant byte first, the network order.  This is
\* about the sizes each wrapper passes and the casts each get reads through.
NlaRoundTrip ==
    /\ kind = "s" /\ got # <<>> => got = <<val>>
    /\ kind = "be" /\ ret = 0 => attr = Reverse(val)
=============================================================================
