----------------------------- MODULE I2CBitXfer -----------------------------
(***************************************************************************)
(* The bit-banged I2C master transfer engine of compat-3.4.c (i2c_bit_algo) *)
(* at byte granularity: bit_xfer sequencing a message array, bit_doAddress *)
(* and try_address for the address phase, sendbytes / readbytes / acknak   *)
(* for the byte stream.  The byte primitives i2c_outb, i2c_inb and acknak  *)
(* are atomic here; what the slave and the clock line do is the            *)
(* environment, chosen with \E: i2c_outb answers ACK (1), NAK (0) or       *)
(* -ETIMEDOUT, i2c_inb a byte or -ETIMEDOUT, acknak 0 or -ETIMEDOUT.       *)
(* The conditions put on the wire are recorded in the history `bus`,       *)
(* reset at each call, which the properties read.                          *)
(***************************************************************************)
EXTENDS Integers, Sequences, FiniteSets

LOCAL INSTANCE Bitwise

CONSTANTS
    Transactions,   \* message arrays the i2c core may hand to bit_xfer
    Retries,        \* i2c_adap->retries
    BlockMax,       \* I2C_SMBUS_BLOCK_MAX
    ReadVals,       \* byte values a slave may shift out in a model run
    HasPreXfer,     \* adap->pre_xfer != NULL
    HasPostXfer     \* adap->post_xfer != NULL

ASSUME Retries \in Nat /\ BlockMax \in Nat \ {0}
ASSUME ReadVals \subseteq 0..255
ASSUME HasPreXfer \in BOOLEAN /\ HasPostXfer \in BOOLEAN

\* errno values, negated as the code returns them
ETIMEDOUT == -110
ENXIO     == -6
EIO       == -5
EPROTO    == -71
\* a failing pre_xfer hook returns some negative value; one stands for all
PreXferErr == -16

Flags == {"TEN", "RD", "NOSTART", "REV_DIR_ADDR", "IGNORE_NAK",
          "NO_RD_ACK", "RECV_LEN"}
Msg == [addr : 0..1023, flags : SUBSET Flags, len : Nat]

ASSUME \A t \in Transactions : t \in Seq(Msg) /\ Len(t) > 0

OutbResults   == {1, 0, ETIMEDOUT}     \* i2c_outb: ACK, NAK, timeout
AcknakResults == {0, ETIMEDOUT}        \* acknak: sent, timeout

VARIABLES
    pc,      \* control location in bit_xfer and the helpers it calls
    msgs,    \* msgs[]; readbytes writes msg->len back (I2C_M_RECV_LEN)
    i,       \* bit_xfer's message index, 1-based (code: i + 1)
    ret,     \* bit_xfer's ret, the value returned to the caller
    stage,   \* which try_address call of bit_doAddress is running
    addr,    \* bit_doAddress's addr byte
    tries,   \* try_address's loop counter i
    count,   \* sendbytes/readbytes count: bytes still to move
    xcount,  \* wrcount / rdcount: bytes moved so far
    bus,     \* history of conditions and bytes on the wire in this call
    posted,  \* post_xfer has run after the stop of this call
    req      \* history: msgs[] as the caller handed it to this call

vars == <<pc, msgs, i, ret, stage, addr, tries, count, xcount, bus, posted, req>>

Ev(e, k, v, r) == [ev |-> e, msg |-> k, val |-> v, res |-> r]
Start    == Ev("S", 0, 0, 0)
RepStart == Ev("Sr", 0, 0, 0)
Stop     == Ev("P", 0, 0, 0)

m == msgs[i]
NakOk(msg)   == "IGNORE_NAK" \in msg.flags
IsRead(msg)  == "RD" \in msg.flags
\* fault: the retry count taken from the adapter even for IGNORE_NAK
RetriesOfAlways(msg) == Retries
\* bit_doAddress: retries = nak_ok ? 0 : i2c_adap->retries
RetriesOf(msg) == IF NakOk(msg) THEN 0 ELSE Retries

\* the first address byte bit_doAddress computes
FirstAddr(msg) ==
    IF "TEN" \in msg.flags
    THEN 240 | (shiftR(msg.addr, 7) & 6)
    ELSE LET a0 == (msg.addr * 2) % 256
             a1 == IF IsRead(msg) THEN a0 | 1 ELSE a0
         IN  IF "REV_DIR_ADDR" \in msg.flags THEN a1 ^^ 1 ELSE a1

TypeOK ==
    /\ pc \in {"idle", "msg", "try", "lo", "write", "read", "stop"}
    /\ msgs \in Seq(Msg)
    /\ i \in 1..Len(msgs) + 1 \/ msgs = <<>>
    /\ ret \in Int
    /\ stage \in {"7bit", "ext", "rd"}
    /\ addr \in 0..255
    /\ tries \in 0..Retries
    /\ count \in Nat /\ xcount \in Nat
    /\ bus \in Seq([ev : {"S", "Sr", "P", "addr", "addrlo", "out", "in", "mack"},
                    msg : Nat, val : Int, res : Int])
    /\ posted \in BOOLEAN
    /\ req \in Seq(Msg)

Init ==
    /\ pc = "idle"
    /\ msgs = <<>>
    /\ i = 1
    /\ ret = 0
    /\ stage = "7bit"
    /\ addr = 0
    /\ tries = 0
    /\ count = 0
    /\ xcount = 0
    /\ bus = <<>>
    /\ posted = FALSE
    /\ req = <<>>

-----------------------------------------------------------------------------
(* Control transfers shared by several actions.                            *)

\* goto bailout with ret = code
Bailout(code) == ret' = code /\ pc' = "stop"

\* sendbytes / readbytes entered for the current message
BeginData ==
    /\ count' = m.len
    /\ xcount' = 0
    /\ pc' = IF IsRead(m) THEN "read" ELSE "write"
    /\ UNCHANGED ret

\* fault: only a timeout counts as an address failure, a NAK passes
AfterTryNakPasses(r) ==
    LET failed == r < 0 /\ ~NakOk(m) IN
    CASE stage = "7bit" -> IF failed THEN Bailout(ENXIO) /\ UNCHANGED <<count, xcount>>
                                     ELSE BeginData
      [] stage = "ext"  -> IF failed THEN Bailout(ENXIO) /\ UNCHANGED <<count, xcount>>
                                     ELSE pc' = "lo" /\ UNCHANGED <<ret, count, xcount>>
      [] stage = "rd"   -> IF failed THEN Bailout(EIO) /\ UNCHANGED <<count, xcount>>
                                     ELSE BeginData

\* bit_doAddress and bit_xfer after try_address returned r
AfterTry(r) ==
    LET failed == r # 1 /\ ~NakOk(m) IN
    CASE stage = "7bit" -> IF failed THEN Bailout(ENXIO) /\ UNCHANGED <<count, xcount>>
                                     ELSE BeginData
      [] stage = "ext"  -> IF failed THEN Bailout(ENXIO) /\ UNCHANGED <<count, xcount>>
                                     ELSE pc' = "lo" /\ UNCHANGED <<ret, count, xcount>>
      [] stage = "rd"   -> IF failed THEN Bailout(EIO) /\ UNCHANGED <<count, xcount>>
                                     ELSE BeginData

\* readbytes or sendbytes returned n; bit_xfer checks it against msg->len
Returned(n) ==
    IF n < msgs'[i].len
    THEN Bailout(IF n >= 0 THEN EIO ELSE n) /\ UNCHANGED i
    ELSE ret' = n /\ i' = i + 1 /\ pc' = "msg"

-----------------------------------------------------------------------------
(* bit_xfer entry: the pre_xfer hook, then one start condition.           *)
Call ==
    /\ pc = "idle"
    /\ \E t \in Transactions, pre \in IF HasPreXfer THEN {0, PreXferErr} ELSE {0} :
        /\ msgs' = t /\ req' = t
        /\ posted' = FALSE
        /\ IF pre < 0
           THEN ret' = pre /\ bus' = <<>> /\ UNCHANGED pc
           ELSE bus' = <<Start>> /\ pc' = "msg" /\ ret' = 0
    \* the locals of the previous call are dead; start them afresh
    /\ i' = 1 /\ stage' = "7bit" /\ addr' = 0 /\ tries' = 0
    /\ count' = 0 /\ xcount' = 0

\* for loop exit: every message done, ret = i
AllDone ==
    /\ pc = "msg"
    /\ i > Len(msgs)
    /\ ret' = i - 1
    /\ pc' = "stop"
    /\ UNCHANGED <<msgs, i, stage, addr, tries, count, xcount, bus, posted>>

\* a message without I2C_M_NOSTART: repeated start unless first, address
Address ==
    /\ pc = "msg"
    /\ i <= Len(msgs)
    /\ "NOSTART" \notin m.flags
    /\ bus' = IF i > 1 THEN Append(bus, RepStart) ELSE bus
    /\ stage' = IF "TEN" \in m.flags THEN "ext" ELSE "7bit"
    /\ addr' = FirstAddr(m)
    /\ tries' = 0
    /\ pc' = "try"
    /\ UNCHANGED <<msgs, i, ret, count, xcount, posted>>

\* a message with I2C_M_NOSTART goes straight to its byte stream
NoStart ==
    /\ pc = "msg"
    /\ i <= Len(msgs)
    /\ "NOSTART" \in m.flags
    /\ BeginData
    /\ UNCHANGED <<msgs, i, stage, addr, tries, bus, posted>>

\* try_address: an attempt that is not the last one fails; stop, start, retry
TryAddressRetry ==
    /\ pc = "try"
    /\ tries < RetriesOf(m)
    /\ \E r \in OutbResults \ {1} :
         bus' = bus \o <<Ev("addr", i, addr, r), Stop, Start>>
    /\ tries' = tries + 1
    /\ UNCHANGED <<pc, msgs, i, ret, stage, addr, count, xcount, posted>>

\* try_address: the attempt is acked or is the last one; return to doAddress
TryAddressReturn ==
    /\ pc = "try"
    /\ \E r \in OutbResults :
        /\ r = 1 \/ tries = RetriesOf(m)
        /\ bus' = Append(bus, Ev("addr", i, addr, r))
        /\ AfterTry(r)
    /\ UNCHANGED <<msgs, i, stage, addr, tries, posted>>

\* fault: the read code built from msg->addr instead of the high-byte code
LowAddressRawRead ==
    /\ pc = "lo"
    /\ \E r \in OutbResults :
        LET sent == Append(bus, Ev("addrlo", i, m.addr & 255, r)) IN
        IF r # 1 /\ ~NakOk(m)
        THEN Bailout(ENXIO) /\ bus' = sent
             /\ UNCHANGED <<stage, addr, tries, count, xcount>>
        ELSE IF IsRead(m)
        THEN /\ bus' = Append(sent, RepStart)
             /\ addr' = m.addr | 1
             /\ stage' = "rd"
             /\ tries' = 0
             /\ pc' = "try"
             /\ UNCHANGED <<ret, count, xcount>>
        ELSE bus' = sent /\ BeginData /\ UNCHANGED <<stage, addr, tries>>
    /\ UNCHANGED <<msgs, i, posted>>

\* 10-bit address: the low 8 bits, then for a read Sr and the read code
LowAddress ==
    /\ pc = "lo"
    /\ \E r \in OutbResults :
        LET sent == Append(bus, Ev("addrlo", i, m.addr & 255, r)) IN
        IF r # 1 /\ ~NakOk(m)
        THEN Bailout(ENXIO) /\ bus' = sent
             /\ UNCHANGED <<stage, addr, tries, count, xcount>>
        ELSE IF IsRead(m)
        THEN /\ bus' = Append(sent, RepStart)
             /\ addr' = addr | 1
             /\ stage' = "rd"
             /\ tries' = 0
             /\ pc' = "try"
             /\ UNCHANGED <<ret, count, xcount>>
        ELSE bus' = sent /\ BeginData /\ UNCHANGED <<stage, addr, tries>>
    /\ UNCHANGED <<msgs, i, posted>>

\* fault: the nak_ok test dropped, any non-negative answer counts
SendByteNakCounted ==
    /\ pc = "write"
    /\ count > 0
    /\ \E r \in OutbResults :
        /\ bus' = Append(bus, Ev("out", i, 0, r))
        /\ IF r >= 0
           THEN count' = count - 1 /\ xcount' = xcount + 1 /\ UNCHANGED <<pc, ret>>
           ELSE Bailout(r) /\ UNCHANGED <<count, xcount>>
    /\ UNCHANGED <<msgs, i, stage, addr, tries, posted>>

\* sendbytes, one loop iteration: i2c_outb of the next byte
SendByte ==
    /\ pc = "write"
    /\ count > 0
    /\ \E r \in OutbResults :
        /\ bus' = Append(bus, Ev("out", i, 0, r))
        /\ IF r > 0 \/ (NakOk(m) /\ r = 0)
           THEN count' = count - 1 /\ xcount' = xcount + 1 /\ UNCHANGED <<pc, ret>>
           ELSE Bailout(IF r = 0 THEN EIO ELSE r) /\ UNCHANGED <<count, xcount>>
    /\ UNCHANGED <<msgs, i, stage, addr, tries, posted>>

\* sendbytes / readbytes loop ends; bit_xfer checks the count returned
DataDone ==
    /\ pc \in {"write", "read"}
    /\ count = 0
    /\ msgs' = msgs
    /\ Returned(xcount)
    /\ UNCHANGED <<stage, addr, tries, count, xcount, bus, posted>>

\* readbytes: i2c_inb times out; the loop breaks with rdcount bytes read
ReadTimeout ==
    /\ pc = "read"
    /\ count > 0
    /\ bus' = Append(bus, Ev("in", i, 0, ETIMEDOUT))
    /\ msgs' = msgs
    /\ Returned(xcount)
    /\ UNCHANGED <<stage, addr, tries, count, xcount, posted>>

\* fault: -EPROTO returned from bit_xfer without the goto bailout
ReadBadLengthNoStop ==
    /\ pc = "read"
    /\ count > 0
    /\ xcount = 0
    /\ "RECV_LEN" \in m.flags
    /\ \E v \in ReadVals, a \in AcknakResults :
        /\ v <= 0 \/ v > BlockMax
        /\ bus' = Append(bus, Ev("in", i, v, 0)) \o
                  (IF "NO_RD_ACK" \in m.flags THEN <<>> ELSE <<Ev("mack", i, 0, a)>>)
    /\ count' = count - 1
    /\ xcount' = 1
    /\ ret' = EPROTO /\ pc' = "idle"
    /\ UNCHANGED <<msgs, i, stage, addr, tries, posted>>

ValidBlockLen(v) == v > 0 /\ v <= BlockMax

\* readbytes: the first byte of an I2C_M_RECV_LEN read is no valid length;
\* NAK it (unless I2C_M_NO_RD_ACK) and return -EPROTO
ReadBadLength ==
    /\ pc = "read"
    /\ count > 0
    /\ xcount = 0
    /\ "RECV_LEN" \in m.flags
    /\ \E v \in ReadVals, a \in AcknakResults :
        /\ ~ValidBlockLen(v)
        /\ bus' = Append(bus, Ev("in", i, v, 0)) \o
                  (IF "NO_RD_ACK" \in m.flags THEN <<>> ELSE <<Ev("mack", i, 0, a)>>)
    /\ count' = count - 1
    /\ xcount' = 1
    /\ Bailout(EPROTO)
    /\ UNCHANGED <<msgs, i, stage, addr, tries, posted>>

\* fault: the ack decided from count before the length prefix extends it
ReadByteAckFirst ==
    /\ pc = "read"
    /\ count > 0
    /\ \E v \in ReadVals, a \in AcknakResults :
        LET lenByte == xcount = 0 /\ "RECV_LEN" \in m.flags
            ext     == IF lenByte THEN v ELSE 0
            left    == count - 1 + ext
            noAck   == "NO_RD_ACK" \in m.flags
        IN
        /\ lenByte => (v > 0 /\ v <= BlockMax)
        /\ noAck => a = 0
        /\ msgs' = [msgs EXCEPT ![i].len = @ + ext]
        /\ bus' = Append(bus, Ev("in", i, v, 0)) \o
                  (IF noAck THEN <<>> ELSE <<Ev("mack", i, IF count - 1 # 0 THEN 1 ELSE 0, a)>>)
        /\ xcount' = xcount + 1
        /\ IF a < 0
           THEN Bailout(a) /\ UNCHANGED count
           ELSE count' = left /\ UNCHANGED <<pc, ret>>
    /\ UNCHANGED <<i, stage, addr, tries, posted>>

\* msg->len += inval
ExtendLen(len, v) == len + v

\* readbytes, one loop iteration: i2c_inb, the length prefix applied to
\* count and msg->len, then acknak(count) unless I2C_M_NO_RD_ACK
ReadByte ==
    /\ pc = "read"
    /\ count > 0
    /\ \E v \in ReadVals, a \in AcknakResults :
        LET lenByte == xcount = 0 /\ "RECV_LEN" \in m.flags
            ext     == IF lenByte THEN v ELSE 0
            left    == count - 1 + ext
            noAck   == "NO_RD_ACK" \in m.flags
        IN
        /\ lenByte => ValidBlockLen(v)
        /\ noAck => a = 0
        /\ msgs' = [msgs EXCEPT ![i].len = ExtendLen(@, ext)]
        /\ bus' = Append(bus, Ev("in", i, v, 0)) \o
                  (IF noAck THEN <<>> ELSE <<Ev("mack", i, IF left # 0 THEN 1 ELSE 0, a)>>)
        /\ xcount' = xcount + 1
        /\ IF a < 0
           THEN Bailout(a) /\ UNCHANGED count
           ELSE count' = left /\ UNCHANGED <<pc, ret>>
    /\ UNCHANGED <<i, stage, addr, tries, posted>>

\* bailout: the stop condition, then the post_xfer hook; bit_xfer returns
StopXfer ==
    /\ pc = "stop"
    /\ bus' = Append(bus, Stop)
    /\ posted' = HasPostXfer
    /\ pc' = "idle"
    /\ UNCHANGED <<msgs, i, ret, stage, addr, tries, count, xcount>>

Next ==
    \/ Call
    \/ /\ \/ AllDone \/ Address \/ NoStart
          \/ TryAddressRetry \/ TryAddressReturn \/ LowAddress
          \/ SendByte \/ DataDone
          \/ ReadTimeout \/ ReadBadLength \/ ReadByte
          \/ StopXfer
       /\ UNCHANGED req

\* bit_xfer runs to completion on the calling thread
Spec == Init /\ [][Next]_vars /\ WF_vars(Next)

-----------------------------------------------------------------------------
(* Properties.  They read the wire history of the current call.            *)

Ends(k)       == 1..k
IsAddr(p)     == bus[p].ev \in {"addr", "addrlo"}
IsTry(p)      == bus[p].ev = "addr"    \* a byte sent by try_address
IsData(p)     == bus[p].ev \in {"out", "in"}
\* the byte at p was accepted by sendbytes / stored by readbytes
Moved(p) ==
    \/ bus[p].ev = "out" /\ (bus[p].res = 1 \/ (bus[p].res = 0 /\ NakOk(msgs[bus[p].msg])))
    \/ bus[p].ev = "in" /\ bus[p].res = 0
MovedUpTo(k, p) == Cardinality({q \in Ends(p) : bus[q].msg = k /\ Moved(q)})
Returned0 == pc = "idle" /\ bus # <<>>

\* The wire is framed: a call opens with a start condition, every stop is
\* followed only by a fresh start (try_address's retry), every start but
\* the first comes right after a stop, and a call that got past pre_xfer
\* returns with the bus released by a stop and post_xfer run.  A call whose
\* pre_xfer failed touched neither the lines nor post_xfer.
BusFraming ==
    /\ bus # <<>> => bus[1] = Start
    /\ \A p \in 1..Len(bus) - 1 : bus[p] = Stop => bus[p + 1] = Start
    /\ \A p \in 2..Len(bus) : bus[p] = Start => bus[p - 1] = Stop
    /\ Returned0 => bus[Len(bus)] = Stop /\ posted = HasPostXfer
    /\ pc = "idle" /\ bus = <<>> => ~posted

\* bit_xfer returns a non-negative value only when every message moved
\* exactly msg->len bytes (msg->len as readbytes left it), and then that
\* value is the number of messages; otherwise it returns an errno.
ResultMatchesTransfer ==
    Returned0 =>
        IF ret >= 0
        THEN /\ ret = Len(msgs)
             /\ \A k \in 1..Len(msgs) : MovedUpTo(k, Len(bus)) = msgs[k].len
        ELSE ret \in {ENXIO, EIO, ETIMEDOUT, EPROTO}

\* the address byte at p was followed by try_address's stop and fresh start
Retried(p) == p + 2 <= Len(bus) /\ bus[p + 1] = Stop /\ bus[p + 2] = Start

\* No byte of a message that addresses its slave (no I2C_M_NOSTART) and
\* does not ignore NAKs goes on the wire unless the message was addressed
\* and every address byte of it that was not retried, the 10-bit high
\* byte, low byte and read code alike, was acknowledged.
AddressBeforeData ==
    \A p \in 1..Len(bus) :
        LET k == bus[p].msg IN
        (IsData(p) /\ ~NakOk(msgs[k]) /\ "NOSTART" \notin msgs[k].flags)
        => /\ \E q \in Ends(p - 1) : IsAddr(q) /\ bus[q].msg = k
           /\ \A q \in Ends(p - 1) :
                 IsAddr(q) /\ bus[q].msg = k /\ ~Retried(q) => bus[q].res = 1

\* readbytes acks a byte exactly when the message (its length extended by
\* an I2C_M_RECV_LEN prefix) still wants more bytes, and NAKs the last one.
MasterAckDiscipline ==
    \A p \in 1..Len(bus) :
        bus[p].ev = "mack" =>
            (bus[p].val = 1) = (MovedUpTo(bus[p].msg, p) < msgs[bus[p].msg].len)

\* try_address retries a NAKed or timed-out address byte (stop, start,
\* resend) exactly while fewer than retries + 1 attempts were made, and
\* never retries when the message ignores NAKs.
Attempts(k, b, p) == Cardinality({q \in Ends(p) : IsTry(q) /\ bus[q].msg = k /\ bus[q].val = b})
\* try_address makes retries + 1 attempts, one when NAKs are ignored
MaxAttempts(msg) == IF NakOk(msg) THEN 1 ELSE Retries + 1
RetryBound ==
    \A p \in 1..Len(bus) :
        (IsTry(p) /\ bus[p].res # 1)
        => (Retried(p) <=> Attempts(bus[p].msg, bus[p].val, p) < MaxAttempts(msgs[bus[p].msg]))

\* the first byte readbytes stored for message k
FirstIn(k) == CHOOSE p \in 1..Len(bus) :
                 /\ bus[p].ev = "in" /\ bus[p].msg = k
                 /\ \A q \in 1..p - 1 : ~(bus[q].ev = "in" /\ bus[q].msg = k)

SingleStartStop ==
    Returned0 => /\ Cardinality({p \in 1..Len(bus) : bus[p] = Start}) = 1
                 /\ Cardinality({p \in 1..Len(bus) : bus[p] = Stop}) = 1

=============================================================================
