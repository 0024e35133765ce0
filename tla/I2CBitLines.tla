----------------------------- MODULE I2CBitLines -----------------------------
(***************************************************************************)
(* The line primitives of compat-3.4.c's i2c-algo-bit backport at the      *)
(* level of SCL and SDA: i2c_start, i2c_repstart, i2c_stop, i2c_outb,      *)
(* i2c_inb and acknak, each the sequence of setsda/setscl/getsda calls its *)
(* body makes (loops unrolled), with sclhi waiting for SCL through getscl. *)
(* The lines are open-drain: a line is high only while no one pulls it     *)
(* low.  The environment is the caller, issuing the calls in the orders    *)
(* bit_xfer can (all but I2C_M_NO_RD_ACK reads), and one slave that       *)
(* samples SDA on SCL's rising edge,                                       *)
(* changes its own SDA only after a falling edge, acknowledges or not as   *)
(* it likes, sends bytes after a read address, and may stretch the clock   *)
(* by holding SCL low after a falling edge.  A monitor decodes the wire.   *)
(* udelay only spaces the steps and is left out.                           *)
(***************************************************************************)
EXTENDS Integers, Sequences, SequencesExt

CONSTANTS
    Addrs,        \* address bytes of the messages (bit 0: I2C_M_RD)
    Data,         \* bytes the messages write
    SlaveBytes,   \* bytes the slave may send
    MaxCalls      \* calls the caller makes, at most

ETIMEDOUT == -110
NoCall == [op |-> "none", arg |-> 0]

VARIABLES
    cur,      \* the call in progress, NoCall between calls
    prog,     \* the line operations it still has to make
    waiting,  \* inside sclhi's while (!getscl(adap)) loop
    acc,      \* indata of i2c_inb, ack of i2c_outb
    mScl, mSda,  \* what the master last wrote with setscl / setsda
    getscl,   \* adap->getscl is set
    log,      \* the calls returned, with their results
    seen0,    \* the monitor's events when the call in progress began
    sl,       \* the slave's protocol state
    sSda, hold,  \* the slave's pull on SDA (0: low), its hold of SCL
    bits, seen,  \* the monitor: bits of the byte being clocked, events
    late      \* history: a stretch has outlasted adap->timeout

vars == <<cur, prog, waiting, acc, mScl, mSda, getscl, log, seen0,
          sl, sSda, hold, bits, seen, late>>

\* open-drain lines: high unless someone pulls low
Lines(ms, md, h, ss) == [scl |-> IF ms = 1 /\ ~h THEN 1 ELSE 0,
                         sda |-> IF md = 1 /\ ss = 1 THEN 1 ELSE 0]
Bus == Lines(mScl, mSda, hold, sSda)

\* the line operations of the code, one record per call of a line macro
SetSda(v) == [ins |-> "setsda", v |-> v]
SclLo == [ins |-> "setscl0", v |-> 0]
SclHi(fatal) == [ins |-> "sclhi", v |-> fatal]   \* fatal: a timeout returns
GetAck == [ins |-> "getack", v |-> 0]
GetBit == [ins |-> "getbit", v |-> 0]

\* fault: the & 1 of sb = (c >> i) & 1 dropped
BitUnmasked(c, i) == c \div 2^i
Bit(c, i) == (c \div 2^i) % 2
OutbIndex(k) == 8 - k

StartProg == <<SetSda(0), SclLo>>
RepStartProg == <<SetSda(1), SclHi(0), SetSda(0), SclLo>>
StopProg == <<SetSda(0), SclHi(0), SetSda(1)>>
OutbProg(c) ==
    FlattenSeq([k \in 1..8 |-> <<SetSda(Bit(c, OutbIndex(k))), SclHi(1), SclLo>>])
    \o <<SetSda(1), SclHi(1), GetAck, SclLo>>
InbProg == <<SetSda(1)>> \o FlattenSeq([k \in 1..8 |-> <<SclHi(1), GetBit, SclLo>>])
AcknakProg(isAck) == (IF isAck = 1 THEN <<SetSda(0)>> ELSE <<>>) \o <<SclHi(1), SclLo>>

Prog(c) == CASE c.op = "start" -> StartProg [] c.op = "repstart" -> RepStartProg
             [] c.op = "stop" -> StopProg [] c.op = "outb" -> OutbProg(c.arg)
             [] c.op = "inb" -> InbProg [] c.op = "acknak" -> AcknakProg(c.arg)

\* indata *= 2; if (getsda(adap)) indata |= 0x01;  (an unsigned char)
Shift(indata, b) == (indata * 2 + b) % 256
\* ack = !getsda(adap)
AckOf(sda) == 1 - sda
-----------------------------------------------------------------------------
(* The caller: the calls bit_xfer, bit_doAddress/try_address, sendbytes    *)
(* and readbytes make, in the orders they make them.  After a NAK the      *)
(* transfer stops, or under I2C_M_IGNORE_NAK goes on: readbytes after a    *)
(* NAKed read address, the next byte or message after a NAKed data byte.   *)
(* I2C_M_NO_RD_ACK reads (i2c_inb with no acknak, so no ninth clock) are  *)
(* left out: I2CBus frames every byte by its ninth clock.                  *)

LastCall == log[Len(log)]
\* the address of the message in progress: the outb just after a start
AddrOf == LET i == CHOOSE j \in 1..Len(log) :
                     /\ log[j].op \in {"start", "repstart"}
                     /\ \A q \in j+1..Len(log) : log[q].op \notin {"start", "repstart"}
          IN IF i < Len(log) THEN log[i + 1] ELSE LastCall
Calls ==
    IF log = <<>> \/ LastCall.op = "stop" THEN {[op |-> "start", arg |-> 0]}
    ELSE LET ends == {[op |-> o, arg |-> 0] : o \in {"stop", "repstart"}} IN
    CASE LastCall.ret < 0 -> {[op |-> "stop", arg |-> 0]}
      [] LastCall.op \in {"start", "repstart"} -> {[op |-> "outb", arg |-> a] : a \in Addrs}
      [] LastCall.op = "outb" /\ AddrOf.arg % 2 = 1 ->
           {[op |-> "inb", arg |-> 0]} \cup (IF LastCall.ret = 0 THEN ends ELSE {})
      [] LastCall.op = "outb" -> ends \cup {[op |-> "outb", arg |-> d] : d \in Data}
      [] LastCall.op = "inb" -> {[op |-> "acknak", arg |-> a] : a \in {0, 1}}
      [] LastCall.op = "acknak" /\ LastCall.arg = 1 -> {[op |-> "inb", arg |-> 0]}
      [] LastCall.op = "acknak" -> ends

Call == /\ cur = NoCall /\ Len(log) < MaxCalls
        /\ \E c \in Calls : cur' = c /\ prog' = Prog(c)
        /\ acc' = 0 /\ seen0' = seen
        /\ UNCHANGED <<waiting, mScl, mSda, getscl, log, sl, sSda, hold, bits, seen, late>>
-----------------------------------------------------------------------------
(* The slave and the monitor react to each change of the lines: a falling  *)
(* SDA while SCL is high is a start, a rising one a stop; the rising edge  *)
(* of SCL samples SDA; after its falling edge the slave puts its next bit  *)
(* on SDA and may hold SCL.                                                *)

SlaveIdle == [mode |-> "idle", cnt |-> 0, byte |-> 0, first |-> FALSE, ack |-> FALSE, tx |-> 0]

\* the rising edge: a receiving slave shifts SDA in, a sending one counts
\* the bit the master reads, and the ninth clock of a sent byte is the
\* master's ACK
SlaveRise(s, sda) ==
    CASE s.mode = "rx" -> [s EXCEPT !.byte = s.byte * 2 + sda, !.cnt = s.cnt + 1]
      [] s.mode = "tx" -> [s EXCEPT !.cnt = s.cnt + 1]
      [] s.mode = "mack" -> [s EXCEPT !.ack = (sda = 0)]
      [] OTHER -> s

\* bit i of the byte the slave sends
TxBit(t, i) == (t \div 2^i) % 2

\* sending byte t: its first bit goes on SDA now
SendNew(s) == \E t \in SlaveBytes :
    sl' = [s EXCEPT !.mode = "tx", !.tx = t, !.cnt = 0, !.first = FALSE]
    /\ sSda' = TxBit(t, 7)

\* the falling edge: after eight bits received the slave ACKs or NAKs;
\* after the ninth it sends (a read address acknowledged), receives, or
\* ignores the bus until the next condition
SlaveFall(s) ==
    CASE s.mode = "rx" /\ s.cnt = 8 ->
           \E a \in BOOLEAN : sl' = [s EXCEPT !.mode = "ack", !.ack = a]
                              /\ sSda' = IF a THEN 0 ELSE 1
      [] s.mode = "ack" /\ s.ack /\ s.first /\ s.byte % 2 = 1 -> SendNew(s)
      [] s.mode = "ack" /\ s.ack ->
           sl' = [s EXCEPT !.mode = "rx", !.cnt = 0, !.byte = 0, !.first = FALSE] /\ sSda' = 1
      [] s.mode = "tx" /\ s.cnt < 8 -> sl' = s /\ sSda' = TxBit(s.tx, 7 - s.cnt)
      [] s.mode = "tx" -> sl' = [s EXCEPT !.mode = "mack"] /\ sSda' = 1
      [] s.mode = "mack" /\ s.ack -> SendNew(s)
      [] s.mode \in {"ack", "mack"} -> sl' = [s EXCEPT !.mode = "ignore"] /\ sSda' = 1
      [] OTHER -> sl' = s /\ sSda' = sSda

\* the byte of eight bits, most significant first
ByteOf(b) == FoldLeft(LAMBDA x, y : 2 * x + y, 0, b)

\* the lines become Lines(ms, md, h, sSda); everyone on the bus reacts
React(ms, md, h) ==
    LET old == Bus
        new == Lines(ms, md, h, sSda)
    IN /\ mScl' = ms /\ mSda' = md
       /\ CASE old.scl = 1 /\ new.scl = 1 /\ old.sda = 1 /\ new.sda = 0 ->
                 /\ sl' = [SlaveIdle EXCEPT !.mode = "rx", !.first = TRUE]
                 /\ sSda' = 1 /\ hold' = h /\ bits' = <<>> /\ seen' = Append(seen, "S")
            [] old.scl = 1 /\ new.scl = 1 /\ old.sda = 0 /\ new.sda = 1 ->
                 /\ sl' = SlaveIdle /\ sSda' = 1 /\ hold' = h
                 /\ bits' = <<>> /\ seen' = Append(seen, "P")
            [] old.scl = 0 /\ new.scl = 1 ->
                 /\ sl' = SlaveRise(sl, new.sda) /\ sSda' = sSda /\ hold' = h
                 /\ IF Len(bits) = 8
                    THEN bits' = <<>> /\ seen' = Append(seen, [b |-> ByteOf(bits), a |-> new.sda])
                    ELSE bits' = Append(bits, new.sda) /\ seen' = seen
            [] old.scl = 1 /\ new.scl = 0 ->
                 /\ SlaveFall(sl) /\ hold' \in IF getscl THEN BOOLEAN ELSE {FALSE}
                 /\ UNCHANGED <<bits, seen>>
            [] OTHER -> UNCHANGED <<sl, sSda, bits, seen>> /\ hold' = h

\* the slave lets SCL go after stretching it
Release == hold /\ React(mScl, mSda, FALSE)
           /\ UNCHANGED <<cur, prog, waiting, acc, getscl, log, seen0, late>>
-----------------------------------------------------------------------------
(* The master: each step is one line operation of the call in progress.    *)

Init == /\ cur = NoCall /\ prog = <<>> /\ waiting = FALSE /\ acc = 0
        /\ mScl = 1 /\ mSda = 1 /\ getscl \in BOOLEAN
        /\ log = <<>> /\ seen0 = <<>>
        /\ sl = SlaveIdle /\ sSda = 1 /\ hold = FALSE /\ bits = <<>> /\ seen = <<>>
        /\ late = FALSE

\* i2c_outb returns ack, i2c_inb indata, the others nothing
RetOf(c, a) == IF c.op \in {"outb", "inb"} THEN a ELSE 0
Finish(r) == /\ log' = Append(log, [op |-> cur.op, arg |-> cur.arg, ret |-> r])
             /\ cur' = NoCall /\ prog' = <<>>

\* setsda, setscl(0), or sclhi's setscl(1), after which sclhi polls getscl
\* when the adapter has it and is done otherwise
Drive ==
    /\ cur # NoCall /\ ~waiting /\ prog # <<>>
    /\ Head(prog).ins \in {"setsda", "setscl0", "sclhi"}
    /\ LET i == Head(prog) IN
       CASE i.ins = "setsda" -> React(mScl, i.v, hold) /\ prog' = Tail(prog) /\ waiting' = FALSE
         [] i.ins = "setscl0" -> React(0, mSda, hold) /\ prog' = Tail(prog) /\ waiting' = FALSE
         [] i.ins = "sclhi" -> React(1, mSda, hold) /\ waiting' = getscl
                               /\ prog' = IF getscl THEN prog ELSE Tail(prog)
    /\ UNCHANGED <<cur, acc, getscl, log, seen0, late>>

\* getsda: the ACK of i2c_outb, a data bit of i2c_inb
Sample ==
    /\ cur # NoCall /\ ~waiting /\ prog # <<>>
    /\ Head(prog).ins \in {"getack", "getbit"}
    /\ acc' = IF Head(prog).ins = "getack" THEN AckOf(Bus.sda) ELSE Shift(acc, Bus.sda)
    /\ prog' = Tail(prog)
    /\ UNCHANGED <<cur, waiting, mScl, mSda, getscl, log, seen0, sl, sSda, hold, bits, seen, late>>

\* while (!getscl(adap)) ends: SCL is high
SclUp ==
    /\ waiting /\ Bus.scl = 1
    /\ waiting' = FALSE /\ prog' = Tail(prog)
    /\ UNCHANGED <<cur, acc, mScl, mSda, getscl, log, seen0, sl, sSda, hold, bits, seen, late>>

\* fault: sclhi's deadline test dropped, polling getscl for as long as the
\* slave holds SCL
SclTimeoutMissing == FALSE

\* adap->timeout passed and the last getscl still reads low: -ETIMEDOUT,
\* which i2c_outb, i2c_inb and acknak return and i2c_repstart and
\* i2c_stop ignore
SclTimeout ==
    /\ waiting /\ Bus.scl = 0
    /\ waiting' = FALSE
    /\ IF Head(prog).v = 1 THEN Finish(ETIMEDOUT) ELSE prog' = Tail(prog) /\ UNCHANGED <<cur, log>>
    /\ late' = TRUE
    /\ UNCHANGED <<acc, mScl, mSda, getscl, seen0, sl, sSda, hold, bits, seen>>

\* the call returns
Return ==
    /\ cur # NoCall /\ prog = <<>> /\ ~waiting
    /\ Finish(RetOf(cur, acc))
    /\ UNCHANGED <<waiting, acc, mScl, mSda, getscl, seen0, sl, sSda, hold, bits, seen, late>>

Next == Call \/ Drive \/ Sample \/ SclUp \/ SclTimeout \/ Return \/ Release

Spec == Init /\ [][Next]_vars

\* the master's steps are those of one kernel thread inside a primitive,
\* which is scheduled again and whose jiffies deadline passes; the caller
\* may stop between calls and the slave may hold SCL for ever
Master == Drive \/ Sample \/ SclUp \/ SclTimeout \/ Return
FairSpec == Spec /\ WF_vars(Master)
-----------------------------------------------------------------------------
Instr == [ins : {"setsda", "setscl0", "sclhi", "getack", "getbit"}, v : {0, 1}]
Modes == {"idle", "rx", "ack", "tx", "mack", "ignore"}

TypeOK ==
    /\ prog \in Seq(Instr) /\ waiting \in BOOLEAN /\ acc \in 0..255
    /\ mScl \in {0, 1} /\ mSda \in {0, 1} /\ sSda \in {0, 1} /\ hold \in BOOLEAN
    /\ sl.mode \in Modes /\ sl.cnt \in 0..8 /\ sl.byte \in 0..255
    /\ \A j \in 1..Len(bits) : bits[j] \in {0, 1}
    /\ Len(bits) <= 8

\* what the monitor has decoded when no call is in progress, and what it
\* had decoded when the call began while one is
Wire == IF cur = NoCall THEN seen ELSE seen0
Abs == INSTANCE I2CBus WITH Bytes <- Addrs \cup Data, ops <- log, wire <- Wire

\* Each call of i2c_start, i2c_repstart, i2c_stop, i2c_outb, i2c_inb and
\* acknak, when it returns, has put exactly its start, stop, or byte with
\* its ACK bit on SCL/SDA, and i2c_outb's ack and i2c_inb's byte are what
\* the wire carried: the line-level code implements I2CBus.
BusSpec == Abs!Spec

CallsReturn == cur # NoCall ~> cur = NoCall

\* The spec's transaction is bounded by its start and stop conditions, and
\* a transfer always ends with a stop, even on failure.  So a start
\* condition (SDA falling while SCL is high) appears on the bus only inside
\* i2c_start or i2c_repstart, and a stop condition only inside i2c_stop.
\* When i2c_start or i2c_repstart returns, the last event on the bus is its
\* start; when i2c_stop returns, its stop.  This covers the timeouts
\* i2c_repstart and i2c_stop ignore, and the released SCL that i2c_outb
\* and i2c_inb leave behind when they time out.
NewEvent(e) == Len(seen') > Len(seen) /\ Last(seen') = e
EndsWith(e) == seen' # <<>> /\ Last(seen') = e
ConditionsOnlyFromTheirCalls ==
    [][ /\ NewEvent("S") => cur.op \in {"start", "repstart"}
        /\ NewEvent("P") => cur.op = "stop"
        /\ cur.op \in {"start", "repstart"} /\ cur' = NoCall => EndsWith("S")
        /\ cur.op = "stop" /\ cur' = NoCall => EndsWith("P") ]_vars
=============================================================================
