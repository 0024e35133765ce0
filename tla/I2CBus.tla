------------------------------- MODULE I2CBus -------------------------------
(***************************************************************************)
(* What the line primitives of compat-3.4.c (i2c_start, i2c_repstart,      *)
(* i2c_stop, i2c_outb, i2c_inb, acknak) promise the byte-level code built  *)
(* on them, I2CBitXfer: each call, when it returns, has put exactly its    *)
(* part of the transfer on the bus and reports what the bus carried.       *)
(*   ops  - the calls made so far, with their arguments and results        *)
(*   wire - what a monitor on SCL/SDA decodes: "S" for a start (repeated   *)
(*          or not), "P" for a stop, and each byte with the SDA level of   *)
(*          its ninth clock (0: acknowledged)                              *)
(* A byte clocked in by i2c_inb is complete on the wire only with the      *)
(* ninth clock, which the following acknak gives.  This is the promise    *)
(* for a slave that lets SCL go within adap->timeout whenever it holds it. *)
(***************************************************************************)
EXTENDS Integers, Sequences

CONSTANT Bytes   \* the bytes i2c_outb is called with

VARIABLES ops, wire
vars == <<ops, wire>>

Call(o, a, r) == [op |-> o, arg |-> a, ret |-> r]
Byte(b, a) == [b |-> b, a |-> a]

Init == ops = <<>> /\ wire = <<>>

\* a condition: SDA falls (start) or rises (stop) while SCL is high
Start == ops' = Append(ops, Call("start", 0, 0)) /\ wire' = Append(wire, "S")
RepStart == ops' = Append(ops, Call("repstart", 0, 0)) /\ wire' = Append(wire, "S")
Stop == ops' = Append(ops, Call("stop", 0, 0)) /\ wire' = Append(wire, "P")

\* c, most significant bit first; 1 when the ninth clock read SDA low
Outb(c) ==
    \E r \in {0, 1} :
        ops' = Append(ops, Call("outb", c, r)) /\ wire' = Append(wire, Byte(c, 1 - r))

\* the byte the slave put on SDA, most significant bit first
Inb ==
    \E v \in 0..255 : ops' = Append(ops, Call("inb", 0, v)) /\ UNCHANGED wire

\* the ninth clock of the byte just read, SDA low for an ACK
Acknak(isAck) ==
    /\ ops # <<>> /\ ops[Len(ops)].op = "inb"
    /\ ops' = Append(ops, Call("acknak", isAck, 0))
    /\ wire' = Append(wire, Byte(ops[Len(ops)].ret, 1 - isAck))

Next ==
    \/ Start \/ RepStart \/ Stop \/ Inb
    \/ \E c \in Bytes : Outb(c)
    \/ \E a \in {0, 1} : Acknak(a)

Spec == Init /\ [][Next]_vars
=============================================================================
