---------------------------- MODULE WriteToBuffer ----------------------------
(***************************************************************************)
(* simple_write_to_buffer of compat-2.6.35.c, called again and again by a  *)
(* debugfs/sysfs write handler on one buffer of `available` bytes.  The    *)
(* user's count, an lseek of the file position between writes, and how    *)
(* many bytes copy_from_user fails to copy (a fault part way through the   *)
(* user buffer) are the environment's choices.                             *)
(***************************************************************************)
EXTENDS Integers

CONSTANTS
    Available,   \* size of the kernel buffer
    MaxCount     \* largest count a write asks for

EINVAL == -22
EFAULT == -14

VARIABLES
    ppos,     \* *ppos, the file position
    buf,      \* the buffer positions holding copied user bytes
    last      \* history: the last call, [from, to, ret]

vars == <<ppos, buf, last>>

Positions == 0..Available - 1

TypeOK ==
    /\ ppos \in -1..Available + 1
    /\ buf \subseteq Positions
    /\ last \in [from : -1..Available + 1, to : -1..Available + 1, ret : Int]

Init ==
    /\ ppos = 0
    /\ buf = {}
    /\ last = [from |-> 0, to |-> 0, ret |-> 0]

\* fault: count not clamped to the room left after pos
ClampUnchecked(count, pos) == count

\* if (count > available - pos) count = available - pos;
Clamp(count, pos) == IF count > Available - pos THEN Available - pos ELSE count

\* fault: *ppos = pos + count taken before count -= res
AdvanceEarly(pos, n, res) == pos + n

\* count -= res; *ppos = pos + count;
Advance(pos, n, res) == pos + n - res

\* simple_write_to_buffer(to, available, ppos, from, count): a negative pos
\* is -EINVAL; at or past the end, or count 0, nothing is done; count is
\* clamped; copy_from_user copies all but res of the n bytes (a fault part
\* way); all uncopied is -EFAULT, otherwise *ppos advances and the number
\* of bytes copied is returned
Write(count, res) ==
    LET pos == ppos
        n   == Clamp(count, pos)
    IN
    IF pos < 0
    THEN last' = [from |-> pos, to |-> pos, ret |-> EINVAL] /\ UNCHANGED <<ppos, buf>>
    ELSE IF pos >= Available \/ count = 0
    THEN last' = [from |-> pos, to |-> pos, ret |-> 0] /\ UNCHANGED <<ppos, buf>>
    ELSE IF res = n
    THEN last' = [from |-> pos, to |-> pos, ret |-> EFAULT] /\ UNCHANGED <<ppos, buf>>
    ELSE /\ buf' = buf \cup pos..(pos + n - res - 1)
         /\ ppos' = Advance(pos, n, res)
         /\ last' = [from |-> pos, to |-> ppos', ret |-> n - res]

\* a write(2) of count bytes whose user buffer faults after some bytes
DoWrite ==
    \E count \in 0..MaxCount :
        \E res \in 0..(IF ppos < 0 \/ ppos >= Available THEN 0 ELSE Clamp(count, ppos)) :
            Write(count, res)

\* lseek(2) between writes, to any position including one past the end
\* and the invalid -1 (a driver's llseek need not reject it)
Seek ==
    /\ \E p \in -1..Available + 1 : ppos' = p
    /\ UNCHANGED <<buf, last>>

Next == DoWrite \/ Seek

Spec == Init /\ [][Next]_vars
-----------------------------------------------------------------------------
\* A write returns the number of bytes it copied and moves the position by
\* exactly that many, over bytes that now hold user data; the position
\* never runs past the buffer, so the next write cannot start beyond it
\* with stale bytes skipped.  This is about the order of "count -= res"
\* and "*ppos = pos + count" and the clamp to available - pos.
WriteAdvancesOverCopied ==
    /\ last.ret > 0 =>
        /\ last.to = last.from + last.ret
        /\ last.from..(last.to - 1) \subseteq buf
        /\ last.to <= Available
    /\ last.ret <= 0 => last.to = last.from

=============================================================================
