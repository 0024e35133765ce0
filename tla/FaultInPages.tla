---------------------------- MODULE FaultInPages ----------------------------
(***************************************************************************)
(* fault_in_multipages_writeable / _readable of compat-3.5.h: before a     *)
(* copy that must not fault (i915's pread/pwrite under struct_mutex),      *)
(* touch one byte of every page of [uaddr, uaddr + size - 1] with          *)
(* __put_user(0, ...) or __get_user, then the last byte when the range     *)
(* spills into a further page.  The page mapping of the user process and   *)
(* the caller's range (inside the user address space: access_ok holds)    *)
(* are the environment's choices.  Pointers are unsigned and wrap at       *)
(* AddrSpace.                                                              *)
(***************************************************************************)
EXTENDS Integers

CONSTANTS
    PageSize,   \* PAGE_SIZE
    NumPages,   \* pages of the modelled address space
    UserPages,  \* pages below TASK_SIZE
    MaxSize     \* largest size a caller passes

EFAULT == -14

AddrSpace == PageSize * NumPages
Addr == 0..AddrSpace - 1
UserPageSet == 0..UserPages - 1

\* (unsigned long)a & PAGE_MASK, as a page number
PageOf(a) == a \div PageSize

VARIABLES
    pc,        \* "idle", "loop", "spill"
    kind,      \* "write" (fault_in_multipages_writeable) or "read"
    start,     \* the caller's uaddr
    size,
    uaddr,     \* the cursor
    end,       \* uaddr + size - 1
    ret,
    readable,  \* user pages mapped readable
    writable,  \* user pages mapped writable
    touched    \* addresses __put_user / __get_user accessed in this call

vars == <<pc, kind, start, size, uaddr, end, ret, readable, writable, touched>>

TypeOK ==
    /\ pc \in {"idle", "loop", "spill"} /\ kind \in {"write", "read"}
    /\ start \in Addr /\ size \in 0..MaxSize
    /\ uaddr \in 0..AddrSpace + PageSize /\ end \in Addr
    /\ ret \in {0, EFAULT}
    /\ readable \subseteq UserPageSet /\ writable \subseteq readable
    /\ touched \subseteq Addr

Init ==
    /\ pc = "idle" /\ kind = "write" /\ start = 0 /\ size = 0
    /\ uaddr = 0 /\ end = 0 /\ ret = 0
    /\ readable = {} /\ writable = {} /\ touched = {}

\* char __user *end = uaddr + size - 1;  (pointer arithmetic, unsigned)
End(u, s) == (u + s - 1) % AddrSpace

\* a call with a range access_ok accepted; the mapping as it is now
Begin ==
    /\ pc = "idle"
    /\ \E k \in {"write", "read"}, u \in Addr, s \in 0..MaxSize,
          r \in SUBSET UserPageSet :
        /\ u + s <= UserPages * PageSize
        /\ kind' = k /\ start' = u /\ size' = s /\ uaddr' = u
        /\ end' = End(u, s)
        /\ readable' = r /\ writable' \in SUBSET r
        /\ ret' = 0 /\ touched' = {}
        /\ pc' = IF s = 0 THEN "idle" ELSE "loop"

\* __put_user(0, a) or __get_user(c, a): 0, or -EFAULT when the page is
\* not mapped for that access
Access(a) ==
    IF PageOf(a) \in (IF kind = "write" THEN writable ELSE readable)
    THEN 0 ELSE EFAULT

\* fault: the user-access error returned with its sign flipped
Failed(r) == -r

\* if (ret != 0) return ret;
FailedRet(r) == r

\* while (uaddr <= end) { ret = __put_user(0, uaddr); if (ret != 0)
\* return ret; uaddr += PAGE_SIZE; }
Loop ==
    /\ pc = "loop"
    /\ IF uaddr <= end
       THEN /\ touched' = touched \cup {uaddr}
            /\ IF Access(uaddr) # 0
               THEN ret' = FailedRet(Access(uaddr)) /\ pc' = "idle" /\ UNCHANGED uaddr
               ELSE uaddr' = uaddr + PageSize /\ UNCHANGED <<ret, pc>>
       ELSE pc' = "spill" /\ UNCHANGED <<touched, ret, uaddr>>
    /\ UNCHANGED <<kind, start, size, end, readable, writable>>

\* fault: the spill test dropped
SpillsNever(u, e) == FALSE

\* fault: the last byte touched at the cursor, not at end
SpillAt(u, e) == u

\* if ((uaddr & PAGE_MASK) == (end & PAGE_MASK))
Spills(u, e) == PageOf(u) = PageOf(e)

\* ret = __put_user(0, end);
SpillTarget(u, e) == e

\* the range spilled into the page after the last one the loop touched
Spill ==
    /\ pc = "spill"
    /\ IF Spills(uaddr, end)
       THEN LET a == SpillTarget(uaddr, end) IN
            touched' = touched \cup {a} /\ ret' = Access(a)
       ELSE UNCHANGED <<touched, ret>>
    /\ pc' = "idle"
    /\ UNCHANGED <<kind, start, size, uaddr, end, readable, writable>>

Next == Begin \/ Loop \/ Spill

Spec == Init /\ [][Next]_vars
-----------------------------------------------------------------------------
RangePages == {PageOf(a) : a \in start..(start + size - 1)}

Mapped == IF kind = "write" THEN writable ELSE readable

\* What the callers rely on: a return of 0 means every page of the range
\* is mapped for the access and was touched, so the copy that follows
\* cannot fault; a failure means some page of the range is not mapped.
\* This is about the loop's step of PAGE_SIZE from an unaligned uaddr and
\* the spill test for the page of end.
FaultInAsDocumented ==
    pc = "idle" =>
        /\ (ret = 0) <=> RangePages \subseteq Mapped
        /\ ret = 0 => RangePages \subseteq {PageOf(a) : a \in touched}

\* The zeroes __put_user writes (and the bytes __get_user reads) lie inside
\* the caller's range: no user byte outside it is overwritten.
TouchesOnlyInsideRange ==
    touched \subseteq start..(start + size - 1)

=============================================================================
