------------------------------ MODULE UsbAutopm ------------------------------
(***************************************************************************)
(* usb_autopm_get_interface_no_resume / usb_autopm_put_interface_no_suspend *)
(* of compat-2.6.33.c, called by several contexts on one interface; the    *)
(* comments say both "can run in atomic context", so nothing serialises    *)
(* them.  On kernels from 2.6.32 intf->pm_usage_cnt is an atomic_t; before *)
(* it is a plain int changed with ++ and --, a load and a store that other *)
(* CPUs may interleave with.  pm_runtime_get_noresume / put_noidle change  *)
(* the device's runtime PM usage count, which is atomic on every kernel.   *)
(***************************************************************************)
EXTENDS Integers, FiniteSets

CONSTANTS
    Callers,   \* contexts that take and drop a usage reference
    Builds,    \* kernels built for: TRUE >= 2.6.32 (atomic_t), FALSE before
    MaxDrift   \* model bound: past it, gets and puts no longer overlap

VARIABLES
    cnt,     \* intf->pm_usage_cnt
    rt,      \* intf->dev.power.usage_count
    pc,      \* per caller: "out", "get", "getrt", "in", "put", "putrt"
    tmp,     \* per caller: the value its ++ / -- loaded
    atomic   \* LINUX_VERSION_CODE >= KERNEL_VERSION(2,6,32), fixed at build

vars == <<cnt, rt, pc, tmp, atomic>>

\* lost updates let the counter drift without limit; once it is MaxDrift
\* away from zero the model lets a get or put begin only when no other is
\* under way, so no further update is lost and the counter stays bounded
InBound(c) ==
    \/ cnt \in -MaxDrift..MaxDrift
    \/ \A d \in Callers \ {c} : pc[d] \in {"out", "in"}

\* callers that have finished the get and not begun the put
Holders == {c \in Callers : pc[c] = "in"}

TypeOK ==
    /\ atomic \in BOOLEAN
    /\ cnt \in (IF atomic THEN Nat ELSE Int) /\ rt \in Nat
    /\ pc \in [Callers -> {"out", "get", "getrt", "in", "put", "putrt"}]
    /\ tmp \in [Callers -> Int]

Init ==
    /\ cnt = 0 /\ rt = 0
    /\ pc = [c \in Callers |-> "out"]
    /\ tmp = [c \in Callers |-> 0]
    /\ atomic \in Builds

\* fault: the get's counter change written as a decrement
GetBeginDec(c) ==
    /\ pc[c] = "out"
    /\ InBound(c)
    /\ IF atomic
       THEN cnt' = cnt - 1 /\ pc' = [pc EXCEPT ![c] = "getrt"] /\ UNCHANGED tmp
       ELSE tmp' = [tmp EXCEPT ![c] = cnt] /\ pc' = [pc EXCEPT ![c] = "get"] /\ UNCHANGED cnt
    /\ UNCHANGED rt

\* usb_mark_last_busy; then the counter change begins: atomic_inc in one
\* step, or the load of intf->pm_usage_cnt++
GetBegin(c) ==
    /\ pc[c] = "out"
    /\ InBound(c)
    /\ IF atomic
       THEN cnt' = cnt + 1 /\ pc' = [pc EXCEPT ![c] = "getrt"] /\ UNCHANGED tmp
       ELSE tmp' = [tmp EXCEPT ![c] = cnt] /\ pc' = [pc EXCEPT ![c] = "get"] /\ UNCHANGED cnt
    /\ UNCHANGED rt

\* the store of intf->pm_usage_cnt++
GetStore(c) ==
    /\ pc[c] = "get"
    /\ cnt' = tmp[c] + 1
    /\ pc' = [pc EXCEPT ![c] = "getrt"]
    /\ UNCHANGED <<rt, tmp>>

\* pm_runtime_get_noresume(&intf->dev)
GetRuntime(c) ==
    /\ pc[c] = "getrt"
    /\ rt' = rt + 1
    /\ pc' = [pc EXCEPT ![c] = "in"]
    /\ UNCHANGED <<cnt, tmp>>

\* fault: the put's counter change written as an increment
PutBeginInc(c) ==
    /\ pc[c] = "in"
    /\ InBound(c)
    /\ IF atomic
       THEN cnt' = cnt + 1 /\ pc' = [pc EXCEPT ![c] = "putrt"] /\ UNCHANGED tmp
       ELSE tmp' = [tmp EXCEPT ![c] = cnt] /\ pc' = [pc EXCEPT ![c] = "put"] /\ UNCHANGED cnt
    /\ UNCHANGED rt

\* usb_mark_last_busy; atomic_dec, or the load of intf->pm_usage_cnt--
PutBegin(c) ==
    /\ pc[c] = "in"
    /\ InBound(c)
    /\ IF atomic
       THEN cnt' = cnt - 1 /\ pc' = [pc EXCEPT ![c] = "putrt"] /\ UNCHANGED tmp
       ELSE tmp' = [tmp EXCEPT ![c] = cnt] /\ pc' = [pc EXCEPT ![c] = "put"] /\ UNCHANGED cnt
    /\ UNCHANGED rt

\* the store of intf->pm_usage_cnt--
PutStore(c) ==
    /\ pc[c] = "put"
    /\ cnt' = tmp[c] - 1
    /\ pc' = [pc EXCEPT ![c] = "putrt"]
    /\ UNCHANGED <<rt, tmp>>

\* fault: pm_runtime_put_noidle left out
PutRuntimeSkipped(c) ==
    /\ pc[c] = "putrt"
    /\ pc' = [pc EXCEPT ![c] = "out"]
    /\ UNCHANGED <<cnt, rt, tmp>>

\* pm_runtime_put_noidle(&intf->dev)
PutRuntime(c) ==
    /\ pc[c] = "putrt"
    /\ rt' = rt - 1
    /\ pc' = [pc EXCEPT ![c] = "out"]
    /\ UNCHANGED <<cnt, tmp>>

Next ==
    /\ \E c \in Callers :
          \/ GetBegin(c) \/ GetStore(c) \/ GetRuntime(c)
          \/ PutBegin(c) \/ PutStore(c) \/ PutRuntime(c)
    /\ UNCHANGED atomic

Spec == Init /\ [][Next]_vars
-----------------------------------------------------------------------------
\* no caller is between the first and the last step of a get or a put
Quiescent == \A c \in Callers : pc[c] \in {"out", "in"}

\* Whenever no caller is inside a get or a put, intf->pm_usage_cnt equals
\* the number of references held: a get and a put on two CPUs never lose
\* or double an update, so the interface is not autosuspended while in
\* use and not kept awake for ever after the last put.
UsageCountMatchesHolders == Quiescent => cnt = Cardinality(Holders)

\* The same for the kernels where pm_usage_cnt is an atomic_t (>= 2.6.32),
\* whose atomic_inc / atomic_dec are single steps.
UsageCountMatchesHoldersWhenAtomic == atomic => UsageCountMatchesHolders

\* On every kernel, also while the plain pm_usage_cnt++ / -- of an older
\* one races, the runtime PM usage count that pm_runtime_get_noresume and
\* pm_runtime_put_noidle keep matches the references held.
RuntimeCountMatchesHolders == Quiescent => rt = Cardinality(Holders)

=============================================================================
