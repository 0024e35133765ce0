------------------------------ MODULE IdaSimple ------------------------------
(***************************************************************************)
(* compat_ida_simple_get / compat_ida_simple_remove of compat-3.1.c, called *)
(* by several threads on one ida.  ida_pre_get preallocates memory outside *)
(* compat_simple_ida_lock; the allocation proper, the id > max check and   *)
(* the removal of an id out of range run under the lock, so each locked     *)
(* section is one step.  Between a thread's pre_get and its locked section *)
(* another thread may use up the preallocation, and ida_get_new_above then *)
(* answers -EAGAIN and the caller goes back to "again".                     *)
(*                                                                         *)
(* The ida itself (lib/idr.c) is the environment: it hands out the lowest  *)
(* free id at or above start within IdSpace, and whether that allocation   *)
(* needs the preallocated layer is its free choice.                        *)
(***************************************************************************)
EXTENDS Integers, FiniteSets

CONSTANTS
    Threads,    \* callers sharing the ida
    IdSpace,    \* the ids the ida can hand out (0..n)
    Requests    \* the [start, end] arguments callers pass

ENOMEM == -12
ENOSPC == -28
EAGAIN == -11
NoCall == -1   \* ret before a thread's first call

\* 0x80000000 is above every int id; its predecessor serves the same end
NoLimit == 2147483647

\* fault: max taken as end itself, not end - 1
MaxOfEnd(r) == IF r.end = 0 THEN NoLimit ELSE r.end

\* end == 0 means no upper limit: max = 0x80000000, else max = end - 1
MaxOf(r) == IF r.end = 0 THEN NoLimit ELSE r.end - 1

VARIABLES
    pc,      \* per thread: "idle", "again" (before ida_pre_get), "locked"
    req,     \* per thread: the current call's arguments
    ret,     \* per thread: what the last call returned
    own,     \* per thread: the ids it holds
    ids,     \* the ids allocated in the ida
    spare,   \* preallocated layers the ida holds (ida->free_bitmap: 0 or 1)
    full     \* history: the ida had no free id in range at the last -ENOSPC

vars == <<pc, req, ret, own, ids, spare, full>>

TypeOK ==
    /\ pc \in [Threads -> {"idle", "again", "locked"}]
    /\ req \in [Threads -> Requests]
    /\ ret \in [Threads -> Int]
    /\ own \in [Threads -> SUBSET IdSpace]
    /\ ids \subseteq IdSpace
    /\ spare \in 0..1
    /\ full \in [Threads -> BOOLEAN]

Init ==
    /\ pc = [t \in Threads |-> "idle"]
    /\ req \in [Threads -> Requests]
    /\ ret = [t \in Threads |-> NoCall]
    /\ own = [t \in Threads |-> {}]
    /\ ids = {}
    /\ spare = 0
    /\ full = [t \in Threads |-> TRUE]

\* entry: the arguments are checked (BUG_ON) and max computed from end
Get(t) ==
    /\ pc[t] = "idle"
    /\ \E r \in Requests :
        /\ r.end = 0 \/ r.start <= r.end
        /\ req' = [req EXCEPT ![t] = r]
    /\ pc' = [pc EXCEPT ![t] = "again"]
    /\ UNCHANGED <<ret, own, ids, spare, full>>

\* fault: ida_pre_get's result taken as a fresh layer even when one is spare
PreGetStacked(t) ==
    /\ pc[t] = "again"
    /\ \/ /\ spare' = spare + 1
          /\ pc' = [pc EXCEPT ![t] = "locked"]
          /\ UNCHANGED ret
       \/ /\ spare = 0
          /\ ret' = [ret EXCEPT ![t] = ENOMEM]
          /\ pc' = [pc EXCEPT ![t] = "idle"]
          /\ UNCHANGED spare
    /\ UNCHANGED <<req, own, ids, full>>

\* again: ida_pre_get allocates a layer unless one is spare; it may fail,
\* and then ida_simple_get returns -ENOMEM
PreGet(t) ==
    /\ pc[t] = "again"
    /\ \/ /\ spare' = 1
          /\ pc' = [pc EXCEPT ![t] = "locked"]
          /\ UNCHANGED ret
       \/ /\ spare = 0
          /\ ret' = [ret EXCEPT ![t] = ENOMEM]
          /\ pc' = [pc EXCEPT ![t] = "idle"]
          /\ UNCHANGED spare
    /\ UNCHANGED <<req, own, ids, full>>

\* the lowest free id at or above start, as ida_get_new_above finds it
Free(r) == {x \in IdSpace : x >= r.start /\ x \notin ids}
Lowest(S) == CHOOSE x \in S : \A y \in S : x <= y

\* every id of [start, max] the ida can hold is taken
RangeFull(r) == \A x \in IdSpace : r.start <= x /\ x <= MaxOf(r) => x \in ids

\* fault: the range test written id >= max
AboveMaxOffByOne(id, r) == id >= MaxOf(r)

\* if (id > max)
AboveMax(id, r) == id > MaxOf(r)

\* fault: the id above max is reported as -ENOSPC but left in the ida
DropAboveMaxKept(s, id) == s \cup {id}

\* ida_get_new_above took id; ida_remove(ida, id) gives it back
DropAboveMax(s, id) == s

\* under compat_simple_ida_lock: ida_get_new_above, then an id above max
\* is removed again and -ENOSPC returned; after the unlock -EAGAIN (no
\* preallocated layer left for this allocation) goes back to "again"
Locked(t) ==
    LET r == req[t] IN
    /\ pc[t] = "locked"
    /\ \E needLayer \in BOOLEAN :
        IF needLayer /\ spare = 0
        THEN /\ ret' = [ret EXCEPT ![t] = EAGAIN]
             /\ pc' = [pc EXCEPT ![t] = "again"]
             /\ UNCHANGED <<own, ids, spare, full>>
        ELSE /\ spare' = IF needLayer THEN 0 ELSE spare
             /\ pc' = [pc EXCEPT ![t] = "idle"]
             /\ IF Free(r) = {} \/ AboveMax(Lowest(Free(r)), r)
                THEN /\ ret' = [ret EXCEPT ![t] = ENOSPC]
                     /\ full' = [full EXCEPT ![t] = RangeFull(r)]
                     /\ ids' = IF Free(r) = {} THEN ids
                               ELSE DropAboveMax(ids, Lowest(Free(r)))
                     /\ UNCHANGED own
                ELSE LET id == Lowest(Free(r)) IN
                     /\ ret' = [ret EXCEPT ![t] = id]
                     /\ ids' = ids \cup {id}
                     /\ own' = [own EXCEPT ![t] = @ \cup {id}]
                     /\ UNCHANGED full
    /\ UNCHANGED req

\* compat_ida_simple_remove: ida_remove of an id the caller holds, locked
Remove(t) ==
    /\ pc[t] = "idle"
    /\ \E id \in own[t] :
        /\ ids' = ids \ {id}
        /\ own' = [own EXCEPT ![t] = @ \ {id}]
    /\ UNCHANGED <<pc, req, ret, spare, full>>

Next == \E t \in Threads : Get(t) \/ PreGet(t) \/ Locked(t) \/ Remove(t)

Spec == Init /\ [][Next]_vars
-----------------------------------------------------------------------------
\* The ida holds exactly the ids some caller holds: no id is handed to two
\* callers, and an id found above max is removed again (line 76) rather
\* than leaked, whatever the interleaving of callers and -EAGAIN retries.
IdsOwnedOnce ==
    /\ ids = UNION {own[t] : t \in Threads}
    /\ \A s, t \in Threads : s # t => own[s] \cap own[t] = {}

\* A call returns an id in [start, end - 1] (any id >= start when end is
\* 0), -ENOMEM or -ENOSPC, as the comment of ida_simple_get promises: the
\* -EAGAIN of ida_get_new_above after another caller used up the layer
\* never reaches the caller, whose call goes back to ida_pre_get (line 69).
ReturnedInRange ==
    \A t \in Threads :
        pc[t] = "idle" /\ ret[t] # NoCall =>
            \/ ret[t] \in {ENOMEM, ENOSPC}
            \/ /\ ret[t] >= req[t].start
               /\ req[t].end = 0 \/ ret[t] < req[t].end

\* -ENOSPC is returned only when every id of [start, end - 1] the ida can
\* hold was taken at the moment of the locked allocation.
NoSpuriousEnospc ==
    \A t \in Threads : pc[t] = "idle" /\ ret[t] = ENOSPC => full[t]

=============================================================================
