--------------------------- MODULE PlatformRegister ---------------------------
(***************************************************************************)
(* platform_device_register_data of compat-2.6.33.c, called by drivers     *)
(* that load and unload, each creating a device of one name and id.  The   *)
(* allocations, platform_device_add_data and platform_device_add may fail  *)
(* (the kernel's -ENOMEM, and -EBUSY for a resource conflict); device_add  *)
(* refuses a second device of the same name and id with -EEXIST.  A device *)
(* is an object with a reference count; the last put releases it.         *)
(***************************************************************************)
EXTENDS Integers

CONSTANTS
    Callers,   \* drivers calling platform_device_register_data
    Id,        \* the id each passes (the name is the same for all)
    Slots,     \* memory for platform devices
    NoDev      \* NULL

ENOMEM == -12
EBUSY  == -16
EEXIST == -17

VARIABLES
    st,       \* per slot: "free", "alloc" (allocated, not added), "live"
    ref,      \* per slot: the kobject reference count
    hasData,  \* per slot: platform_data attached
    devId,    \* per slot: the id it was allocated with
    pc,       \* per caller: "idle", "setup", "add", "error", "done"
    slot,     \* per caller: pdev
    size,     \* per caller: the size of its platform data
    ret       \* per caller: retval

vars == <<st, ref, hasData, devId, pc, slot, size, ret>>

TypeOK ==
    /\ st \in [Slots -> {"free", "alloc", "live"}]
    /\ ref \in [Slots -> 0..1]
    /\ hasData \in [Slots -> BOOLEAN]
    /\ pc \in [Callers -> {"idle", "setup", "add", "error", "done"}]
    /\ slot \in [Callers -> Slots \cup {NoDev}]
    /\ \A c \in Callers : pc[c] \in {"setup", "add", "done"} => slot[c] \in Slots
    /\ size \in [Callers -> {0, 1}]
    /\ ret \in [Callers -> {0, ENOMEM, EBUSY, EEXIST}]

Init ==
    /\ st = [d \in Slots |-> "free"] /\ ref = [d \in Slots |-> 0]
    /\ hasData = [d \in Slots |-> FALSE]
    /\ devId = [d \in Slots |-> CHOOSE i \in {Id[c] : c \in Callers} : TRUE]
    /\ pc = [c \in Callers |-> "idle"] /\ slot = [c \in Callers |-> NoDev]
    /\ size = [c \in Callers |-> 0] /\ ret = [c \in Callers |-> 0]

\* fault: the NULL test dropped, the code goes on with pdev NULL
AllocFailNext == "setup"

\* if (!pdev) { retval = -ENOMEM; goto error; }
AllocFail == "error"

\* pdev = platform_device_alloc(name, id), one reference held, or NULL
Alloc(c) ==
    /\ pc[c] = "idle"
    /\ \E s \in {0, 1} : size' = [size EXCEPT ![c] = s]
    /\ \/ \E d \in Slots :
            /\ st[d] = "free"
            /\ st' = [st EXCEPT ![d] = "alloc"] /\ ref' = [ref EXCEPT ![d] = 1]
            /\ devId' = [devId EXCEPT ![d] = Id[c]]
            /\ slot' = [slot EXCEPT ![c] = d] /\ pc' = [pc EXCEPT ![c] = "setup"]
            /\ UNCHANGED ret
       \/ /\ slot' = [slot EXCEPT ![c] = NoDev] /\ ret' = [ret EXCEPT ![c] = ENOMEM]
          /\ pc' = [pc EXCEPT ![c] = AllocFail]
          /\ UNCHANGED <<st, ref, devId>>
    /\ UNCHANGED hasData

\* if (size)
HasSize(s) == s # 0

\* pdev->dev.parent = parent; if (size) platform_device_add_data, which
\* copies the data (kmemdup, -ENOMEM on failure)
AddData(c) ==
    /\ pc[c] = "setup"
    /\ IF HasSize(size[c])
       THEN \/ hasData' = [hasData EXCEPT ![slot[c]] = TRUE] /\ pc' = [pc EXCEPT ![c] = "add"]
               /\ UNCHANGED ret
            \/ ret' = [ret EXCEPT ![c] = ENOMEM] /\ pc' = [pc EXCEPT ![c] = "error"]
               /\ UNCHANGED hasData
       ELSE pc' = [pc EXCEPT ![c] = "add"] /\ UNCHANGED <<hasData, ret>>
    /\ UNCHANGED <<st, ref, devId, slot, size>>

\* retval = platform_device_add(pdev): a live device of the same name and
\* id makes device_add fail; a resource conflict may too
Add(c) ==
    /\ pc[c] = "add"
    /\ LET d == slot[c] IN
       IF \E e \in Slots : st[e] = "live" /\ devId[e] = devId[d]
       THEN ret' = [ret EXCEPT ![c] = EEXIST] /\ pc' = [pc EXCEPT ![c] = "error"]
            /\ UNCHANGED st
       ELSE \/ st' = [st EXCEPT ![d] = "live"] /\ pc' = [pc EXCEPT ![c] = "done"]
               /\ ret' = [ret EXCEPT ![c] = 0]
            \/ ret' = [ret EXCEPT ![c] = EBUSY] /\ pc' = [pc EXCEPT ![c] = "error"]
               /\ UNCHANGED st
    /\ UNCHANGED <<ref, hasData, devId, slot, size>>

\* the last reference dropped: platform_device_release frees the data
\* and the device
Put(d) ==
    /\ ref' = [ref EXCEPT ![d] = 0]
    /\ st' = [st EXCEPT ![d] = "free"]
    /\ hasData' = [hasData EXCEPT ![d] = FALSE]

\* fault: the error path returns ERR_PTR(retval) without the put
ErrorPutSkipped(c) ==
    /\ pc[c] = "error"
    /\ pc' = [pc EXCEPT ![c] = "idle"] /\ slot' = [slot EXCEPT ![c] = NoDev]
    /\ UNCHANGED <<st, ref, hasData, devId, size, ret>>

\* error: platform_device_put(pdev) (a no-op on NULL); return ERR_PTR(retval)
ErrorPut(c) ==
    /\ pc[c] = "error"
    /\ IF slot[c] # NoDev THEN Put(slot[c]) ELSE UNCHANGED <<st, ref, hasData>>
    /\ pc' = [pc EXCEPT ![c] = "idle"] /\ slot' = [slot EXCEPT ![c] = NoDev]
    /\ UNCHANGED <<devId, size, ret>>

\* the driver unloads: platform_device_unregister, device_del and the put
Unregister(c) ==
    /\ pc[c] = "done"
    /\ Put(slot[c])
    /\ pc' = [pc EXCEPT ![c] = "idle"] /\ slot' = [slot EXCEPT ![c] = NoDev]
    /\ UNCHANGED <<devId, size, ret>>

Next ==
    \E c \in Callers :
        Alloc(c) \/ AddData(c) \/ Add(c) \/ ErrorPut(c) \/ Unregister(c)

Spec == Init /\ [][Next]_vars
-----------------------------------------------------------------------------
\* No failure of platform_device_register_data leaks a device: every
\* allocated device belongs to a call still under way or to a driver the
\* call returned it to, whichever of the allocation, add_data or add failed
\* and whatever other drivers registered meanwhile.
NoLeakedDevice ==
    \A d \in Slots : st[d] # "free" =>
        \E c \in Callers : slot[c] = d /\ pc[c] # "idle"

=============================================================================
