------------------------------ MODULE MC_Helpers ------------------------------
(***************************************************************************)
(* The sequential helpers of the backport, each a module of its own,       *)
(* checked by one run in phases: hex_to_bin, kmalloc_array,                *)
(* simple_write_to_buffer, fault_in_multipages_*, pccard_loop_tuple,       *)
(* platform_device_register_data, the seq_hlist iterator and the mii      *)
(* ethtool translators with the autonegotiation round trip, two           *)
(* concurrent callers of ida_simple_get / ida_simple_remove,               *)
(* ip_is_fragment, the Ethernet address setters and the netlink integer   *)
(* wrappers.  They share                                                   *)
(* no state, so a phase runs one module's specification from its initial  *)
(* state and, when it ends, puts that module back in its initial state: a  *)
(* state of the run is one module's state, and the run's states are the    *)
(* sum of the modules' rather than their product.                          *)
(***************************************************************************)
EXTENDS Naturals, FiniteSets, FiniteSetsExt

CONSTANTS c1, c2, d1, d2, null, nul, token, t1, t2

VARIABLES
    phase,
    ch, res,                                        \* HexToBin
    kmN, kmSize, asked,                               \* KmallocArray
    ppos, wbBuf, last,                              \* WriteToBuffer
    fiPc, kind, start, fiSize, uaddr, end, fiRet,
    readable, writable, touched,                    \* FaultInPages
    ltPc, cis, endErr, parse, k, ltRet, ltBuf, calls,  \* LoopTuple
    st, ref, hasData, devId, prPc, slot, prSize, prRet, \* PlatformRegister
    len, withHead, index, p, pos, sqPc, out,        \* SeqHlist
    mode, ethadv, partner, adv, ctrl1000, lpa, stat1000,
    reported, lp, miiStep,                          \* MiiEthtool
    idaPc, req, idaRet, own, ids, spare, full,      \* IdaSimple
    ipHost, b0, b1, ipRes,                          \* IpFragment
    op, rnd, addr,                                  \* EtherAddr
    nlaHost, nlaKind, width, val, attr, nlaRet, got \* NlaInt

\* the bounds of each module's check
SizeTBits == 6                    \* size_t of kmalloc_array
BufBytes == 4                     \* available of simple_write_to_buffer
WriteCount == 5                   \* largest count written
PageBytes == 4                    \* PAGE_SIZE
SpacePages == 3                   \* pages of the address space
TaskPages == 2                    \* pages below TASK_SIZE
FaultSize == 8                    \* largest size faulted in
CisTuples == 3                    \* longest CIS chain
Drivers == {c1, c2}               \* drivers registering one name and id
DevSlots == {d1, d2}
HlistLen == 6                     \* longest hlist
\* the ethtool bits the mii translators read, plus ADVERTISED_TP (128),
\* which no register carries; the masks of at most two of them: each
\* translator works bit by bit, so a bit dropped, moved or crossed with
\* another shows on such masks
MiiBits == {1, 2, 4, 8, 16, 32, 64, 128, 8192, 16384}
MiiSettings == {SumSet(b) : b \in {b \in SUBSET MiiBits : Cardinality(b) <= 2}}
IdaThreads == {t1, t2}            \* callers sharing the ida
IdaIds == 0..3                    \* the ids the ida can hand out
\* no upper limit; ids [1, 2]; the single id 2
IdaRequests == {[start |-> 0, end |-> 0], [start |-> 1, end |-> 3],
                [start |-> 2, end |-> 3]}

Hex == INSTANCE HexToBin
Km == INSTANCE KmallocArray WITH Width <- SizeTBits, n <- kmN, size <- kmSize
Wb == INSTANCE WriteToBuffer WITH Available <- BufBytes, MaxCount <- WriteCount, buf <- wbBuf
Fi == INSTANCE FaultInPages WITH PageSize <- PageBytes, NumPages <- SpacePages,
        UserPages <- TaskPages, MaxSize <- FaultSize, pc <- fiPc, size <- fiSize, ret <- fiRet
Lt == INSTANCE LoopTuple WITH MaxTuples <- CisTuples, pc <- ltPc, ret <- ltRet, buf <- ltBuf
Pr == INSTANCE PlatformRegister WITH Callers <- Drivers, Id <- [c \in Drivers |-> 0],
        Slots <- DevSlots, NoDev <- null, pc <- prPc, size <- prSize, ret <- prRet
Sq == INSTANCE SeqHlist WITH MaxLen <- HlistLen, NULL <- nul, TOKEN <- token, pc <- sqPc
Mii == INSTANCE MiiEthtool WITH Settings <- MiiSettings, step <- miiStep
Ida == INSTANCE IdaSimple WITH Threads <- IdaThreads, IdSpace <- IdaIds,
        Requests <- IdaRequests, pc <- idaPc, ret <- idaRet
Ip == INSTANCE IpFragment WITH host <- ipHost, res <- ipRes
Eth == INSTANCE EtherAddr
Nla == INSTANCE NlaInt WITH host <- nlaHost, kind <- nlaKind, ret <- nlaRet

hexV == <<ch, res>>
kmV == <<kmN, kmSize, asked>>
wbV == <<ppos, wbBuf, last>>
fiV == <<fiPc, kind, start, fiSize, uaddr, end, fiRet, readable, writable, touched>>
ltV == <<ltPc, cis, endErr, parse, k, ltRet, ltBuf, calls>>
prV == <<st, ref, hasData, devId, prPc, slot, prSize, prRet>>
sqV == <<len, withHead, index, p, pos, sqPc, out>>
miiV == <<mode, ethadv, partner, adv, ctrl1000, lpa, stat1000, reported, lp, miiStep>>
idaV == <<idaPc, req, idaRet, own, ids, spare, full>>
ipV == <<ipHost, b0, b1, ipRes>>
ethV == <<op, rnd, addr>>
nlaV == <<nlaHost, nlaKind, width, val, attr, nlaRet, got>>
vars == <<phase, hexV, kmV, wbV, fiV, ltV, prV, sqV, miiV, idaV, ipV, ethV, nlaV>>
Phases == 1..12

\* the seq_file's initial state is a choice; until its phase it rests here
SqParked == len = 0 /\ withHead = FALSE /\ index = 0 /\ p = nul /\ pos = 0
            /\ sqPc = "idle" /\ out = <<>>

\* so does the mii link's: here, a link with nothing advertised
MiiParked == /\ mode = "T" /\ ethadv = 0 /\ partner = 0
             /\ adv = 0 /\ ctrl1000 = 0 /\ lpa = 0 /\ stat1000 = 0
             /\ reported = 0 /\ lp = 0 /\ miiStep = "config"

\* the ida's callers start idle; the request Init picks is overwritten by
\* the first call before it is read, so one of them stands for all
IdaParked == /\ idaPc = [t \in IdaThreads |-> "idle"]
             /\ req = [t \in IdaThreads |-> [start |-> 0, end |-> 0]]
             /\ idaRet = [t \in IdaThreads |-> Ida!NoCall]
             /\ own = [t \in IdaThreads |-> {}] /\ ids = {} /\ spare = 0
             /\ full = [t \in IdaThreads |-> TRUE]

Init ==
    /\ phase = 1
    /\ Hex!Init /\ Km!Init /\ Wb!Init /\ Fi!Init /\ Lt!Init /\ Pr!Init
    /\ SqParked /\ MiiParked /\ IdaParked /\ Ip!Init /\ Eth!Init /\ Nla!Init

\* the variables of phase i's module unchanged
Keep(i) == CASE i = 1 -> UNCHANGED hexV [] i = 2 -> UNCHANGED kmV [] i = 3 -> UNCHANGED wbV
            [] i = 4 -> UNCHANGED fiV  [] i = 5 -> UNCHANGED ltV [] i = 6 -> UNCHANGED prV
            [] i = 7 -> UNCHANGED sqV [] i = 8 -> UNCHANGED miiV
            [] i = 9 -> UNCHANGED idaV [] i = 10 -> UNCHANGED ipV
            [] i = 11 -> UNCHANGED ethV [] i = 12 -> UNCHANGED nlaV

\* the seq_file opened: Sq!Init, primed
SqEnter ==
    /\ len' \in 0..HlistLen /\ withHead' \in BOOLEAN
    /\ index' = 0 /\ p' = nul /\ pos' = 0 /\ sqPc' = "idle" /\ out' = <<>>

\* the mii link brought up: Mii!Init, primed
MiiEnter ==
    /\ mode' \in {"T", "X"} /\ ethadv' \in MiiSettings /\ partner' \in MiiSettings
    /\ adv' = 0 /\ ctrl1000' = 0 /\ lpa' = 0 /\ stat1000' = 0
    /\ reported' = 0 /\ lp' = 0 /\ miiStep' = "config"

\* phase i's module back to its initial state (its Init, primed)
ResetOf(i) ==
    CASE i = 1 -> ch' = 0 /\ res' = Hex!CompatHexToBin(0)
      [] i = 2 -> kmN' = 0 /\ kmSize' = 0 /\ asked' = Km!KmallocArray(0, 0)
      [] i = 3 -> ppos' = 0 /\ wbBuf' = {} /\ last' = [from |-> 0, to |-> 0, ret |-> 0]
      [] i = 4 -> /\ fiPc' = "idle" /\ kind' = "write" /\ start' = 0 /\ fiSize' = 0
                  /\ uaddr' = 0 /\ end' = 0 /\ fiRet' = 0
                  /\ readable' = {} /\ writable' = {} /\ touched' = {}
      [] i = 5 -> /\ ltPc' = "idle" /\ cis' = <<>> /\ endErr' = Lt!ENOSPC /\ parse' = FALSE
                  /\ k' = 0 /\ ltRet' = 0 /\ ltBuf' = "none" /\ calls' = <<>>
      [] i = 6 -> /\ st' = [d \in DevSlots |-> "free"] /\ ref' = [d \in DevSlots |-> 0]
                  /\ hasData' = [d \in DevSlots |-> FALSE] /\ devId' = [d \in DevSlots |-> 0]
                  /\ prPc' = [c \in Drivers |-> "idle"] /\ slot' = [c \in Drivers |-> null]
                  /\ prSize' = [c \in Drivers |-> 0] /\ prRet' = [c \in Drivers |-> 0]
      [] i = 7 -> /\ len' = 0 /\ withHead' = FALSE /\ index' = 0 /\ p' = nul /\ pos' = 0
                  /\ sqPc' = "idle" /\ out' = <<>>
      [] i = 8 -> /\ mode' = "T" /\ ethadv' = 0 /\ partner' = 0
                  /\ adv' = 0 /\ ctrl1000' = 0 /\ lpa' = 0 /\ stat1000' = 0
                  /\ reported' = 0 /\ lp' = 0 /\ miiStep' = "config"
      [] i = 9 -> /\ idaPc' = [t \in IdaThreads |-> "idle"]
                  /\ req' = [t \in IdaThreads |-> [start |-> 0, end |-> 0]]
                  /\ idaRet' = [t \in IdaThreads |-> Ida!NoCall]
                  /\ own' = [t \in IdaThreads |-> {}] /\ ids' = {} /\ spare' = 0
                  /\ full' = [t \in IdaThreads |-> TRUE]
      [] i = 10 -> ipHost' = "le" /\ b0' = 0 /\ b1' = 0 /\ ipRes' = Ip!IpIsFragment("le", 0, 0)
      [] i = 11 -> op' = "eth_zero_addr" /\ rnd' = Eth!Memset(0) /\ addr' = Eth!Memset(0)

\* a step of the phase's module, the others unchanged.  A kmalloc_array,
\* pccard_loop_tuple, ip_is_fragment or address-setter call sets every
\* variable of its module from arguments it chooses afresh, so its successors are the same from every state it
\* starts in: those phases start their calls from the initial state only,
\* which reaches the same states without choosing each call from each one.
Step ==
    \/ phase = 1 /\ Hex!Next /\ UNCHANGED <<phase, kmV, wbV, fiV, ltV, prV, sqV, miiV, idaV, ipV, ethV, nlaV>>
    \/ phase = 2 /\ Km!Init /\ Km!Next /\ UNCHANGED <<phase, hexV, wbV, fiV, ltV, prV, sqV, miiV, idaV, ipV, ethV, nlaV>>
    \/ phase = 3 /\ Wb!Next /\ UNCHANGED <<phase, hexV, kmV, fiV, ltV, prV, sqV, miiV, idaV, ipV, ethV, nlaV>>
    \/ phase = 4 /\ Fi!Next /\ UNCHANGED <<phase, hexV, kmV, wbV, ltV, prV, sqV, miiV, idaV, ipV, ethV, nlaV>>
    \/ phase = 5 /\ (ltPc = "idle" => Lt!Init) /\ Lt!Next /\ UNCHANGED <<phase, hexV, kmV, wbV, fiV, prV, sqV, miiV, idaV, ipV, ethV, nlaV>>
    \/ phase = 6 /\ Pr!Next /\ UNCHANGED <<phase, hexV, kmV, wbV, fiV, ltV, sqV, miiV, idaV, ipV, ethV, nlaV>>
    \/ phase = 7 /\ Sq!Next /\ UNCHANGED <<phase, hexV, kmV, wbV, fiV, ltV, prV, miiV, idaV, ipV, ethV, nlaV>>
    \/ phase = 8 /\ Mii!Next /\ UNCHANGED <<phase, hexV, kmV, wbV, fiV, ltV, prV, sqV, idaV, ipV, ethV, nlaV>>
    \/ phase = 9 /\ Ida!Next /\ UNCHANGED <<phase, hexV, kmV, wbV, fiV, ltV, prV, sqV, miiV, ipV, ethV, nlaV>>
    \/ phase = 10 /\ Ip!Init /\ Ip!Next /\ UNCHANGED <<phase, hexV, kmV, wbV, fiV, ltV, prV, sqV, miiV, idaV, ethV, nlaV>>
    \/ phase = 11 /\ Eth!Init /\ Eth!Next /\ UNCHANGED <<phase, hexV, kmV, wbV, fiV, ltV, prV, sqV, miiV, idaV, ipV, nlaV>>
    \/ phase = 12 /\ Nla!Next /\ UNCHANGED <<phase, hexV, kmV, wbV, fiV, ltV, prV, sqV, miiV, idaV, ipV, ethV>>

\* the phase's module back to its initial state, the next one begins
Switch ==
    /\ phase < 12
    /\ phase' = phase + 1
    /\ ResetOf(phase)
    /\ CASE phase + 1 = 7 -> SqEnter [] phase + 1 = 8 -> MiiEnter [] OTHER -> Keep(phase + 1)
    /\ \A j \in Phases \ {phase, phase + 1} : Keep(j)

Next == Step \/ Switch

Spec == Init /\ [][Next]_vars
-----------------------------------------------------------------------------
\* Each module's properties, stated and explained in the module.

\* every module's variables keep their types, in its phase and at rest
HelpersTypeOK == /\ Hex!TypeOK /\ Wb!TypeOK /\ Fi!TypeOK /\ Lt!TypeOK
                 /\ Pr!TypeOK /\ Mii!TypeOK /\ Ida!TypeOK /\ Ip!TypeOK
                 /\ Eth!TypeOK /\ Nla!TypeOK

\* compat_hex_to_bin: the value of every hex digit, -1 for every other char
ConvertsAsDocumented == Hex!ConvertsAsDocumented

\* kmalloc_array: exactly n * size bytes when it fits, NULL otherwise
AllocatesWholeArray == Km!AllocatesWholeArray

\* simple_write_to_buffer: *ppos moves by the bytes copied, never past the end
WriteAdvancesOverCopied == Wb!WriteAdvancesOverCopied

\* fault_in_multipages_*: 0 exactly when the whole range is mapped and was
\* touched; nothing outside the range is touched
FaultInAsDocumented == Fi!FaultInAsDocumented
TouchesOnlyInsideRange == Fi!TouchesOnlyInsideRange

\* pccard_loop_tuple: the callbacks and the result its comment describes
CallbacksAsDocumented == Lt!CallbacksAsDocumented

\* platform_device_register_data: no failure leaks a device
NoLeakedDevice == Pr!NoLeakedDevice

\* seq_hlist_*: the file reads as the header and every entry once, in order
ReadsEveryEntryOnce == Sq!ReadsEveryEntryOnce

\* mii/ethtool: the advertising ethtool set and the link partner's reach
\* the user back through the MII registers, bit for bit
AdvertisingReadBack == Mii!AdvertisingReadBack
PartnerReadBack == Mii!PartnerReadBack

\* ida_simple_get / ida_simple_remove: no id held twice or leaked, every id
\* returned in [start, end), -ENOSPC only for a full range
IdsOwnedOnce == Ida!IdsOwnedOnce
ReturnedInRange == Ida!ReturnedInRange
NoSpuriousEnospc == Ida!NoSpuriousEnospc

\* ip_is_fragment: a fragment exactly when MF or the offset is set on the
\* wire, on hosts of either byte order
FragmentAsOnWire == Ip!FragmentAsOnWire

\* eth_*_addr: the zero and broadcast addresses; a random one valid,
\* unicast, locally administered and otherwise as drawn
AddressAsDocumented == Eth!AddressAsDocumented

\* nla_put_sN / nla_get_sN return the value put; nla_put_beN puts
\* network order
NlaRoundTrip == Nla!NlaRoundTrip
=============================================================================
