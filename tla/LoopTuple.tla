------------------------------ MODULE LoopTuple ------------------------------
(***************************************************************************)
(* pccard_loop_tuple / pcmcia_loop_tuple of compat-2.6.33.c: walk the card *)
(* information structure (CIS) for tuples of one code, and call back for   *)
(* each whose data can be read (and parsed, when a parse buffer is given) *)
(* until a callback returns 0.  The CIS on the card, the tuple-data and    *)
(* parse failures, the callback's answers and the error that ends the      *)
(* chain are the environment's choices; the walk is the code's.           *)
(***************************************************************************)
EXTENDS Integers, Sequences, SequencesExt

CONSTANTS
    MaxTuples   \* longest CIS chain of matching tuples

ENOMEM == -12
ENOSPC == -28   \* pccard_get_*_tuple: no more tuples
EINVAL == -22   \* pccard_get_*_tuple: a broken CIS link

\* a matching tuple: can its data be read, can it be parsed, and what the
\* callback answers (0 stops the walk)
Tuple == [data : BOOLEAN, parsed : BOOLEAN, cb : {0, 1}]

VARIABLES
    pc,       \* "idle", "first", "loop", "next", "free"
    cis,      \* the matching tuples on the card, in chain order
    endErr,   \* what pccard_get_next_tuple answers after the last one
    parse,    \* a parse buffer was passed (NULL from pcmcia_loop_tuple)
    k,        \* the current tuple
    ret,
    buf,      \* the 256-byte tuple buffer: "none", "held", "freed"
    calls     \* the tuples the callback was called for, in order

vars == <<pc, cis, endErr, parse, k, ret, buf, calls>>

TypeOK ==
    /\ pc \in {"idle", "first", "loop", "next", "free"}
    /\ cis \in Seq(Tuple) /\ Len(cis) <= MaxTuples
    /\ endErr \in {ENOSPC, EINVAL} /\ parse \in BOOLEAN
    /\ k \in 0..Len(cis)
    /\ ret \in {0, 1, ENOMEM, ENOSPC, EINVAL}
    /\ buf \in {"none", "held", "freed"}
    /\ calls \in Seq(1..MaxTuples)

Init ==
    /\ pc = "idle" /\ cis = <<>> /\ endErr = ENOSPC /\ parse = FALSE
    /\ k = 0 /\ ret = 0 /\ buf = "none" /\ calls = <<>>

\* entry: kzalloc the tuple buffer, or return -ENOMEM
Enter(withParse) ==
    /\ pc = "idle"
    /\ \E c \in BoundedSeq(Tuple, MaxTuples), e \in {ENOSPC, EINVAL} :
        cis' = c /\ endErr' = e
    /\ parse' = withParse
    /\ k' = 0 /\ calls' = <<>>
    /\ \/ buf' = "held" /\ pc' = "first" /\ ret' = 0
       \/ buf' = "none" /\ ret' = ENOMEM /\ UNCHANGED pc

\* pccard_loop_tuple called by a driver with or without a parse buffer
PccardLoopTuple == \E withParse \in BOOLEAN : Enter(withParse)

\* pcmcia_loop_tuple: pccard_loop_tuple with parse NULL and the driver's
\* callback wrapped by pcmcia_do_loop_tuple, which returns its answer
PcmciaLoopTuple == Enter(FALSE)

\* pccard_get_first_tuple
GetFirst ==
    /\ pc = "first"
    /\ IF cis = <<>> THEN ret' = endErr /\ UNCHANGED k
                     ELSE ret' = 0 /\ k' = 1
    /\ pc' = "loop"
    /\ UNCHANGED <<cis, endErr, parse, buf, calls>>

\* a tuple the loop calls back for: its data read, and parsed if asked
Usable(t, p) == t.data /\ (p => t.parsed)

\* fault: the loop left when the callback answers non-zero
StopsOnNonZero(r) == r # 0

\* if (!ret) break;
StopsOn(r) == r = 0

\* while (!ret): the data and the parse failures go to next_entry, else
\* the callback; its 0 breaks out of the loop
Loop ==
    /\ pc = "loop"
    /\ IF ret # 0
       THEN pc' = "free" /\ UNCHANGED <<ret, calls>>
       ELSE IF ~Usable(cis[k], parse)
       THEN pc' = "next" /\ UNCHANGED <<ret, calls>>
       ELSE /\ ret' = cis[k].cb
            /\ calls' = Append(calls, k)
            /\ pc' = IF StopsOn(cis[k].cb) THEN "free" ELSE "next"
    /\ UNCHANGED <<cis, endErr, parse, k, buf>>

\* fault: the end of the chain detected one tuple late
GetNextLate ==
    /\ pc = "next"
    /\ IF k <= Len(cis) THEN ret' = 0 /\ k' = k + 1
                        ELSE ret' = endErr /\ UNCHANGED k
    /\ pc' = "loop"
    /\ UNCHANGED <<cis, endErr, parse, buf, calls>>

\* next_entry: pccard_get_next_tuple
GetNext ==
    /\ pc = "next"
    /\ IF k < Len(cis) THEN ret' = 0 /\ k' = k + 1
                       ELSE ret' = endErr /\ UNCHANGED k
    /\ pc' = "loop"
    /\ UNCHANGED <<cis, endErr, parse, buf, calls>>

\* kfree(buf); return ret
Free ==
    /\ pc = "free"
    /\ buf' = "freed"
    /\ pc' = "idle"
    /\ UNCHANGED <<cis, endErr, parse, k, ret, calls>>

Next == PccardLoopTuple \/ PcmciaLoopTuple \/ GetFirst \/ Loop \/ GetNext \/ Free

Spec == Init /\ [][Next]_vars
-----------------------------------------------------------------------------
\* reference: the usable tuples up to and including the first whose
\* callback answers 0
RECURSIVE Expected(_, _)
Expected(c, p) ==
    IF c = <<>> THEN <<>>
    ELSE LET rest == Expected(Tail(c), p)
             shifted == [j \in 1..Len(rest) |-> rest[j] + 1]
         IN IF ~Usable(Head(c), p) THEN shifted
            ELSE IF Head(c).cb = 0 THEN <<1>>
            ELSE <<1>> \o shifted

\* The comment of pccard_loop_tuple: the callback is called for every CIS
\* entry of the code, in chain order, skipping those whose data cannot be
\* read or parsed, until one answers 0; the walk returns 0 exactly then,
\* and otherwise the error that ended the chain.
CallbacksAsDocumented ==
    pc = "idle" /\ buf = "freed" =>
        /\ calls = Expected(cis, parse)
        /\ (ret = 0) <=> (calls # <<>> /\ cis[Last(calls)].cb = 0)
        /\ ret # 0 => ret = endErr

=============================================================================
