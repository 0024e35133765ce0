------------------------------ MODULE TxQueues ------------------------------
(***************************************************************************)
(* netif_set_real_num_tx_queues (compat-2.6.35.c) and qdisc_reset_all_tx_gt *)
(* (compat-2.6.35.h) on a device that keeps transmitting.  Resizes are      *)
(* serialised (the caller holds the RTNL); the reset loop takes each        *)
(* qdisc's lock in turn, so transmitters interleave with it queue by queue. *)
(* A transmitter (the kernel's dev_queue_xmit) picks a queue below the      *)
(* real_num_tx_queues it reads and then, under that qdisc's lock, enqueues  *)
(* the skb; the driver drains the queues it uses, those below the count.    *)
(***************************************************************************)
EXTENDS Integers

CONSTANTS
    NumTx,     \* dev->num_tx_queues, fixed at allocation
    Senders,   \* transmitting contexts
    QLimit,    \* packets a qdisc holds before it drops
    NumRx      \* rx queues the driver allocated (CONFIG_RPS)

EINVAL == -22

Queues == 0..NumTx - 1

VARIABLES
    real,     \* dev->real_num_tx_queues
    qlen,     \* packets waiting in each queue's qdisc
    rpc,      \* the resizing thread: "idle" or "reset" (in the loop)
    ri,       \* qdisc_reset_all_tx_gt's loop index
    ret,      \* what the last resize returned
    spc,      \* per sender: "idle" or "picked"
    pick,     \* per sender: the queue it picked
    rx,       \* dev->num_rx_queues
    reg       \* dev->reg_state = NETREG_REGISTERED

vars == <<real, qlen, rpc, ri, ret, spc, pick, rx, reg>>

TypeOK ==
    /\ real \in 1..NumTx
    /\ qlen \in [Queues -> 0..QLimit]
    /\ rpc \in {"idle", "reset"} /\ ri \in 0..NumTx
    /\ ret \in {0, EINVAL}
    /\ spc \in [Senders -> {"idle", "picked"}] /\ pick \in [Senders -> Queues]
    /\ rx \in 1..NumRx + 1 /\ reg \in BOOLEAN

Init ==
    /\ real \in 1..NumTx
    /\ qlen = [q \in Queues |-> 0]
    /\ rpc = "idle" /\ ri = 0 /\ ret = 0
    /\ spc = [s \in Senders |-> "idle"] /\ pick = [s \in Senders |-> 0]
    /\ rx = NumRx /\ reg = FALSE

\* for (; i < dev->num_tx_queues; i++) starts at the new count
FirstReset(txq) == txq

\* fault: the -EINVAL test dropped, any count accepted
TooManyNever(txq) == FALSE

\* if (unlikely(txq > dev->num_tx_queues)) return -EINVAL;
TooMany(txq) == txq > NumTx

\* netif_set_real_num_tx_queues(dev, txq): too many is -EINVAL; growing
\* only sets the count; shrinking sets it and then resets every qdisc from
\* index txq up (qdisc_reset_all_tx_gt(dev, txq))
SetRealNum(txq) ==
    /\ rpc = "idle"
    /\ IF TooMany(txq)
       THEN ret' = EINVAL /\ UNCHANGED <<real, rpc, ri>>
       ELSE /\ ret' = 0
            /\ real' = txq
            /\ IF txq < real
               THEN rpc' = "reset" /\ ri' = FirstReset(txq)
               ELSE UNCHANGED <<rpc, ri>>
    /\ UNCHANGED <<qlen, spc, pick, rx, reg>>

\* one pass of the loop: qdisc_reset under the qdisc's lock
ResetQueue ==
    /\ rpc = "reset"
    /\ ri < NumTx
    /\ qlen' = [qlen EXCEPT ![ri] = 0]
    /\ ri' = ri + 1
    /\ UNCHANGED <<real, rpc, ret, spc, pick, rx, reg>>

ResetDone ==
    /\ rpc = "reset"
    /\ ri = NumTx
    /\ rpc' = "idle"
    /\ UNCHANGED <<real, qlen, ri, ret, spc, pick, rx, reg>>

\* dev_queue_xmit: a queue chosen below the count read now
Pick(s) ==
    /\ spc[s] = "idle"
    /\ \E q \in 0..real - 1 : pick' = [pick EXCEPT ![s] = q]
    /\ spc' = [spc EXCEPT ![s] = "picked"]
    /\ UNCHANGED <<real, qlen, rpc, ri, ret, rx, reg>>

\* ... and later, under the qdisc lock, the skb enqueued (or dropped when full)
Enqueue(s) ==
    /\ spc[s] = "picked"
    /\ qlen' = [qlen EXCEPT ![pick[s]] = IF @ < QLimit THEN @ + 1 ELSE @]
    /\ spc' = [spc EXCEPT ![s] = "idle"]
    /\ UNCHANGED <<real, rpc, ri, ret, pick, rx, reg>>

\* the driver transmits from a queue it uses
Drain ==
    /\ \E q \in 0..real - 1 :
        /\ qlen[q] > 0
        /\ qlen' = [qlen EXCEPT ![q] = @ - 1]
    /\ UNCHANGED <<real, rpc, ri, ret, spc, pick, rx, reg>>

\* netif_set_real_num_rx_queues(dev, rxq): the sysfs rx objects of a
\* registered device cannot be redone, so -EINVAL; before registration the
\* count is stored as it is
SetRealNumRx(rxq) ==
    /\ rpc = "idle"
    /\ IF reg THEN ret' = EINVAL /\ UNCHANGED rx
              ELSE ret' = 0 /\ rx' = rxq
    /\ UNCHANGED <<real, qlen, rpc, ri, spc, pick, reg>>

\* register_netdev
Register ==
    /\ ~reg /\ reg' = TRUE
    /\ UNCHANGED <<real, qlen, rpc, ri, ret, spc, pick, rx>>

Next ==
    \/ \E rxq \in 1..NumRx + 1 : SetRealNumRx(rxq)
    \/ Register
    \/ \E txq \in 1..NumTx + 1 : SetRealNum(txq)
    \/ ResetQueue \/ ResetDone \/ Drain
    \/ \E s \in Senders : Pick(s) \/ Enqueue(s)

Spec == Init /\ [][Next]_vars
-----------------------------------------------------------------------------
\* The comment above netif_set_real_num_tx_queues: skbs mapped to queues at
\* or above real_num_tx_queues must be flushed.  Once a resize has returned,
\* no queue the device no longer uses holds a packet.
NoStaleSkbs ==
    rpc = "idle" => \A q \in Queues : q >= real => qlen[q] = 0

=============================================================================
