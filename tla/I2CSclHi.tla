------------------------------ MODULE I2CSclHi ------------------------------
(***************************************************************************)
(* sclhi() of compat-3.4.c: release SCL and, when the adapter can sense   *)
(* SCL, wait until the line reads high (a slave may stretch the clock) or  *)
(* until jiffies is after start + adap->timeout.  jiffies is an unsigned   *)
(* counter of JiffyBits bits that wraps; the thread may be preempted       *)
(* between any two of its steps, which is modelled by Tick steps of the    *)
(* clock interleaving freely with the code.  Release is the slave letting  *)
(* go of SCL, which it may also never do.                                  *)
(***************************************************************************)
EXTENDS Integers

CONSTANTS
    JiffyBits,   \* width of jiffies (wraps at 2^JiffyBits)
    Timeout,     \* adap->timeout, in jiffies
    MaxElapsed   \* longest run of ticks a single sclhi call can see

Wrap == 2 ^ JiffyBits

ASSUME JiffyBits \in Nat \ {0} /\ Timeout \in Nat
\* a call is never preempted for half the range of jiffies
ASSUME Timeout < MaxElapsed /\ MaxElapsed < Wrap \div 2

ETIMEDOUT == -110
None == -1   \* no sample / not released yet

VARIABLES
    pc,         \* "idle" between calls, else the location inside sclhi
    hasGetScl,  \* adap->getscl != NULL: fixed for the adapter
    jiffies,    \* the kernel tick counter
    start,      \* sclhi's local start
    held,       \* the slave holds SCL low
    result,     \* what the last call returned
    \* history, read only by the properties
    elapsed,    \* ticks since this call sampled start
    sample,     \* the last getscl() value: 1, 0, or None
    sampleAt,   \* elapsed when that value was read
    releasedAt  \* elapsed when the slave let SCL go, or None

vars == <<pc, hasGetScl, jiffies, start, held, result,
          elapsed, sample, sampleAt, releasedAt>>

\* time_after(a, b): (long)((b) - (a)) < 0 on a JiffyBits-bit counter
TimeAfter(a, b) == (b - a) % Wrap >= Wrap \div 2

TypeOK ==
    /\ pc \in {"idle", "poll", "deadline", "recheck", "done"}
    /\ hasGetScl \in BOOLEAN
    /\ jiffies \in 0..Wrap - 1 /\ start \in 0..Wrap - 1
    /\ held \in BOOLEAN
    /\ result \in {0, ETIMEDOUT}
    /\ elapsed \in 0..MaxElapsed
    /\ sample \in {None, 0, 1} /\ sampleAt \in {None} \cup 0..MaxElapsed
    /\ releasedAt \in {None} \cup 0..MaxElapsed

Init ==
    /\ pc = "idle"
    /\ hasGetScl \in BOOLEAN
    /\ jiffies \in 0..Wrap - 1
    /\ start = 0
    /\ held = FALSE
    /\ result = 0
    /\ elapsed = 0
    /\ sample = None /\ sampleAt = None
    /\ releasedAt = None

\* setscl(adap, 1); without a sense line goto done, else start = jiffies.
\* Whether a slave stretches this clock pulse is the environment's choice.
Call ==
    /\ pc = "idle"
    /\ \E h \in BOOLEAN :
        /\ held' = h
        /\ releasedAt' = IF h THEN None ELSE 0
    /\ pc' = IF hasGetScl THEN "poll" ELSE "done"
    /\ start' = jiffies
    /\ elapsed' = 0
    /\ sample' = None /\ sampleAt' = None
    /\ UNCHANGED <<hasGetScl, jiffies, result>>

\* while (!getscl(adap)): leave the loop once SCL reads high
Poll ==
    /\ pc = "poll"
    /\ sample' = IF held THEN 0 ELSE 1
    /\ sampleAt' = elapsed
    /\ pc' = IF held THEN "deadline" ELSE "done"
    /\ UNCHANGED <<hasGetScl, jiffies, start, held, result, elapsed, releasedAt>>

\* fault: the comparison done on raw unsigned values, blind to the wrap
DeadlineUnsigned ==
    /\ pc = "deadline"
    /\ pc' = IF jiffies > (start + Timeout) % Wrap THEN "recheck" ELSE "poll"
    /\ UNCHANGED <<hasGetScl, jiffies, start, held, result,
                   elapsed, sample, sampleAt, releasedAt>>

\* fault: start sampled afresh on each pass of the loop
DeadlineRestart ==
    /\ pc = "deadline"
    /\ pc' = IF TimeAfter(jiffies, (start + Timeout) % Wrap) THEN "recheck" ELSE "poll"
    /\ start' = jiffies
    /\ UNCHANGED <<hasGetScl, jiffies, held, result,
                   elapsed, sample, sampleAt, releasedAt>>

\* if (time_after(jiffies, start + adap->timeout)) ... else cpu_relax()
Deadline ==
    /\ pc = "deadline"
    /\ pc' = IF TimeAfter(jiffies, (start + Timeout) % Wrap) THEN "recheck" ELSE "poll"
    /\ UNCHANGED <<hasGetScl, jiffies, start, held, result,
                   elapsed, sample, sampleAt, releasedAt>>

\* fault: return ETIMEDOUT, the errno without its minus sign
RecheckErrnoPositive ==
    /\ pc = "recheck"
    /\ sample' = IF held THEN 0 ELSE 1
    /\ sampleAt' = elapsed
    /\ IF held THEN result' = -ETIMEDOUT /\ pc' = "idle"
               ELSE pc' = "done" /\ UNCHANGED result
    /\ UNCHANGED <<hasGetScl, jiffies, start, held, elapsed, releasedAt>>

\* test one last time, as we may have been preempted; else -ETIMEDOUT
Recheck ==
    /\ pc = "recheck"
    /\ sample' = IF held THEN 0 ELSE 1
    /\ sampleAt' = elapsed
    /\ IF held THEN result' = ETIMEDOUT /\ pc' = "idle"
               ELSE pc' = "done" /\ UNCHANGED result
    /\ UNCHANGED <<hasGetScl, jiffies, start, held, elapsed, releasedAt>>

\* done: udelay(adap->udelay); return 0
Done ==
    /\ pc = "done"
    /\ result' = 0
    /\ pc' = "idle"
    /\ UNCHANGED <<hasGetScl, jiffies, start, held, elapsed,
                   sample, sampleAt, releasedAt>>

\* the clock ticks while a call runs (preemption lets many ticks pass)
Tick ==
    /\ pc # "idle"
    /\ elapsed < MaxElapsed
    /\ jiffies' = (jiffies + 1) % Wrap
    /\ elapsed' = elapsed + 1
    /\ UNCHANGED <<pc, hasGetScl, start, held, result, sample, sampleAt, releasedAt>>

\* the slave stops stretching the clock
Release ==
    /\ pc # "idle"
    /\ held
    /\ held' = FALSE
    /\ releasedAt' = elapsed
    /\ UNCHANGED <<pc, hasGetScl, jiffies, start, result, elapsed, sample, sampleAt>>

Code == Call \/ Poll \/ Deadline \/ Recheck \/ Done

Next == Code \/ Tick \/ Release

\* the calling thread keeps running and time keeps passing; the slave may
\* hold SCL for ever, so Release gets no fairness
Spec == Init /\ [][Next]_vars /\ WF_vars(Code) /\ WF_vars(Tick)
-----------------------------------------------------------------------------
\* sclhi returns -ETIMEDOUT only when the last look at SCL, taken after
\* jiffies passed start + timeout, still saw the line low; jiffies wrapping
\* between start and the test must not make it give up early, and a slave
\* that lets go of SCL while the thread is preempted between its read and
\* the deadline test must not be reported as a timeout (section 8 of the
\* spec: stretching for no more than timeout ticks succeeds).
TimeoutIsGenuine ==
    pc = "idle" /\ result = ETIMEDOUT => sample = 0 /\ sampleAt > Timeout

\* Every call of sclhi returns, even when the slave never releases SCL.
SclHiReturns == pc # "idle" ~> pc = "idle"

=============================================================================
