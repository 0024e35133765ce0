---------------------------- MODULE WakeUpLocked ----------------------------
(***************************************************************************)
(* compat_wake_up_locked / compat_wake_up_common of compat-3.4.c, the      *)
(* backport behind wake_up_all_locked (compat-3.4.h), walking a wait queue *)
(* whose waiters use prepare_to_wait / prepare_to_wait_exclusive,         *)
(* autoremove_wake_function and finish_wait.  The caller holds q->lock     *)
(* for the whole walk, so no waiter adds or removes itself meanwhile; a    *)
(* waiter may still be woken by its timeout or a signal while the walk is  *)
(* under way, and its wake function then answers 0.                       *)
(***************************************************************************)
EXTENDS Integers, Sequences, SequencesExt

CONSTANTS
    Tasks,      \* waiting tasks
    Excl,       \* per task: waits with WQ_FLAG_EXCLUSIVE
    Nrs,        \* the nr arguments wakers pass (0: wake all)
    MaxWakes    \* model bound: wake-up calls in a behaviour

VARIABLES
    queue,    \* q->task_list, head first
    tstate,   \* per task: "running" or "sleeping" (TASK_UNINTERRUPTIBLE)
    tpc,      \* per task: "run", or "wait" between prepare_to_wait and finish_wait
    walk,     \* the waker: [on, snap, i, nr0, nr, hits]
    wakes     \* wake-up calls made

vars == <<queue, tstate, tpc, walk, wakes>>

Init ==
    /\ queue = <<>>
    /\ tstate = [t \in Tasks |-> "running"] /\ tpc = [t \in Tasks |-> "run"]
    /\ walk = [on |-> FALSE, snap |-> <<>>, i |-> 1, nr0 |-> 0, nr |-> 0, hits |-> 0]
    /\ wakes = 0

\* prepare_to_wait: under q->lock, a non-exclusive entry at the head,
\* an exclusive one (prepare_to_wait_exclusive) at the tail; then sleep
Prepare(t) ==
    /\ tpc[t] = "run" /\ ~walk.on
    /\ queue' = IF Excl[t] THEN Append(queue, t) ELSE <<t>> \o queue
    /\ tstate' = [tstate EXCEPT ![t] = "sleeping"]
    /\ tpc' = [tpc EXCEPT ![t] = "wait"]
    /\ UNCHANGED <<walk, wakes>>

\* the sleep ends by the timeout or a signal, not by this queue
Timeout(t) ==
    /\ tpc[t] = "wait" /\ tstate[t] = "sleeping"
    /\ tstate' = [tstate EXCEPT ![t] = "running"]
    /\ UNCHANGED <<queue, tpc, walk, wakes>>

\* finish_wait: back to running; if still queued, taken off under q->lock
Finish(t) ==
    /\ tpc[t] = "wait" /\ tstate[t] = "running" /\ ~walk.on
    /\ queue' = SelectSeq(queue, LAMBDA x : x # t)
    /\ tpc' = [tpc EXCEPT ![t] = "run"]
    /\ UNCHANGED <<tstate, walk, wakes>>

\* compat_wake_up_locked(q, mode, nr): compat_wake_up_common(q, mode, nr,
\* 0, NULL), the caller holding q->lock
WakeBegin(nr) ==
    /\ ~walk.on /\ wakes < MaxWakes
    /\ walk' = [on |-> TRUE, snap |-> queue, i |-> 1, nr0 |-> nr, nr |-> nr, hits |-> 0]
    /\ wakes' = wakes + 1
    /\ UNCHANGED <<queue, tstate, tpc>>

\* autoremove_wake_function: try_to_wake_up answers 1 only for a task still
\* sleeping, and then the entry is taken off the list (list_del_init)
Woken(c) == tstate[c] = "sleeping"

\* fault: list_for_each_entry, next read from curr after its list_del_init,
\* which points curr back at itself
NextEntryUnsafe(i, c, unlinked) == IF unlinked THEN i ELSE i + 1

\* list_for_each_entry_safe: next saved before curr->func runs
NextEntry(i, c, unlinked) == i + 1

\* fault: the wake function's answer ignored, every exclusive entry counted
CountsFlagOnly(ok, exclusive) == exclusive

\* curr->func(...) && (flags & WQ_FLAG_EXCLUSIVE)
Counts(ok, exclusive) == ok /\ exclusive

\* fault: the exclusive count checked before it is decremented
StopsAfterPost(n) == n = 0

\* !--nr_exclusive
StopsAfter(n) == n - 1 = 0

\* one pass of the loop: if (curr->func(...) && (flags & WQ_FLAG_EXCLUSIVE)
\* && !--nr_exclusive) break;
WakeStep ==
    /\ walk.on /\ walk.i <= Len(walk.snap)
    /\ LET c    == walk.snap[walk.i]
           ok   == Woken(c)
           excl == Counts(ok, Excl[c])
       IN
       /\ tstate' = IF ok THEN [tstate EXCEPT ![c] = "running"] ELSE tstate
       /\ queue' = IF ok THEN SelectSeq(queue, LAMBDA x : x # c) ELSE queue
       /\ walk' = [walk EXCEPT
                     !.nr = IF excl THEN @ - 1 ELSE @,
                     !.hits = IF ok /\ Excl[c] THEN @ + 1 ELSE @,
                     !.on = ~(excl /\ StopsAfter(walk.nr)),
                     !.i = NextEntry(@, c, ok \/ ~(c \in Range(queue)))]
    /\ UNCHANGED <<tpc, wakes>>

\* the end of the list
WakeEnd ==
    /\ walk.on /\ walk.i > Len(walk.snap)
    /\ walk' = [walk EXCEPT !.on = FALSE]
    /\ UNCHANGED <<queue, tstate, tpc, wakes>>

Next ==
    \/ \E t \in Tasks : Prepare(t) \/ Timeout(t) \/ Finish(t)
    \/ \E nr \in Nrs : WakeBegin(nr)
    \/ WakeStep \/ WakeEnd

\* the waker runs with q->lock held and interrupts off: it keeps stepping
Spec == Init /\ [][Next]_vars /\ WF_vars(WakeStep) /\ WF_vars(WakeEnd)
-----------------------------------------------------------------------------
\* The wake-up count of __wake_up_common: a walk leaves the list early only
\* after waking nr exclusive waiters that were still asleep; with nr = 0
\* (wake_up_all_locked) it never leaves early and wakes every waiter.  A
\* waiter whose timeout already woke it does not use up the count, so a
\* wake-one is not lost on it.  (hits counts the exclusive waiters this
\* walk really woke.)
StopsOnlyAfterNrExclusive ==
    ~walk.on /\ walk.i <= Len(walk.snap) =>
        walk.nr0 > 0 /\ walk.hits = walk.nr0

\* Every walk of the list ends, though wake functions unlink the entry
\* being visited.
WalkEnds == walk.on ~> ~walk.on

=============================================================================
