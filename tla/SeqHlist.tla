------------------------------ MODULE SeqHlist ------------------------------
(***************************************************************************)
(* seq_hlist_start, seq_hlist_start_head and seq_hlist_next of             *)
(* compat-2.6.34.c as the ->start and ->next of a seq_file, read by the   *)
(* kernel's seq_read in chunks: every read(2) calls ->start at the saved  *)
(* position m->index, shows records and calls ->next until the user's     *)
(* buffer is full (the environment's choice) or ->next answers NULL, and  *)
(* saves the position for the next read.  The hlist, of the length the   *)
(* file is opened on, does not change while it is read.                   *)
(***************************************************************************)
EXTENDS Integers, Sequences, SequencesExt

CONSTANTS
    MaxLen,  \* longest hlist
    NULL,
    TOKEN    \* SEQ_START_TOKEN

VARIABLES
    len,       \* entries on the hlist, a node being its index 1..len
    withHead,  \* the file's ->start is seq_hlist_start_head
    index,     \* m->index
    p,         \* the current iterator value
    pos,       \* the position ->start / ->next maintain
    pc,        \* "idle", "show", "eof"
    out        \* the records shown so far, in order

vars == <<len, withHead, index, p, pos, pc, out>>

\* node->next
NextOf(node) == IF node < len THEN node + 1 ELSE NULL

\* head->first
First == IF len = 0 THEN NULL ELSE 1

Init ==
    /\ len \in 0..MaxLen
    /\ withHead \in BOOLEAN
    /\ index = 0 /\ p = NULL /\ pos = 0 /\ pc = "idle" /\ out = <<>>

\* fault: the position tested after it is decremented
AtPosPre(n) == n - 1 = 0

\* if (pos-- == 0)
AtPos(n) == n = 0

\* seq_hlist_start: hlist_for_each(node, head) if (pos-- == 0) return node;
\* return NULL;
RECURSIVE HlistFrom(_, _)
HlistFrom(node, n) ==
    IF node = NULL THEN NULL
    ELSE IF AtPos(n) THEN node
    ELSE HlistFrom(NextOf(node), n - 1)

SeqHlistStart(n) == HlistFrom(First, n)

\* fault: the header's position not taken off
StartHeadUnshifted(n) == IF n = 0 THEN TOKEN ELSE SeqHlistStart(n)

\* seq_hlist_start_head: position 0 is SEQ_START_TOKEN, the list after it
SeqHlistStartHead(n) == IF n = 0 THEN TOKEN ELSE SeqHlistStart(n - 1)

\* seq_hlist_next: ++*ppos; the token's successor is head->first
SeqHlistNext(v) == IF v = TOKEN THEN First ELSE NextOf(v)

\* seq_read: a read(2) calls ->start(m, &m->index); NULL is end of file
Start ==
    /\ pc = "idle"
    /\ LET v == IF withHead THEN SeqHlistStartHead(index) ELSE SeqHlistStart(index)
       IN /\ p' = v /\ pos' = index
          /\ pc' = IF v = NULL THEN "eof" ELSE "show"
    /\ UNCHANGED <<len, withHead, index, out>>

\* ->show(m, p), then ->next(m, p, &pos); the read ends when ->next says
\* NULL or, by the environment's choice, when the buffer is full; then
\* ->stop and m->index = pos
Show ==
    /\ pc = "show"
    /\ out' = Append(out, p)
    /\ p' = SeqHlistNext(p) /\ pos' = pos + 1
    /\ \/ p' # NULL /\ UNCHANGED <<pc, index>>
       \/ pc' = "idle" /\ index' = pos'
    /\ UNCHANGED <<len, withHead>>

\* the file is closed and opened again
Reopen ==
    /\ pc = "eof"
    /\ len' \in 0..MaxLen /\ withHead' \in BOOLEAN
    /\ index' = 0 /\ p' = NULL /\ pos' = 0 /\ pc' = "idle" /\ out' = <<>>

Next == Start \/ Show \/ Reopen

Spec == Init /\ [][Next]_vars
-----------------------------------------------------------------------------
\* what the whole file should read: the header record, then every entry
Expected == (IF withHead THEN <<TOKEN>> ELSE <<>>) \o [j \in 1..len |-> j]

\* However read(2) splits the file, the records shown are the header (for
\* seq_hlist_start_head) and each entry of the hlist, once and in order, with
\* none skipped at a chunk boundary: the positions seq_hlist_next counts and
\* the ones seq_hlist_start / _head resume from agree.
ReadsEveryEntryOnce ==
    /\ IsPrefix(out, Expected)
    /\ pc = "eof" => out = Expected

=============================================================================
