--------------------------- MODULE MC_WakeUpLocked ---------------------------
(* Two exclusive waiters and one non-exclusive waiter on one queue. *)
EXTENDS WakeUpLocked

CONSTANTS x1, x2, n1

MCTasks == {x1, x2, n1}
MCExcl == [t \in MCTasks |-> t # n1]
=============================================================================
