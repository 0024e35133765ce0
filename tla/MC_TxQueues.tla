----------------------------- MODULE MC_TxQueues ----------------------------
EXTENDS TxQueues, TLC

CONSTANTS s1, s2

MCSenders == {s1, s2}
Symmetry == Permutations(MCSenders)
=============================================================================
