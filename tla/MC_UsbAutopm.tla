----------------------------- MODULE MC_UsbAutopm ----------------------------
EXTENDS UsbAutopm, TLC

CONSTANTS c1, c2, c3, c4

MCCallers == {c1, c2, c3, c4}
\* two callers are enough for one to lose the other's update
MCTwoCallers == {c1, c2}
\* the callers run the same code; every property counts them, never names one
CallerSymmetry == Permutations(MCCallers)
=============================================================================
