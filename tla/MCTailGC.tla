------------------------------ MODULE MCTailGC -----------------------------
EXTENDS TailGC, TLC

Symmetry == Permutations(Gateways)
=============================================================================
