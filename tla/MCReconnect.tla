---------------------------- MODULE MCReconnect -----------------------------
EXTENDS Reconnect, TLC

Symmetry == Permutations(Conns)
=============================================================================
