----------------------------- MODULE MCPortStats -----------------------------
EXTENDS PortStats, TLC

\* The two connections are alike.
Symmetry == Permutations(Connections)
=============================================================================
