---------------------------- MODULE MCNodeTraffic ----------------------------
EXTENDS NodeTraffic, FiniteSets, FiniteSetsExt

ASSUME NodesAreFinite == IsFiniteSet(Nodes)

\* The row of a client is the sum of what the merges of its nodes credited:
\* the row survives merges of several nodes in any order.
RowIsSum == hasRow => row = FoldSet(LAMBDA n, total : total + credited[n], 0, Nodes)
=============================================================================
