---------------------------- MODULE MCSeccStream ----------------------------
EXTENDS SeccStream, TLC
Symmetry == Permutations(Sids)
=============================================================================
