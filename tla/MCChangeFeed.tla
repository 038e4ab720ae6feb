---------------------------- MODULE MCChangeFeed ----------------------------
EXTENDS ChangeFeed, TLC

Symmetry == Permutations(Workers) \cup Permutations(Channels)
=============================================================================
