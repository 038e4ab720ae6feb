----------------------------- MODULE MCDirLock -----------------------------
EXTENDS DirLock, TLC

Symmetry == Permutations(Procs) \cup Permutations(Inodes)
=============================================================================
