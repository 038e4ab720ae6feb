--------------------------- MODULE MCThreadStore ---------------------------
EXTENDS ThreadStore

Symmetry ==
  Permutations(Procs) \cup Permutations(Inodes) \cup Permutations(ThreadIds)
    \cup Permutations(CommentIds)

(* Nothing is claimed of a directory whose lock has failed. *)
LockIntact == ~overlap
=============================================================================
