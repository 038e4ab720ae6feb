SPECIFICATION Spec
CONSTANTS
  None = None
  NoThread = NoThread
  Procs = {p1, p2}
  Inodes = {i1, i2, i3}
  ThreadIds = {t1, t2, t3}
  Groups = {}
  CommentIds = {c1, c2, c3}
  Statuses = {"open"}
  Goals = {"fix"}
  MaxNumber = 2
  MaxCommit = 1
  Ops = {"create"}
SYMMETRY Symmetry
INVARIANTS UniqueNumbers
