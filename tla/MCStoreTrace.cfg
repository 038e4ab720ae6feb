SPECIFICATION Spec
CONSTANTS
  None = None
  NoThread = NoThread
  Procs = {p1, p2}
  Inodes = {i1, i2, i3}
  ThreadIds = {t1, t2}
  Groups = {}
  CommentIds = {c1, c2}
  Statuses = {"open", "resolved"}
  Goals = {"fix"}
  MaxNumber = 2
  MaxCommit = 3
  Ops = {"create", "comment", "trace"}
SYMMETRY Symmetry
CONSTRAINT LockIntact
INVARIANTS TypeOK NumberInv
