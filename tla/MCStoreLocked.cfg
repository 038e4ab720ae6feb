SPECIFICATION Spec
CONSTANTS
  None = None
  NoThread = NoThread
  Procs = {p1, p2}
  Inodes = {i1, i2, i3}
  ThreadIds = {t1, t2}
  Groups = {g1}
  CommentIds = {c1, c2, c3}
  Statuses = {"open", "resolved"}
  Goals = {"fix"}
  MaxNumber = 2
  MaxCommit = 1
  Ops = {"create", "spawn", "comment", "status", "goal", "depend", "undepend", "extract"}
SYMMETRY Symmetry
CONSTRAINT LockIntact
INVARIANTS AtomicInv UniqueWhileExclusive
PROPERTY Atomic
