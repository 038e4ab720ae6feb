SPECIFICATION FairLockSpec
CONSTANTS
  None = None
  Procs = {p1, p2, p3}
  Inodes = {i1, i2, i3, i4}
INVARIANTS LockInv ExclusiveWhileLinked
PROPERTIES WaiterServed
