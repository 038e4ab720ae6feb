SPECIFICATION FairSpec
CONSTANTS
  Threads = {t1, t2}
  Anchored = {t2}
  Workers = {w1}
  Poller = poller
  Channels = {c1}
  Cap = 1
  MaxWrites = 2
  Foreign = {"write", "remove"}
INVARIANTS ChangesAnnounced
PROPERTIES ClientsConverge
CHECK_DEADLOCK FALSE
