SPECIFICATION Spec
CONSTANTS
  Threads = {t1}
  Anchored = {}
  Workers = {w1, w2}
  Poller = poller
  Channels = {c1, c2}
  Cap = 1
  MaxWrites = 2
  Foreign = {"write", "remove"}
SYMMETRY Symmetry
INVARIANTS TypeOK ChangesAnnounced PausedAlone
CHECK_DEADLOCK FALSE
