SPECIFICATION FairModelSpec
CONSTANTS
    Buffers = {b1, b2}
    MaxChanges = 2
    MaxRefreshes = 3
    MaxAttaches = 2
INVARIANTS
    MarksFollow
PROPERTIES
    CacheMonotone
    CacheConverges
CHECK_DEADLOCK FALSE
