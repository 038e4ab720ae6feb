SPECIFICATION FairSessionSpec
CONSTANTS
    MaxDaemons = 2
    MaxNotes = 1
    Calls = {a, b}
    MaxTroubles = 1
INVARIANTS
    AnswersMatch
    OneServed
    WholeLines
    Drained
PROPERTIES
    CallsEnd
    Reconnects
CHECK_DEADLOCK FALSE
