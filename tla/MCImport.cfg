SPECIFICATION Spec
CONSTANTS
    Groups = {g}
    MaxInputs = 5
    MaxMixed = 4
    MaxExtracting = 5
    MaxTyped = 3
    Nobody = Nobody
    Pullers = {p1, p2}
    ReviewThreads = {"t"}
    Conversation = "conversation"
    PageSize = 1
    Sources = {f1, f2}
    Extractor = Extractor
    NoGroup = NoGroup
INVARIANTS
    NumbersApart
    OneCopy
    PulledAll
    BodiesForward
    NothingLost
    ExtractedOnce
PROPERTIES
    CommentsKept
CONSTRAINT
    Bounded
SYMMETRY Symmetry
CHECK_DEADLOCK FALSE
